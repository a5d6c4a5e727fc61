# A verification of gfep in TLA+

gfep is a front end for electricity metering: one TCP port, to which terminals
and master stations both connect. It cuts the byte stream into frames of three
protocols (DL/T 698.45, Q/GDW 1376.1, NW), keeps a registry of who is logged in
under which address, forwards frames between the two sides, and can hold one
698 *bridge* per terminal, a client connection to a further master. A web
console shows and steers all of it.

This directory holds TLA+ models of the code, TLC runs that check them on small
instances, and theorems that TLAPS proves for every instance. Paths below are
relative to the repository root; `fep/registry.go:118` is a file and a line.

Contents: 1 the system, 2 the modules, 3 the runs, 4 fairness, 5 the proofs,
6 abstractions, 7 what the models found, 8 what is left and the plan.

## 1. The system

| Component | Where | State | Operations |
|---|---|---|---|
| Connection lifecycle | `znet/` | socket, `isStopped`, `needStop`, `msgChan`, `msgBuffChan`, `ExitBuffChan`, `ConnManager.connections`, worker queues | accept, `Start`, reader loop, writer loop, `Stop`, `SendMsg`, `SendBuffMsg`, worker, idle sweep |
| Connection registries | `fep/registry.go` | `byConn` and `byAddr` / `byMsa` under one mutex each | `Login`, `registerOrUpdate`, `removeConn`, `forwardTargets` |
| Sessions | `fep/gfep_ptl.go`, `app.go`, `connutil.go` | connection properties `status`, `addr`, `bridge`, `ltime` | handlers of login, heartbeat, logout, data and of a master's request; `DoConnectionBegin`, `DoConnectionLost` |
| 698 bridge | `bridge/bridge.go` | `conn`, `connStatus`, `isExit`, `stopped`, `loginWaitCh`, `heartUnAck` | `serve` (dial, login, heartbeat), `recv`, `Send`, `Stop` |
| Forward pool | `fep/forward.go` | bounded channel, workers, drop counter | `submitForward`, `forwardWorker`; the ids of connections, `allocConnID` |
| Frame check | `zptl/ptlchk.go` | collected bytes, time of the first | `Chkfrm`, the protocols' validity checks |
| Protocol codecs | `zptl/ptl698_45.go`, `ptl1376_1.go`, `ptl_nw.go` | none | where direction, addresses and kind of frame stand; the answers and a bridge's own frames |
| Terminal blacklist | `web/blacklist.go` | the list in memory, its file, a temporary file | lazy load, reload, save |
| Web users and sessions | `web/auth.go`, `users_admin.go` | users file, session map | login, logout, create, change, delete |
| Live events | `web/live.go`, `fep/live_publish.go` | subscribers and their channels | subscribe, publish, unsubscribe |
| Configuration | `utils/globalobj.go`, `web/http.go` | `GlobalObject`, `gfep.json` | load, reload, read-modify-write |
| Traffic history, snapshots | `fep/traffic_history.go`, `snapshot_web.go` | ring of samples | sample, rows for the console, pages, kick |
| Log writer | `timewriter/`, `zlog/` | current file, its date, the mill's signal | write, rotate, compress, remove |

**How they interact.** The accept loop (`znet/server.go:98`) makes a
`Connection` and starts a reader and a writer goroutine for it. The reader
hands every frame to one worker's queue, chosen by the connection id modulo the
pool size, so the frames of one connection are handled one after another, and
a worker that waits delays all the connections it serves. The handler
(`fep/gfep_ptl.go`) reads and writes the connection's properties, calls the
registries, starts and stops bridges, queues a reply to its own connection and
hands frames for others to the forward pool, whose workers look the target up
in the manager by its id and queue the frame in its send buffer. `Stop` may be called by
the reader, the sweep or the console; the first caller runs the hook
`DoConnectionLost`, which stops the bridge and leaves the registries, then
closes the socket and leaves the manager. A bridge's `recv` queues what the
master sends in the terminal's send buffer. The console's handlers run in
goroutines of their own; they read the registries one after another for their
lists, kick connections, and change the accounts, the blacklist and the settings,
each in a file. Whoever logs a packet publishes it to the browsers that watch and
writes it to a file per day.

**What makes it hard.** Nothing is locked across two of these accesses. A
handler works on while its connection is stopped, and the eviction of one
connection edits the properties of another. `NeedStop` is a flag that a blocked
reader does not see. Four goroutines may drop a bridge's connection while
`serve` dials the next. Send buffers and queues are bounded: some drop, some
wait. A frame in the forward queue remembers its target by an id that may be
given out again. The console changes the blacklist and the settings without a
lock on their files, and the process may die between any two steps of a change.

**What makes each part correct.** Registries: the two maps agree after every call, an exclusive
address has one holder, a lookup returns exactly the holders. Connections: the hook runs once,
nothing leaks, beside the socket in the accept loop's hand there are at most `MaxConn`, a full
buffer is an error and not a wait. Sessions: a connection is registered on the side its status names
and nowhere once it has ended; a registered terminal has exactly one bridge. Bridge: one connection
to the master at a time, `Stop` ends everything, lost connections and unanswered heartbeats are
noticed. Forward pool: a frame is delivered once at most, or counted as dropped, and goes to the
connection it was meant for unless the ids have gone round since that one came. Frame check: no
complete frame is lost, whatever the segmentation. Codecs: what decides the kind of a frame is
inside it, an answer is a valid frame to whoever asked, for every size of address. Console: the last
administrator stays, an active session is served while its cookie lives, what is in force is what is
saved, a bad file leaves the old state, a list shows everyone who stayed. Live events: each browser
sees a publisher's events in order. Logs: no line that was written is lost by rotation or
compression while its day is kept. Where the code falls short of one of these, section 7 says so.

## 2. The modules

| Module | Models | Notes |
|---|---|---|
| `ConnIndex` | the two maps and every edit the methods of `fep/registry.go` make | pure operators: index before the call to index after it |
| `ConnDirectory` | what a registry promises, without an index | the abstract specification |
| `TmnRegistry`, `AppRegistry` | the two registries: one action per method, because each holds its mutex from first to last line | both implement `ConnDirectory`, with `owner <- tmn.byConn` (`app.byConn`) |
| `Connection`, `MCConnection` | socket, reader, writer, `Stop`, manager, worker queue, sweep and kick | one action per step between two accesses to shared state |
| `Session` | handlers and stop hook over both registries (it EXTENDS `ConnIndex`), properties, manager and bridges | composes the registries with the connection's life as the handlers see it |
| `MCSession` | `Session` in its two settings, shared and exclusive addresses | the second is an INSTANCE over the same variables |
| `Bridge` | one bridge: `serve`, `recv`, `Send`, `Stop`, master | |
| `ForwardPool` | queue, workers, look-up by id, `allocConnID`, connections that come and go | implements `LossyDelivery` |
| `LossyDelivery` | a frame is taken or dropped at once, and settled once | the abstract specification of the pool |
| `FrameCheck` | `Chkfrm` and the validators that connections use, over any segmentation | scaled-down frames, section 6 |
| `FrameLayout` | parsing and building of frames at the level of byte positions | pure operators; one action per use of them |
| `LiveEvents` | subscribe, publish, unsubscribe, browsers | |
| `WebUsers` | accounts: bootstrap, add, update, delete, under `usersMu` and through a temporary file | implements `UserDirectory` |
| `UserDirectory` | accounts change one at a time and the last administrator stays | the abstract specification of `WebUsers` |
| `WebSessions` | login, touch, logout, pruning, a changing idle time | |
| `Blacklist` | save, lazy load and reload over one temporary file; files are inodes with names | |
| `ConfigFile` | `handleConfigPut`, `handleLogLevel`, `Reload` over `gfep.json` | |
| `ConsoleTables` | lists, collapsing, pages, kick, bars of traffic | |
| `LogRotation` | `Write`, `rotate`, the mill's removal and compression | |
| `MCDataPath`, `MCConsole` | compositions for model checking of modules that share no state | each behaviour runs one module (`focus`), the others keep their initial state |
| `ConnIndexProofs`, `RegistryProofs`, `ConnectionProofs`, `SessionProofs`, `BridgeProofs`, `ForwardPoolProofs`, `DataPathProofs`, `ConsoleProofs` | theorems about the modules they extend; `DataPathProofs` those of `FrameCheck`, `LiveEvents` and `FrameLayout`, `ConsoleProofs` those of `WebUsers`, `WebSessions`, `Blacklist`, `ConfigFile`, `LogRotation` and `ConsoleTables` | section 5 |

**Correspondence.** In `ConnIndex`, `byConn[c] = NoKey` is a missing entry (Go's
`""`), and `byKey[k] = Absent` a missing inner map: an inner map that stays
behind empty is told apart from one that is deleted, since the code deletes it
on purpose. `LoginResult` follows `Login` from the eviction to the three
results; the order of eviction and the test for an unchanged address matters.

In `Connection` the position of each goroutine is a variable: `reader`,
`writer`, `stopper` (the winner of the compare-and-swap in `Stop`), `kick` (a
sweep or console request that is about to call `Stop`) and `job` (the worker).
`sock = "hungup"` is a peer that has gone while our side does not know. `accepted` is the
socket the accept loop has got from `AcceptTCP` and not yet compared with `MaxConn`
(`Refuse`, `Admit`): it is open and in no manager.
`buffered` counts the payloads in `msgBuffChan`; it is closed by `closeMsgBuffChan`
(`bufOpen`). A handler is reduced to what it does to its connection: `login`
queues a reply and marks the session, `reject` sets `NeedStop`, `exit` sets it too and before that,
if an earlier frame was let through (`known`, the test in `fep/gfep_ptl.go:260`), answers
with the unbuffered `SendMsg`; `data` is any other frame that is let through.

In `Session` a handler's position is `at[c]` and the stop hook's is `stopAt[c]`;
each action runs from one shared access to the next. `running` is the set of
bridges that have a live `serve`; `bridge[c]` is the property that names one of
them. `overlapped[c]` is a history variable: `c` was stopped while one of its
frames was being handled. Properties that only promise something about a stop
between two frames say so with it. `refused[c]` is another: the reply to the latest login of `c` was
refused, because its buffer was full or the connection stopped.

In `ConnDirectory` the result of a lookup names the call and the key that was asked for, so that
an implementation must answer for that key, and for the broadcast with every connection that has one.

In `Bridge` the position of `serve` is one variable; every dial starts a
`recv[l]`, which may outlive its link and then reads from the next one, as in
the code, where `recv` reads the field `c.conn` again in every turn. A link's
identity is used again when nobody refers to it any more.

In `ForwardPool` the k-th accepted connection is `k`, which the program does not
know, and `name[k]` is its id, which it does. A worker's position follows from
`job[w]` and `dest[w]`: nothing in hand, a job whose target is to be looked up, a
target found. `fate[n]` is the history of frame `n`: whom it was meant for and who
got it.

In `FrameCheck` `Receive` is the begin of a call of `Chkfrm` with the bytes of one `Read`, and each
turn of its loop is a step (`Scan`, `Garbage`). `got` remembers all bytes, so that `FramesKept` can say
of the whole stream which frames stand in it. `slips` are the bytes a timeout
removed. In `FrameLayout` `B(f, i)` is `buf[i]`, and `reads` collects the positions
that a parser or the building of an answer touches, so that `ReadsInside` can compare them with the
length. Frames may be cut off anywhere (`Stub`); where an answer would copy a byte that is not there the
index panics, and there is no answer.

In `WebUsers`, `Blacklist` and `ConfigFile` a request's position is `step`, `now` and
`put[p].at`; each step is one system call or one access to shared memory. A file
that is being written is `Torn` (`Empty`, `Broken`, `BadConf`) until the last byte
is in. `Kill`, `Restart` and `Down` may come between any two steps: files stay,
memory and goroutines go. `WebUsers` reads the file anew under the lock for every
change, `Blacklist` keeps a copy, `ConfigFile` has no lock at all; there `Reload` returns
silently if it cannot read the file (`ReloadReadFails`, noted in `skipped`), and a start
may meet the same. `WebSessions` has the browser's cookie beside the server's session: `Sends(k)`
holds until the lifetime that the login gave it is over.

In `ConsoleTables` the reader `rd` copies one registry per step and then looks up
one connection per step, while connections register, carry frames and go; `stayed`
are those that were there all the time; for the minute's bar it adds the bytes of
each to `rd.sum`, a word that wraps. In `LogRotation` each day has a plain and a
compressed file, `zipping` is the day the mill compresses, and the writer keeps the
file it has open even if its name is removed (`linked`). `cut` are the lines that `OpenTruncates` took away.

## 3. The runs

Run one with `tlc -workers 2 -config <run>.cfg <module>.tla`.

| Run | Asks | Instance |
|---|---|---|
| `DataPath` | registries: do the two maps agree, has an address one holder, do they implement the directory? Pool: is a frame settled once, overtaken only while a worker holds it, given to another connection only if the ids went round since the wanted one came, and always settled? Frame check: does every frame come out? Codecs: reads inside up to what an answer copies, answers valid. Live events in order? | 3 connections, 3 keys; ids modulo 4, 2 workers, queue of 2, 3 frames; streams of three pieces; every first byte of a 698 address, whole frames and cut ones; 2 browsers, 2 publishers |
| `ConnectionSafety` | two connections, one place: hook at most once, nobody forgotten, `MaxConn`, buffer bound | 2 connections, 1 place, 1 worker, queue and buffer of 1, logouts only, symmetry |
| `ConnectionLive` | do goroutines, socket and place get released? | 1 connection; all four kinds of frames |
| `Sessions` | shared addresses: one bridge per registered terminal, `addr` is what is registered, no bridge survives its connection; both settings: registered only as what the status says, and not at all after the end | 2 connections, 2 addresses (exclusive: 1, with evictions), 1 MSA; replies may be refused; symmetry |
| `BridgeSafety` | one socket at most, none after `serve` | 2 links, `MaxUnAck` 1, with `Send` |
| `BridgeLive` | does `Stop` end everything, is a lost master noticed, do unanswered heartbeats end the connection? | 2 links, `MaxUnAck` 1 |
| `Console` | accounts keep an administrator and implement the abstract directory; active sessions are served; blacklist and settings in force are those saved; lists complete, pages exact, bars right; log lines kept | 2 users, 2 requests, 1 kill; 2 tokens, clock to 4; 2 savers, 1 restart; 2 puts, 1 death; 2 connections, 2 protocols; 3 days, 2 lines, 1 crash; symmetry in the requests that change settings |
| `ConnectionLogout`, `SessionEvicted`, `SessionOverlap`, `BridgeLostLogin`, `LivePanic` | statements of the documentation that the code does not keep | section 7 |

**Why the bounds are enough.** Two connections are what every race here needs:
the one that evicts, or takes the place, and the other; a third in the registries
makes an inner map shrink without vanishing. Two addresses allow a move and a
return. A queue and a buffer of one entry are empty or full at once, and the
code makes no other distinction (the lengths are 1024 and 8). Two links are
a stale one, held by an old `recv`, `Send` or heartbeat, and the current one; when
both are held `Dial` waits, which the model allows because every holder of a link that is
not open must let go of it. `MaxUnAck` 1 instead of 3 still has a heartbeat that
is let pass and one too many. `MaxAcks` 1 bounds the acknowledges in one read:
further ones in the same read are handled like those of the next. `MaxBridge` 2
lets a bridge be replaced once; a third login that would start one waits, so
each property is checked on behaviours with up to two bridges per connection.

*Connections.* The reader, the writer and `Stop` of two connections meet in the manager, in the
accept loop and in the one worker's queue. A logout alone does what the safety properties depend on:
the first one only sets `NeedStop`, and a later one waits in `SendMsg`; the other kinds are in
`ConnectionLive`, and `ForwardTo` fills the buffers in both. One connection is enough for what gets
released: the worker that a reader waits for is its own.

*Pool.* Ids are counted modulo 4, so that with 2 places in the manager the counter wraps and has to
skip, and the 4th connection gets the 1st one's id: the one case in which a waiting frame can go
astray (`MaxConn + 1 < IdSpace`, as with 2^32 ids). 2 workers overtake each other, a queue of 2 is
full while both are busy, and 3 frames make one that waits behind two. *Frame check.* Three pieces
are a frame between any two neighbours: a valid frame of each protocol, a frame inside another one's
data, a wrong sum, a length beyond the limit, noise. They come in any segmentation, with one late
read. *Codecs.* All 16 address sizes and all 16 flags are there, 0x20 (an extended logical address
and nothing else) among them, so the run is complete in the first byte of an address. Of the bytes
that follow there are two choices, one whose bytes can be told apart and one that looks like the
head of a frame, and two addresses of a master (the theorems are about all of them); cut frames of
19 to 28 bytes, in both directions and of each kind that is answered, lie around the minimum the
parser asks for and below what an answer copies. *Live events.* One subscriber place and a buffer of
one are full at once (64 and 64 in the code), with a second browser that waits or is refused.

*Console.* Two requests are what a lost update needs, one kill between any two
steps what a crash can do, and two accounts make an administrator the last one. A reserve of
2 days and 3 dates have a day that expires, one that is compressed and one that is
written. With 2 minutes and one bar shown, one is pushed out. Two connections in
two registries can move between the copies of a list, which is how one could be
missed or shown twice; they are shown on pages of one row, where a row can fall
between two pages, and of two, where they fit on one. `SomePatches` has a writable setting, one that is not
writable, two at once, and a value of the wrong type.

*Symmetry.* In `ConnectionSafety` and `Sessions` permutations of the connections, in `Console` of
the two requests that change settings. These runs check invariants, and in `Console` a property
about `WebUsers` in which those requests do not occur. Nothing there is chosen from these sets by
`CHOOSE` or compared but for equality.

Modules in one composition share no variable, so checking one of them at a time loses
no interleaving; it only spares the product of their states.

`CHECK_DEADLOCK FALSE` stands in all runs: a connection
id, a bridge, a token, a date or a request is used once in the bounded instances, and a
behaviour that has used them up ends for good.

## 4. Fairness

*Connection.* A goroutine that can run does: weak fairness of each step of the
reader, of `Stop`, of the worker and of its handlers. Strong fairness where a
`select` or a contended channel is involved (`Deliver` into the worker's queue,
the branches of the writer's `select`, the hand-over in `SendMsg`): Go picks a
ready branch at random and serves blocked channel senders in order, so none is
passed over for ever. Nothing is assumed of the peer: it may stay silent, and a
`Write` on an open connection may never return. The sweep is fair only towards
connections with `NeedStop`, since all others may keep refreshing their receive
time; `Handle` returns before it touches that time once `NeedStop` is set.

*Bridge.* Timers expire, the dial has a timeout, and the first write of a fresh
connection finds an empty buffer, so `serve` as a whole is weakly fair. Any
other write may block while the connection is open and returns when it is
not. Acknowledges need not come, the terminal need not send, `Stop` need not be
called. `HeartbeatAnswered` states its further assumption itself: if heartbeat
writes return (the master reads), then a heartbeat is answered or its
connection is given up.

*Forward pool.* Weak fairness of each worker (`WorkerFairness`): a goroutine that
can run does, looking up an id takes a lock for a moment, and `SendBuffMsg` never waits. With
several workers on one channel weak fairness of each is enough, because a worker
whose turn is disabled has lost the job to another one. Handlers and connections need
do nothing. `AllSettle` follows: no frame stays in the queue.

Fairness is never conjoined for the master, for terminals, or for failures.

## 5. The proofs

`tlapm <Module>Proofs.tla` checks them all. The only assumptions are the named
`ASSUME`s of the modules (types of constants, `NoKey` not a key, `Absent` not a
set of connections, and so on); TLC evaluates them in the runs.

* **Registries** (`ConnIndexProofs`, `RegistryProofs`).
  Lemmas say what each operator does to *who owns what*: `LoginMeaning` for all
  modes of `Login`. `Agree` is inductive together with the type, because each
  edit of one map is matched in the other; `TmnIndexAgrees`, `TmnOneConnPerAddr`,
  `AppMapsAgree` follow, and with `Agree` a lookup in `byAddr` is a lookup of
  owners, so each call is a step of `ConnDirectory`: `TmnImplementsDirectory`,
  `AppImplementsDirectory`. The proof covers all settings of the two
  configuration switches, the TLC run exclusive addresses.
* **Connection** (`ConnectionProofs`). `HookRunsOnce` needs more than itself: `hooks[c]` is 0 until
  the winner of the compare-and-swap is past the hook, and `stopper` is not `none` once `stopped` is
  set. `NoneForgotten` needs that a reader which has left has called `Stop`, and that a connection
  whose `Stop` is under way is still in the manager until the removal. `SocketsWithinMaxConn`
  combines the test of the manager's size, which `Refuse` and `Admit` make after the socket is
  there, with the fact that every open socket but the one in the accept loop's hand belongs to a
  connection in the manager, because `Stop` closes before it removes; a lemma on cardinalities
  carries it over. `CloseWindsDown` is the safety half of `StopReleasesAll` for the goroutines of
  the connection itself: a socket that is closed stays closed, and `ReaderLeft` and `WriterLeft`
  bound the steps that are left, since `TakeBuf` and `TakeMsg` only take what the next `Write`
  cannot get rid of. What is left to fairness is that these steps are taken.
* **Session** (`SessionProofs`). `OnlyAsRole`: `status` never changes from `tmn` to
  `app` or back, since `Route` rejects the frame, so a handler past that
  test has the role its registration needs. `StopLeavesNothing`: a connection that was not
  in a handler when its stop began is in none afterwards (`Handle` tests `IsStop` first), so its status is
  stable under the hook and the hook clears the registry it is in; what other
  connections' handlers do to it can only take a registration away.
  `OneBridge`, `AddrRegistered` and `StopLeavesNoBridge` are about addresses that
  may be shared (`SupportComm = TRUE`); with exclusive ones the code breaks them (section
  7). Then a login touches its own connection only (`OwnWork`), so what another
  connection's handler or stop does changes nothing here. `BridgeNow` follows the
  bridge by the place of the handler: none between the stop of the old one and the start of the new,
  one wherever the connection is registered and none is due. `StopNow` is the same
  for a stop that met no handler, and `RunningRole` says why it may skip the bridge of
  a connection that is no terminal's. None of them assumes that a reply to a login is queued:
  `AddrNow` says of a connection whose last one was refused (`refused`) nothing, of all others that
  `addr` is what is registered; the two about bridges need no such exception.
* **Bridge** (`BridgeProofs`). `OneConnection` is inductive with `ServeFree`: in `dial`, `backoff`,
  `retryWait`, `gaveUp` and `exit` there is no connection; only `Dial` makes one, so it never
  overwrites an open one, and `ServeReleases` is the case `exit`. `StopWindsDown` ranks the places
  of `serve` and of `recv`. After `Stop` `serve` may still be about to dial and log in, but each
  step leads down, because every loop passes the test of `isExit`. A `recv` is bounded only once
  `serve` has returned: there is no connection then (`ServeFree`), so a read can only fail
  (`ReadsLink`), and what is left are the acknowledges in hand. `BridgeTypes` needs `HeartRoom`,
  that a heartbeat is counted only below the limit, and that each acknowledge handled was one read.
* **Forward pool** (`ForwardPoolProofs`). The invariant follows a frame through
  the pool: the frame of every job that is queued or in hand waits for a connection
  that carries the id the job remembers (`JobsWait`); no two jobs have the same frame,
  and those in hand are older than those queued (`JobsApart`); frames are sent in order,
  what is settled is older than what is queued, and what waits has a job
  (`SentInOrder`, `SettledFirst`, `HasJob`). `QueueKeepsOrder` is then immediate, and each
  step is one of `LossyDelivery` or none: `PoolDelivers`. Both hold for any number of ids,
  workers and frames. `FreshIds` rests on `AllocFinds`: of `IdSpace` successive
  values of the counter no two are equal (`CounterWraps`), so if each were 0 or taken there would be an
  injection into a smaller set; the least one that is free is what `allocConnID` returns.
  `NoReuseEarly` is about how far the counter goes
  after the wanted connection was accepted; how long the frame waits does not matter. For a connection `k` that is not
  `Old`, `Young(k)` has the distance `t` from its id to the counter, and says why each of the `t`
  ids on the way was passed over: it is 0, one of fewer than `MaxConn` connections that
  were there when `k` came had it, or a later one got it. `OnceAround` counts: a counter that
  comes back to the id has passed `IdSpace - 1` others, so that at least
  `IdSpace - MaxConn - 1` went to later connections. `LiveLatest` and `GivenLater` carry
  this over to the connection that a worker finds by the id.
* **Frame check** (`DataPathProofs`). `CheckInv`: the buffer is the end of what was
  received (`InBuf`); what was handed over are frames that stand in the stream and do
  not overlap (`Framed`); and every byte that has left the buffer cannot begin a frame of any protocol,
  or was taken by a timeout, or is within a frame that was handed over (`Accounted`). That needs
  what the validators do with *parts* of a frame: `Verdict` on a longer piece agrees with a
  verdict already given (`FromMore`, `VerdictFacts`), or a frame that came in two reads could be judged
  twice. `FramesAreKept` follows, because a frame that no other candidate touches and no timeout has hit
  can only have left the buffer as itself. `BacklogIsBounded` reads off `Waits` what each
  validator still waits for. `ScanEnds`: a turn after which the loop goes on leaves fewer bytes, so
  no bytes make `Chkfrm` spin; it needs that a frame is not longer than what was judged.
* **Live events** (`DataPathProofs`). `GotInOrder` with `GotBefore`: no number that
  a browser has is above its publisher's count, nor equal to it while the publisher
  has still to send there. That is why a publisher that is slow with one event cannot deliver it after the
  next, although it sends outside the lock.
* **Layout** (`DataPathProofs`). `ReadsAreInside`: frames are sequences of integers
  (`UplinksAreBytes`, `ShortsAreBytes`), so the size in a byte is at most 15, and the length check
  leaves room for it (`LongEnough`). What a 698 answer copies from behind the first bytes of the
  content is excepted (section 7). `AnswersReturn` is about every address, of every size, and every
  master; `BridgedAddress` about those that leave a byte beside the extended logical address
  (`HasAddr`), which is all but the first byte 0x20. A frame that is built is a concatenation of
  parts, and what a parser or a receiver takes from it is a cut: `CutIs` and `HoldsIn` say which
  part stands where (`ReplyParts`, `AckParts`, `PacketParts`). `WholeIf` reduces a good 698 frame to
  its length fields, its two check sums and its ends; `SameAddress` says that bytes which carry the
  same size and the same address name the same terminal. The answer then has the address of the
  frame that it answers, since the code cuts it from there.
* **Accounts** (`ConsoleProofs`). A process in the middle of a change has the lock
  (`LockHeld`), so what it has read is still in the file (`ReadStays`), what it is about to
  write is a permitted change of what is there (`WriteGood`), and the temporary
  file it renames is its own (`TmpOwn`). `ChangeLeavesAdmin` is the one lemma about
  `Allowed`. `AdminStays` and `FileIsDirectory` follow for any number of accounts,
  requests and kills.
* **Sessions of the console** (`ConsoleProofs`). `SessionDue`: a session that is there ends exactly
  when it is due, one that is gone was logged out or its time is up. Both halves are needed, as
  pruning decides by the former and the property speaks of the latter. The cookie of a session that
  is neither lost nor logged out lives to the time noted at the login (`until`).
* **Blacklist** (`ConsoleProofs`). Unless two saves have overlapped, whoever saves is
  alone (`SaverAlone`) and `FileFollows`: the file is whole; the temporary file is
  the saver's, empty, then the list it has; what a reader is about to swap in is what is on
  disk; and what is in force is on disk unless a saver has still to load it.
  Files are inodes, so a crash in the middle of a write can leave a torn one only under the
  temporary name.
* **Settings** (`ConsoleProofs`). `PutProgress` follows the one request that is served through its
  steps: what the file holds at each of them, and what memory holds before the level is set. Where
  `Reload` cannot read the file, `skipped` is set and nothing is claimed until one can. `LevelPatch`
  says why a change of the level may set it without a look at the file: its patch names nothing else
  and has the right type.
* **Packet logs** (`ConsoleProofs`). `KeptOf(d)`: while there is a plain file for the day it has all
  its lines but those the code has emptied away (`cut`), and once there is none the compressed one
  has them. It is inductive only with the order of the two goroutines: the writer's file is that of
  the noted day but while it is changed (`WriterInOrder`), the mill works only after that and on
  earlier days (`MillInOrder`), and it unlinks only what the compressed file equals
  (`FilesInOrder`).
* **Tables** (`ConsoleProofs`). `StaysAwaited`: of what stays, the registry has still to be copied,
  or the connection still to be looked up, or it has a row. `Managed`, that only connections of the
  manager are registered, makes the look-up find it. `LatestRow` picks, among finitely bounded login
  times (`RowsBounded`), the row that is shown for a terminal. `StayersAreShown` is what
  `ListComplete` says of the rows. `ListsAreComplete` adds the pages: the rows are finite (an
  injection into the connections and the login times), so an order of them exists (`SomeOrder`, by
  the least number of rows that would have none) and has each of them once (`OrderHasAll`); of the
  pages of an order each row is on exactly one (`PagesAreWhole`), which is division with remainder,
  and `maxPage` counts the last one also if it is not full. `RingIsLast` relates the ring to the
  history of all bars, and `BarsAreRight` is what `pad15Ring` makes of it.

**Only model-checked.** Liveness: the prover has no ENABLED, so what needs fairness is out
of its reach. `AllSettle`, `StopReleasesAll`, `WriteErrorEnds`, `NeedStopEndsSession`, `StopEndsBridge`,
`HungupClosed` and `HeartbeatAnswered` are checked by TLC on the instances of section 3 only. Every
safety property and every refinement of a passing run is stated by a theorem. What fails in the exclusive
setting of `Session` is in section 7. No module has RECURSIVE operators, and induction over data is avoided:
where a fact has to hold for all sizes, a least counterexample or an injection does its work.

## 6. Abstractions

* Addresses, MSAs, frames and payloads are model values; `Session` follows one
  protocol profile, since the three differ in which fields they read, not in what they do to
  state. `SupportReplyHeart` is on (the front end answers heartbeats itself).
* Each connection has one worker (`WorkerOf`): the pool is never empty
  (`znet/msghandler.go:19-22`), and the id decides which worker.
* In `Session` any login may be rejected, which stands for the blacklist's content;
  how the list gets into memory is `Blacklist`. In `Connection` and `Session` an id is
  used once; ids that are given out again are in `ForwardPool`.
* The handler's frames that only forward (data) end after the role test: the
  forward pool is a module of its own. `ForwardTo` in `Connection` is what
  reaches the target.
* `FrameCheck` has frames scaled down with their fields in order: one byte of length or sum
  stands for two (and a sum for a CRC), sums are modulo `Base`, fixed fields between
  them are left out. The order of the validators, their limits and the byte that is skipped are the
  code's. A timeout may come at any read, `MaxLate` times.
* In `FrameLayout` a check sum over `buf[i:j]` is the term `Cs(i, j)`: it is right only
  where it covers what the receiver checks. Link requests carry their date and
  time; payloads are zeros.
* `WebSessions` leaves out roles: a session keeps the one it was made with.
* In `Blacklist` the two loads that `StartConsole` makes one after the other are one. Its properties about
  what is saved, and those of `ConfigFile`, are about requests that do not overlap;
  section 7 says what happens when they do.
* `WebSessions` follows one browser per token, which forgets a cookie when its lifetime is over or it is told to.
* `ConfigFile` has a file that parses or one that does not; a file whose content is the JSON `null`, which parses
and changes nothing, is not told apart.
* `FrameCheck` leaves out the unit flag of a 698 length (bit 14: kilobytes, so that the value counts
  1024 times); with it the limit on the length is reached by smaller values, not passed.
* `Bridge` leaves out that `recv` recovers from a panic in what it calls.
* A frame that a master sends is handled in `Connection` like one of a terminal that only has its
  reply queued or nothing: what matters there is whether the handler waits, and only a terminal's
  logout does.
* `EntriesKept` of `LogRotation` assumes what `smooth` records: the clock is not set back over midnight,
  and a change of file is done, with its mill, before the next midnight.
* Sorting in `ConsoleTables` gives the set of orders in which no row stands before one that should
  precede it: the rows come in any order, so a stable sort may leave equal ones in any.
* `ConsoleTables` bounds the lists at one row per connection, counts the bytes of a connection in
  one number where the code has one for each direction, and counts masters' traffic as it does
  terminals'. The run has a ring of one bar. `Kick` is the look-up and the `Stop` it leads to in one
  step, so that two kicks, or a kick and the connection's own end, do not race there (`Connection`
  has that race); and only a connection of the manager registers, so that the entries a login leaves
  behind after its connection was stopped (section 7, `SessionOverlap`) do not show up in lists.
* `TakeBuf` may take from a channel that was closed and set to nil: the writer
  reads the field without the lock, so both outcomes can be produced.
* `disConnectServer` is one step: it holds the mutex throughout. It also writes a logout
  frame while it holds it, under a deadline of three seconds (`bridge/bridge.go:311`),
  so it only delays the others. Cancelling the login context only shortens a wait that may end at any time.
* `Server.Stop` and `ConnManager.ClearConn` are called by nothing and left out.
* Times for display, logging and wording are left out.

## 7. What the models found

Each of these is a run that TLC must find violated.

* `SessionOverlap` – a login whose handler is past the `IsStop` test registers the
  connection, and may start its bridge, after `DoConnectionLost` has cleaned up.
  Nobody removes them. `README.md:25` promises the clean-up.
* `SessionEvicted` – an evicted connection keeps its `addr` property. When it logs
  in again with that address the handler takes it for registered
  (`fep/gfep_ptl.go:195`), answers the login and registers nothing: frames for the
  address no longer reach it.
* `ConnectionLogout` – the answer to a logout that is not a connection's first frame goes through
  `SendMsg`, an unbuffered send with no way out. If the writer has left, the worker waits for ever,
  and with it every connection of that worker.
* `BridgeLostLogin` – `login` stores `loginOK` after its wait; if `recv` has dropped
  the connection in between, the status stays `loginOK` without a connection until a
  dial succeeds, and `Send` loses frames and returns nil.

* `LivePanic` – `PublishLive` copies the channels under the lock and sends after it
  (`web/live.go:68-79`); a browser that leaves in between has its channel closed
  (`web/live.go:59`), and a send on a closed channel panics in the goroutine that
  logged the packet.

More came up on the way. The first three are shown by variants of the runs above:

* In `Session` with `SupportComm = FALSE` and `Bridging = TRUE`, `StopEndsBridges` fails:
  `stopBridgeForConnID` reads, stops and removes the bridge property of another
  connection in three steps (`fep/forward.go:62-78`); if the owner logs in again in
  between, its new bridge is removed from the properties and runs on.
* In `Session`, `AddrIsRegistered` fails without its condition `refused`: the registry
  moves before the reply is queued, and `addr` follows only if that worked. A login whose reply finds the
  buffer full leaves a terminal that is reached under an address it does not itself name.
* In `Connection`, `StopReleasesAll` and `WriteErrorEnds` fail without their alternative
  `BehindLogout`: the reader of a connection whose worker waits in `SendMsg` for ever
  (`ConnectionLogout`) stays at the worker's full queue, and if it was to notice the write error,
  the connection stays too.
* The server holds `MaxConn + 1` sockets for a moment, since the accept loop compares after it has accepted
  (`znet/server.go:98-131`); `WithinMaxConn` says that it is never more than that one.
* In `Connection`, `NeedStop` ends a connection only when its peer sends again or
  the sweep finds it: one that has sent frames and never logged in is not swept
  (`znet/server.go:180-187`), so a rejected silent peer keeps its place.
  `NeedStopEndsSession` states what does hold.
* Saves of the blacklist that overlap share one temporary file: one list may be lost, or the file be
  a mixture (`web/blacklist.go:119-127`). Changes of the settings that overlap read the same file,
  and the later write undoes the earlier change (`handleConfigPut` in `web/http.go`). `SavedInForce`
  and `SettingsInStep` fail without the conditions `overlapped` and `apart`; a mixed list still
  never comes into force. So these properties do not cover requests that overlap: they say what
  holds if they do not.
* A setting of the wrong type is written to `gfep.json` and answered with success, but from then on the
  file is not loaded; a change of the log level then sets the level and leaves
  `GlobalObject` as it was, until the value is put right.
* `Reload` returns without a word if the file cannot be read (`utils/globalobj.go:93-102`). The request is answered
  with success, and a change of the log level even takes effect, while `GlobalObject` is the old one:
  `SettingsInStep` fails without the condition `skipped`.
* The cookie of a session gets its lifetime once, at the login (`web/http.go:62-71`, `:179`), and `requireAuth`
  does not give it anew. A user who never pauses has to log in again when the idle time has gone by since the login,
  while `docs/WEB_SPEC.md:249` says "每次请求滑动续期". `ActiveServed` therefore ends at `until`; without that it fails.
* If today's log cannot be opened to append to, at a start or after a change of file that failed, it is opened
  anew and emptied (`timewriter/timewriter.go:266-269`). `EntriesKept` fails without the exception `cut`.
* A 698 address whose first byte is 0x20 has an extended logical address and no byte besides.
  `BuildPacket` is then given an empty address and writes a size byte of 0xFF, so the bridge's own
  frames for such a terminal are broken (`zptl/ptl698_45.go:230-250`). `BridgeKeepsAddr` fails
  without the condition `HasAddr`.
* A valid 698 frame may be shorter than what its answer copies: the date of a link frame
  (`zptl/ptl698_45.go:143-146`) and the descriptor of a report (`:299-303`) are taken from places
  that nothing has compared with the length, although `zptl/safe_parse.go:3-6` is there so that a
  short frame is safe. The index panics. `ReadsInside` holds up to these places.
* If the clock is set back over midnight, or a mill takes longer than a day, lines can
  go to a file whose name is removed (`timewriter/timewriter.go`).

## 8. Not modelled, and what is left

Not modelled, and why:

* Password hashing, cookies but for their lifetime, redaction of settings, routing, JSON, query filters, host status,
  the counts on the status page, download of logs: pure functions or input and output
  around the state that is modelled.
* The snapshot of a bridge: a read-only copy of its fields.
* The formatting and levels of `zlog`; its lock is the reason that `Write` is called by one
  goroutine at a time in `LogRotation`.
* The string forms of addresses, comparisons of frames that nothing calls, and the NWM
  validator, which no connection asks for.
* The concurrency limit of downlink callbacks in `bridge/bridge.go`, and that a heartbeat or a
  frame is written to a master without a deadline (`HeartbeatAnswered` assumes
  that those writes return).
* Listening and socket options; `Server.Stop`, which nothing calls; the idle timeouts, which
  the sweep reads once when it starts (`znet/server.go:157`).
* The test clients, and the MQTT gateway, of which only a draft exists (`docs/MQTT_SPEC.md`).

What could follow: the concurrency limit of the downlink callbacks, with writes to a master that has
no deadline; a prover with ENABLED for the liveness properties, of which `CloseWindsDown` and
`StopWindsDown` are the ranking; that the answer to a change of the settings says what was stored,
which today holds only if nothing else changes the file meanwhile.
