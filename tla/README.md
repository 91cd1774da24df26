# Verification of GEA and the AWDS tools

The repository holds three programs of its own and a simulator they are plugged
into:

* **GEA** (`gea/`), a small event library: a program registers event handlers
  with `GEA.waitFor(handle, timeout, handler, data)` and the library calls them
  when the handle is ready or the time is up;
* **the ns-2 backend of GEA** (`ns2-gea/ns-2/gea/`), the same interface on top
  of the ns-2 simulator, many simulated nodes in one process;
* **the topology viewer** (`topoviewer/`), a Java program that reads a stream of
  graph updates and lays the graph out;
* a wireshark dissector (`wireshark/`), web pages, and vendored ns-2, otcl and
  tclcl. The routing daemon itself is no longer in the tree
  (`routing/where-are-all-the-files-gone`).

## Inventory

| component | state | operations | interacts with |
|---|---|---|---|
| event handler interface | registrations | `waitFor` | called by every client, implemented twice |
| POSIX loop (`gea/src/ShadowEventHandler.cc`) | `eventList` (multimap by time), `Handle::status`, `ShadowDepend::triggered`, `lastEventTime`, the call list of a round | `run`, `waitFor`, `complied`, `read`/`write` | kernel (`select`), client handlers, which call back into it |
| ns-2 backend (`ns2-gea/ns-2/gea`) | scheduler queue, one `TimerHandler` and one handler slot per `DependHandle` and receiving `UdpHandle`, `pendingList`, current node | `waitFor`, `handle`, `doPendingEvents`, `expire`, `do_timeout`, `process_data`, `complied`, `gea_start` | ns-2 scheduler, timers, agents; client handlers, nested |
| time (`gea/include/gea/Time.h`) | 64 bit fixed point, 2^28 units per second | arithmetic, conversion, `toArray`/`fromArray`, `now` | both backends |
| handles' life cycle | shadow objects, descriptors | constructors, destructors | the loop keeps raw pointers |
| POSIX UDP handle | descriptor, addresses, `already_bound` | `setSrc`, `setDest`, `read`, `write` | kernel |
| object repository | map (node, name) to object | insert, get, type, remove | plugins; current node |
| utilities, `gea_start`, `guess_iface` | line buffer; shot counters | read commands, start plugins, guess an interface | the loop |
| viewer: input | parser state, counters, connection tries | one handler per XML element, reconnect | graph, status bar |
| viewer: graph | complete set, visible locality, node edge lists, partition ids | add, delete, clear, `updatePartitions` | parser threads, event thread, layout thread |
| viewer: layout | damper, relaxer thread | relax, damp, reset | graph, panel |

What is hard here: client handlers re-enter the library in the middle of `run`
and `doPendingEvents`; handlers are collected at one time and called at another;
timeouts race with packets and triggers; a global current node and a global
current time stand for the handler being served; times are rounded between two
clocks; the viewer's threads share a graph under several locks. `PROJECT.json`
lists these hazards line by line with the properties that would catch them.

What makes the parts correct: every registration is answered by exactly one
call; the call is made with the handle in the state the handler may rely on, at
about the right time, for the right node; a trigger wakes the handlers that
wait; nobody waits for ever; the assertions in the code hold. For the viewer: the
visible graph and the complete one, edge lists, id registry and counters agree
with each other whatever the threads do, what is on screen stays until somebody
removes it, and the parts of the graph are tied together. For `gea_start`: the
commands of the input are executed, each once and in order, however they arrive.

## Modules

| module | models |
|---|---|
| `EventHandlerApi` | what `EventHandler.h` and `Readme.txt` promise: registrations, each answered by one call |
| `PosixEventHandler` | `ShadowEventHandler::run` and `::waitFor` of the POSIX backend, `complied`, `read` |
| `MCPosixEventHandler` | its instances for TLC |
| `PosixEventHandlerProofs` | its theorems: types, the call list, the refinement |
| `PosixTriggerProofs` | its theorems: readiness, triggers, rounds |
| `Ns2EventHandler` | the ns-2 backend with the `TimerHandler` and `Scheduler` operations it uses |
| `MCNs2EventHandler` | its instances for TLC |
| `Ns2EventHandlerProofs` | its theorems: types, the stack of handlers, timers, nodes |
| `Ns2TriggerProofs` | its theorems: triggers, absence of aborts |
| `Ns2ApiProofs` | its theorem: the refinement of `EventHandlerApi` |
| `GraphElements` | the viewer's `Node`, `GraphEltSet`, `Locality` and `VisibleLocality` as operators on a graph |
| `TopologyViewer` | `InputParser` threads, `TGPanel` and `JTopoStatusBar` on that graph |
| `MCTopologyViewer` | its instances for TLC |
| `GraphElementsProofs` | lemmas on lists, folds and the operations of the graph |
| `TopologyViewerProofs` | the viewer's theorems |
| `GeaStart` | the command reader of `gea_start -i` and `-c` |
| `MCGeaStart` | its instance for TLC |
| `GeaStartProofs` | its theorems |

### PosixEventHandler

The program is one thread. `pc` says where `run()` is: in `gea_main` before
`run()` (`main`), at the head of the loop (`while`, where `select` sleeps), about
to make the next call of a list of descriptors (`io`) or triggers (`dep`), at the
test of the inner loop (`deps`), or inside a handler (`inExpire`, `inIo`,
`inDep`). A handler is the stretch of `WaitFor`, `Complied` and `Read` steps up
to the `Return...` step; nothing is assumed of what it does beyond the
constants below. The multimap is a set of entries with the relation `older` for
the order of equal keys. `Tick` and `Arrive` are the environment.

Clients differ in discipline, and the constants say how much is assumed:

* `MinDelay`: handlers ask for times at least that long after their own event's
  time. The tests write `t + Duration(...)`, so 0 is generous; -1 stands for
  `AbsTime::now()` plus a short delay after `select` returned early.
* `SharedHandles`: may two registrations wait on one handle? The tests never do.
* `FreeTriggers`: may `complied` be called at any time? `test/dependency.cc`
  triggers from handlers, a handle somebody waits on, other than the one served.
* `Slack`: by how many ticks `select` may return early. `double2Timeval`
  truncates to microseconds and `getCurrentTime` counts 268 units per
  microsecond although a second has 2^28.
* `InitStatus`: what the never initialised `Handle::status` holds at first.

`called` and `signalled` are history variables: the entry whose handler runs,
and the registrations that waited on a handle when it was triggered.

### Ns2EventHandler

`stack` is the C++ stack of handlers: `waitFor` on a sending handle calls the
handler before it returns, and `doPendingEvents`, after most calls, calls the
handlers of triggered `DependHandle`s. A frame is first in phase `call` (the
handler runs) and then, for the calls followed by `doPendingEvents`, in phase
`drain`. Each timed handle has one `TimerHandler` (`timer`, `at`) and one slot for
a handler; `Blocker` waits are events in `queue`. `clock` is the simulator's
`double` in fine ticks, `AbsTime` a multiple of `Gran` ticks, and `Now` rounds
down, as the cast of this tree's `Time.cc` does. Events of one time may come in any
order, where ns-2 takes the oldest first. Delays count from `lastEventTime`, which a
handler that goes on after a nested `doPendingEvents` finds changed; a client that
kept its own event time could ask for a little less. A failed assertion or a sanity check of the simulator is the variable
`abort`, after which nothing happens. Packets reach a handle as scheduler events
of their own; their content is left out. `LazyReaders` says whether `gea_main`
may leave a receiving handle without a first `waitFor`; `NodeOf` places the
handles on nodes, and a handler only uses handles of its own node. Each node
starts one plugin.

### GraphElements and TopologyViewer

A graph is a record of the two element sets (`complete`, `visible`: the Vectors
of nodes and edges and the id registry), the edge list of every `Node` object,
the partitions, and the invisible edges. Every method of the Java classes that
changes the graph is an operator from graph to graph; where it throws after a
part of its work, an operator `...Throws` says when and the graph is the one left
behind. `Node` objects are pairs of an ID and a number, because two objects of one
ID can exist when two threads create it. `part_id` is only ever compared for
equality, so it is the set of nodes that share it. Objects that neither the graph
nor a thread refers to are forgotten (`Swept`), as the garbage collector would.

`TopologyViewer` runs one `InputParser` thread for every "Connect to host". `pc` is
the place in `startElement`, `TGPanel` or `updatePartitions` where it is. A step is
one change of the graph inside the monitor of `localityUtils`, or one read
outside it: the look-ups of `findNode`, the index and the element of each round of
`updatePartitions`. `owner` is the thread that keeps the monitor across steps, which
only `TGPanel.deleteNode` does. An exception ends the document, closes the
connection and, with `Reconnect`, dials again (`Dropped`); a refused connection
counts in `try_cnt`. Where the model is coarser than the code: the walk of
`findEdge` through one edge list, and one comparison loop over the collected
partitions, are one step; the `resetCounter` at the start of `run()` is taken
together with the menu entry that starts the thread; no edge leads from a node to
itself. What `modify_node` changes is not in the model, only that it may throw. A
document may break off between any two elements, and before the first one; then the
old graph stays until the next document. `glob_part_cnt` is incremented without a lock
(`Node.java:177`); the model takes the ids it yields for distinct. A `Node` object
that has left the graph while a second source holds it still lists deleted edges in
the code, which `findEdge` may stop at (`GraphEltSet.java:262`); `Swept` drops them.

`Careful` says whether sources modify and remove only what exists, as the routing
daemon does, `Counting` whether the instance includes the status bar. The locality
is never shifted: the scroll bar for it is not put on screen and the menu entries
that would are commented out, so the visible set is all of the graph, and
`VisibleIsComplete` checks that the writers keep it so.

### GeaStart

The state of `new_input` is its two static variables, `line` and `length`, kept apart
because the code computes them apart. A step is one call of `read` with the append,
one round of the splitting loop, or the end of the handler. Bytes are the four
classes the code tells apart. `read` may return any number of bytes up to `bsize`,
zero at the end, or fail at any time; the code treats both as the end of the file.
`parsed` and `started` are history variables: the bytes given to `parse_cmd` with
their delimiters, and the commands that reached `run_gea_main`. That the loop calls
`new_input` once for every `waitFor` is what `EventHandlerApi` promises and
`PosixEventHandler` is shown to do.

## Runs

| run | result | what it shows |
|---|---|---|
| `posix_safety` | pass | with disciplined clients (`MinDelay` 0, nothing shared): the loop erases the entry it called, ready handlers find `Ready`, a trigger wakes all waiters before the loop sleeps and wakes nobody twice, every round of triggered handlers uses up a trigger; refinement of `EventHandlerApi` |
| `posix_liveness` | pass | with delays longer than zero, a registration waits for ever only if descriptors are ready again and again and `select` reports no timeout any more; rounds of triggers end |
| `posix_lost_registration` | violation | a handler registering an earlier time loses that registration and is called again for the old one |
| `posix_lost_wakeup` | violation | a handler waits on its `DependHandle` again, and a trigger given before the round is over is wiped out by the reset after the round |
| `ns2_safety` | pass | with disciplined clients on two nodes no assertion fails, triggers are served at once and on a `Ready` handle, handlers run for their own node; refinement of `EventHandlerApi`, handlers nested |
| `ns2_any_client` | pass | without any discipline: no timer stays in handling, an armed timer has a handler |
| `ns2_trigger_in_timeout` | violation | a trigger from a `DependHandle`'s timeout handler makes the assertion in `doPendingEvents` fail later |
| `viewer_one_source` | pass | one careful source that reconnects, all elements, counters on: edge set, edge lists and node set agree after every step, the loops of `updatePartitions` stay in range, the invisible edges between two elements form paths, the node counter is exact and the edge counter never too low, a new connection starts with an empty graph |
| `viewer_two_sources` | pass | two sources without care: id registry, edge lists, complete and visible set agree after every step, `deleteNode` scans in range, and an edge on screen disappears only when it, an end of it or everything is removed |
| `viewer_clear_all` | violation | after a `modify_edge` for an unknown edge, the graph can never be cleared again |
| `viewer_partitions` | violation | a chain cut in the middle is not recognised as two partitions |
| `gea_start` | pass | no byte is lost or left behind, modules are started in the order of the text, every step but a timeout brings the reader nearer to its end, and all modules are started if reading does not fail |

The violations are disagreements between the code and what a comment, a document
or an assertion of the repository says; `PROJECT.json` quotes the lines. The
passing runs state under which discipline of the clients the code is right.

More disagreements are known and have no run of their own. In the event loops:

* a `complied` called from `gea_main` is not looked at before the first `select`
  has slept (`WakesAllWaiters` with `FreeTriggers` TRUE);
* two waiters on one POSIX handle: the first one's `waitFor` sets the status to
  `Blocked` before the second is called (`ReadyWhenCalled` with `SharedHandles`
  TRUE), where `UnixFdHandle::read` asserts `Ready`;
* on ns-2, a `Blocker` wait for `lastEventTime` itself is scheduled before the
  clock and the scheduler aborts (`NoAbort` with `MinDelay` 0);
* on ns-2, a packet before the first `waitFor` reads the uninitialised status and
  runs into `assert(!"insane handle state")` (`NoAbort` with `LazyReaders` TRUE);
* on ns-2, the handler of a `Blocker` whose time is up finds the status `Blocked`;
  the POSIX loop sets `Timeout`;
* when `select` reports a descriptor, the POSIX loop serves no timer, so a
  descriptor ready at every call shuts all timers out (`ShadowEventHandler.cc:287`;
  `EveryHandlerCalled` fails in `posix_liveness`, and `TimersAreServed` says that
  nothing else can make it fail while `run` gets back to `select`);
* a handler that waits again for the very time it was called with stays in front of
  every later timer (`TimersAreServed` with `MinDelay` 0): time is counted from the
  event, not from the clock;
* on ns-2, a second `waitFor` on a receiving handle overwrites the first, whose
  handler is never called (`ShadowUdpHandle.cc:259`; `ApiSpec` with shared handles);
* on ns-2, the write branch of `waitFor` calls `doPendingEvents(timeout)`: triggered
  handlers are told the timeout of that wait as the current time
  (`ShadowEventHandler.cc:83`);
* on ns-2, `expire` does not set the current node, so the timeout handler of a
  `DependHandle` runs as the node served last (`ShadowDepend.cc:26`). `NodeContext`
  exempts what such a handler calls.

In the viewer and elsewhere:

* with two sources an edge can be added to a node that the other one has just
  deleted (`EndsInGraph` with two sources, `InputParser.java:172`), and the scans of
  `updatePartitions` outside the monitor can run past the end, which ends the
  connection;
* `remove_node` does not take the edges of the node off the edge counter
  (`InputParser.java:164`), which is why `CountersAgree` bounds it from one side only;
* a `;` in a `#` comment of a `gea_start` file ends the comment, and the rest of the
  line is a command (`gea_start.cc:117`);
* `setSrc` on a bound UDP handle replaces the socket and loses `SO_BROADCAST`
  (`ShadowUdpHandle.cc:144`);
* the layout thread changes `damper` without a lock, so a reset can be lost
  (`TGLayout.java:261`).

**Bounds.** `Ids` bounds the registrations alive at one time, not their number:
names are used again. Three let one handler run while one registration waits
and another is collected, which is what every interference in these loops needs;
two `DependHandle`s let one round trigger the next. `posix_liveness` adds the step
`Rebase`, which counts all times from one tick later: the loop only compares times, and
with it `MaxTime` bounds how far apart the times of one state are, not how long the
program runs. Timers with earlier, equal and later deadlines meet again and again, and
handlers register in front of those that wait. Its three handles are a descriptor and
two `DependHandle`s; the one thing a `Blocker` does, time out, they do as well. `MaxTime` 2 with `Slack` 1
separates past, present and future keys. In the ns-2 runs `Gran` 2 gives clock
values between two values of `AbsTime`, `MaxClock` 3 lets a handle that is
re-armed after a packet time out, `MaxDepth` 3 nests a sending handle's handler in a
triggered handler in a dispatched one. `PendingBound` cuts off only clients that
trigger and time out for ever at one instant. Registrations, descriptors and
`DependHandle`s are symmetric in the safety runs, whose properties, the refinement
included, treat them alike; liveness runs use no symmetry.

In the viewer's runs `Ids` are the node names, `Links` the edges that may be named,
`Copies` the objects of one ID alive at a time, `MaxEdges` the edges in the graph
(invisible ones included) beyond which no edge element comes, and `MaxCount` the
same for the counter, which can grow without the graph. Four nodes in a chain are
the least in which cutting an edge leaves two parts with edges of their own, and
give up to three invisible edges. Two sources on two nodes and two objects of each
give every pair of conflicting operations: one looks a node up, the other deletes
it, clears the graph or creates it again. `viewer_two_sources` leaves out
`modify_edge` (its null edge is the subject of `viewer_clear_all`), and its parser
threads are symmetric. Parser threads end, so these runs do not check for
deadlock; nor does `gea_start`, whose descriptor is closed in the end. In `gea_start`
`MaxLength` 5 with pieces of at most `bsize` 3 cuts a command twice, puts two
delimiters into one piece, and ends texts with and without a newline.

**Fairness.** `Fairness` says that the thread keeps running, that handlers return
(the library is cooperative: a handler that does not return stops everything) and
that time passes. It says nothing of data arriving or of what handlers register.
Nothing is assumed of `Expire` alone: `select` may find a descriptor ready at every
call, and `TimersAreServed` has that as its one exception (`ShutOut`). Its condition is
that `run` gets back to `select` again and again, for the inner loop need not end
while handlers trigger each other. `RoundsEnd` is conditional on clients that stop triggering:
two handlers that trigger each other keep the inner loop going, by design.
`FairSpec` of `GeaStart` says that the event loop serves a readable descriptor and
that a handler comes to its end; it does not say that `read` ever fails.

## Proofs

`PosixEventHandlerProofs`, for all sets of handles and registrations and all
values of the bounds:

* `TypeCorrect`: `Spec => []TypeOK`. `TypeOK` is inductive; the only delicate part
  is that the call list is a sequence of entries and `next` stays inside it while
  calls are to be made.
* `ErasesTheCalledEntryHolds`: `MinDelay >= 0 => (Spec => []ErasesTheCalledEntry)`.
  The strengthening is `ListInv` (ids are unique, `older` orders the ids of the
  list totally and without cycles, so `begin()` exists and is unique) and
  `ExpireInv` (while the timeout handler runs, the called entry is the first and
  its key is `lastEventTime`): an entry inserted with `t >= lastEventTime` goes
  behind it, by key or, for equal keys, by age. The condition is needed: see
  `posix_lost_registration`.
* `ImplementsApi`: `MinDelay >= 0 => (Spec => ApiSpec)`. With `BatchInv` (what is left
  of the call list names distinct registrations that are no longer in the event
  list; exactly one entry is called while a handler runs) every step is a step of
  `EventHandlerApi` or leaves it unchanged. It holds for shared handles and free
  triggers too.

`PosixTriggerProofs`, in the same generality, on top of `TypeOK`, `ListInv` and
`BatchInv`:

* `ReadyWhenCalledHolds`, for clients without shared handles. `ReadyInv`: every handle
  still to be served in the round is `Ready`; a handler can set a status to `Blocked`
  only for a handle nobody waits on, and those of the round count as waited on.
* `WakesAllWaitersHolds`, for disciplined triggers. `WakeInv`: whoever waited on a
  handle when it complied has a trigger that the end of the current round will not
  reset. This is where a trigger for a handle being served goes wrong
  (`posix_lost_wakeup`).
* `WokenOnlyByATriggerHolds`, for clients without shared handles, with disciplined
  triggers and `MinDelay >= 0`. `TriggerInv`: a set trigger is owed to an entry that
  waited when it was set, or to the round going on.

* `RoundsShrinkHolds`, without any condition on the clients: the variant that makes the
  loop over rounds end once nobody triggers any more. `RoundInv`: a round serves at
  least one handle, and all it serves are triggered until it is over.

The assumption used is `ConstantsAssumption` of `PosixEventHandler`, which TLC
evaluates in every run.

`Ns2EventHandlerProofs`, for all sets of handles, registrations and nodes and all
bounds, from `Ns2Assumption`:

* `TypeCorrect`. `TypeOK` bounds the stack and needs `FrameInv`, the shape of the stack:
  only calls followed by `doPendingEvents` drain, and they leave room for one call
  more; what the scheduler calls is at the bottom and nothing else is.
* `ArmedHasHandlerHolds` and `TimerSettlesHolds`, without any condition. Both are
  inductive beside `TypeOK` and `FrameInv`.
* `NoTriggerLeftBehindHolds`, for `~FreeTriggers`. `DrainInv`: as long as `pendingList`
  is not empty, some call in progress will be followed by `doPendingEvents`.
* `NodeContextHolds`, for `~FreeTriggers`. `ContextInv`: all that is served or triggered
  is on the current node, unless the scheduler entered through `expire`. It needs
  `DrainInv`: a trigger left behind would be served for another node.

`Ns2TriggerProofs` adds `TriggersServed` (`~FreeTriggers`, and the uninitialised status
of a new handle is not `Blocked`) and `Disciplined` (also one waiter per handle,
delays longer than zero, and a `gea_main` that waits on its receiving handles), which
are the constants of `ns2_safety`:

* `ReadyWhenCalledHolds`, for `TriggersServed`. `OwedInv`: each trigger still to be
  served, in `pendingList` or in what a `doPendingEvents` has left of its batch, has
  its timer armed, its registration in the slot, its handle `Ready`, and no second
  trigger of the same handle anywhere. It rests on `BlockedInv` (a `Blocked` handle has
  an armed timer) and on `DrainInv` (the scheduler never runs a timer that has been
  triggered).
* `NoAbortHolds`, for `Disciplined`. `OwedInv` and `BlockedInv` exclude the assertions on
  timers; `StartInv` (a receiving handle of a started node has been waited on, or
  its `gea_main` is running) the insane handle state; `FutureInv` and `RecentInv` the
  event in the past: a handler's event time is behind the clock by less than a unit
  of `AbsTime`, so a later `AbsTime` is not in the past (`NextMultiple`).

`Ns2ApiProofs` has `ImplementsApi`, for `~SharedHandles /\ TriggersServed`. With `IdInv` (a
registration is in the queue, in a handle with an armed timer, or in one frame, and
nowhere else) and `OwedInv` (what `doPendingEvents` calls is what the handle holds)
every step is a step of `EventHandlerApi` or leaves it unchanged.

Where a theorem has a condition on the clients, the list of disagreements above has
the client for which it fails.

`GeaStartProofs`, for every set of texts and every buffer size, from
`InputAssumption` alone:

* `StartTypeCorrect`: `Spec => []TypeOK`. The delicate part is `length`, which is
  decremented by the position of the delimiter and must stay a natural number: it
  needs `length = Len(line)`, half of `NothingLost`.
* `NothingLostHolds`: `Spec => []NothingLost`. Cutting the buffer at a delimiter and
  appending a piece at its end leave `parsed \o line` the text read so far; the
  lemmas are about `SubSeq` and concatenation.
* `NoneLeftBehindHolds`: `Spec => []NoneLeftBehind`. That nothing is left when the
  descriptor is closed is not inductive: it needs `EndsTheLine` (after the end of
  the input the buffer is empty or ends with a delimiter) and `Fresh` (nothing in
  the buffer before the first `waitFor`).

The five together are the inductive invariant `IInv`. On top of it:

* `StartedInOrderHolds`: `Spec => []StartedInOrder`. `StartInv` relates `started` to the
  text parsed so far, not to the text read: in the middle of the loop the buffer still
  holds complete commands. Reading on never changes the commands of what has been parsed
  (`CommandsStay`), and the round of the loop that parses up to a delimiter adds just the
  command before it (`CommandAdded`). The reference definition picks the command ends of
  a text by their rank among all of them (`Nth`) instead of filtering it from left to
  right, so it takes no induction over the text to reason about it.
* `StartedAtTheEndHolds`: when the descriptor is closed and `read` did not fail, the
  modules of the whole text have been started. `EndInv`: the end of the file is only
  seen when everything has been read.
* `ReaderEndsHolds`: `Left` is a natural number that every step but a timeout lowers.
  With `StartedAtTheEndHolds` this is all of `AllStarted` except fairness.

`GraphElementsProofs` has the lemmas about the graph. `removeEdges`, `DropEdges` and
`Kept` fold over an edge list of any length. The induction theorems of the library
cannot be used with these provers, so the lemmas that need one (`StaysIn`: what holds
of the graph before the loop and survives a round holds after it) are derived from
the least number at which a claim fails (`LeastIn`). A second part is about lists
without repetition (`Once`): what is left after `remove`, that two removals commute,
and what `addEdge`, `deleteEdge` and `deleteNode` do to the list of the graph and to the
lists of the nodes.

`TopologyViewerProofs`, for all sets of IDs, links and sources and all bounds, from
`GraphAssumption` and `ViewerAssumption`:

* `ViewerTypes`: `Spec => []TypeOK`. `TypeInv` adds what every field of a thread may hold
  at its `pc`: the ends of a link are looked up or created before they are used, and
  the partitions that are tied together are nodes, although `nodeAt` may return null.
* `ViewerRegistry`: `Spec => []RegistryAgrees`, for any number of threads and careless
  sources. `Registry`: in both sets the registry has exactly the listed nodes and no
  node is listed twice; `addNode` throws before it could break this.
* `ViewerScan`: `Spec => []ScanInRange`. `ScanInv` also covers the step between the read of
  the edge and its deletion, and needs that nobody but the owner of the monitor
  changes the graph.
* `ViewerShownEdges`: `Spec => ShownEdgesStay`, for one source, or sources that send no
  `modify_edge`. `EdgeInv`: the edge `updatePartitions` is about to delete is still
  invisible, for no step shows an invisible edge again; a thread's new edge is its
  own until it is added; the list of a node names edges at that node only. `Calm`: no
  null edge is in the visible set when the graph is cleared. The condition is needed:
  with a null edge and a second source `clearAll` throws halfway, having marked a part
  of the edges of the other source invisible (`viewer_clear_all` has the null edge).
* `ViewerLists` and `ViewerVisible`: `Spec => []ListsAgree` and
  `Spec => []VisibleIsComplete`, for any number of careless sources. `TidyInv` says of
  the graph that its lists name one another's edges without repetition (`Lists`) and
  that the two sets are in step (`InStep`), and of each thread (`Straight`) that the
  nodes it collected are distinct, that the ends it holds carry the IDs of its link, and
  that the edge it is about to add leads between two different nodes. The last is what
  keeps an edge from being twice in the list of one node; it needs that the scan
  of the nodes collects each once and that the objects a thread creates are held by nobody else.
* `ViewerEnds`: `Spec => []EndsInGraph`, for a single source. `RootedInv`: the nodes the
  thread holds are nodes of the graph, and an end is null only as long as its ID is not
  registered. `deleteNode` takes all edges of the node with it because of `Lists`. With
  two sources a thread may hold a node that the other deletes, so the condition is
  needed.
* `ViewerTies`: `Spec => []TiesAreAPath`, for a single source. `Tied` follows
  `updatePartitions`: the backward loop leaves no invisible edge behind its index, the
  loops after it start without any, and the last one lays a chain through distinct
  nodes.
* `ViewerCounters`: `Spec => []CountersAgree`, for a single source with `Careful`. `Ledger`
  has what the status bar has not been told yet (`NodesDue`, `EdgesDue`), and `TiesLast`:
  in the list of a node the ties come behind the edges on screen whenever an edge may be
  removed. `findEdge` stops at the first edge that leads to the node; were a tie before
  the edge on screen, `remove_edge` would delete the tie and count down. `TiesLast` fails
  between `addEdge` and the end of the backward loop, and holds after it because all ties
  are laid anew.

* `ViewerClears`: `Spec => ClearAllClears`, for sources that send no `modify_edge`, and for a
  single source with `Careful`. For the second, `Meant` follows a `modify_edge` from the
  element to the look-up of its edge: the ends that are found are those of the edge the
  element names, so neither is created and `findEdge` returns an edge (`FindsEdge`, from
  `Lists`). `viewer_clear_all` has the source without care for which it fails.

Only model-checked: liveness, for the prover does not do fairness. What the code
contributes to `RoundsEnd` and `AllStarted` is proved (`RoundsShrinkHolds`,
`ReaderEndsHolds`, `StartedAtTheEndHolds`); that enabled steps are taken is not.
`TimersAreServed` has no variant of that kind: that a timer is not overtaken for ever
rests on every handler asking for a later time than its own event's. `PartitionsTied`, `TriggerNotForgotten` and the other
properties of the violated runs are no theorems, of course.

## Not modelled

* Errors of `select`, creation and destruction of handles (what follows a
  destroyed handle is undefined behaviour), contents of packets, Tcl set-up.
* The viewer's layout thread (floating point forces; it changes positions only,
  and takes its monitors in the same order as all other reachable code), drawing,
  user interface, colours and positions, loading and saving files. A loaded file
  is one more source, on the event thread.
* Expanding, hiding and shifting the locality: nothing in the program calls them.
* `Time.h` arithmetic beyond the rounding the loops meet, `guess_iface`, the object
  repository and the UDP socket: no interleaving and hardly any state.
* NUL bytes in the input of `gea_start` (its string functions take them for the end of
  the buffer) and a command of more than 99 words (`argv[100]`, `gea_start.cc:61`).
* Loading of shared objects, Windows support, animation hooks, the dissector.
* ns-2, otcl and tclcl, vendored and by far the largest part of the tree, are
  modelled only where the backend calls them.

## Plan

Done: the POSIX loop with its refinement and proofs, the ns-2 backend with its
refinement and proofs, the viewer's graph with its parser threads, counters and
proofs, the command reader with its proofs. Next:

1. The UDP socket across `setSrc`, `setDest` and destruction.
2. The damper of the layout thread as a small module beside `TopologyViewer`.
