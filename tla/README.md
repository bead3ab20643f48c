# A verification of node-mcu-connect

node-mcu-connect drives the inputs and outputs of a building: a Node.js
controller talks over UDP to a C daemon on a Raspberry Pi, the daemon is the
master of an SPI bus over RS-485 with up to 31 nodes, and every node (an
MSP430) passes commands to, and collects events from, up to two or three
extensions (further MSP430s) that own the pins.

This directory models that program in TLA+, translated from the code under
`src/`, checks the models with TLC and proves the central properties with
TLAPS. The daemon, the node, the bus between them, the way of an output from the
controller to a pin, the way of a key from a pin to the handlers, the services
of the house and the selectors they use are there; the exchange between node and
extension and the flash upload are planned (see *Plan*).

## The system

    controller (JavaScript, one process)
        |  UDP 9930: 24 bytes, command + destination     ^  UDP 9931: an event
        v                                                 |
    daemon (C, one thread)      rows of commands, list of pending signals
        |  SPI, 38 byte packets, master clocks both ways
        v
    node (C, receive interrupt + main loop)     one command, one event
        |  bit-banged SPI, a signal and a ready line per extension
        v
    ADCE extension (C)          ports, ADC, PWM, flash

One packet carries, at the same time, a command to one node and the event of
one (possibly other) node. Both directions are acknowledged by checksums in
the last four bytes: the addressed node returns the checksum of the command it
received, the daemon echoes the checksum of the event it received.

| part | state it keeps | operations |
| --- | --- | --- |
| daemon, outbox (`daemon.c`) | 32 rows of 10 buffer pointers, a pool of 20 buffers, per buffer status, error count, retry time | accept a datagram, send the head of a row, retry after 50 ms, give up after 5 errors, pop |
| daemon, events | status of each node's signal, the count of pending signals, the node served last | choose the node to inquire, deliver the event, read the signal mask |
| node, receiver (`node.c`, interrupt) | position in the packet, in/out pointers, the packet, synchronisation | one function per significant byte, `rescue` when out of step |
| node, main loop | `signalMaster`, `setSignalMaster`, `masterInquiryCommand`, `clearMasterInquiry`, `inBuffer`, `outBuffer` | sleep, serve a command, serve an extension that raised its line |
| ADCE (`adce2.c`) | last sample, port configuration, pending return, position of a flash upload | sample, find what changed, exchange 20 bytes, carry out the command |
| interface and I/O (`Interface.js`, `Io.js`) | queue of writes, debounce timer, cached values | enable, disable, toggle, pwm, flush, refresh |
| network (`Network.js`, `Service.js`, `Node.js`) | services and how far each is (loaded, initialized, running), caches by id | register, reload, dispatch an event |
| selectors (`Object.js`) | tree of objects, cached searches | find, add, tag; enable, toggle, on for a selection |
| services of the house (`impl/`) | state of light cycles and colour gradients, in closures shared by several keys, two timers each | press and release of a key, timer, reload |
| upload (`flash.js`) | offset and sequence number | send chunks |

What is hard in it:

* the node's interrupt and main loop share eight flags and buffers without
  locks, and the interrupt also decides whether the CPU wakes up and whether
  interrupts stay enabled;
* retries, drops, full rows and an empty pool in any order, with indices and
  counters that must agree across four functions;
* events that are asked for, answered and acknowledged inside packets that may
  be disturbed in either direction, and a choice among several signalling nodes;
* resets of a node in any state, and restarts of the daemon;
* messages that are acknowledged by a checksum in one direction and believed
  by a checksum in the other, so that either may be repeated or lost;
* in the controller, time windows (35 ms) in which writes are folded,
  services whose start-up is a chain of promises that a reload joins at any
  point, searches that are remembered for ever, and handlers that several keys
  and timers share.

`PROJECT.json` lists every component, also those that are not modelled, and
every hazard with its line and the property that covers it.

## Modules

| module | what it is |
| --- | --- |
| `Outbox` | abstract specification of the daemon's command side: per node a bounded FIFO with bounded retries |
| `Daemon` | `daemon.c` in full, apart from start-up and input/output; refines `Outbox` |
| `MCDaemon` | constants of `Daemon` for TLC |
| `DaemonProofs` | theorems about `Daemon` |
| `OutboxProofs` | that `Daemon` implements the safety of `Outbox` |
| `Node` | the node firmware: `node.c` and the interrupts and low power modes of `msp430.c` |
| `MCNode` | constants of `Node` for TLC |
| `NodeProofs` | theorems about `Node` |
| `OutQueue` | one interface of the controller (`Io.js`, `Interface.js`) and the ports and PWM channels of its extension |
| `MCOutQueue` | constants of `OutQueue` for TLC |
| `OutQueueProofs` | theorems about `OutQueue` |
| `Channel` | abstract specification of one direction of the bus: messages in order, possibly repeated, lost only with an excuse |
| `Link` | daemon and nodes on one bus, packet by packet, with the nodes' main loops going on within packets, disturbances, resets and restarts |
| `Delivery` | `Link` with the history of what was heard and lost; refines `Channel` for the commands and for the events of every node |
| `MCLink`, `MCDelivery` | constants of `Link` and `Delivery` for TLC |
| `LinkProofs` | theorems about `Link` and `Delivery` |
| `House` | the installation as data: nodes, interfaces, IOs, tags, handlers of the keys (`impl/`, `index.js`) |
| `Services` | the life of the services: the chain of promises, hardware registration, searches at start, reload |
| `MCServices` | constants of `Services` for TLC |
| `ServicesProofs` | theorems about `Services` |
| `Buttons` | reports of the inputs, their way to the handlers of the keys, the handlers with their timers |
| `MCButtons` | constants of `Buttons` for TLC |
| `ButtonsProofs` | theorems about `Buttons` |
| `Selector` | the tree of objects and `find` with its caches |
| `MCSelector` | constants of `Selector` for TLC |
| `SelectorProofs` | theorems about `Selector` |

### OutQueue

What happens between `$('my-io').enable()` and the pin.

* `disable`, `enable`, `toggle`, `pwm` are the methods of `Io.js`, each run to
  completion: the cached value decides whether anything is pushed, `inverted`
  and the clamping to `1..dutyCycle-1` what is pushed.
* The queue of the interface is only ever read by one left fold
  (`Interface.js:54-82`), so the model keeps it as the fold of what was pushed
  (`pending`, by `AggregateBits` and `AggregatePwm`), and no bound on its length
  is needed. The three mask bytes are sets of outputs, the four PWM words a
  function to a level or `Keep` (0xFFFF).
* A push arms the debounce timer, also when it is armed or due; `Elapse` is
  35 ms without a push, `Flush` the callback. `refresh` sends at once, past the
  queue.
* Daemon and node are a queue of messages, any of which may be lost. Messages
  are not reordered: those of different windows are 35 ms apart, and the two of
  one flush (or of one refresh) touch different registers.
* The extension applies a message whole (`processExchange`). A configuration it
  does not have yet is written to flash and resets it (the watchdog register is
  written without its password, which restarts the ports but keeps the timer
  registers); `PowerCut` clears those too. An unconfigured extension drives only
  `Factory`. `initializeIOConfig` starts every output low.
* Left out: the period and the start of the PWM timers, the masks of inputs,
  `pwm()` on an output that is not a PWM channel (it throws), writes in the
  instant an extension restarts.
* `writes` and `blame` are history variables: the parity of the writes in a
  window, and why a pin may differ from the cache. No action is guarded by them.

### Daemon

The daemon is one thread, so its actions are the stretches of code between
two inputs: a datagram (`recvfrom`), the header of a packet (`preamble` is what
came back) and the rest of it (`cmdOk`, `snccOk`, `mask`). `pc` is where
`main` or `sendMessage` is, `i`, `seen`, `errors`, `onlyErrors` are `main`'s
local variables, `sending` and `inq` are `sendMessage`'s `outQueue` and
`inQueue`.

* `IdleInsert`, `IdleSend`: the inner `while` of `main`. `ScanEmpty`,
  `ScanSend`, `ScanWait`, `Settle`, `EndPass`, `EndPassInsert`: one pass over
  the rows. `Header`, `Check`: `sendMessage` with `preProcessSNCCmessage` and
  `postProcessSNCCmessage`. `DelayElapsed`: 50 ms have passed.
* A datagram that finds its row full or the pool empty is read and lost; in
  the model it is simply not inserted (`CanInsert`), and `IdleSend` needs no
  "no datagram" guard for the same reason.
* Rows, statuses and error counts are those of the code. The pool is a
  sequence (`fifo_add`, `fifo_remove` are external to `daemon.c` and used as
  `Append` and `Head`/`Tail`). Payloads are model values. The status is kept
  as `new`, `queued`, `transferred`, `dropped`; `SNCC_PREAMBLE_RECEIVED` is
  overwritten by `MI_STATUS_QUEUED` in the same step.
* Row `MaxNodes` is the memory behind the table, which two pieces of code
  reach: `insertNewCmds` (`<=` in line 256) and, depending on the compiler,
  the shift in line 220. `ShiftStride` says which reading of
  `*q++ = *(q+1)` the compiler chose; with 1, the reading the code means, the
  properties are checked and proved; with `ShiftStride = 2` in
  `MCDaemon_rows.cfg` TLC finds `BuffersConserved` violated.
* `destination` is a signed `int` without a lower bound (`daemon.c:257`). The
  controller sends the ids of its nodes, which are positive; a negative one would be
  looked up, and perhaps written, in front of the table. It is left out: `Dests`
  starts at 0.
* Of the nodes nothing is assumed: any mask, any preamble byte, any outcome
  of a checksum (`SnccLossy` restricts the latter in one liveness run).

### Node

Two processes: the receive interrupt and the main loop.

* The interrupt takes a byte. Of the 38 bytes the model keeps the ones where
  more happens than moving a pointer: the first byte (`FirstByte`), the end of
  the header, of the destination, of the event checksum and of the packet
  (`endOfHeaderEvent`, `endOfDestinationEvent`, `endOfPacketEvent`,
  `endOfPacketEvent2`). `phase` is the part expected next, and tells what
  `incomplete` and `synced` are. `rescue` is `endOfHeaderEvent` on a node that
  is out of step, or a reset after 41 bytes (`RescueFails`).
* The main loop is cut at every access to what the interrupt shares: each
  test and each assignment of a flag is an action of its own (`Announce`,
  `SetNow`, `SetLater`, `ClearTests`, `ClearNow`, `ClearLater`, and so on),
  and the interrupt may come between any two.
* How often it may come is a matter of time. A byte takes about 80
  microseconds on the bus, the short stretches of main about 25, so at most
  one interrupt falls into one such stretch; sleeping, waiting for an
  extension and a transfer to it are long. `hit` and `Short` say this, and
  everything the runs find needs no more than one interrupt per stretch. The
  daemon also pauses 12 ms after a packet (`daemon.c:187`).
* Interrupts off means bytes are missed: `Overrun`, and the next pass through
  the interrupt writes the watchdog register without its password, which resets
  the MSP430 (`OverrunResets`). Leaving the interrupt with low power mode
  cleared also clears GIE (`IsrExit`).
* A packet is the three things the node looks at: is it asked for its event,
  is it sent a command (and which), did payload and checksum arrive. A
  checksum stands for what it was computed of (crc16 is taken as
  collision-free). `stream` is what the data bytes of the packet under way
  return; `torn` is a buffer that was written while it was sent.
* Extensions raise their lines at any time (`Raise`, external), answer with
  any `Event`, and `trigger` says whether the answer counts as an event.
* The bits a node puts into the signal mask (`signalMask1`) are output only;
  the daemon's side of them is a parameter of `Daemon`.
* `done` is a history variable: how far the command in `inBuffer` has gone to
  an extension. No action reads it but those that set it.

### Link

`Daemon` and `Node` are each one end of the bus with the other end a parameter.
`Link` puts the two together, at the price of detail: a packet is three steps, and
the stretches of a node's main between two shared accesses come in between.

* `Begin` is `sendMessage` up to the destination bytes: which row is sent
  (`out`), which node is asked for its event (`inq`, by the same ring as in
  `Daemon`), which nodes find the preamble (`sees`) and what they put into the
  signal mask. `End` is the rest on the wire: data, checksums, and what the nodes
  conclude (`endOfPacketEvent`, `endOfPacketEvent2`). `Conclude` is what the
  daemon concludes 12 ms later (`daemon.c:187`): in between a node may already
  have taken down an event the daemon has not passed on, and the daemon may crash.
* The preamble byte is the wired-or of the ids of the nodes that signal. `Or`
  is a constant operator; with nodes 1 and 2 it names node 3, which is not
  there. Whoever is not there answers zeros, the checksum of zeros is zero, and
  the daemon counts the answer as intact (`Received` without an event).
* A disturbance is a set of parts of the packet: the command, its checksum, its
  acknowledgement, the event, its checksum, the checksum that is echoed. Which of
  `Taken`, `Acked`, `Received`, `Cleared` follow is computed from that.
* `Main` and `Finish` are the node's main. `incomplete` is tested in one step and
  `clearMasterInquiry` or `setSignalMaster` assigned in another (`ClearTests` and
  `ClearLater`, `Finish` and `SetLater`), and the packet may end between the two.
  So the flag may be left for the packet after: the next command is then
  acknowledged and swallowed (`node.c:280`, finding 4), and an event stays parked
  in `setSignalMaster` on a node that is in step and holds no trigger. `Tear` is
  `adceService` writing `outBuffer` while it is streamed; an event that waits in
  `setSignalMaster` does not keep main from passing `SignalServed`, and may be
  overwritten (finding 5). A node may hang (finding 1): `MayHang` are those whose
  main is at `while (p->signalMaster)` when the packet makes an event due and also
  wakes it.
* The model allows more than the code in two places. Between test and assignment
  any number of packets may end, where `Node` says that at most one interrupt falls
  into such a stretch. And what a hung node leaves on the line is free: its id may
  stay in the preamble (`tx`) or not; it does not disturb the packets of the others
  for ever, which `Fairness` assumes.
* The assignments of which nothing can come in between that matters are one step:
  a first byte between `if (!p->incomplete)` and `signalMaster = 1` takes the
  trigger away as it would after both, and clearing `masterInquiryCommand` just
  after a packet began is clearing it just before. `Node` has these apart as well.
* `Reset` is a node that starts anew, `Restart` is the daemon started again by
  systemd, within a packet or not. What an extension is asked and says, and when, is
  a choice: a served line or command returns any event, or none.

`Delivery` adds history variables, which no step depends on: `took` and `passed` (the
oldest message was heard), `over` (the event in the packet has left `outBuffer`),
`lost` and `last` (what a step delivered, and why it may have lost something). Its
actions are those of `Link`, each with what it means for these.

`Channel` says what a direction promises: messages are handed over in the order
they were submitted, the oldest one perhaps several times; it leaves only if it
was handed over, or with an excuse. `CommandChannel(n)` maps the row of node `n` and
what the node took to it, `EventChannel(n)` the `outBuffer` of `n`, preceded by what
the daemon has in hand, and what the daemon sends to the controller. The excuses
are named in `ChannelSpec`:

* of commands: the checksum to the node is disturbed and the one back is not
  (`sum`), the node swallows what it acknowledged because its main set
  `clearMasterInquiry` for a packet that had ended (`swallowed`), the daemon gives
  up after `MaxErrors` (`gaveUp`), or is restarted (`restart`);
* of events: the checksum to the daemon is disturbed and the echo is not
  (`eventSum`), main writes another over it (`overwritten`), the node is reset
  (`reset`), or the daemon restarted between the node's conclusion and its own
  (`restart`).

Each is needed: without any of `sum`, `swallowed`, `eventSum` and `overwritten`, TLC
finds `ChannelSpec` violated within the bounds of `link_delivers`. The channel ends
in `inBuffer`: a command that a reset then loses was heard.

### House, Services

`House` is data, written down from the services of `impl/`: five services, their
nodes, interfaces, IOs with pins and tags, and which handler they put on which
key. `Services` is what `Network.js` and `Service.js` do with it.

* A chain of promises is the sequence of callbacks still to come and the service
  whose init is awaited. One `singleServiceRunner(c, s)` is one callback of chain
  `c`: load, initialize, run or nothing, as the three flags of the service say.
  `Resolve` is the timer by which living resolves its init.
* `reloadService` clears the handlers of a service, resets its flags the way the
  code does (`initialized` to true) and starts one more chain over all services,
  also while the first one waits.
* Searches are answered from the cache from the second time on: `cache` keeps
  for every first term of a selection what it found.
* Loading fails (a service file does not compile), or a start fails where it
  depends on a service that is not there (`HelperIsThere`). A rejected promise
  skips the rest of its chain.
* `early` and `faults` are history: whether a reload came while services were
  being initialized, how many failures there were.

### Buttons

From a key to the lamps, for services that run and selections that are found.

* An extension samples its inputs and reports a change (`Sample`) as the ports it
  triggers and a snapshot of the pins. Reports may be lost, or arrive twice, as
  `Link` shows they do.
* `Deliver` is `Network._callback` down to the handlers: every IO on a
  triggered port compares the value with the one each of its handlers was told
  before (`told`), and calls the handlers for which it differs.
* The handlers are those of `impl/helper.js` and `living-service.js`, as
  functions of the closure, the lamps and the value. `colorCycle` sets a timeout
  (`start`) and an interval (`speed`); `Timer` and `Gradient` are their callbacks.
* The handlers of a key are called in turn. No two of one key set the same lamp, so
  `Handed` joins what each does on its own. A report is handed to the four keys a
  wall can have, in the order of their IOs.
* A reload replaces the closures; what their timers still do is kept in `orphan`.
* `LampsFollow` speaks of the handlers whose lamps no other sets (`Rivals`), and,
  once a service has been reloaded, of those whose service turns their lamps off
  when it starts (`Resettable`). The office service does not: its walls drive the
  strips of living and room, while its reset is about its own lamps, so a reload
  leaves a strip lit whose closure is back at the first colour.
* Colours are an index and an intensity in steps; `MaxNet`, `NColours`,
  `Steps` and `NLevels` are bounds.

### Selector

`find` walks the tree and remembers, at every object it was called on, what it
found. A search is a place (the network, an object, or a collection named by the
search that returned it) and a term. `enable`, `toggle` and `on` are called on
what a selector of one or two terms finds; `add` and `tag` grow the tree
meanwhile.

* The tree has three levels, which is all the code builds, so what is above an
  object is written out (`Above`) and needs no recursion.
* A collection (`mixed-multiple`) is a bag of objects, a function from ids to how
  often it holds each: the order in which a collection is walked has no effect on
  the tree, the number of times does, since an object that is in it twice is
  toggled twice. `parseChildren` counts one for every child that the object is or
  is under.
* A selector of two terms makes its second search in what its first returned,
  which may be one object or a collection (`Handle`).

## What is checked

| run | bounds | what it shows |
| --- | --- | --- |
| `daemon_rows` | 2 rows of 2, 3 buffers, 2 errors, 1 payload | the invariants of rows, pool and messages, the refinement of `Outbox`, and that the daemon always returns to its socket |
| `daemon_sncc` | 4 nodes (3 can signal), all masks, all preambles, event checksums hold | the signal list: counted, kept, every signalling node inquired |
| `node_all` | 2 extensions, commands for the second, 1 event | the safety properties of the node; commands are worked off, events are taken |
| `node_hung` | 2 extensions, commands for the second | **violated**: main spins with interrupts off |
| `outqueue_writes` | an inverted output, a plain one beside it, a channel of 2 levels, 2 messages under way | the pins follow the cache, the fold keeps first writes, windows are flushed |
| `outqueue_pins` | two outputs, no channel | **violated**: `disable(); enable()` leaves the output low |
| `link_delivers` | 1 node, which is sent 2 commands and has 2 events, rows of 2, 2 errors, one part disturbed per packet, 1 reset or restart | both directions implement `Channel` |
| `link_heard` | 1 node, 1 command, 1 event, rows of 1, 2 errors, one part disturbed per packet, 2 resets or restarts | every event reaches the daemon or leaves its node, unless the node hangs or the bus falls silent while the event is parked |
| `link_collide` | 2 nodes with 1 event each, commands for a third that is not there, rows of 1, 1 error, the echo disturbed or nothing, no resets | the same while preambles collide |
| `services_start` | the house, 2 reloads, 1 failure | one generation of handlers, nodes added once, searches find, all services come to run |
| `buttons_house` | 4 walls, 1 or 2 keys touched, 1 reload, 2 colours, 2 steps, 1 report under way per node | lamps follow closures, presses count once, gradients run only while a key is held and stop |
| `selector_calls` | trees of 3 objects, 2 keys, 1 tag, 3 terms, 1 service, 2 calls | what is found, remembered and cleared |

Why the bounds are enough. Two rows are the smallest table with a row that
waits while another is served, three buffers are fewer than the four slots, so
that both a full row and an empty pool occur, and two errors are the smallest
limit where a retry succeeds, or fails for good. With one payload commands of
a row differ only in their place and their errors; that payloads keep their order
in the shift is proved (`OutboxIsImplemented`), and checked by the configuration
`MCDaemon_outbox` (1 row of 3, the smallest shift with an inner slot, 3 buffers, 2
payloads). Three signalling nodes are the smallest
ring in which one can be passed over by two. On the node, one more extension
or event adds no new control: there is one `outBuffer`, one `inBuffer`, and
extensions differ only in the order in which main looks at them. Of the
outputs, bits do not influence each other except through the masks they share,
which one output that is written and one that is not are enough to show; two
levels are the smallest duty cycle in which one clamps from below and the other
from above; two messages are what one flush sends, and with one more under way
the order of messages would still be that of a queue. On the bus, messages of
different nodes do not meet: rows meet only in the order in which the daemon visits
them, which is `Daemon`'s, and events only in the choice of the node to ask. So
`link_delivers` and `link_heard` have one node, with all that can happen to it, and
`link_collide` the two that are the fewest whose preambles collide and the fewest of
which one may be passed over; that commands go to a third keeps packets coming that
ask nobody. Two commands are the fewest of which one is swallowed after another was
served, two events the fewest of which one overwrites the other. Two parts disturbed
in one packet lead to the outcomes of one, or of two packets: each of the four
conclusions is reached with each value by a single disturbance. The services are the real
five; with two reloads there are three chains at once, the first of which may
still wait. In `buttons_house` all keys have the handlers of the house; what is
bounded is how many are touched in one behaviour, chosen so that every kind of
handler meets those with which it shares a closure, an interface, a port or its
lamps. Two colours and two steps of intensity are the fewest that have a first
and a last. Three objects are a node, an interface and an IO, or two beside each
other, and two calls are the fewest of which the second meets what the first
remembered. The theorems remove the bounds for all properties they cover.

The node's runs do not check for deadlock, because the node can stop for
good: `node_hung` shows how. In `node_all` this state (`Hung`), and the state
in which main waits for an extension it never signalled (`Forgotten`, the
command having gone between lines 52 and 412), are named as exceptions, so the
run shows that there is no third way to get stuck as long as the bus does not fall
silent. On a silent bus there is: an event out of step, or parked in
`setSignalMaster`, waits for a packet, which `EventHeard` of `Link` names.
The controller's runs do not check for deadlock either: it may have nothing left
to do, and its bounds are used up.

Further configurations are `MCDaemon_outbox`, which passes (see above), and those
for each of which TLC finds a counterexample (see *Findings*):
`MCDaemon_starvation`, `MCDaemon_pastTable`, `MCNode_twice`,
`MCNode_overwritten`, `MCNode_swallowed`, `MCSelector_under`,
`MCButtons_changes`, `MCServices_hardware`.

### Properties

Daemon: `BuffersConserved` (each buffer in exactly one place), `RowsContiguous`
(no hole hides a command), `OnlyHeadTried` (no retry is overtaken),
`Settled` (nothing delivered or given up is sent again), `OutboxSpec` (the
refinement, with liveness), `SocketServed`, `SignalsCounted`, `SignalKept`,
`EverySignalAsked`.

Node: `TriggerHeld` (an event is visible to the daemon whenever it may look),
`NotSleptOver` (no lost wake-up), `BusyNotAcked` (a busy node refuses), `EventKept`
(an event leaves only with a packet that carried it), `CommandServed`,
`EventTaken`; and four that the code breaks: `NeverHung`,
`TransferredOnce`, `OneEventAtATime`, `AckedIsTaken`.

Outputs: `CacheFollowed` (nothing that the cache suppresses was needed),
`FoldKeepsFirst` (what a window is folded to), `LevelForgotten` (the dead branch
of `enable`), `FlushedInPause` (nothing stays queued), and `PinsFollow`, which
the code breaks.

Bus: `ChannelSpec` (order, and no loss but the named ones), `EventHeard` (an
event reaches the daemon or leaves its node, whatever collides, resets or restarts,
but for a node that hangs and a bus that falls silent on a parked event).

Services: `OneGeneration` (no key is answered twice, or by replaced code),
`AddedOnce`, `SearchesFind` (no cached search hides hardware), `AllRun`.

Keys: `LampsFollow` (lamps and closures agree), `GradientHeld` (no timer without
a key that is down), `PressesCount` (each reported press counts once),
`GradientStops`.

Selectors: `FindsWhatItSays`, `CachedStillHolds`, `NoneLeftBehind`.

### Fairness

* Daemon: its one thread keeps running and every transfer it starts ends,
  because it is the master of the bus and waits for nobody (`WF` on `Send` and
  `Pass`); the retry delay passes. Nothing is assumed of datagrams, of the latch
  line or of the outcome of transfers.
* Node: main and the signalled extensions keep running and bytes keep
  coming (`WF` on `Receive`). For a node that holds its trigger that is the
  daemon's side: it keeps sending packets as long as the latch is low or signals
  are pending (`daemon.c:401`). For one that does not, because it is out of step
  or its event is parked in `setSignalMaster`, it is an assumption on the rest of
  the installation, that other nodes signal or commands come from time to time;
  `Link`, where the daemon is part of the model, does not make it. Strong fairness
  on finding the preamble, on being asked for the event and on a packet that
  returns it undisturbed says that the bus is not disturbed for ever and that
  the daemon asks a node that signals, which `EverySignalAsked` establishes
  on the daemon's side under the condition stated there.
* Outputs: the timer of the event loop fires (`WF` on `Elapse`), the daemon
  passes messages on or drops them (`WF` on `Deliver`). `Flush` is strongly fair
  only because the bound `MaxNet` may disable it; the code's flush waits for
  nothing. Nobody is obliged to call `enable`, nor to pause: `FlushedInPause`
  names the callers that never pause as its exception, since the debounce has
  no maximum wait.
* Bus: the daemon goes on sending packets while a command waits, a node signals
  or a signal is pending, and ends each (`WF` on `BeginAny`, `End`, `Conclude`
  together, of which one at a time can be taken).
  Nobody is obliged to send a packet otherwise: the bus may fall silent. Main
  carries out an assignment it has begun (`WF` on `SetLater`). The wires
  are not disturbed for ever: strong fairness on a packet that every node sees that
  does not hang, and whose preamble and mask are read right, also among those that
  ask a given node, and on the undisturbed end of a packet that asks a node for an
  announced event and was not torn. Nothing else is assumed of main, and nothing of
  commands or resets.
* Services: the event loop runs the callbacks that are due and the timer of an
  init (`WF` per chain). Nobody is obliged to press a key or to reload.
* Keys: reports that arrive are handled (`WF` on taking one from the net). Nobody
  is obliged to touch a key; timers need not even fire.

## Findings

Checked by the runs:

1. `node_hung`: leaving the receive interrupt clears GIE along with the low
   power bits (`msp430.c:166`), also when main is awake. If that packet makes
   an event due and main is about to test `signalMaster`, main spins for ever.
2. `outqueue_pins`: with two writes of one output in a window of 35 ms the
   first is sent and the last is cached (`Interface.js:61`), and the cache then
   keeps the next `enable()` from being sent.

`PROJECT.json` quotes the comment or document the code disagrees with. The
further configurations show:

3. `MCNode_twice` (`TransferredOnce`): a command finished during a packet is
   cleared at the packet's end, and main serves it again meanwhile, with its
   first byte rewritten to name extension 1 (`node.c:344`, `node.c:420`).
4. `MCNode_swallowed` (`AckedIsTaken`): the packet ends between the two halves of
   `clearMasterInquiry`, and the next command is acknowledged and dropped
   (`node.c:341`).
5. `MCNode_overwritten` (`OneEventAtATime`): main's guard `while
   (p->signalMaster)` misses an event waiting in the form `setSignalMaster`
   (`node.c:45`; node.c:298 "we'll have two messages to transmit which we do not
   want").
6. `MCDaemon_starvation` (`EverySignalAsked`): the round robin over signalling
   nodes has no `break` and moves on only after an intact event (`daemon.c:291`,
   against its comment in line 289).
7. `MCDaemon_pastTable` (`TableRowsOnly`): destination 32 is accepted
   (`daemon.c:256`).
8. `MCSelector_under` (`DisablesUnder`): `README.md:74` of the repository says
   `$('my-ext-0:out').disable()` disables all outputs under `my-ext-0`; `find`
   asks for one object that has both the key and the tag (`Object.js:73`), and
   disables none of them.
9. `MCButtons_changes` (`CalledOnChange`): `README.md:28` of the repository has
   handlers called "as input changes". An event starts with no value at all, so
   the first report of an interface calls the handlers of its other keys too, as
   released (`Io.js:67`).
10. `MCServices_hardware` (`RunsOnItsHardware`): a service reloaded before its
    turn in the first chain runs before its hardware is registered
    (`Network.js:221`, against `Service.js:60`).

Seen while modelling and covered by an exception of a property, so that no run
shows them by itself: a reload while a key of a gradient is held leaks its
interval (`helper.js:89`; `orphan` in `Buttons`); a gradient that is stopped at
intensity 0 leaves all later colours of that handler dark (`helper.js:76`); the
heartbeat in the hall survives a reload of its service (`living-service.js:160`);
an object that matches two ways is twice in a selection, which toggles it twice
(`Object.js:154`).

## What is proved

TLAPS proves, for every number of nodes, row length, pool size, error limit,
set of payloads, masks and preambles (`SizesAssumption`, `WireAssumption`):

* `TypeCorrect`, `BuffersAreConserved`, `OnlyHeadsAreTried`, `RowsAreContiguous`,
  `HeadsAreSettled` from one inductive invariant `IInv` of `Daemon`. The parts
  need each other:
  `BuffersConserved` cannot be proved alone, since popping a head gives back a
  buffer that must not be in another slot, and that the shifted row has no
  hole follows from `RowsContiguous`; `Settled` needs `Control`, which ties
  `sending` and `i` to the head being sent. These hold under
  `ShiftStride = 1`, which each theorem states as its assumption; TLC shows
  that they fail without it.
* `OutboxIsImplemented` (`OutboxProofs`), also under `ShiftStride = 1`: every step
  of the daemon is a step of `Outbox` or leaves what `Outbox` sees alone. It is
  the safety part of `OutboxSpec`. The length of a row is the number of its slots
  that are not free, which only says where the row ends because it has no hole
  (`RowFilled`); an insertion is then an append (`InsertAppends`) and a pop the
  tail (`PopIsTail`). That a command is accepted only while all rows together hold
  fewer commands than there are buffers is a count: each command has a buffer of
  its own, and the head of the pool is none of them (`RoomInPool`).
* `SignalsAreCounted`, `SignalsAreKept` from the invariant `SnccInv`:
  the count equals the pending signals whenever the code tests it, because the
  node under inquiry is marked and therefore not counted.

and for every set of commands, extensions and events (`ExtensionAssumption`,
`EventAssumption`):

* `TypeCorrect`, `TriggerIsHeld`, `NoCommandSleptOver`, `BusyIsNotAcked`,
  `EventsAreKept` from the inductive invariant `IInv` of `Node`. The property
  that is not checked by name but carries the proof is `ChecksumTaken`: what is
  announced, or about to be, is what the checksum was taken of. Without it
  `EventKept` does not go through, since the comparison of `endOfPacketEvent`
  could succeed for a packet that streamed nothing.

and for every set of outputs and channels, duty cycle and number of messages
under way (`IoAssumption`, `LevelAssumption`):

* `TypeCorrect`, `FoldsKeepTheFirst`, `LevelsAreForgotten`, `CacheIsFollowed`
  from the inductive invariant `IInv` of `OutQueue`. The cache makes the writes
  of a digital output alternate, so the first write of a window agrees with the
  last exactly if their number is odd; that is why `FoldKeepsFirst` speaks of the
  parity. `CacheFollowed` needs it at the flush, and needs to be stated about
  the last message that names an output (`Shows`) to survive the messages before
  it. The lemmas about sequences of messages (`AppendUnnamed`, `AppendNamed`,
  `DeliverFirst`, `LoseOne`) say what an append, a delivery and a loss do to it.

and for every bound on reloads and failures (`BoundAssumption` of `Services`):

* `GenerationSafe` from `GenInv`: a service that has handlers runs, is loaded,
  and its handlers are one run's, made by the instance that lives. That a
  service is only started while it is not running, and loses its handlers when it
  stops, carries it over every interleaving of chains.
* `AddedOnceSafe` from `AddInv`: what was added belongs to services that are
  initialized, and `initialized` is never taken back. It rests on `NodesAreApart`,
  that no two services of the house have a node in common.

* `TypeCorrect` and `SearchesFindSafe` from `SearchInv`: unless a reload came early
  or something failed, the registered nodes are those of the initialized services,
  and as long as one is not initialized there is one chain, whose next callbacks
  initialize the rest in the order of the list, no handler is on any key, and
  nothing was searched for but the keys of registered nodes (`InOrder`, `Starting`).
  So every search by tag comes when all hardware is there. That it then finds
  something is a fact about the house (`HeadsProvided`).

and for the house as it is wired, any of its walls and any number of colours, steps
of intensity, levels and reports under way (`InstanceAssumption` and
`BoundAssumption` of `Buttons`):

* `TypeCorrect` and `GradientHeldSafe` from `HouseInv`. That a colour stays below
  `NColours` needs to know that only `colorCycle` has one, and that a held key
  stays held across a reload needs to know that no key has handlers of two
  services (`OneServiceAKey`).
* `LampsFollowSafe` from `FollowInv`, which adds that only a `colorCycle` has
  timers. Most of it is about the house: which outputs each selection of it finds
  (`LampsOfFollowed`), that the three circuits of a cycle are apart
  (`CircuitsApart`), that `allDown` and a reset take all lamps of a handler or none
  (`AllDownCovers`, `ResetsWhole`), and that a handler without rivals is not
  touched by the others (`Untouched`).
* `PressesCountSafe` from `CountInv`. The property is about a moment when no report
  is under way, and is not inductive; the invariant holds in between. A press is
  `Pending` if a report under way shows a key down that the controller, when it
  comes to that report, takes for up (`Before`); the state of a cycle and the
  number of its pending presses add up to what was pressed, modulo 4. `Tracks`
  says that a report that does not name the port of a key has the key as the one
  before it had, and that the last has it as it was sampled; without it a report
  that reaches only some of the keys would change what is pending for others. A
  sample adds the presses it finds (`AddPending`); handling the first report takes
  out exactly those for which the handler is called (`TurnPending`,
  `HandedCounts`), so that doing it twice changes nothing more; dropping it then
  moves the rest up (`DropPending`, a bijection).

and for every set of keys, tags, services and terms and any number of objects and
calls (`TermAssumption`, `BoundAssumption` of `Selector`):

* `TypeCorrect`, `CachedStillHoldsSafe`, `NoneLeftBehindSafe` from `SelInv`: the
  tree has three levels, with every object after its parent; every remembered
  search was made at a place that exists, and what it found matches and is below
  that place; only IOs have handlers, and only those of services that run. A
  collection lists an object only if it is, or is under, one of the collection it
  was searched in.
* `FindsWhatItSaysSafe`, an action property, from the same invariant. Its part
  `Once`, that a search of the network finds no object twice, is what makes the
  collection of a term that one object matches that object itself (`Handle`); the
  second term is then searched for below it, and otherwise in the collection too.

and for every number of nodes, row length, error limit, set of disturbances and
number of resets and restarts (`BusAssumption`, `BoundAssumption` of `Link`):

* `TypeCorrect` from the inductive invariant `IInv` of `LinkProofs`. To the types it
  adds `UnderWay`: during a packet nobody who does not hang signals, who hangs does
  not follow, and the row whose command is under way still has it. One lemma per
  action keeps it; the stretches of main are one, since all they move is the flags of
  their node (`MainOnly`, `MainFlags`).
* `ChannelsAreImplemented`, that `Delivery` implements a `Channel` for the commands
  and one for the events of every node, from the invariant `DInv`. It ties the
  packet to the node (`Carried`): bytes that still agree with their checksum are the
  event announced, or one that has left `outBuffer` since, in which case main has
  put another there and is past it (`Replaced`); and it says that a command that is
  acknowledged and was not taken has a cause on record before the daemon concludes
  (`Excused`). One lemma per action and direction then shows that the action is a step
  of that node's `Channel`. A command that leaves its row unheard was acknowledged with
  its checksum disturbed, was swallowed or was given up. An event that is taken down
  and not in the daemon's hands had its checksum disturbed or its bytes torn;
  while it is in its hands, main may announce the next one, and the channel holds
  two (`EventsAre`). `LastExists`, that a finite set of numbers has a greatest, gives
  the ring of `preProcessSNCCmessage` a node to choose.

Only model-checked: the liveness properties (`SocketServed`, `EverySignalAsked`,
`CommandServed`, `EventTaken`, `FlushedInPause`, `AllRun`, `GradientStops`,
`EventHeard`) and that of `OutboxSpec`, which are out of the prover's reach. Every
other property of a passing run is stated by a theorem.

## What is left out, and why

* Register set-up, pins, the bytes of the two SPI buses, debug output: no state
  the properties are about.
* Bytes inside a packet, and the bit arithmetic of crc16: a checksum stands for
  what it is taken of, except that zeros have the checksum zero (`Link`).
* Times. The 50 ms retry delay is an event that comes at some time; the relation
  between a byte and main's stretches is in `Node` as said above.
* The exchange between node and extension byte by byte (`adce2.c:143-180`), and the
  flash upload with `flash.js`. `Node` takes the extension as an external partner.
* `throttle`, `timedAverageFilter` and `clearableTimer` of `Event.js`, which no
  service calls; analog inputs; HSL to RGB, which is floating point arithmetic.
* The heartbeat in the hall, and `test.js`, `test2.js`, `oldtest.js`: scripts that
  drive real hardware.

## Plan

Done: `Outbox`, `Daemon`, `DaemonProofs`, `OutboxProofs`, `Node`, `NodeProofs`,
`OutQueue`, `OutQueueProofs`, `Channel`, `Link`, `Delivery`, `LinkProofs`, `House`,
`Services`, `ServicesProofs`, `Buttons`, `ButtonsProofs`, `Selector`, `SelectorProofs`.

To come, in this order:

1. `Adce`: trigger detection, the ready/signal handshake with the node, an
   exchange cut short, the pending return.
2. `Flash`: script, chunks, sequence numbers modulo 256, erase and write
   positions.
3. `Fifo` (linked list refining a sequence) and `Crc` (crc16 against its
   polynomial definition on short inputs).
