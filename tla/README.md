# A TLA+ model of serial-mcp-server

serial-mcp-server is an MCP server that gives a client tools to work with serial
ports: open, close, write, read, flush, wait for a pattern, stream received
bytes, drive the control lines. It serves one client over stdio, or many
sessions over HTTP that all work on the same set of connections. It is a tokio
program: every request runs in a task of its own, tasks interleave at each
`await`, and a request can be cancelled while it waits.

The modules here model that program from its source (`src/src/`), TLC checks them
on small instances and TLAPS proves the invariants and the refinements for every
size.

## 1. The system

| component | code | state | operations | modules |
|---|---|---|---|---|
| connection registry | `serial.rs` 386-493, `tools/port_ops.rs` | `connections` and `opening_ports` behind one mutex; the Arcs that tasks hold | `open` (two critical sections, the device is opened between them), `insert`, `close`, `get`, `list_open`, `count` | `ConnectionRegistry`, `PortOwnership` |
| background streams | `tools/stream_ops.rs`, `tools/helpers.rs` 299-363, `server.rs` 145-156 | the `streams` map behind a mutex; one task per stream | `subscribe` (background and blocking), `unsubscribe`, abort on `close` | `RxStreams`, `StreamReplies` |
| control lines | `tools/control_ops.rs`, `serial.rs` 189-206, 319-331 | BREAK, DTR, RTS of a port; the guard of a call and the task it spawns | `send_break`, `set_dtr_rts` | `ControlLines` |
| io of one connection | `serial.rs` 258-331 | the io object behind a fair mutex | `write`, `read` in slices of 50 ms, short operations | `PortIo` |
| write and flush tools | `io_ops.rs` 16-94, `serial.rs` 258-264, 312-317 | the operating system's output queue, what each client knows to be written | `write` with short writes and errors, `flush` of the output | `SentBytes` |
| reading tools | `tools/helpers.rs` 85-293, `io_ops.rs`, `pattern_ops.rs`, `stream_ops.rs`, `server.rs` 542-558 | one buffer per call | `read`, `wait_for`, both modes of `subscribe`, the raw resource, `flush` | `ReceivedBytes`, `ByteFates` |
| resource notifications | `server.rs` 129-156, 325-344, 579-606 | reference counts, one map per session | resources/subscribe, unsubscribe, notifications of `open` and `close` | `ResourceUpdates` |
| sessions and transports | `main.rs` | what sessions share: the manager and the streams map | start, serve, stop | in `RxStreams`, `ResourceUpdates` |
| pagination | `server.rs` 32-58, 411-489 | none; the client keeps the cursor | the pages of resources and templates | `ListPages` |
| pure helpers | `codec.rs`, `limits.rs`, `security.rs`, `parse_resource_uri`, argument checks | none | | not modelled |
| prompts, completions, port listing, schemas, types | `prompts/`, `server.rs`, `schema_helpers.rs`, `tools/types.rs` | none | | not modelled |

How they interact: every tool looks its connection up (`get`), works on its own
Arc, and drops the Arc when it returns. Two hand one on to a task that outlives the
call: `subscribe` to its stream, and a `send_break` that is cancelled or cannot clear
BREAK to the reset task of its guard. Only the registry decides whether an id is
valid, and only the io mutex orders what tools do to a device. `close` changes the
registry, then the streams map, then sends notifications, each under a lock of its
own. A stream is a task that outlives the request that started it and is reached
through the handle in the map alone.

What makes each part correct, and what makes it hard:

* **registry**: a port has one owner, and a reserved port is given back whatever
  the device does. Hard because `open` checks and registers in two critical
  sections.
* **streams**: a running stream can be stopped, there is one per connection, and
  a closed connection is released. Hard because four handlers and the stream
  itself change three pieces of state in separate steps, because an abort
  takes effect later, and because tasks of other tools still hold the connection.
* **control lines**: BREAK ends, and lasts as long as asked; DTR and RTS belong to
  one call. Hard because of cancellation, driver errors and overlapping calls.
* **io mutex**: a write is not kept waiting by readers, a timeout is kept. Hard
  because several timers and a queue interact.
* **write and flush**: what `write` counts has left the machine. Hard because a device
  takes part of a message, a flush by another client drops what is queued, and an
  error says nothing of the bytes already taken.
* **reading tools**: no byte is delivered twice or lost without a cause, the match
  is not missed. Hard because calls share the bytes and end in many ways, each
  with bytes in hand.
* **notifications**: subscribers learn of changes. Hard because subscriptions are
  per session and connections are not.
* **pagination**: a walk gets each item once and ends. Hard at the ends of the word
  and with cursors the server did not make.

`PROJECT.json` lists the hazards line by line, with the properties that cover them.

## 2. The modules and the code

### ConnectionRegistry, PortOwnership

One action per critical section of the manager's mutex (`Reserve`, `Register`,
`ReturnOpenError`, `Insert`, `Close`, `Get`), plus the opening of the device with no
lock held (`OpenDevice`, `OpenDeviceFails`). The mutex itself is left out: nothing
is awaited while it is held, so a critical section is one step. `arc` is the
connection a task owns or has an Arc of; ids are UUIDs, drawn at most once.
Refused calls change nothing and are stuttering steps. Whether the operating
system would refuse a port that another Arc still keeps open is left open:
`OpenDevice` and `OpenDeviceFails` are both possible.

`PortOwnership` is the abstract promise: a port is owned by nobody, by one running
`open`, or by one registered connection, and changes hands in whole steps.
`ConnectionRegistry` implements it (`OwnershipSpec`).

### RxStreams

The handlers of `subscribe`, `unsubscribe`, `close` and of any other tool, cut at the
awaits between which another task can change what they read: lookup, spawn,
registration; removal from the registry, removal from the map. `task[s]` is
"aborting" after the handle was dropped and until the task stops at an await and
drops its Arc. `SendBreakFails` is the third way an Arc changes hands: the guard of a
`send_break` moves it into a task, which gives it up when it has had the io mutex
(`ResetEnds`). The module is built on the registry (`INSTANCE ConnectionRegistry`), whose
tasks are the requests, the streams and the reset tasks; each action takes a step of the
registry or leaves it alone. A connection that is closed and that nobody has in hand stays
so (`ReleasedForGood`): `get` is the only way to a connection, and a subscribe or a guard
clones the Arc it holds. Until the last reset task is done the device of a closed connection
is still in use, which `Released` says and `AbortedStreamsRelease` promises to end.

### StreamReplies

`RxStreams` with a history of what `subscribe` and `unsubscribe` told their clients:
`told` has the streams that a reply reported with `replaced_previous` or `was_active`.
Each action is one of `RxStreams` with the flag its handler returns, which is whether
the map had an entry. The module answers a question that the map alone cannot: a
blocking `subscribe` removes whatever stream is registered when it ends, also one
subscribed meanwhile, and a stream that ended by itself is still reported active. Both
are what the code does; what holds is that one reply reports each stream, and that
nothing but a reply or a `close` takes a stream out of the map.

### ControlLines

`send_break` with its states asserted, notifying, holding, releasing; `Cancel` and
`ReleaseFails` drop the armed guard, which spawns a task (`resets`) that clears BREAK
when it gets the io mutex, and whose own failure is ignored (`given`).
`set_dtr_rts` drives its two lines in two steps under one hold of the io mutex; a line
is the call whose value it has. Calls that transfer bytes (`Transfer`) hold the same mutex
while they wait for the device, again and again. A deadline may pass at any time: what
holds here holds for every duration. That BREAK is cut short is a violation below;
`CutShortByAnother` says how far it goes. The history `met` has the calls that a call has
overlapped, from the assertion of each until it has returned and its reset task has run: a
call that has met nobody holds BREAK to its deadline, however many calls came before.
A mixture of DTR and RTS is possible after an error of the second line, which leaves DTR
changed; `LinesOfOneCall` says that the call that caused it returns that error.

### PortIo

The io mutex with its queue (tokio's mutex is fair), and time counted in poll slices.
A read goes round `checking`, `queued`, `polling`, `sleeping`, and fixes its deadline once
(`asked` is its timeout, `left` what remains of it) and the length of a poll before it queues. `Tick` lets a slice pass when nothing else can
happen before the next timer. Cancellation drops the future wherever it waits
(`DropQueued` gives up its place, `DropPolling` the mutex, `DropAsleep` neither). Two
simplifications keep the steps in a slice finite: the 5 ms sleep between polls takes
no time of its own (other tasks do run during it), after an end of file it lasts to
the end of the slice; and a task starts at most one call in a slice. The other short operations (flush, control lines) behave like a write
that returns.

### SentBytes

A byte is a writer and a position in its message. `line` is what left for the device
followed by what the operating system still queues, `gone` the length of the first
part. `write` takes the io mutex, hands over as many bytes as the device takes
(`DeviceTakes`, perhaps none), and holds the mutex until `io.flush` returns. That it
returns Ok only once everything queued has been sent is the contract of
`AsyncWrite::flush`, an assumption about code outside the repository.
The client is part of the model, as the tool's reply asks it to be: it goes on after
`bytes_written`, and repeats a call that failed. `unsure` are bytes of failed calls,
which may or may not arrive.

### ReceivedBytes, ByteFates

Bytes are numbered in order of arrival and move from the operating system's buffer
to a call's buffer, then to the client, or are lost with a cause: flushed,
cancelled, timed out, refused by the encoding, aborted. `Take` is one
`SerialConnection::read` that returns; it takes as many bytes as are there and fit,
or fewer. Each tool has its own actions for every way it ends, with the order of
checks the code has (in `wait_for`: cancellation, match, size, deadline). Which of
a deadline, a cancellation and the next byte comes first is open. `FirstMatch` is
`find_subslice` on the values of the bytes; `wait_for` searches its whole buffer again
before each read, so a match that straddles two reads is found, and is answered even
when the deadline has passed as its last byte came, or when that byte filled the buffer
(`NoMatchDropped`, which says where the pattern is without the search: in bytes of the call
that are next to each other in order).

`ByteFates` is the abstract promise, in sets: bytes wait, go to one reader the oldest
first, and go on to its client or are lost, all that a reader has in hand at once.
`ReceivedBytes` implements it (`FatesSpec`): `Take` is its step of the same name, an answer or a
notification passes on or drops (an encoding may refuse it), every other end of a call drops.

### ResourceUpdates

Reference counts per session, and the notification as the three steps of
`notify_resource_changed`. A notification that cannot be sent is logged and forgotten
(`UpdateFails`, `ErrorForgotten`). `unseen` remembers who was subscribed to what changed and
has not been told, `invited` whose call has changed what it was subscribed to at some
moment of that call. Ids are random, so nobody subscribes to one before it is open. A
session has one open or close under way at a time. `ToldBeforeReturn` is about the step
that ends a call, `OwnChangesUpdate` that there is one. The counts are looked at before the
notification goes out, so that a client may be told after it has unsubscribed;
`ToldOnlyIfInvited` says that it has then been subscribed during the call.

### ListPages, MCHandler

`paginate` as it computes: the offset of a cursor cut down to the length of the list,
its end as a sum that saturates at the largest word (`WordMax`), the next cursor only
if something follows. A cursor that is not the base64 of a number counts as none, so
any text is `Garbage`. The walk is the client's. Both lists are constant in the code (two
items each, pages of 100: connections are not listed one by one), so that a walk sees
one list; the module takes lists and pages of any length. `MCHandler` puts this next to `ResourceUpdates` for
TLC; they have no variable in common, so the one rests while the other runs.

## 3. The runs

Every property has a faulty variant of some definition (marked "Faulty variant" in
the modules and listed under "mutants") with which TLC finds it violated.

| run | instance | what it shows |
|---|---|---|
| `registry` | 3 tasks, 2 ports, 4 ids | a port has one owner; reservations and running opens match one to one; no registered port is being opened; refinement of `PortOwnership`; a reservation is given back |
| `streams` | 3 requests, 2 streams, 1 reset task, 2 connections on one port | the handle of a running stream is never lost; two streams overlap only while one replaces the other; each stream is reported by one reply and leaves the map by a reply or a close; aborted streams and reset tasks give the device back, and nothing gets it again |
| `lines` | 2 breaks, 2 set_dtr_rts, 1 transfer that recurs | BREAK is never left unattended, is cut short only by a call that it overlapped, and ends; lines are mixed only by a call that returns an error |
| `port_io` | 2 readers with up to 2 slices, 2 writers | nobody who is gone holds the mutex or waits for it; a write waits at most one slice of each reader; a read overruns its own timeout by at most one slice of the other; a read returns if writes do |
| `bytes` | 2 calls, 4 bytes of 2 values, max_bytes 3, a pattern of 2 | every byte is in one place; order; only `wait_for` loses bytes at a deadline; it never ends without a match that it has; sizes; refinement of `ByteFates` |
| `writes` | 2 writers, messages of 2 bytes, 3 calls each | the bytes that `write` reports have left; only bytes of failed writes come twice or late |
| `resources` | 2 sessions, 2 connections, counts to 2; lists and pages to 5, every cursor, words to 5 | a session is told of its own changes before the call ends, unsubscribes or cannot be told, and is told of nothing it was not subscribed to; a walk of pages returns each item once, from where it began, and ends |

Violations, each a disagreement between the code and something it says of itself
(quoted under "findings"):

| run | what the code does |
|---|---|
| `streams_close_race` | a subscribe that looked its connection up before a close registers its stream after it; the stream keeps the closed port, and a second close is refused before it reaches the map (`unsubscribe` with the id still stops it) |
| `break_cut_short` | the release of one `send_break` ends the BREAK that another holds |
| `read_stalled` | a read with a timeout waits without limit for the mutex behind a stalled write |
| `wait_for_timeout` | a `wait_for` that times out drops the bytes it consumed, which a prompt tells the client to show |
| `updates_all` | a subscriber is not told of a change another session makes |

Why the instances are large enough. Conflicts in the registry are between two opens
of a port; a third task and a second port let a close or an insert come in between.
A stream needs a second one to replace it and a third handler to close meanwhile.
BREAK can be cut short or left on by two calls; that a call is not cut short by one that
is over needs two, one after the other. In `port_io` both bounds are reached, the one of a
read for the short timeout as for the long one, so that neither can be lowered. In `bytes` a call can fill up with bytes left over,
a match can straddle two reads, and two calls can take alternate bytes. In `writes` a
message takes a short write, a failed one and its repetition, with the other writer and
a flush in between. In `resources` offset and page size together exceed the word.
Bounds named in the modules: `MaxSlices` and `Cap` (PortIo), `MsgLen` and `MaxCalls`
(SentBytes), `MaxBytes` and `NBytes` (ReceivedBytes), `MaxCount` (ResourceUpdates),
`WordMax` (ListPages). `CHECK_DEADLOCK FALSE` stands where calls or bytes are
finite and the model really stops.

## 4. Fairness

* registry: a running `open` takes its steps (`OpenStep`); request futures are polled
  to the end, since the server never drops the future of `open`.
* streams: a handler that waits for the streams map gets it, since no lock of it is
  held across an await; an aborted task reaches an await. An assumption apart from
  these, `ResetsEnd`, is that the reset task of a guard gets the io mutex, which a stalled
  write could keep from it. Nothing else is fair: an idle device never fails a read, and a
  client may never close.
* control lines: a deadline or a cancellation is seen by the select between two
  notifications (strong fairness, as ticks recur); the mutex is handed over in order of
  arrival, so that who waits for it gets it although transfers take it again (strong
  fairness); and a notification is sent or fails. The last is an assumption about the
  transport: the notification is awaited outside the select. `TransfersEnd`, an assumption
  about the device and stated apart, is that a transfer gives the mutex back: a write has no
  timeout, and without the assumption `BreakEnds` fails, as TLC shows.
* PortIo: time passes, the mutex is handed over, tasks run. `FairSpec` adds that writes
  return; `StallingSpec` leaves this out, as a device with flow control may not
  accept bytes.
* ResourceUpdates: a notification under way goes on, again an assumption about the
  transport.

Other modules make safety claims only.

## 5. The proofs

TLAPS checks these for every value of the constants; the assumptions are the named
ones of the modules (ids, ports and tasks are distinct from each other and from the
null values; the accepted ports are ports).

* `ConnectionRegistryProofs`: `TypeCorrect`, `PortsUnique`, `ReservationsOwned`,
  `RegisteredDone`, `ImplementsOwnership`. `PortUnique` is not inductive: `Register` adds
  a connection without looking. The invariant `IInv` adds that no registered port is
  reserved, that reservations and running opens match, that an opened connection is on
  the port its task reserved, and that registered ids have been drawn. The refinement
  then maps each action to an abstract step or a stutter.
* `RxStreamsProofs`: `TypeCorrect`, `StreamsStoppable`, `OneStream`, `OneReport`,
  `EntryKept`, `ServerOwnsPorts`, `ServerPortsUnique`, `GoneForGood`, `RepliesBehave`. The invariant says where the handle of a stream is
  (map, or the request that spawned it) and which connection a handler and its stream
  share. For `OneReport` and `EntryKept` it is carried over to `StreamReplies`, whose steps
  are steps of `RxStreams` (`RepliesBehave`). Every step of the server is one of the
  registry or leaves it alone (`RegistryBehaves`): the proofs of the registry are
  instantiated with the requests, the streams and the reset tasks as its tasks, and give that the server implements `PortOwnership`
  and that no two of its connections have one port. `GoneForGood` rests on an action lemma
  of the registry (`GoneStays`): `get` needs a registered id, and a used id is not registered anew.
* `ControlLinesProofs`: `TypeCorrect`, `BreakAttended`, `BreakHeldAlone`, `LinesPaired`. The
  last needs that whoever has set DTR and not RTS holds the io mutex; `BreakHeldAlone` that the
  task of a guard is there only after its call has returned, and that whoever may still
  clear BREAK is among the calls that a holding call has met (`ClearersMet`).
* `PortIoProofs`: `TypeCorrect` and `MutexSound` for any readers and also when writes stall;
  `WriteWaits` and `ReadOverruns` for finitely many readers and writes that do not stall (with
  a stall there is no bound, as `read_stalled` shows). A queued call is
  overtaken by nobody, so the slices it can still wait for are the readers ahead of it
  (`Ahead`). `ReadOverruns` is about the timeout each read has asked for. The invariant says that age plus those slices stays within the bound, for
  every call at once; a slice that passes adds one to the age and takes one from the
  slices still due, because the reader that held the mutex is ahead of nobody after it.
* `SentBytesProofs`: `TypeCorrect`, `ReportedBytesLeft`, `InOrderUnlessRepeated`. The call
  that has handed bytes over holds the mutex, which keeps a flush of the output away
  from them (`GivenInLine`); bytes in `line` beyond those reported and given are of failed
  writes (`BeyondUnsure`).
* `ReceivedBytesProofs`: `TypeCorrect`, `BytesOnce`, `OrderKept`, `LossAtDeadline`,
  `MatchesAnswered`, `SizesKept`, `LoneReaderComplete`, `FatesKept`. A
  call's bytes, passed on and buffered, are one increasing
  sequence; `Shares` says that these sequences and the lost bytes divide the bytes
  1..old that have left the operating system, which holds the rest in order. Lemmas
  show how taking, losing and flushing change the division (`TakeShares`, `DropShares`,
  `FlushShares`), and four lemmas about steps cover all actions: a read of the
  connection, bytes passed on, bytes lost, and those of the operating system. That a
  byte has one place then follows since an increasing sequence repeats nothing.
  `MatchesAnswered` needs that only a call that has returned lost bytes by failing
  (`FailedReturned`), that an answer without a match has none for the search, and that the search is complete (`SearchComplete`): bytes that are next
  to each other among those of the buffer are at positions that go up by one, so that a
  pattern hidden in them occurs. `LoneReaderComplete` says that one reader, with no flush and no failure,
  sees all that the device sent: an increasing sequence that has all of 1..n is 1..n.
  `FatesKept` maps each action to a step of `ByteFates` or a stutter.
* `ListPagesProofs`: `EachItemOnce`, `WalkAdvances`, for lists and pages of any length and
  words of any width. The cursor of a walk is where the items received end.
* `ResourceUpdatesProofs`: `TypeCorrect`: whoever is owed a notification is subscribed, also
  when counts change between the steps of a notification; `CallersTold`: a call that ends
  leaves its own session owed nothing for what it changed, unless the notification could
  not be sent; `InvitedTold`: who is told was subscribed during the call. A count above zero
  of what a call has changed implies `invited` at every step of the call.

Facts about natural numbers that would take an induction (the least position of a match,
positions that go up by one) are proved from a least counterexample (`LeastMember`).

Only model-checked: all liveness (`ReservationResolves`, `AbortedStreamsRelease`,
`BreakEnds`, `ReadReturns`, `OwnChangesUpdate`), which is out of the prover's reach.
`FirstMatch` is defined by its result; that the search of the windows finds it is taken
from the standard library's `position`, and `MatchesAnswered` relates it to `Hides`, which
is defined without it.

## 6. What is not modelled

* Formatting, logging and progress numbers; the texts of errors. The error kinds are in
  the models as the ways a call ends.
* The MCP library, its transports, startup and shutdown (`main.rs`): no state of this
  program beyond what sessions share, which is modelled.
* `codec.rs`: conversions without state, done by the hex and base64 libraries and the
  standard library; a model would restate those. That an encoding may refuse bytes,
  and what is lost then, is in `ReceivedBytes`.
* `limits.rs` and the checks of arguments: comparisons of one value with one constant.
  The models take the values that pass.
* `security.rs`: a filter and a search over patterns of the glob library, fixed at
  startup. `ConnectionRegistry` takes the accepted ports as a constant (`Allowed`).
* The forms of resource uris, prompts, completions, port listing, schemas: functions of
  their arguments and of reads of the registry.
* Driver errors of DTR and RTS beyond their effect on the lines, and
  `SerialConnection::send_break`, which only tests use.

Two hazards have no property. A peer that takes no progress notification keeps BREAK
on (`control_ops.rs:124`): the fairness of `ControlLines` assumes that it does, without it
`BreakEnds` has an obvious counterexample. A stream of a device at its end
of file polls on (`helpers.rs:310`): `PortIo` has the poll, and nothing says it should end.

## 7. Plan

Done, in this order: registry and its abstraction, streams on top of it, control
lines, the io mutex, received bytes, notifications; then sent bytes, the replies of the
streaming tools, pages, the proofs of all invariants, of the action properties and of the
refinements (`PortOwnership`, which the server keeps, and `ByteFates`).

Next, where the code still has a question that no module asks:

A composition of `PortIo` and `ReceivedBytes`: a `write` whose answer a `wait_for` that was
started before it sees in time, with the io mutex between them.

For the proofs: an abstract output line (bytes of whole or partial messages, in the order
of the calls) that `SentBytes` implements, and with it that what a device receives from one
client between two of its errors is a run of its message without gaps.
