# A TLA+ verification of agentx-subagent

`agentx-subagent` is an AgentX subagent in C over two LMDB environments, with a
Rust telemetry application beside it. This directory holds TLA+ models of its
core, TLC configurations that check them on small instances, and TLAPS proofs
of what matters most for every instance. `PROJECT.json` is the index: which
definition models which lines, which run checks which property.

## The system

| Part | State it keeps | Operations | Correct when |
| --- | --- | --- | --- |
| Writable scalars, `src/generated/demo_config.c` | a value per key in `config.lmdb` or `cache.lmdb`; per request an undo stash | GET and the six SET modes | a rolled back SET leaves no trace, stored values are legal |
| `portConfigTable`, `src/generated/demo_config_table.c` | a cell per key; a row may span both environments | as above, plus row walks | as above; undoing a new cell deletes it |
| Bootstrap, `src/generated/storage_bootstrap.c` | none | seed each environment in one transaction, missing keys only | never overwrites, always completes |
| Alarm, `src/demo_trap.c` | `temp_alarm_state` | check, send | one trap per excursion, follows the temperature |
| IPC server, `src/ipc_server.c` | connection slots with receive buffers | accept, read, split frames, handle, answer | every whole request answered once and in order, loop not held up |
| Process, `src/main.c` | environments, session, socket, stop flag | start-up, select, `snmp_read`, dispatch, `run_alarms`, shutdown | every exit gives everything back, everybody gets a turn |
| Storage layer, `src/storage_lmdb.c` | LMDB environments | typed get, set, delete, transactions, iterators | transactions atomic, the writer lock never left behind, types checked |
| Row sets, `src/table_rows.c`, `src/table_oid.c` | a sorted snapshot of instances | load, iterate, parse and build keys | no steady cell skipped, keys unambiguous |
| Read-only objects, `src/generated/demo_status*.c` | none | GET, GETNEXT | answer what telemetry wrote, no holes |
| Telemetry, `rust-app/src/bin/telemetry.rs` | sample count, interval | write a sample, delete rows | types as the handlers expect, counters that count since boot |
| Rust storage crate, `rust-app/src/storage` | as the storage layer | typed put and get, rows | same cells and the same keys as C |
| Rust IPC client, `rust-app/src/ipc` | a connection, request ids | roundtrip | a call ends with its own answer or an error |

**How they interact.** The subagent is one thread: `snmpd` sends AgentX
messages, IPC clients send frames, a timer fires every five seconds, and each of
these runs to completion before the loop looks at the next. The phases of a SET
are separate turns (TESTSET runs RESERVE1 and, through net-snmp's internal
session, RESERVE2; COMMITSET runs ACTION; UNDOSET runs UNDO; CLEANUPSET ends
it), so IPC requests and timers run *between* phases. The telemetry process
writes `cache.lmdb` at any moment.
A SET of `tempThresholdMilliC` checks the alarm in ACTION; an IPC write or an
UNDO of the same object does not, and relies on the timer.

**What is hard.** Handlers of different clients interleaved between SET phases;
one varbind of several failing after others are committed; crashes and power
cycles between any two writes, with one environment on tmpfs and the other kept;
streams cut in any way; a slow client on the other side of a blocking send, a
fast one that is never done; error paths inside a transaction that all processes
queue for; tables walked while they change; two languages that must agree on
bytes and keys; a signal between the test of a flag and the `select` after it.
`PROJECT.json` lists these as hazards, each at its line.

## The modules

| Module | Models | Extends |
| --- | --- | --- |
| `DemoMib` | the writable objects: ranges, home environment, IPC allowlist, defaults | |
| `Subagent` | the process over both environments | `DemoMib` |
| `SubagentHistory` | history variables on top of it: what was promised to clients | `Subagent` |
| `IpcServer` | connections, buffers and frames | |
| `AtomicStore` | what the storage layer promises: an abstract specification | |
| `StorageLmdb` | the storage layer over LMDB, several processes | instantiates `AtomicStore` |
| `CellCodec` | the bytes of a cell, written and read by C and by Rust | |
| `CellKey` | the key of a table cell, written and parsed by C and by Rust | |
| `Telemetry` | telemetry, the objects it feeds, and a polling manager | |
| `TableWalk` | a GETNEXT walk of a table that changes | |
| `IpcClient` | the Rust IPC client against the server's contract | |
| `MainLoop` | the life of the subagent process | |
| `SubagentProofs` | the theorems about `Subagent` and its history | `SubagentHistory` |
| `FormatProofs` | the theorems about cells and keys | `CellCodec`, `CellKey` |
| `StorageLmdbProofs`, `MainLoopProofs`, `IpcServerProofs`, `IpcClientProofs`, `TelemetryProofs`, `TableWalkProofs` | the theorems about the module of that name | that module |
| `MC...` | instances for TLC | |

How they fit: `StorageLmdb` justifies what `Subagent`, `Telemetry` and
`TableWalk` take for granted, that a storage call or a transaction is one step.
`CellCodec` and `CellKey` justify that a value written by one language is the
value the other reads, under the same key. `IpcServer` is proved to keep the
contract `IpcClient` assumes, that requests sent whole are acted upon at most
once and answered in order to whom they came from; that they are answered at
all is the model-checked `NoRequestForgotten`. `MainLoop` shows that the loop the other modules run in is
entered only with both environments seeded and is left cleanly.

Names with an underscore suffix (`Seed_Overwriting`, `handle_frame_Silent`, ...) are
deliberately wrong variants of the definition that follows them. Nothing uses
them; `PROJECT.json` pairs each with the property that notices it.

### `DemoMib`

An object is `<<name, instance>>`; a value is an integer, and an octet string is
represented by its length, which is all a handler looks at. The generated
handlers are instances of two templates, so each is a record of the points where
it differs from the others: the range accepted in RESERVE1, and the environment.
The IPC allowlist (`IpcRange`) and the DEFVALs are separate definitions because
they are separate, hand-kept tables in the code: the lemma `MibConsistent`
proves that they agree with the handlers.

### `Subagent`

`store` is both environments at once, for the writable objects; `cpu` is the one
telemetry key anything reacts to. `phase`, `pdu` and `stash` are the SET in
progress; `cursor` and `failed` the varbind loop inside an ACTION or UNDO
message, one transaction per varbind. `alarm`, `sending` and `trap` belong to
`demo_trap.c`; `sending` is the gap between moving the state and reading the
values again, in which telemetry can write or the process can die.

| Action | Code |
| --- | --- |
| `OpenConfig`, `OpenCache` | `subagent_storage_init` with the two bootstraps |
| `Reserve1`, `Reserve2`, `ActionVarbind`, `UndoVarbind`, `Free`, `Commit` | the SET modes of all handlers |
| `BeginAction`, `EndAction`, `BeginUndo`, `EndUndo`, `MasterLost` | the message boundaries around them (net-snmp) |
| `AlarmTimer`, `SendEdgeTrap` | `temp_alarm_alarm_cb`, `demo_check_temp_alarm` and its send |
| `IpcWrite`, `handle_send_trap` | the IPC handlers with an effect |
| `Sample` | telemetry's `run_once`, for `cpuTempMilliC` |
| `Crash`, `PowerCycle` | the end of the process; of the device |

`Faults` says which storage calls may fail. A call that fails has no effect,
which is what one LMDB transaction per call gives. `BeginUndo` does not require
a failed varbind: the master also undoes because another subagent failed.
A failing bootstrap aborts its transaction and the process exits: for
`config.lmdb` the model just stays `"down"`, for `cache.lmdb` it is a `Crash` in
`"configOpen"`.

### `SubagentHistory`

`before` is the store when RESERVE2 ran, `raced` the objects written over IPC
since, `acked` the value last acknowledged to a client for each object,
`edgeTraps` the traps sent by the check since the alarm was last clear. The
lemma `Observes` proves that its steps are steps of `Subagent`.

### `IpcServer`

A byte stream is a sequence of units, a header followed by as many payload units
as its length says; clients write unit by unit, so every split occurs. `pc`
follows the loop: `select`, `accept`, `serve` (in `ipc_server_dispatch`, before a
`read`), `drain` (in `drain_frames`), `send` (in `send_all`). While the client's
socket is full nothing is enabled at `send`: the code polls and retries. What a
request does to the store is in `Subagent`.

### `StorageLmdb` and `AtomicStore`

A handle is a process that has the environment open. `db` is the committed
contents, `snap` and `dirty` the root a transaction began from and the pages it
has written, `lock` LMDB's writer lock, which all processes share, `bad` the
flag that `MDB_MAP_FULL` leaves on a transaction, `it` an iterator with the keys
it has delivered. The actions carry the names of the C functions. A single-call
helper (`storage_set_*`, `storage_delete`) is a transaction of kind `"single"`:
begin, one put, commit, each a step, with its abort on the error path.
`txn_get_raw` after an error, a commit after an error, a failed commit and a
process that dies in the middle all occur. LMDB itself is external; a prefix is an
interval of keys because keys are ordered bytewise.

`AtomicStore` has a map and transactions, and none of the rest.
`AtomicTransactions` is `Store!ASpec` under the mapping in `StorageLmdb`: a
handle with any kind of transaction is active, `snap` is its base, `dirty` its
edits. The condition in `Apply` is the part worth having: when a writer commits, the map
is still the one it started from, so the bootstrap's probe-then-write overwrites
nothing. An iterator is a transaction there whose `storage_iter_next` steps are
stutters; what they deliver is the subject of `ScanExact`.

### `CellCodec` and `CellKey`

Pure code, checked against the other half. `CellCodec` writes every value of
every type from either side and reads it with every getter of both; it also
puts arbitrary bytes under a key. Byte values, word size and header are constants
(256, 4 and 3 in the code); `Base` is even, as a byte must be for the upper half
of a word's values to be the negative ones. The loops of both languages are
recursive functions of the number of turns made. `CellKey` runs `table_instance_parse` character by
character on every string up to a bound and compares it with
`table_instance_format`, with Rust's `parse_instance`, and the two key builders
with each other.

### `Telemetry`

`run_once` is one step per transaction, in the code's order; the subagent seeds
the cache at any moment before, during or after it. A cell carries the sample
that wrote it, to say which is older, beside the number shown if it is a counter;
temperatures, texts and the time stamp are data no property is about. How long
telemetry sleeps is left open, and with it the sample interval. A GET may fail in
storage (`GetFails`): a scalar then answers genErr, a table cell genErr or, when
the rows could not be enumerated, noSuchInstance. `restarted` and `failed` are
history: telemetry was started again after the first sample of this boot; the
last GET met a failing storage call. `clearing` is the row that `--clear-sensor-rows`
deletes next; it ends after the last one (`NextRow`) or, with `?`, at the first
that fails (`ClearFails`). Type tables of
the programs (`PutType` of telemetry, `SeedType` of the bootstrap,
`ScalarGetType` and `ColumnGetType` of the handlers) are separate definitions, as
they are separate tables in the code.

### `TableWalk`

A GETNEXT is `rowset_load_column` once per column, each in a read transaction
of its own, then `Search` (net-snmp's table iterator), then the cell's
`handle_sensorTable`. Between any two of these rows are written and deleted
whole and single cells deleted, as often as one likes. `steady` is a history variable: the cells that
were there during the whole walk; `cut` says that an enumeration failed in it, which
looks like the end of a column, and such a walk promises nothing. That a walk
ends is net-snmp's doing and not a property here. The row set is a set and `SortedFirst` what
`qsort` puts in front, by the comparison `Before`. `Odd` instances parse but have another index
syntax, `Malformed` ones do not parse.

### `IpcClient`

A call is `Begin`, `write_frame`, `write_payload`, and `read_frame` or
`read_fails`. The other end answers, refuses, drops the connection, or dies
after acting and in the middle of its answer.

### `MainLoop`

`pc` follows `main()`: one value per step of start-up, of a turn of the loop and
of shutdown. `config_env` and `cache_env` go from `"closed"` over `"open"` to `"seeded"`.
Signals, kills, requests, IPC traffic and the timer come at any point;
a signal interrupts `select()` only when the process is in it. `bind` refuses a
path that is there, so a start after a crash rests on the `unlink` before it
(`Unlinked`). `dispatch` lasts as long as a client has input.

## The runs

| Run | Shows | Instance and why it is enough |
| --- | --- | --- |
| `set` | `TypeOK`, `StoredLegal`, `ShippedAnswered`, `RollbackExact`, `AckedStored`, `ConfigKept` | a persistent scalar, two columns, one persistent and one not, two rows of which one is provisioned, PDUs of up to two varbinds, a value that is illegal for half of the objects, both faults. Two varbinds give duplicates and one-of-two failures; the second row may be absent, whole or have one cell |
| `alarm` | `AlarmRaised`, `AlarmCleared`, `NoRepeatedTrap`, `ExactlyOneTrap` | two thresholds, temperatures above, inside and exactly at the lower edge of the hysteresis band, two varbinds, storage without faults |
| `ipc_safety` | `TypeOK`, `AnswersInOrder`, `HandledOnce`, `BufferNeverFull`, `SlotsMatch` | two clients for one slot, two frames each of five shapes: largest, shorter, one too long, zero, undecodable |
| `ipc_reading` | `BacklogServed`, `NoRequestForgotten` | two clients, two slots, two frames each, a socket that holds one answer |
| `lostwrite` | `NoAcknowledgedWriteLost` **fails** | one scalar and one cell that may be missing, two values, both faults |
| `ipc_neverblocks` | `LoopTurns` **fails** | as `ipc_reading`, without the assumption that clients read |
| `atomic` | `ScanExact`, `NoLockLeak`, `AtomicTransactions` | two processes, three keys, all faults; the scans are all keys and a prefix with keys before and after it. Two writers contend, a scan overlaps a commit. One cell value is enough: a key changes by appearing and vanishing |
| `formats` | `RoundTrip`, `RustSubsetOfC`, `FitsOrTellsHowMuch`; `ParseExact`, `ParsersAgree`, `SameKeys` | six-valued bytes, two-byte words: all tags are bytes, both ends of each range are tried, strings up to three bytes, foreign cells up to five, one more than an integer takes. Keys: two digits, a dot and a stray character, up to seven of them; values up to 2, so components overflow by one digit; three sub-identifiers and keys of seven characters, so all limits are passed |
| `poll` | `GenErrMeansFailure`, `NoHoles`, `ReadBackwards`, `CountsSinceBoot` | two sensor rows, four samples, counters that wrap at 3 |
| `walk` | `NothingSkipped` | the three columns of sensorTable, rows 2 and 10 (bytewise and numeric order differ), one malformed and one odd instance, both faults, any number of writes |
| `calls` | `OwnOutcome`, `IdsDistinct`, `CallReturns` | five calls, ids that wrap after two |
| `life` | `ExitClean`, `AnsweredFromStorage`, `StopHonoured`, `OnlyIpcDelaysAlarm` | two failures, so that a start can fail after a crash; two IPC requests waiting |

Bounds: `MaxVarbinds` (the PDU), `Values` and `CpuSamples` (what is asked and
measured), `MaxFrames` (frames per client), `SocketRoom` (answers the kernel
holds), `MaxLen` of `IpcServer` (`IPC_MAX_FRAME_LEN` in units; `BufSize` is
derived from it as in the code); `MaxBytes`, `MaxSubids`, `MaxForeign` (values
and cells tried) and `MaxLen` of `CellKey` (strings tried); `MaxSerial` (samples
between power cycles), `MaxCalls` (calls made), `MaxInput` (IPC requests
waiting), `MaxFaults` (failures and kills). `Wrap` and `IdWidth` are 2^32 in the
code. Everything else is unbounded. Deadlock is checked except in `formats`,
which ends when a value or string is done, and `calls`, which ends after
`MaxCalls` calls.

**Fairness.** `FairSpec` of `Subagent`, and `HFairSpec` with the history
variables, which `alarm` uses: weak fairness of the steps inside a handler, which is
one thread running straight-line code, and strong fairness of `AlarmTimer`:
every turn of the loop ends with `run_alarms`, and the timer finds the loop
between two messages again and again. This presumes that IPC handlers return,
which depends on the clients (`ipc_neverblocks`, and the busy client below). Nothing is assumed of
`snmpd`, clients or telemetry; a SET may stay half done for ever. `LiveSpec`:
the server process is scheduled. `ReadingSpec`: in addition clients read their
answers; that they send a finite number of frames is the bound `MaxFrames`, and
matters: `service_client` reads until EAGAIN, so for a client that sends without
end neither property of `ipc_reading` would hold. `IpcClient`: the client runs,
and the server serves or refuses a whole request; `ipc_neverblocks` shows that
another client can prevent this. `MainLoop`'s `LiveSpec`: the process is
scheduled. Nothing is assumed of its clients; instead `StopHonoured` and
`OnlyIpcDelaysAlarm` name the exception in the formula, a process that never
leaves `ipc_server_dispatch` again.

### Where code and documents disagree

1. *An acknowledged IPC write can be taken back* (`lostwrite`). RESERVE2 of a
   SET stores the old value; an IPC client then writes the same object and gets
   STATUS_OK; the SET fails elsewhere; UNDO restores the old value.
   `tests/scenario_e_ipc.sh` promises "every write lands, none lost/corrupted".
   Objects not written over IPC during the SET are restored exactly
   (`RollbackExact`, proved).
2. *The server can block* (`ipc_neverblocks`). `send_all` retries on EAGAIN
   without limit; the file comment says "so it never blocks".

The models also show, when an assumption of a run is taken away:

* *The trap of an excursion can be lost.* With `Faults = {"read"}` in `alarm`,
  `ExactlyOneTrap` fails: the state moves to ALARM before the send, the send
  reads storage again, and if that read fails nothing retries. The comment in
  `demo_trap.c` says "fires exactly one trap".
* *A busy client holds up the alarm and the stop.* Without their exception
  `OnlyIpcDelaysAlarm` and `StopHonoured` fail: `service_client` reads until
  EAGAIN, so neither `run_alarms` nor the test of `g_stop_requested` is reached
  while a client always has its next request ready. `main.c` says the alarm
  exists to "notice a temperature crossing without being asked". A client that
  does not read its answers (2.) has the same effect.
* *A restart of telemetry resets the counters.* Without `~restarted`,
  `CountsSinceBoot` fails: `main` counts from 0 in each process, while
  `cache.lmdb` stays. The MIB says of `sampleCount` "Number of telemetry samples
  taken since boot." and of `sensorSampleCount` the same per sensor.

And met while reading, outside what the models state:

* Telemetry reads `sampleIntervalSec` once, at its start; the MIB calls the
  read-write object the "Interval at which the telemetry application samples
  sensors."
* `telemetry.rs` says that a walk "sees each row either fully updated or not at
  all". Each GETNEXT is a transaction of its own, so the cells a walk returns of
  a row may be of two samples. Rows have no holes (`NoHoles`).
* When `select()` fails the loop ends and the exit status is 0, so
  `Restart=on-failure` of the systemd unit does nothing.
* `systemd/` starts the subagent as `Type=simple`, so units ordered after it
  start before the cache is seeded. (`poll` lets telemetry run first, and
  nothing breaks.)
* `systemd/agentx-telemetry.service` passes `--cache`, `--config` and `--ipc`;
  the program defines `--cache-dir` and `--config-dir`.
* C accepts cells with reserved bytes that are not zero, or with bytes after an
  integer; Rust refuses them. Neither side writes such cells (`RoundTrip`).
* A start that fails at the IPC server closes the environments before the
  session (`main.c:343`), so a request served during the close handshake is
  answered genErr. `AnsweredFromStorage` names the exception.
* After a cursor error on the first `storage_iter_next` a second call would
  start over. No caller makes one.

## What is proved

For every choice of scalars, columns, rows, values, PDU bound and faults
satisfying `MibAssumption` and `SubagentAssumption` (the names are those of the
MIB, rows are positive, provisioned rows are rows, `NoValue` is no integer):

* `Safety`: `Spec => []SafeInv`, the inductive invariant
  `TypeOK /\ StoredLegal /\ Seeded /\ SetInv`. `StoredLegal` alone is not
  inductive, as ACTION and UNDO write values checked or read earlier. `SetInv`
  says that the values of an accepted PDU are legal, that the stash is too, and
  that it is empty only for objects that do not ship. The scalar handlers'
  "missing is 0" would break this; `Seeded` excludes it: once an environment is
  open, everything it ships is there.
* `TypeCorrect`, `OnlyLegalValues`, `AlwaysAnswered` follow from it, and
  `ConfigurationKept`, an action property, from it and a case analysis of `Next`.
* `RollbackIsExact`: `HSpec => []RollbackExact`, from `RollbackInv`: between
  RESERVE2 and the end the stash equals `before` at every varbind, objects
  outside the PDU are untouched, and what UNDO has passed is restored. A
  duplicate in the PDU is harmless because both stashes were taken before any
  ACTION.

* `AcknowledgedStays`: `HSpec => []AckedStored`, from `AckedInv`. During an
  ACTION the store is ahead of what was promised, and an UNDO takes it back; the
  invariant says that nothing is promised of an object a varbind in progress has
  passed unless an IPC client wrote it later, and that the *last* varbind passed
  for an object is what it holds. Without "last" a PDU that names an object twice
  would break it.
* `TrapNotRepeated`: `HSpec => []NoRepeatedTrap`, from `TrapInv`: who is sending
  has not been counted.
* `TrapSent`: `HSpec => []ExactlyOneTrap`, under the hypothesis that reads do not
  fail (`"read" \notin Faults`), the one the run `alarm` makes; without it the
  formula is false (see above). `SendInv` adds that a serving subagent has a
  temperature to read.

For every number of processes, keys, values and any of the faults, under
`StorageAssumption` (keys are positive, the markers are no values):

* `StorageSafe`: `Spec => []StorageInv`. `StorageInv` adds to `TypeOK` and
  `NoLockLeak` that a writer's root is the committed contents (`WriterCurrent`),
  that who does not write has no pages of its own (`ReaderClean`), and that a handle
  without a transaction holds nothing (`IdleEmpty`). `WriterCurrent` needs
  `NoLockLeak`: a commit changes `db` under everybody, and only the lock says that
  no other writer is there to be outdated.
* `LockNeverLeaks` is a conjunct of it.
* `ImplementsAtomicStore`: `Spec => AtomicTransactions`. Each action of
  `StorageLmdb` is an action of `AtomicStore` or a stutter; a commit is an
  `Apply` thanks to `WriterCurrent`, a failed one and a death are a `Drop`.
* `ScansExact`: `Spec => []ScanExact`, from `ScanInv`, which adds where an
  iterator is between two calls. That the key LMDB's cursor goes to is the least one
  ahead (`LeastKey`) rests on the well-foundedness of the naturals.

For any bounds on failures and traffic, under `LoopAssumption`:

* `LoopSafe`: `Spec => []LoopInv`. `Holds` says of every value of `pc` what is
  open there; `Marks` what a failure leaves. In `snmp_shutdown` the two ways of
  getting there must be told apart, out of the loop with everything open or from
  a failed IPC start with storage closed; whether the server is listening does that.
* `ExitsClean` and `ServedFromStorage` follow.

For any number of connections, slots and frames of any length, under the
assumptions of `IpcServer`, `Spec => []ServerInv` and from it:

* `TypeCorrect`, `SlotsNeverLeak`, `BufferHasRoom`, `AnswersMatch`,
  `RequestsHandledOnce`.

  `ServerInv` has five parts. `SlotInv` ties slots, connection states and the
  listen queue together. `StreamInv` is the heart: the buffer of a slot followed
  by what its socket still holds is a *well-formed* stream, which begins with the
  header of the first request not handled and in which each header stands where the
  frame before ends, so no split of the bytes and no reuse of a slot can make the
  server take a payload for a header. `BufferInv`: a buffer that is not being
  drained holds less than one frame; that, and a buffer for two largest frames,
  leaves room. `CountInv`: requests are handled as 1, 2, 3, ... and the answers
  are to the first of them. The property about the buffer cannot be had without
  the one about the streams: only at a header does the length mean anything.

For any number of calls and any width of the ids from 3 on
(`ClientAssumption`; with two ids and 0 reserved every call has the same one),
`Spec => []ClientInv` and from it:

* `CallsEndTheirOwn`: `Spec => []OwnOutcome`. `WireInv` says what is on the wire at
  each point of a call; between calls there is nothing, which is why a failed
  call cannot confuse the next one. `OnceInv`: the server has acted upon serials
  up to the last, each once.
* `IdsNeverRepeat`: `Spec => IdsDistinct`, an action property, from `IdInv` (the
  counter is one ahead of the last id) and the lemmas `NextId` and
  `FreshIdDiffers` about the wrap.

For any number of sensors and samples and any width of the counters
(`TelemetryAssumption`), from `TelemetryInv`:

* `TypesAgree`, `RowsWhole`, `BackwardsIsFresh`, `CountersCount`. That genErr means
  a failing storage call rests on `CellInv`: every cell has the type its handler
  asks for, whoever wrote it. `ReadBackwards` is not inductive, as it speaks only of the
  key the manager remembers: `OrderInv` orders *all* keys by the sample they are
  of, a scalar not seeded yet counting as sample 0. For the counters `CountInv`
  says that a process which took all samples since boot has counted them all.

For any columns and rows, with any keys of other shapes, under `WalkAssumption`:

* `WalkSkipsNothing`: `Spec => []NothingSkipped`. `PassedInv`: what GETNEXT has
  gone past and was always there has been returned; `LoadInv`: a row with a steady cell
  is in the row set as soon as that column is loaded, though the columns are read in
  different transactions.

For bytes of any even number of values above 5, words, headers, strings, OIDs and
foreign cells of any length (`CodecAssumption`), from `CellInv`, which says that a
cell is foreign or the encoding of a value of its type:

* `RoundTripHolds`, `RustSubsetHolds`, `FitsHolds`. At the bottom is `SumDigits`:
  the digits of a number below `Pow[n]`, each times the worth of its place, make
  the number. `Put64` and
  `Get64` show that the loops that shift by one byte compute what the formulas
  with the place values do, `Casts` that a cast to unsigned and back is the
  identity on both halves of the range, `WordsOf` that the words of an OID lie where
  the getter looks for them. The C getters test lengths and tags in another order
  than Rust's `decode`; which cells each accepts is settled type by type.

For any radix, any largest sub-identifier, any limits and strings of any length,
under `CellKeyAssumption` (a key within `STORAGE_KEY_MAX` has at most
`TABLE_ROW_SUBID_MAX` sub-identifiers; 127 and 128 in the code):

* `ParseExactHolds`: `KeySpec => []ParseExact`, from `KeyInv`, an invariant of the
  parser's steps. What is consumed so far is the text of what is parsed so far;
  that gives one direction, an accepted string is the text of its row. For the
  other, a string refused is no row's text, the invariant also says that *every* row
  whose text this is begins with the sub-identifiers parsed and has its next one
  start where the parser stands (`GoesOn`). An early `INVAL` is right because the
  decimal of a sub-identifier has no leading zero (`Canonical`), its prefixes are
  no larger than it is, and a text between dots cannot be read in two ways
  (`JoinedUnique`).
* `ParsersAgreeHolds` follows from it: `split` is the inverse of joining with
  dots (`SplitJoined`), so Rust accepts the texts of rows too, and a text of `n`
  sub-identifiers has at least `2n - 1` characters, so the limit on their number,
  which Rust does not have, is never met by a key.
* `SameKeysHolds`: the length Rust counts up while it appends sub-identifiers is
  that of the column, a dot and the text C writes (`KeyLengthIs`). It speaks of
  the rows the parser accepts, which are within C's limit on sub-identifiers.

The library's induction rules take an operator, which the provers cannot
instantiate. `FormatProofs` states induction over a *set* of numbers instead
(`Turns`, from the well-foundedness of the naturals) and derives from it that a
function defined by recursion over a loop's turns exists (`Recursion`), so that
each such definition may be unfolded.

Only model-checked: `AlarmRaised`, `AlarmCleared`, `BacklogServed`,
`NoRequestForgotten`, `CallReturns`, `StopHonoured` and `OnlyIpcDelaysAlarm`, which are
liveness under fairness and out of the prover's reach.

## Not modelled, and the plan

Left out for good: nanopb and the generated protobuf code (third-party
encoding), the mib2c templates (their output is modelled), docker, systemd and
scripts, the command line and daemonising, logging, EINTR retries of `read` and
`send`, `storage_env_sync`, `storage_env_stat` and `storage_strerror` (no effect a caller
sees), and the Rust crate's `table_rows`, which has no caller. External, modelled from how the
code uses them: LMDB, net-snmp with its table iterator and the AgentX master, the
Rust standard library's integer conversions.

Done in this order: `DemoMib` and `Subagent`; `SubagentHistory`; `IpcServer`;
proofs of `Subagent`; `StorageLmdb` with its refinement and proofs; `CellCodec`;
`Telemetry`; `TableWalk`; `CellKey`; `IpcClient`; `MainLoop` with its proofs.

Then the proofs of `SubagentHistory`, `ScanExact`, `IpcServer`, `Telemetry`,
`TableWalk` and `IpcClient`, and last those of `CellCodec` and `CellKey`. Every
safety property of the passing runs is now a theorem; what is left to
model-checking is liveness.

## Running

    tlc -config MCSubagentHistory_set.cfg MCSubagentHistory
    tlc -config MCStorageLmdb_atomic.cfg MCStorageLmdb
    tlapm SubagentProofs.tla
    tlapm IpcServerProofs.tla
    tlapm FormatProofs.tla
