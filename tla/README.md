# TLA+ models of pscdrv

pscdrv connects EPICS IOCs to devices that speak the PSC protocol: messages with an 8 byte header (`'P' 'S'`,
a 16 bit ID, a 32 bit body length) over TCP, or one per datagram over UDP.  This directory models the parts of
it where threads, the network and EPICS meet.

Each module is translated from the code, and each of its operators bears the name of the function it models.
`PROJECT.json` maps definitions to source lines.

## Inventory

| component | source | state | operations | hard because | what makes it correct |
|---|---|---|---|---|---|
| I/O Intr scanning | `coreApp/src/pscbase.cpp`, `Block` | `scanBusy`, `scanQueued`, counters | `requestScan`, `scanned` | several callback threads, messages arriving meanwhile | no update lost, no wedge, no overlapping passes |
| receive path | `psc.cpp` `recvdata` | decoder (`have_head`, `expect`, ...), watermarks, blocks | a header or a body per turn | TCP cuts anywhere; lost connections | whole messages, in order, on one connection |
| send path | `psc.cpp` `queueSend`, `flushSend` | `sendbuf`, `queued` | queue, send, flush | outlives connections; failures half way | framing, order, bounds |
| session | `psc.cpp`, `pscwrap.cpp` | `session`, `connected`, `timer_active` | connect, eventcb, reconnect, forced reconnection, stop | deferred callbacks, two lock orders, shutdown | the assertions of the code; always a way forward |
| UDPFast | `udpApp/src/udpdrv.cpp`, `devudp.cpp` | buffer pool, queues, two events | `rxfn`, `cachefn`, records, `stop` | two workers, three locks, one-shot events | buffers conserved, no lost wakeup, stop ends |
| PSCUDP | `pscudp.cpp` | `sendbuf`, `txbuf`, `readybuf`, `rxscratch` | queue, flush, senddata, recvdata | limits, retries | each packet once, in order |
| data file | `udpdrv.cpp` `cachefn`, `devudp.cpp` | file, `filetotal`, `record`, `reopen` | rotate, write, sync, start, stop, rename | I/O errors, flags set by records between any two steps | nothing recorded is lost, doubled or misplaced |
| registers, arrays, strings | `devPSCReg.cpp`, `devPSCWf.cpp`, `devPSCString.cpp` | the bytes of blocks | read, write, masks, expansion in place, time stamps | offsets, borders, shared registers | a record sees the bytes its link names |
| buffers | `evbase.cpp` `dbuffer` | scattered bytes | consume, assign, resize, copyin, copyout | index arithmetic over pieces | equal to a flat array |
| single-value support | `devPSCSingle.cpp` | `syncData`, `syncNow` | send, read back | callbacks between threads | the record ends with the device's value |
| signal analysis | `sigApp/src/fftcalc.cpp`, `fftwrap.cpp` | parameters, input, result | settings, worker, I/O Intr records | a lock that only the worker takes | result and scale belong together, nothing forgotten |
| target server | `targetApp/listener.c`, `pscmsg.c`, `pscapp.c` | client list, descriptors | accept, receive, broadcast, unlink | threads per client, reuse of descriptors | the list is the set of live clients |
| event loop | `evbase.cpp` `EventBase` | thread, `running` | start, stop | one loop for all PSCs | stops after the last user |
| xbpm target | `xbpmApp/target/main.c` | bare metal | poll loop | | not modelled |
| utilities, demos | `asubwf.c`, `util.c`, `demoApp`, `pscsim.py`, `wireshark` | | | numerics or I/O | not modelled |

How they interact: `iocInit` calls `startAll`, which connects every PSC.  The event loop's thread runs
`recvdata` and `eventcb` with `PSCBase::lock` held; `recvdata` fills a `Block` and calls its `requestScan`;
EPICS callback threads process records, which lock the record and then `PSCBase::lock`, read blocks, queue
messages, flush them or force a reconnection; at exit `stopAll` has `stopinloop` called in the loop and then
stops it.  `UDPFast` replaces the event loop by two workers that feed the same blocks; the second of them also
writes the data file.  `fftcalc.cpp` works on the waveforms that such records hold, with a worker thread of its
own.  The target server is the other end of the connection, in the device.

## Modules

**BlockScan** - one receive block.  `data` is the serial number of the stored message; `cb[p]` and `todo[p]`
are the pass of callback priority `p`.  `Receive` is the end of `recvdata` for a body; `CallbackStart`,
`ProcessRecord` and `scanned` are the pass.  `scanIoRequest` is EPICS: it queues a callback for each priority
with records, or, with `QueueFills`, for some of them only.  Passes do not depend on what the message is, so
the block stands for one of any driver.

**MsgStream** - the abstract receive side: a queue of messages per connection, handled one at a time; a message
that is `Promised`, here one with a body, for a registered ID is stored and its block scanned, once.  Whether
that happens for the others is left open, since the documentation and the code disagree (see below).

**PSCStream** - `recvdata` byte by byte.  A byte knows its message and its place in it, which stands for the
conversions from network order: the decoder looks at no more than the magic, the ID and the length of the
message whose first byte it has.  `low` and `high` are the read watermarks, which decide when `recvdata` is
called and when libevent stops reading.  A turn of the loop is a step; the device alone acts in between.

**PSCSend** - `sendbuf`, the output buffer and the wire as sequences of pieces (header or body), each with
the number of the call that queued it.  `write_so` is left out: it calls `queueSend` without the lock that it means to take (`Guard(lock)` is a temporary).

**PSCSession** - who may touch the session and when.  Deferred, unlocked callbacks make two steps of every
callback: libevent picks it, then the callback takes the lock and looks at `session`.  `eventcb` for a
new connection keeps the lock while it waits for the records of `procOnConnect`; every other handler is one
step.  `crashed` records that someone found `session` NULL.  `tries` is the parity of the calls of
`connect`, so that progress can be stated with finitely many states.

**UDPFast** - where each packet buffer is.  A stretch of code under `rxLock` is one step.  The two events are
Booleans, as an `epicsEvent` remembers one signal.  Which of the packets received are good is a free choice,
which includes a timeout of `recvmmsg`; a leftover buffer in a slot that is not offered to `recvmmsg` may be
chosen too, which only adds behaviours.  Writing the file is `cacheStore`, without its content.

**PSCUDPSend** - the three packet lists of `pscudp.cpp`, `readybuf` as a number of buffers, as what they hold is
overwritten.  `senddata` is one step per call of `sendto`; `sent` is what the socket took.  The literal 64 is the
constant `Limit`.

**PSCUDPRecv** - `rxscratch` byte by byte: a byte knows its datagram, so that left-over bytes can be told from
received ones.  Lengths wrap at `Wrap`, the code's 2^32.  The socket's datagrams are whatever arrives: loss,
repetition and reordering need no action of their own.  The two halves share `PSCBase::lock`, `connected` and
`conncount`, which **PSCUDP** declares; neither half writes what the other reads, but for `connect`, so they
are specifications of their own (`RecvSpec`, `SendSpec`), and a behaviour of `MCPSCUDP` exercises one of them.  `forceReConnect` and `stopinloop` are empty in
`PSCUDP`.

**DataFile** - the same `cachefn` as in UDPFast, seen from the file: `unwritten` are the packets of a turn
(`inprog`), `files` the disk.  A turn is `grab`, `consume` (the only part with `PSCBase::lock`), `openFile` or its failure, a
`writev` or its failure per `HeaderCount` packets, and `written`; records may set `record`, `reopen` and
`filebase` between any two of them.  A packet has size 1; of a partial `writev` the whole packets are kept.

**Listener** - the server in the device: `psc_run` accepts, a thread per client runs `handle_client`, `psc_send`
broadcasts from the periodic thread and from clients' threads.  A section under `sendguard` is one step.
Descriptors are numbers that `accept_start` takes in the way `accept` does, the lowest free first, and a thread
uses its number whatever it names by then.  Messages are read a byte at a time (`psc_recvhead`, `psc_recvall`,
`psc_recvskip`), with `rx` the locals of `psc_recvmsg`; `recverror` is a `recv` that fails or times out at any of
them, and `recvrest` the read behind the loop of `psc_recvskip` that follows an error in it.  Threads that share
a descriptor take each other's bytes.  A client that is freed may still be in the list: following it is a
`fault`, as is writing behind a buffer, where the model stops.  `mishaps` records the four things the code does
not guard against, so that properties can say what holds until then.

**Calc** - `struct Calc` and its `PSDCalc`.  A number is what it was computed from: a result names its input,
the scale, the window and the rate that went into it, so that "belongs together" and "is current" can be
stated without arithmetic.  Copies that no lock protects take two steps, and what is copied while it changes is
`Torn`.  So may be the samples of a result that is planned for in the same call (`Samples`): `calculate` prepares
them before it plans with `FFTW_MEASURE`.  `Content` is what each kind of record copies.

**FlatBlock** - the abstract device support: a block is one sequence of bytes.  It leaves two things open, in which
the code does less than is documented: what a string shows that a message overtakes, and how many bytes of an array
of bytes are shown.  **RegBlock** - the code: bytes lie
in pieces, which `consume` leaves to libevent (any cut of the message), and every operation walks over them with
`stride_ptr`.  Conversions are modelled: `ntoh` reverses bytes, an integer becomes a double of another
size, which `read_wf_real` expands in place from the last element to the first.  All records have the lock but
`read_si`, which is two steps (`read_si_begin`, `read_si_end`); if a message came in between, what it shows
is whole or a `mixture`.

**PSCStreamProofs, PSCSendProofs, PSCSessionProofs, ListenerProofs, CalcProofs** - theorems about the module each is
named after.  **BlockProofs** is about BlockScan and RegBlock, **PSCUDPProofs** about PSCUDPRecv and PSCUDPSend,
**UDPFastProofs** about UDPFast and DataFile.  **MC\*** - instances for TLC.

Definitions named `operation_Word` and commented as mutants are deliberate mistakes: substituted for
`operation` they make the property named with them in `PROJECT.json` fail.

## Runs

| run | checks | bounds |
|---|---|---|
| `BlockScan` | `BusyMatchesCallbacks`, `QuietMeansFresh`, `OnePassAtATime`, `EventuallyRead` | two priorities, three records, five messages; EPICS may refuse callbacks |
| `PSCStream` | `DecoderAligned`, implements `MsgStream` with its fairness (`DeliversEverything`) | 3 messages, 2 connections, header of 2 bytes, high mark 3; bodies empty, below and above the mark; an unknown ID; a bad magic |
| `PSCSend` | `WellFramed`, `InOrderOnce`, `QueuedIsPending`, `SendBufferBounded` | three blocks, bodies of 1 to 3 bytes, header of 2, `PSCMaxSendBuffer` 6; 4 messages queued, 3 connections |
| `PSCSession` | `ConnectedHasSession`, `StoppedForGood`, `AlwaysOneWayForward`, `CallbackFindsSession`, `KeepsTrying` | two threads, two records; two records on connect, one of them also processed by the threads |
| `UDPFast` | `BuffersConserved`, `NoLostWakeup`, `Terminates`, `StallEnds`, `PacketsTaken` | 4 buffers; batches of 2 with a short buffer of 1, cleared or not, or of 2; batches of 1 with a short buffer of 2 |
| `DataFile` | `FilesInOrder`, `NoGaps`, `RotationBounded`, `RecordingHasFile` | 5 packets, batches of up to 2, files of 2, one packet per `writev`, two names, two seconds; with and without flushing |
| `PSCUDP` | `InOrderNoGap`, `AtMostTwice`, `AllSent`, `BlocksHoldNewest`, `EveryDatagramCounted` | two blocks, lists of 2 instead of 64, 5 packets; 4 datagrams of ten kinds, header of 2, room for 4 bytes, lengths of 4 bits |
| `RegBlock` | `SettingsKept`, implements `FlatBlock` (`ImplementsFlat`) | 5 registers, messages of 0, 3 and 5 bytes cut in any way, an interleaved array, bytes, a string and a time stamp; 3 messages or writes |
| `Calc` | `Coherent`, `QuietMeansCurrent`, `RecordsSettle` | 3 settings, 2 inputs, empty or of 4 samples, two rates, numbers of points, scales and widths |
| `Listener` | `ListHoldsClients`, `ClientsBounded`, `BroadcastReachesAll`, `ClientsReleased` | three clients for two places and three descriptors, one of which sends a message of 4 bytes to a buffer of 1 and a piece of 2; one periodic broadcast |
| `ListenerRx` | `MessagesInStep` | two clients and two descriptors, two messages of 1, 2 or 4 bytes from each, buffer of 1, pieces of 2 |
| `PSCSessionLock` | `NoLockCycle`, violated | as `PSCSession` |

What a site does with the driver is a variable, chosen in `Init` and never changed, so that one run explores
every choice and a property can say on which it depends:

* `PSCSession!uses`: "force" (a "PSC Ctrl ForceReConn" record exists), "shared" (records processed on connect
  are processed by other threads too), "stops" (the IOC may exit).
* `PSCSend!uses`: "send" ("PSC Ctrl Send" records exist), "nomem" (`flushSend` may run out of memory).
* `UDPFast!site`: the size of a batch, NELM of the short buffer, and whether a record clears it.
* `PSCUDPSend!uses`: "send" as above, "nomem" (`event_add` may fail).
* `PSCUDPRecv!sound`: the device's headers announce what its datagrams hold.
* `DataFile!dsync` (`PSCUDPDSyncSizeMB`) and `steady` (nobody clears the file name).
* `Calc`'s window types: the constructors leave them uninitialised.

`PSCSession!nomem` is different: it records that `bufferevent_socket_new` has failed, after which `connect`
returns with neither session nor timer and `AlwaysOneWayForward` claims nothing.

The bounds on messages and connections are guards (`MaxMsg`, `MaxEmit`, `MaxCalls`, `MaxConn`,
`MaxArrive`, `MaxErr`, `MaxPacket`, `MaxClock`, `MaxSet`, `MaxInput`, `MaxSteps`, `MaxPeriodic`); PSCSession
and UDPFast need none, their states are finite.  Three messages and two connections suffice for what the
decoder remembers: the message before, the one in progress and the one that follows, on this connection and
on the next.  Four buffers with batches of two leave room for a batch in the receiver while the cache worker
holds another, as the constructor's comment ("2 periods of data") intends.  That `StallEnds` and `PacketsTaken`
depend on the size of the pool is in the properties (`Roomy`): it must exceed a batch and the short buffer
together.  The run has sites with just one buffer more, with the larger batch or the larger short buffer, and one
where batch and short buffer can keep the pool, for which the other properties hold nevertheless.

Five packets with lists of two fill every list, overflow the free list and reuse it.  Four datagrams let a large
one be dropped, the buffer grow, the next be stored and a smaller one follow it.

Five packets with files of two let a file be rotated twice, within one second or not, and a batch end in the
middle of a file.  Three settings complete a calculation and change it while the worker is busy; the second input
comes while the first is copied, calculated or shown.  Three clients for two places leave in every order, the
third takes a descriptor that was used before.  A message of four bytes is kept in part, skipped in one whole
piece and a rest, and an error in that piece leaves more than the buffer takes; two clients are enough for a
descriptor to be used again.  Messages of five bytes hold an element of the array that is cut,
one that is whole, and a register that begins in one piece and ends in another.

`CHECK_DEADLOCK FALSE` stands where the model stops at a bound, after shutdown, or, in `PSCSession`, at the
lock cycle below.

### Disagreements

This run expects a violation, and TLC finds it:

* `PSCSessionLock`: `eventcb` takes the locks of records with `PSCBase::lock` held (`psc.cpp:208`), device support
  takes them the other way round, and the trace ends with both waiting.  `pscwrap.cpp:15` speaks of re-locking
  "in the correct order".

The models also contain these disagreements between code and documentation.  The formula named with each, added
to the run of its module, is refuted by TLC; the properties of the runs are stated so that they do not depend on it.

* A message without a body is counted but its records are not processed (`psc.cpp:289`; `processing.rst:48`: "each
  time a new message with that ID is received").  In PSCStream: `Abs` with `Promised <- Msg`.
* Reception time and count change with the header, the body later (`psc.cpp:279`; `processing.rst:39`: "New messages
  are fully received (header and body) before any further processing").  In PSCStream, with messages that have
  bodies and one connection: `session = "up" /\ ~inRecv => \A b \in Blocks : count[b] = scans[b]`.
* Clearing the short buffer returns buffers without signalling `vpoolStall` (`devudp.cpp:231`), and the
  receiver stays stalled with free buffers (`udpfast.rst:154`: it will "wait for buffers to become available").
  In UDPFast: `(rx = "stalled" /\ vpool # {}) ~> (rx # "stalled")`.  `StallEnds` and `PacketsTaken` are about sites
  that do not clear it.
* `read_si` runs without the lock that it means to take (`devPSCString.cpp:63`: `Guard(lock);` makes a
  temporary), and a message replaces the block in between (`processing.rst:60`: "it is not possible for a message to
  update while a single record is accessing").  In RegBlock: `reading # "overtaken"`.
* A waveform of bytes shows one element at most, for `nord` is the Boolean that `copyout` returns
  (`devPSCWf.cpp:123`; `devsup.rst:182`).  In RegBlock: a valid `shown` of "bytes" has `BytesNelm` of them.
* An error inside the loop of `psc_recvskip` is forgotten and all that is left of the message is read
  into the buffer of 128 bytes (`pscmsg.c:78`; `pscmsg.h:91`: "The remaining bytes are read and discarded").  In
  Listener: `"overrun" \notin mishaps`.  If the
  buffer took it, the thread would be out of step; it never does, since the rest is longer than the buffer whenever
  the loop is entered, which is why `MessagesInStep` holds until then.

Seen while modelling; the properties name these cases as the conditions they need.

The PSC driver:

* A forced reconnection takes the session from a callback that is about to run, and the assertion in `recvdata`
  (`psc.cpp:245`) fires (`pscwrap.cpp:34` waits for the lock in between).  `CallbackFindsSession` excludes "force".
* "PSC Ctrl Send" without a connection queues a body without a header (`psc.cpp:364`), and is not limited by
  `PSCMaxSendBuffer` (`psc.cpp:365`), which is why `WellFramed` and `SendBufferBounded` exclude "send".
* What was queued before a reconnection stays queued and keeps fresh values out after it (`psc.cpp:162`;
  `devsup.rst:42`: "to synchronize IOC and device after (re)connect").
* `PSCUDP` compares an announced length with the size of `rxscratch`, not with what `recvfrom` returned
  (`pscudp.cpp:246`): the end of a body cut short is left over from earlier datagrams.  `BlocksHoldNewest` is
  about `sound` devices.
* The send buffer takes one message of an ID only (`psc.cpp:367`), where
  `processing.rst:72` speaks of "several messages with the same message ID".
* `stopinloop` forgets a session that is still connecting (`psc.cpp:181`) and leaves `connected` true
  (`psc.cpp:185`).
* With a full free list `PSCUDP::senddata` drops a free buffer instead of the packet it sent, and sends that once
  more (`pscudp.cpp:161`): `AtMostTwice`, not once.
* `bodylen+8` wraps at 32 bits (`pscudp.cpp:251`), and `rxscratch` may end up too small for a header, against the
  comment at `pscudp.cpp:31`.

UDPFast:

* A pool no larger than a batch and the short buffer (the largest NELM) together may stall for ever
  (`udpdrv.cpp:242`): `recvmmsg` and the short buffer keep all of it and nobody is left to signal, not even for
  packets that are pending.  The constructor sizes pool and batch by different settings and NELM by neither; with
  the defaults the pool is far larger.
* The length check is inverted (`udpdrv.cpp:394`: `blen < len-8`), so that packets that announce more than they
  hold are stored; `udpfast.rst:34` says "Larger packets will be ignored".
* A flush resets `filetotal` (`udpdrv.cpp:643`), the count that rotation uses, hence `dsync = 0` in `RotationBounded`.
* `devudp_set_record` wakes the worker only to start recording (`devudp.cpp:120`): when it is turned off the file
  stays open until the worker wakes up for another reason, the next packet for example.
* The sizes of pool and queues are read without `rxLock` by `devudp_get_vpool` and its siblings (`devudp.cpp:160`).

Device support:

* `Guard(lock);` makes a temporary and leaves the lock free also in `write_so` (`devPSCString.cpp:96`) and in all of
  `fftcalc.cpp` but the worker.
* "PSC Single" never reads back: `received_block` returns when it finds an address (`devPSCSingle.cpp:72`), though
  `devsup.rst:226` says that the record's value will be updated.
* A register that crosses the end of its block is written in part and the record is invalid (`evbase.cpp:255`).
* A string that begins at its own greatest length divides by zero in `copyout_shape` (`devPSCString.cpp:79`);
  `RegBlockAssumption` excludes it.  So may one that a longer message overtakes between `size` and `copyout_shape`.

Signal analysis:

* The window type is uninitialised until it is set; setting it, like the start and the width, does not poke
  the worker (`fftcalc.cpp:237`), hence the condition in `Due`.
* An empty input leaves the result before it valid, with the new time (`QuietMeansCurrent` excludes it).
* A scale record that showed "invalid" stays so when the result becomes valid again with the same parameters
  (`blanked` in `RecordsSettle`).
* `FFTW_MEASURE` may overwrite the input that was prepared before planning (`fftwrap.cpp:163`), so that the first
  result after a change of settings need not be that of its input; it stays until the next input or setting.
  `Due` allows it (`Samples`), and for planned results only.
* `val += sampStart` moves the start but not the end of what is copied (`fftcalc.cpp:382`).

Target server:

* A new client does not set `prev` of the one before (`listener.c:139`): a client that leaves out of order takes
  the newer ones out of the list ("disorder").
* A client's thread may free the client before `psc_run` links it (`listener.c:142`; "outrun").
* `psc_send` closes a descriptor that a thread still reads from (`listener.c:216`); after `accept` has used it
  again that thread reads the new client's messages and closes its connection ("reuse").

## Fairness

`BlockScan`: EPICS's callback threads take what is queued.  `PSCStream`: the event loop turns, and TCP
delivers what was sent while the connection lasts; nothing is assumed of the device.  `PSCSession`: the event
loop's thread and a thread that has begun to process a record run; nothing is assumed of the network.  `UDPFast`: both workers run (`recvmmsg` has a timeout of
a second), and a record that has taken buffers returns them.  Weak fairness is enough there: the
threads wait on conditions that stay true.  `PSCUDPSend` assumes in addition that a socket which is tried again
and again takes a packet some time (strong fairness of `sendto`), since EAGAIN is retried for ever.  `Calc`: the worker and the threads of the records
that show results run, and a copy that has begun ends; nobody need set anything.  `Listener`: threads run;
`ClientsReleased` needs nothing of the clients, since `psc_recvmsg` times out.

## Proofs

For every value of the constants, checked by TLAPS:

* `BlockProofs`, of BlockScan: `TypeOK`, `BusyMatchesCallbacks`, `QuietMeansFresh`, `PassesBoundedByMessages`,
  `OnePassAtATime`.  `QuietMeansFresh` is not inductive: nothing in it says why a record will be fresh once
  the passes end.  The strengthening is `FreshOrScheduled`: a record that has not read the newest message has a
  queued callback, is still in the list of a running pass, or a pass is owed; with `OwedOnlyWhileBusy` and
  `BusyMatchesCallbacks` a quiet block leaves only "fresh".
* `BlockProofs`, of RegBlock: the refinement `RegSpec => ImplementsFlat`, and `SettingsKept`.  Pieces may be cut
  anywhere and be empty, so everything is about where each piece begins in the whole (`Begins`).
  `FlattenAt` gives the bytes of the whole, `CopyIs` that `copy` passes the next bytes of it and stops at the right
  place or at the end, by induction over the turns of its loop (`TurnStep`).  From it follow what `copyin` changes
  (`CopyInIs`; each byte is written once, `PlaceOnce`), what `copyout_shape` takes, element by element (`ShapedIs`),
  and that any cut of a message flattens to the message (`PiecesFlat`).  `ExpandedIs` is about the expansion in
  place: from the last element to the first no element is overwritten before it is read, since `WfSize` is at
  most `DblSize`.  `WaveIs` puts these together.  Then each operation is a step of FlatBlock (`ReadImplements`,
  `WriteImplements`, ...).  `SettingsKept` is not inductive: it says nothing of a block that is too
  short for the setting.  `Kept` adds that a stored setting lies in the block whole, and speaks of bytes of the block
  instead of the value read back; then another setting changes none of its bytes if it has none of them (`Own`).
  The refinement promises what FlatBlock does: a string that no message overtook, and of bytes a part.
* `UDPFastProofs`, of UDPFast: `TypeOK`, `BuffersConserved`, `NoLostWakeup`.  Conservation needs to know where `inprog`
  may be non-empty (`InprogOnlyWhileStoring`), because `cacheGrab` swaps it with `pending`.
* `PSCSessionProofs`: `TypeOK`, `ConnectedHasSession`, `TimerFindsNoSession`, `StoppedForGood`,
  `AlwaysOneWayForward` (until memory runs out), `RecordFindsSession` and `CallbackFindsSession`.  `IInv` says
  what holds before `startAll` (`NotStarted`), while the session runs (`Live`: a called timer callback
  excludes a session, a connection reported but not yet handled excludes `connected`, and the bufferevent
  exists exactly when `session` is set), after `stopinloop` (`Over`: neither session nor timer comes back), and
  where the loop may be in each (`LoopState`).  `CallbackFindsSession` needs one fact more, `CalledWithSession`:
  a picked callback of the bufferevent keeps its session until the callback has the lock, because without
  "force" only the event loop itself, which is busy, could take it away.
* `UDPFastProofs`, of DataFile: `Data` (types), `RecordingHasFile`, `FilesInOrder`, `NoGaps`, `RotationBounded`.  `FilesInOrder`
  needs `InStep`: packets on the disk have arrived and are older than those at hand, which are in order.  A
  failed write breaks the second part, since the packets it wrote stay in `unwritten`, but then the file is closed
  and they are forgotten before another is opened; hence the condition in `DiskOlder`.  `RecordingHasFile` needs
  `RecordingOpens`, which says that in the middle of a turn only the stage "open" has no file yet.  `NoGaps`
  needs `Contiguous`: the first packet at hand follows the last of the open file or, in an empty file that a
  rotation has just opened, the last of the file before.  `RotationBounded` needs `CountedInv`: `filetotal` and
  `datatotal` are the size of the open file, so that the decision to rotate is about the right number.
* `PSCStreamProofs`: `DecoderAligned`, `WholeBodies` and the refinement `Spec => Abs!Spec`.  `DecoderAligned` is
  about the first unread byte; that it is the right one after many bytes were removed depends on all the others.
  `Pieces` describes the unread bytes without recursion: byte `i` has `Left` bytes of its message behind it, and
  those that are there are the next ones of the same message (`Flow`), after which a message starts (`Starts`).
  Until the device closes the last message is complete (`Whole`), which is what makes the next one start at its
  first byte.  For the refinement the unread messages are those whose end is unread, in the order of their ends.
  `Rank` counts the ends up to one; that n ends have the ranks 1 to n follows by the pigeonhole principle, since
  no two have the same.  Then sending appends a message, a lost suffix drops the last ones, removing a header
  drops none (or, without a body, the first), removing a body the first; `Announced` adds that the expected body
  is one for `bodyblock`.
* `PSCSendProofs`: `TypeOK`, `InOrderOnce`, `WellFramed`, `QueuedIsPending`, `SendBufferBounded`.  `WellFramed` is
  not inductive: `start_reconnect` drops `wire` and `output`, a failed flush drops `sendbuf`, so each of the two
  parts must be framed (`Parts`).  `InOrderOnce` needs that no number is beyond `calls` (`Numbered`).  The size of
  a buffer is the number of its bytes, which lets `AddBytes` say what a piece adds without summing a sequence.
* `PSCUDPProofs`, of PSCUDPRecv: `RecvTypeOK`, `EveryDatagramCounted`, `BlocksHoldNewest`.  What the blocks have
  counted is the size of a set (`Tally`) that grows by one element, which spares a sum over blocks.
  `BlocksHoldNewest` speaks of the room there was when a datagram came; `SizeInv` says that the size of
  `rxscratch` is the largest of what the messages before announced (`RoomIs`), never less than a header, so that
  `tooLong` and `Fits` agree, and `BytesAfter` that a body that fits is all of one datagram.
* `PSCUDPProofs`, of PSCUDPSend: `InOrderNoGap`, `AtMostTwice`.  Why a packet is repeated but never a third time is in
  `RepeatHasRoom`: only a full free list repeats it, and that list then has room until the packet's turn comes
  back; `WaitingOnce` says that the packets that wait are all different.
* `CalcProofs`: `Coherent`, `QuietMeansCurrent`.  The scale is published only when a parameter has changed, so
  `Coherent` needs to know that it is otherwise the one that `PSDCalc` still holds (`Published`), that
  the last result of `PSDCalc` belongs to its scale although the parameters have moved on (`Matched`), that a plan
  is for the present parameters (`Planned`) and that it is postponed for want of an input only (`Unplanned`).
  `QuietMeansCurrent` needs what the worker has achieved at each stage if nobody pokes it (`Undisturbed`); a result
  that was planned for in the same call may be of any samples.
* `ListenerProofs`: `ClientsBounded`, `MessagesInStep`, `ListHoldsClients`, `BroadcastReachesAll`.  `client_count`
  counts the clients that are served less the one that is not linked yet (`Counted`), even when that one left
  first and the count is below zero for a while.  `MessagesInStep` is about the next byte of a stream,
  which depends on all the bytes behind it: `Aligned` describes a stream of whole messages without recursion.  While
  a thread is inside a message the bytes it has read of it, put back before the stream, must make it such a stream
  (`Inside`), and their number follows from the thread's locals (`Place`, `Local`).  A thread reads its own
  stream, as long as no descriptor was used again (`OwnStream`, from `OwnDescriptors`).
  `ListHoldsClients` is about the walk that `psc_send` makes along `next`: `Holds` says that the links form one
  path from `client_head` in the order of linking, `WalkPath` that the walk follows it to the end; as long as
  nobody leaves out of order the path loses its last member only.  `BroadcastReachesAll` needs in addition that a
  live client has a descriptor of its own (`OwnDescriptors`).

The assumptions are those of the modules: sets of any size (finite where they are counted), sizes natural
numbers, a non-empty batch.  The provers treat Boolean variables badly next to arithmetic, hence the lemmas that
state the flags first.  They have no induction, but the library has the least-number principle
(`WFMin` for the numbers, here `LeastNat`): what is to be shown for every n is shown by taking the least n for
which it fails.  A recursive function is known to satisfy its equation once some function does, which is
shown in the same way.

Only model-checked:

* every liveness property, and with it the fairness of `DeliversEverything`: the prover has no `ENABLED`.

## Plan

Modelled so far, in this order: BlockScan, PSCStream with MsgStream, PSCSend, PSCSession, UDPFast, PSCUDPSend,
PSCUDPRecv, Listener, DataFile, Calc, RegBlock with FlatBlock.  To come:

1. `Lifecycle`: several PSCs on one event loop, `makeBase`, `stopAll` while records are processed.
2. The poll loop of the xbpm target.

## Not modelled

Floating point and FFT arithmetic, waveform statistics, logging, link parsing, the IOC shell, database files, the
simulator, demos and dissectors; in `PSCUDP` the creation of the socket, the records that `connect` processes and
out of memory in the middle of `queueHeader`.  Data races inside libevent or the C++ containers (`write_so`,
the statistics of `devudp.cpp`) have outcomes that no model of this code can bound; they are listed above.
