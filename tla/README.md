# TLA+ models of the NMEA/AIS complex

This directory is a verification development beside the C++ code in `src/`: TLA+
modules of its components, TLC configurations that check them on small
instances, and theorems that TLAPS proves for every value of the constants.
`PROJECT.json` maps every definition to the lines it models and lists the runs,
the seeded faults, the findings, the hazards and the theorems.

Contents: [inventory](#1-inventory) · [modules](#2-modules-and-what-they-correspond-to)
· [runs](#3-runs) · [fairness](#4-fairness) · [proofs](#5-proofs)
· [findings](#6-where-the-code-and-its-documentation-disagree)
· [not modelled](#7-what-is-not-modelled) · [plan](#8-plan)

## 1. Inventory

The repository holds two programs over one set of parsers. `src/NMEA/main.cpp`
(and the identical `test_nmea_decoder.cpp`) is a two-thread demonstrator: a
network thread pushes datagrams into a lock-free ring, a processing thread pops
them and feeds the parsers. `src/nmea_decoder.cpp` is a plug-in for the DHF host,
which calls the parsers from its own threads. `NetProcessor` and `GcService` are a
TCP/UDP front end and its cleaner thread, meant to sit in front of
`Nmea450Parser`; no program of the repository instantiates them.

```
 talkers ─ UDP ─▶ NetReceiveThreadLoop ─Push─▶ LockFreeSpscQueue ─Pop─▶ ProcThreadLoop ─▶ Nmea450Parser ─▶ (text layer)
 talkers ─ TCP/UDP ─▶ NetProcessor ── m_raw_chunk_cb ──▶ Nmea450Parser
                        ▲ CleanupTimeouts                   ▲ CleanupTimeouts
                        └───────── GcService::CleanerWorker ┘
 DHF host ─ workData/timing ─▶ NmeaDecoder plug-in ─▶ Nmea450Parser ─▶ ProcMsg ─▶ Nmea0183Parser ─▶ host
          ─ settings, form  ─▶ IModuleExt: the plug-in, or the sample module ─▶ host
```

`src/DHF/_example` is the SDK of the host: headers with the identifiers that
modules exchange, with names of protocols and with helpers for settings, and a
sample module with a form, options and the same interface as the plug-in.

| Component | State | Operations | Hard behaviour | What makes it correct |
|---|---|---|---|---|
| `LockFreeSpscQueue` (`lock_free_queue.h`) | ring of slots, two atomic indices that wrap at 2^64 | `Push`, `Pop` | two threads, acquire/release, stale loads, wrapping | no data race on a slot; full/empty tests exact; a bounded FIFO |
| program (`main.cpp`) | `g_net_queue`, `g_running`, the three threads | send the script, poll, stop, join | relaxed flag, polling, shutdown with a full or non-empty ring | a prefix of what was sent is processed, in order, whole; it ends |
| `NetProcessor` | map of TCP sessions (buffer, last activity), callback, mutex | `ProcUdpDatagram`, `ProcTcpSegment`, `TerminateTcpSession`, `CleanupTimeouts`, `SetOnRawDataChunkReady` | segments cut lines anywhere; keys are used again; overlong lines; callbacks under the mutex that may throw | one chunk per line, in order, unmixed; bounded memory |
| `GcService` | thread handle, shutdown flag, condition variable, parser pointer | `StartTimeoutCleaner`, `StopTimeoutCleaner`, destructor, `CleanerWorker` | two mutexes, wait/notify, concurrent start and stop | one cleaner; no lost wake-up; stop returns; cleaning goes on |
| `Nmea450Parser` | pool of unfinished groups with their age | `ProcPacket`/`HandleTagBlock`, `CleanupTimeouts` | loss, duplication, reordering, ids used again, time-outs | whole messages only, handed on once; nothing throws; the pool drains |
| `Nmea0183Parser` | callbacks | `ParseMsg`, `ValidateChecksum`, `SplitString` | field counts, checksums of spliced sentences | the checksum and dispatch rules |
| `compile_time_pipeline` | none | `ParseMsg` | the field count differs from `Nmea0183Parser` (6 against 7) | dispatch |
| `AisDecoder` | a bit buffer per call | `DecodePayload`, `FetchBits`, `DecodeAisText`, `EmitNmeaReport` | bit offsets, sign extension, padding, short payloads | what is reported is what the sender put in |
| `GeoMsgParser` | callback | `ParseInMsg`, `NmeaToDecimal`, projection | field-count guards; floating point | no field read beyond the last; dispatch |
| DHF plug-in `NmeaDecoder` | line buffer, filters, counters, a 450 and a 0183 parser | life cycle, settings, `workData`, `timing`, `updateStatistic`, the form | order of host calls, partial lines, counters, GUI against data thread | counters agree with what was sent; filters hold |
| SDK: identifiers (`IdentifyDefs.h`, `IdentifyMethods.h`) | lists, offsets and blocks that a client keeps from call to call | `ParseIdentify…`, `ParseOff…`, `ParseAll…`, `ClearAllIdentifys` | lists left over from an earlier array, modules that take types back, arrays cut off | what is found is this array's and the last module's; offsets in order; each block freed |
| SDK: protocol names (`protocol_info.h`) | none | `get_…` | four tables and one way back kept by hand | names lead back to numbers |
| SDK: settings (`ConfigXMLDefs.h`, `ConfigXMLMethods.h`, `ModuleParamMethods.h`) | structures that host and module share | compare, clear, conversions from and to text | ownership, width of an `int`, order of the modules | a change is noticed; values survive the text |
| module interface and sample (`IfaceModuleExt.h`, `BaseModuleExt.*`) | settings in form, host and processing; options; counters | `set/get…Module…`, `CreateForm`, `DestroyForm`, `setProcState`, `workData`, `recvGuiData` | order of host calls, form open or not, structures used again | what was said last is in force; no block lost; counters true |
| DHF host | – | – | not in the repository | – |
| dictionaries, timing test, build trees | – | – | not this program's logic | – |

## 2. Modules and what they correspond to

| Module | Models | State ↔ code | Actions ↔ code |
|---|---|---|---|
| `BoundedFifo` | what the queue promises | `queue`, `out` | `Put`, `Take`: a `Push`/`Pop` that returns true |
| `SpscQueue` | `lock_free_queue.h` | `buffer`, `m_write_idx`, `m_read_idx` as in the code; `w_view`/`r_view` what each thread may read of the other's atomic; `w_sync`/`r_sync` what it has acquired | one action per load-and-test, beginning and end of a slot copy, and release store |
| `Pipeline` | `main.cpp` on top of `SpscQueue` (EXTENDS it and uses its steps) | `g_running`, where each thread is | the loops of the three threads; `processed` records what `ProcPacket` is given |
| `Nmea450Parser` | `nmea450_parser.cpp` | `pool` is `m_nmea_group_pool`; `out` is what the callback receives, `thrown` an exception that left `ProcPacket` | `ProcSingle`, `KeepLine`, `Assemble`, `SpliceThrows` are the paths through `HandleTagBlock`; `CleanupTimeouts` |
| `Nmea450Traffic` | talkers, network and clock around it | `deployment` (what surrounds the parser: the groups sent, whether something cleans, how soon ids come back; chosen by `Init`), what was sent, is in flight, how long an id has been quiet | `Send`, `Lose`, `Duplicate`, `Deliver`, `Clean`, `Tick` |
| `GcService` | `garbage_collection_service.cpp`, the mutex of `NetProcessor` | `call`/`at`/`net` are program counters; the two mutexes hold their owner | one action per lock, test, wait phase, join and cleaning pass |
| `NetProcessor` | the TCP half of `net_processor.cpp` | `m_tcp_pool` with buffer and age, `serving` = `m_mutex` locked by `ProcTcpSegment` | append, one cut-and-callback per step, limit test; close, vanish, clean |
| `DhfModule` | `nmea_decoder.cpp` on top of `Nmea450Parser` (EXTENDS it) | `m_lineBuffer`, the filters (`settings`), the counters (`stats`); `saved` is what the host holds of the settings | `WorkRaw`/`CutLine`/`RawDone` are `ProcRawBytes`, `Work450` a datagram; `ProcMsg` is part of both; `Timing`, `Initialize`, `Free`, `Click`, `GetSettings`, `GetDefaults`, `ApplySettings` |
| `AisDecoder` | `ais_decoder.cpp` | none | operators: armour, `FetchBits`, `Power` (a mask), `SignExtended`, `DecodeAisText`, `ClassA`, `LongRange`, `Voyage`, `EmitNmeaReport`; `Decoded` = `DecodePayload`; `FieldsRead` lists the bits it fetches |
| `GeoMsgParser` | `geo_msg_parser.cpp` | none | operators: `Read`, which fields each sentence is read for and how; `Parsed` = `ParseInMsg` |
| `TextLayer` | the two `ParseMsg`, `compile_time_pipeline.h` and `nmea0183_parser.cpp`, on top of the two (EXTENDS them) | the sentence at hand and what each parser made of it | `PipelineParseMsg`, `Nmea0183ParseMsg`, in either order; `Arrive` and `Return` are the caller |
| `IdentifyDefs`, `IdentifyMethods` | the headers of the same names | none: what a client passes by reference is an argument and part of the result | one operator per function: `ParseLast`, `ParseOffSeq`, `ClearAllIdentifys` … |
| `ProtocolInfo`, `ConfigXML` | `protocol_info.h`; `ConfigXMLDefs.h`, `ConfigXMLMethods.h` | none | tables; `compareModules`, `compareLinkers`, `clear…` |
| `Sdk` | clients of the four (EXTENDS them) | `array` at hand; the lists, offsets and blocks a client keeps; `result` | one action per helper, each client calling its own in any order |
| `ModuleParams` | `ModuleParamMethods.h` | none | conversions: `getIntValue`, `getBoolValue`, … |
| `ModuleHost` | `IfaceModuleExt.h`, `BaseModuleExt.cpp` and the settings half of `nmea_decoder.cpp` (EXTENDS `ConfigXML` through `ModuleParams`) | `values`, `dynParams` are what the processing has, `shown`, `rows`, `enabled` the form, `sets`, `opts` the structures of the host; `module` and `host` are chosen by `Init` | one action per method of `IModuleExt` that does something, and the user's clicks |
| `Pipeline_proofs` (with the queue's), `GcService_proofs`, `NetProcessor_proofs`, `Nmea450Traffic_proofs`, `TextLayer_proofs`, `DhfModule_proofs`; `DhfSdk_proofs` | theorems about the module of that name; the last about `ModuleHost` and `Sdk` | | |
| `NumberLemmas` | wrapping words, least and greatest elements, induction and recursion up to a number: lemmas | | |
| `MC*` | instances for TLC | | |

Choices a reader should know of.

* **Memory order.** An index has a single writer, so its modification order is
  the sequence of its stores, and the other thread may read any position it has
  not gone past. A release store that is read by an acquire load orders what
  precedes it before what follows the load; `RaceFree` is stated with that order
  and is not about interleavings only. The copy of a 530-byte packet has a
  beginning and an end.
* **Stale flag.** `g_running` is loaded relaxed. `PollTest` may be taken although
  main has already stored FALSE.
* **Bytes.** In `Nmea450Parser` a sentence is a value and its checksum a set of
  bit numbers, XOR being symmetric difference. In `NetProcessor` a byte is its
  position in its connection; only whether it is `\n` matters. TAG blocks arrive
  parsed, and a `g:` tag has a line number between 1 and its total.
* **`out` of the 450 parser.** `main.cpp` never registers `SetOnMsgAssembled`,
  so there the assembled sentence is dropped; `out` is what a registered callback
  (the plug-in registers one) receives. `main.cpp` also never connects the text
  layer, and its raw `$GPRMC` packet, which has no `UdPbC` header, is dropped by
  line 10 of `nmea450_parser.cpp`.
* **Decoders.** In `TextLayer` a payload is the codes of its characters, a text
  likewise, and a number the integer the code divides; a field of a geographic
  sentence is what the code can tell of it (its text, whether `stod` accepts it,
  where its point is, whether `*hh` hangs on it). The layer keeps no state between
  sentences, so that a run is about all sentences of a set, not about their order;
  the parsers have no type invariant worth its run. `meant` is what the sender put
  into the sentence: in `MCTextLayer` the encoder is written from bit positions, not
  from the decoder.
* **Values left over.** In `Sdk` a value is `<<received, at>>`, the one at offset `at` of
  the array of that number, so that one left over from an earlier array can be told from the
  same one of this array.
* **Blocks.** In `Sdk` and `ModuleHost` memory is counted, not addressed: a block
  that is overwritten or dropped without being freed adds to `lost`, or stays in
  `live`.
* **Careful host.** No text says how a host fills its structures. `host` is
  `"careful"` (it empties a structure before a module fills it), `"careless"` (it
  does not) or `"data"` (it is concerned with data and the form only).
* **Exceptions.** `SpliceThrows` ends the behaviour, as an exception that leaves a
  thread function does. In `NetProcessor`, a method another program may call,
  the caller may catch: `CallbackThrows` leaves the object in the state that
  unwinding leaves it in.
* **join.** `std::thread::join` by two controllers at once is undefined;
  `StopJoinThrows` gives it the outcome of the `std::system_error` the standard
  library raises for a handle that is no longer joinable. The other properties
  of `GcService` assume, besides, that the unlocked pool access shown by the run
  `GcServicePool` does no damage.
* **Seeded faults.** A definition whose comment begins with "Seeded fault" is a
  plausible wrong version of the one after it. It is used by no specification;
  `PROJECT.json` lists which property notices it.

## 3. Runs

| Run (cfg) | Question | Result |
|---|---|---|
| `Pipeline` | Is the ring race-free, are its tests exact, is it a bounded FIFO (`Refinement` of `BoundedFifo`)? Is a prefix of the script processed in order; is every packet processed; does the program end? | holds, with the one exception `EndsOrFull` names |
| `Nmea450` | With a cleaner and talkers that leave an id alone for 6 s: are groups never mixed, never dropped early, never left over, is what has come handed on whatever others under the id lost, and does nothing throw? Without a cleaner and with ids used again at once, as in `main.cpp`: is a group with an id of its own unharmed, but for the exception that ends the thread? | holds |
| `NetProcessor` | Is each line handed on once, in order and unmixed, in bounded memory, and do dead sessions leave? | holds, tails for the three reasons `LineOrTail` names |
| `GcService` | One cleaner, no lost wake-up, no pass under a shutdown, stop returns unless a start overtook it, cleaning goes on? | holds |
| `DhfModule` | Are lines cut out of the stream once and whole, do the counters add up across restarts, do the settings chosen last decide what is sent? | holds |
| `TextLayer` | Is no field read beyond the payload or the sentence, is what is reported of class A and message 5 what the sender put in, do both ways lead to the same AIS report, are receivers without a fix taken, is what the plug-in counts as a position reported as one? | holds, with the exceptions `FieldsInside`, `IsReportedText`, `GeoInside`, `FixlessIsTaken` and `CountedIsReported` name |
| `Sdk` | Is what is reported as found of the last module and of this array, are offsets in order, is each block freed, is each change noticed, do names lead back to numbers? | holds, with the exceptions `FoundInLastModule`, `BlocksFreed`, `ChangeNoticed` and `NamesRoundTrip` name |
| `ModuleHost` | Is what the user or a scheme said last in force, is no block lost, do the controls follow the processing, are the counters true? | holds, with the exceptions named in the comments of the four properties |
| `Nmea450Reuse` | `NeverThrows` when an id is used again after 1 s | violated, a finding |
| `Nmea450Sum` | `ChecksumHolds` | violated, a finding |
| `GcServiceStop` | `StopReturns` | violated, a finding |
| `GcServicePool` | `NoPoolRace` | violated, a finding |

Bounds, and why they are enough.

* `Pipeline`: nine packets, a ring of four, indices that wrap at 8 (`Laps` 2, the
  least the `static_assert` of line 19 allows a `size_t`): the words wrap once and
  each slot is used a third time. Three packets tell apart what is in a slot. The
  ring fills, drains and wraps; main may stop the threads at any step. The proofs
  remove these bounds. In the program itself the script has three packets and the
  ring 131072 slots, so that the stuck case of `EndsOrFull` cannot occur; it would
  with a real source of packets.
* `Nmea450`, deployment `Cleaned`: two groups, of three and two lines, with the same
  id, and a single sentence. `Timeout` is the 3 s of line 106, `CleanPeriod` the 2 s
  of the cleaner. `ReuseGap` 6 = `Timeout` + `CleanPeriod` + 1 is tight: with 5 TLC
  finds a stale line in the next group. Two losses and two copies allow one of each
  in either group, or both in one. Deployment `AsInMain`: no cleaner, ids used
  again at once, a third message with an id of its own; one loss and two copies
  already make the two others throw. In `Cleaned` a message that lost nothing follows
  one that lost a line under the same id; `arrived` and `count` tell for each message
  what has come and how often it was handed on.
* `NetProcessor`: a limit of 2 bytes for 4096; lines of 0 and of 3 bytes
  before their end, below the limit and just above it, and beginnings of every
  length between; two connections of one client, so that
  beginnings of lines can be left behind, and a second client. A unit of time is
  five minutes; `ReuseGap` 3 = `Timeout` + `CleanPeriod` + 1 is tight: with 2 TLC
  finds lines of two connections joined. One exception.
* `GcService`: two controllers, each calling start and stop in any order, and two
  threads to create (the bound is in the guard of `StartLock`). One of them can be
  a leftover while the other is started. The proofs remove these bounds.
* `DhfModule`: a stream of six bytes in pieces of one to three, so that lines and
  line ends are cut at every place and one piece may hold two lines; a group of
  two, a line left over of another group with its id (the exception of finding 1
  leaves `workData`), a datagram without a group; two starts, so that what a first
  run leaves behind meets a second. Each message may be sent or refused by the host.
  `Timeout` 0 stands for the 3 s: a group is either fresh or may be dropped.
* `TextLayer`: every header either parser knows and some it does not, 1 to 14
  fields (the longest guard asks for 13), all alike or with one of them empty;
  payloads just below, at and just above each length a guard asks for (38, 84, 96,
  168, 420 bits), of zeros and of ones; both coordinates of class A at 0, at one to
  either side, at their ends and at "not available", with courses at their ends and at "not
  available", and with all the fields beside them filled; what a long-range report and
  messages 4, 18 and 19 say, of which nothing is claimed; texts
  of no, one and all characters, with spaces before, inside and behind, of letters
  and of the characters at either end of the six-bit alphabet, filled up with
  spaces or with `@`; standard sentences of each size without their numbers, with and
  without time, status and mode. Each sentence is
  taken on its own, so one step of each parser is all there is.
* `Sdk`: arrays of up to three identifiers of a module (1), a port (38, two bytes),
  a direction (53, one byte) and a type without a size (0), and of up to two with
  the second kind of module (2), whole and cut off at every byte of the last;
  `MaxArrays` 2, so that each list, offset and block may be left over from another
  array. Schemes of one and two modules with equal and different names, settings
  and options, up to two links.
* `ModuleHost`: integers of 8 bits (`INT_MAX` 127), with the smallest of them in both
  notations; two schemes for each module, of which one has an argument that is not
  an option and one a filter that does not exist; one edit; two calls of
  `setProcModuleOptions` between two `Free`, the least that show that options add
  up; pieces of two bytes, taken whole, in part, not at all or refused; `MaxData`
  pieces between two resets.

Deadlock is checked except in `Pipeline`, `Nmea450`, `DhfModule`, `Sdk` and
`ModuleHost`, where behaviours end: the program exits, all was sent, an exception
ended the thread, the arrays are used up, a bound on the calls is reached.

## 4. Fairness

* `PFairSpec`: each thread is scheduled (weak fairness of its own steps) and a
  store becomes visible in the end. A thread that tests `g_running` again and again
  after the store reads FALSE in the end (strong fairness of `PollEnd`, which is
  enabled only between two polls): the C++ standard asks stores to become visible in
  a finite time. Main need not stop the threads.
* `Nmea450Traffic!FairSpec`: time passes, the cleaner runs, talkers finish the
  groups they have begun, datagrams in flight arrive or are lost.
* `GcService!FairSpec`: threads are scheduled; a mutex that is free again and
  again is obtained in the end (strong fairness of the lock steps; the cleaner
  gives `m_cv_mutex` up while it waits); a deadline passes although spurious
  wake-ups may come before it. Nobody has to call start or stop, and no data has to
  come.
* `NetProcessor!FairSpec`: a call that has begun returns, time passes and the
  cleaner, which needs the mutex, obtains it in the end. No client has to do
  anything.

## 5. Proofs

All are checked by TLAPS with no step left out, for every value of the constants
that the named assumptions allow. TLC evaluates each assumption in a run.

| Assumption | Says | Because |
|---|---|---|
| `CapacityAssumption`, `LapsAssumption`, `ItemsAssumption`, `MaxPushAssumption` | a ring of at least one slot, indices that wrap after two laps or more | lines 17-23 of `lock_free_queue.h` and a `size_t` |
| `ScriptAssumption` | the script is a sequence of packets | `main.cpp` |
| `ThreadsAssumption` | threads are distinct | |
| `NetAssumption` | what ends a line lies in its stream; limits are positive | the constants of `net_processor.h` |
| `ParserAssumption`, `TrafficAssumption` | checksums have 8 bits; each message has its datagrams, and each surroundings its id and number of lines for each message | a `uint8_t`; what a datagram carries |
| `ModuleAssumption` | each sentence is AIS or not, a position or not, and not empty; datagrams are of the groups; pieces are not empty | `nmea_decoder.cpp` |
| `MessagesAssumption` | the parts of a sentence are parts of one text (`IsCoherent`): a header is not shorter than what it was recognised by, commas stand between the fields; and who means something by a message sends all of it, each field at its place (`IsSent`) | `SplitString` makes them of one string; ITU-R M.1371 |
| `SdkAssumption` | an array is what was written into it, one identifier behind the other, the last possibly cut off (`IsWritten`); lists of what is looked for name types that have a size, each once (`IsSearched`); schemes are complete and uids differ (`IsScheme`) | how `IdentifyMethods.h` reads them; the loops of `ConfigXMLMethods.h` take the counts for the lengths |
| `HostAssumption`, `IntAssumption` | a structure of a scheme that counts nothing points to nothing; lengths are natural; there is one `int` more below zero than above | the constructors in `ConfigXMLDefs.h` |
| `SaidAssumption` | it is known what a scheme says (`IsSaid`): it has every parameter of the module at least once, in any order and among others, and parameters of one name do not contradict each other; a number stands for its amount, of which an `int` keeps what is less than the count of all `int`s (`StandsFor`); a user enters texts, flags and `int`s | a scheme is saved from structures that a module has filled (`getModuleParams...`, `getDefaultModuleParams`), and may be edited afterwards |

**The queue** (first part of `Pipeline_proofs`). `RaceFree` is not inductive: it speaks of what
was acquired, not of why that is enough. `IInv` adds the order of the positions
(`w_sync <= w_view <= n_read <= r_sync <= r_view <= n_write`), that a call past its test
has room by what it has *acquired*, and that each slot between the indices holds a
whole packet. `NumberLemmas` has the arithmetic of wrapping words: the
difference of two words that are less than a range apart is exact, and positions
less than a lap apart lie in different slots. From `IInv` follow
`TestsAreExact`, `NoDataRace` and, with the sequence of the slots between the
indices as refinement mapping, `ImplementsFifo`: for every capacity, every width
of the indices and every number of pushes. Push takes effect at its release
store, Pop at its own.

**The cleaner** (`GcService_proofs`). `GInv` adds two facts to the three
invariants: a controller about to create a thread knows that there is none, and
a cleaner that found the flag down can rely on it until it gives `m_cv_mutex` up.
Both rest on mutual exclusion, which `TypeOK` states thread by thread. Proved for
any number of controllers and starts: `TypeCorrect`, `AtMostOneCleaner`,
`NoWakeupLost`, and the action property `ShutdownIsKept`.

**The program** (second part of `Pipeline_proofs`). Every step of the threads is a step of
`SpscQueue` or leaves the queue alone (`UsesTheQueue`), so that the theorems about
the queue hold of the program (`NoDataRaceInProgram`). `PInv` adds which packet of
the script is in which slot, in the producer's hands and in the consumer's;
`PacketsInOrder` follows: for every script and ring, what was processed is a prefix
of the script.

**The TCP sessions** (`NetProcessor_proofs`). One lemma, `NextKeyStep`, says what
any step of anybody does to the session of one key (`KeyStep`: a few cases); each
invariant is about one key and is proved along these cases.
`MemoryBounded`, `InOrderOnce` and `AllHandedOn` speak of states between two calls; the
invariants (`Bounded`, `Ordered`, `Accounted`) say what holds within the loop of
`ProcTcpSegment` as well, that what is still buffered comes after all that was handed
on, and that nobody takes the session away that is being served (`Held`).
`LineOrTail` needs more: that the buffer is a stretch without gaps of the bytes of *one*
connection (`Stretch`), that its first byte begins a line or follows a
loss that is recorded (`Beginning`), and that what an old connection left is
gone before the key comes back (`Clock`). The last needs the hypothesis
`Patient` of `LinesAreNotMixed`, `ReuseGap > Timeout + CleanPeriod`: with one unit less
TLC finds the bytes of two connections in one line, so it cannot be left out.
`Patient` is what the run has; the other three theorems do not need it.

**The 450 parser among its talkers** (`Nmea450Traffic_proofs`). A message is `Safe` if
talkers are patient and a cleaner runs (`Patient`), or if no other message has
its id (`Unshared`). The heart of the invariant is `Alone`: at the id of a safe
message nothing of any other message is sent, in flight or pooled as long as anything of
it is. It rests on ages: what is in flight is of this second (`Flights`), a group
is never older than its id has been quiet, and a cleaner leaves none that is older than
`Timeout` and one period (`Ages`). `WholeMessages`, `ThrowsNotIfPatient` and
`OwnIdUnharmed` follow, whatever is lost, duplicated or reordered; the hypotheses stand
in the properties themselves, and the run has surroundings that satisfy and some
that do not satisfy them. `HandedOn` and `OwnIdUnharmed` speak of a message
each of whose datagrams has come (`HasCome`), be it as a copy, whatever was lost of others
or of itself. For it the invariant says of a safe message not yet handed on, each of whose lines
that were sent has come or is still in flight (`Pending`), that what has come is in
the pool (`Here`) and its group too young to be dropped while more is coming
(`Young`); together `NotDropped`. A message that loses all copies of a line before one has come
leaves this part of the invariant and never comes back into it, for there is nothing left
to copy (`LostBefore`). A group of a safe message that is complete is not left in the
pool (`StillOpen`). Nor is a message handed on more often than each of its lines has come (`Counted`, with `CountedStep`). Both
properties let a talker wait between two lines as long as it likes where nothing
cleans, and up to `Timeout` where a cleaner runs. After an exception, which ends the
thread of `main.cpp` and is finding 1, nothing is delivered any more: `OwnIdUnharmed`
names it as what can keep a message with an id of its own from being handed on, and
says that the group which throws is never that message's.

**The text layer** (`TextLayer_proofs`). The parsers keep no state, so the
invariant only says that a report is of the sentence at hand; the rest are lemmas
about the decoders, for every payload, header and number of fields: the guards
on lengths cover the reads behind them (`FieldsInside`, `GeoInside`), both
dispatches agree (`SameReport`), the conversions are tested for
emptiness where a receiver without a fix leaves fields empty (`FixlessIsTaken`: all of
RMC, GLL, GNS and TLL, with or without time, status and mode), and
what the plug-in counts as a position is one the decoders report
(`CountedIsReported`), each kind of sentence from the size on that its own parser asks for
(`PositionKinds`). The exceptions are those the properties name.
`SentIsReported` claims the position and the course of class A and what a message 5 says; it
is proved for senders that are described by what they put where
(`IsSent`: the bits of a payload from `start` on are the lower `width` bits of a
number, in two's complement), never by an encoder, and for any payload around it. It
rests on `FetchBits` taking one bit after the other (`FetchedByBit`), on
what that makes of the upper bits of a number (`FetchedNumber`: a quotient, less
what the width cannot hold), on the sign mask (`SignedFetched`), and on what is cut
off a text (`TrimEndCuts`, `TextFetched`). `FetchBits` and `Power` are recursive
functions; that they exist, and induction along them, come from `Recursion` and
`Climb` of `NumberLemmas`, in which a step is a function and the numbers for which
something holds are a set.

**The plug-in** (`DhfModule_proofs`). The invariant has four parts that share little.
*Settings*: the text the host holds is that of settings in force. *Sending*: what was
sent went through the filters chosen last. *Counters*: `Accounting` compares counters
with sums over maps; `Total` is a fold, and that incrementing one entry increments
the sum is proved by taking a smallest set for which it does not.
*Lines*: `LinesCut` speaks of all lines of the stream; the invariant `Cutting` says that
what is buffered is a run of the bytes that came, from the beginning of a line on,
and that the lines given to `ProcMsg` are, in order, all that ended before it, without any
reference to the pieces in which they came.

**The module interface** (first part of `DhfSdk_proofs`). Three invariants, of the form, the
counters and the blocks. `NothingLost` is not inductive: `clear…` goes by the
count, so that what is needed is that a structure that counts nothing points to nothing
(`IsFilledSettings`, `IsFilledOptions`). It is kept by every method of the plug-in, and by
those of the sample under a careful host; `getModuleParamsOptions` of the sample breaks
it under a careless one, where `cnt_arg` becomes 0 and `args` stays.

**What was said** (last part of `DhfSdk_proofs`). `RunsAsMeant` is not inductive: of what
a structure holds it says nothing. `RunsInv` adds that settings which are handed on
*say* what `meant.host` is, and that options *list* `meantRows.host` (`SettingsSay`,
`OptionsSay`), both of the texts as they stand and not of how they came to stand there.
Three facts carry it. A loop over parameters that say a row arrives at this row, from
wherever it starts (`FilledIs`, `AppliedIs`: what has been seen of the parameters is set,
and nothing sets it otherwise afterwards); a loop over options that list rows makes these
(`RowsAre`). What is written says what was written (`WrittenSays`): the digits of
`getStrIntValue` amount to its argument (`DigitsRead`, `IntSurvives`), and `getIntValue`
reads what any digits stand for, since wrapping in every round comes to the same as
wrapping once in the end (`WrapDigit`, `NumberWraps`, `ReadsNumber`), the smallest `int`,
whose amount is none, included. What texts mean is defined apart from the functions that
read them (`StandsFor`, `Says`, `Chooses`). And options that are written list the
rows they were written from (`ListsAll`). What options were meant to say is a record that
lacks what nothing is claimed of: fetching them from the list takes the number away
(`WithoutNumber`, line 297 reads it from another column), and what is shown, handed on and
processed must agree with the rest (`AllAsMeant`, `StillAsMeant`). Once options have been told
twice without `Free` nothing is claimed of them any more (`ToldAre`, `ToldOneMore`).

**The SDK** (second part of `DhfSdk_proofs`). Clients of the helpers are proved about
for all arrays, lists of types and schemes, in any order of the calls.
*Comparisons*: `compareModules` and `compareLinks` report a change if and only if there is
one, for lists of any length (`ModulesCompared`, `LinksCompared`), as long as modules are in
one order or have one name, and no link comes twice. In whatever order modules are, two
schemes that are taken for the same differ in names only (`NamelessCompared`). Both
rest on `OneDecides`: a change is reported if some module has no equal in the other scheme.
The rest is about loops over an array. The folds that stand for
these loops are shown to be runs of their steps (`IsFold`, `FoldExists`), and what such a
run computes is shown along it (`Climb` of `NumberLemmas`).
*Reading*: the identifiers of an array that are whole are its first m, for some m
(`IsWholeUpTo`), and both ways to go through an array, by what is left of it and by
offsets, read exactly these (`ItemsAre`, `ItemsByOffsetAre`).
*Searches*: `FoundInLastModule` follows from what a search has noted after i
identifiers (`NotedUpTo`): the types it has met since the last module, and of each the last
value. Of `ParseIdentify`, which takes the first identifier it meets, it claims what
holds whether one takes the first or the last.
*Offsets*: for `OffsetsHold` one has to say of a sequence how far its current
pass has come, and that what is in the list up to there is of this pass, ascending, and
of this array; what is behind may be of an earlier one (`SeqUpTo`, `WrittenIsRising`).
*Blocks*: `BlocksFreed` is not inductive, for it is not said what of a list is to be
freed: all entries of a list own their value, or none does (`AllOwn`). The
invariants of the clients are `Compared`, `SearchInv`, `OffsInv` and `BlocksInv`.

The inductive invariants and the type invariants are proved and not run by TLC; the
properties that follow from them are both run and proved.

Only model-checked:

* all liveness properties: TLAPS does not prove liveness under fairness;
* `NamesRoundTrip` of `Sdk`: it is about tables that are part of the module, so that TLC
  has looked at all there is, and a proof would only enumerate them again.

## 6. Where the code and its documentation disagree

1. `nmea450_parser.cpp:88` throws `std::out_of_range` out of the receive path when
   a group is complete by count and lacks its line 1 (`Nmea450Reuse`).
2. The spliced sentence keeps the checksum of its line 1, so that the next layer
   rejects every assembled multi-line message (`Nmea450Sum`).
3. `StopTimeoutCleaner` tests and joins the handle outside the mutex: a start in
   between makes it wait for a cleaner nobody has told to stop (`GcServiceStop`).
4. The cleaner erases groups of the parser's map without the mutex under which
   the network thread fills it (`GcServicePool`).

Seen while modelling, without a run: `garbage_collection_service.h:42` calls the
`shared_ptr` to the parser a weak reference; the producer's loops do not test
`g_running` (`EndsOrFull`), against "the network thread never waits" of
`NMEA/README.md:14`.

Seen in the decoders, as exceptions named in the properties of `TextLayer`:

* `geo_msg_parser.cpp:102` reads `f[7]` of a `$PTNL,GGK` that line 95 lets through
  with seven fields (`GeoInside`).
* GGA, and the sentences of Ashtech, Fugro, Trimble, Leica and SBG, throw out of
  `ParseMsg` when a field that should be a number is empty; RMC, GNS and Garmin's test
  for it, but not of a last field, which `*hh` hangs on (`FixlessIsTaken`).
* A message 5 of 420 bits lacks two bits of the last character of its destination
  (`FieldsInside`); 424 are what the field lengths add up to.
* Line 32 of `ais_decoder.cpp` reads the MMSI from 24 bits at 6; in ITU-R M.1371,
  which `NMEA/README.md:52` names, it has 30 bits at 8. The sentence of
  `test_ais_decoder.cpp:41` is of MMSI 205448888; the test expects the 802534 that the
  code makes of it. The status (bit 30 for 38) and the speed (8 bits at 42 for 10 at
  50, so that they are never the 1023 they are compared with) of messages 1 to 3
  and the fields of message 27 are displaced likewise. Messages 18 and 19 are reported as
  a position of 0, 0, and message 4, which `README.md:52` and `ais_structures.h:8` list, not
  at all, while the plug-in counts all three as positions. `SentIsReported` claims nothing of
  any of these fields and messages: neither that they arrive nor that they do not.
* The test `c == '@'` of line 73 is never true: `@` is 0 in six bits and stays a NUL,
  so that texts filled up with it, as M.1371 does, keep NULs at their end.
  `IsReportedText` claims nothing from the first `@` on.

Seen in the SDK and the module interface, as exceptions named in the properties:

* `ParseAllIdentifyFromLastModule` (`IdentifyMethods.h:326`) forgets the blocks of
  the identifiers ahead of a module marker without freeing them (`BlocksFreed`).
* The loops over offsets (`IdentifyMethods.h:369`) test `l`, which they never change,
  and may read `h[l]` behind the array before they end. `OffsetsHold` claims that they find
  nothing there, and not that the byte is read: it may be only if the array ends with a
  whole identifier.
* `compareModules` (`ConfigXMLMethods.h:172`) takes the name of the second module at
  the index of the first: names that change places along with the order of their modules go
  unnoticed. `ChangeNoticed` claims a change of anything else.
* `get_protocol` knows neither H323/H225 nor SKINNY by the names
  `get_name_protocol` gives them (`NamesRoundTrip`).
* `recvGuiData` of the sample (`BaseModuleExt.cpp:448`) does not free a message that
  comes before `CreateProc`; lines 47, 256 and 277 overwrite structures of the host
  without freeing what they hold (`NothingLost`).
* The sample's `Initialize` does not reset its counters, and it counts as sent what
  it was given; `CountersTrue` claims nothing of either. `setProcModuleOptions` adds to the
  options of an earlier call, and `BaseModuleExt.cpp:297` fetches an option's `int` from the
  column of the flag; `RunsAsMeant` claims nothing of options told twice without `Free`, nor
  of an option's number that was fetched.
* `strFileFormat` gives the number 7, which is the count of the formats, the default
  name `bin`, which `indexFileFormat` does not know (`NamesRoundTrip`).
* The comment of `ParseIdentify` (`IdentifyMethods.h:107`) promises the identifier of the last
  module, the code takes the first it meets. `FoundInLastModule` claims that the last module's
  is not missed, and that what is found is this array's if no earlier module wrote one.
* The sample forgets settings it is told without a form; its form comes up enabled
  while data is processed, and the plug-in's reads `bStateProc` before anything has
  written to it (`FormFollows`).

Seen there and not claimed by a property: `getIntValue` reads `-0x10` as 0 and never
returns its default (`ModuleParamMethods.h:115` tests the pointer); `#pragma push(1, pack)` packs
nothing; some comments on types in `IdentifyDefs.h` disagree with `getIdentifySize`.
In the decoders, the `$GPLQ` of line 106 of `geo_msg_parser.cpp` never reaches
`ParseProp`.

## 7. What is not modelled

* Spelling: TAG block syntax, `stoi` and its exceptions, hexadecimal digits of a
  checksum, the wording of descriptions.
* A callback that calls back into its `NetProcessor`, and a callback that is
  replaced while data arrives: undefined behaviour (a second lock of a mutex by
  its owner, a data race on a `std::function`) for which no caller exists.
* Several producers or consumers on the queue: excluded by its contract.
* Floating-point arithmetic of `GeoMsgParser`, its coordinates and the projection:
  TLC has none. So that component is partly modelled: which field is read for what,
  and what throws. A garbled coordinate (`GeoToDecThrows`) is modelled as throwing,
  and no property says it should not.
* The DHF host: it is not in the repository. The models enumerate the calls it may
  make. It makes one call at a time, gives data between `Initialize` and `Free`
  only, gives settings to the processing only while it does not run, and gives
  options with all their parameters (a missing one leaves a member of `SDynParam`
  unwritten): nothing in the repository says more about it.
* Of the plug-in: `m_src`, which nothing reads but the unused argument of `ProcMsg`,
  and the output of `updateStatistic`; that the pool of its 450 parser is kept
  across a restart (`DhfModule` has it, no property is about it) and that
  `m_lineBuffer` is not bounded. A piece of the stream that begins with `UdPbC\0` would
  be taken for a datagram; the stream has none.
* Of the SDK: `clearModulesInfo` and `clearLinkersInfo`, which delete arrays that only
  a host could have made; the methods of the sample that do nothing (`workProc`,
  `timing`, `HookMessage`, `procGuiData`), its three strings of statistics, and
  `ShowForm`.
* Constant tables that no code reads (the dictionaries), a program that times
  floating-point loops, and the files CMake generated under `mingw/` and `msvc/` to
  identify compilers, which are 3798 of the 8567 lines of C and C++ in the tree.

## 8. Plan

Done, in this order: `BoundedFifo`, `SpscQueue` and its proofs; `Nmea450Parser` and
`Nmea450Traffic`; `GcService` and its proofs; `Pipeline` and its proofs;
`NetProcessor`; `DhfModule`; `AisDecoder`, `GeoMsgParser` and `TextLayer`; the SDK
(`IdentifyDefs`, `IdentifyMethods`, `ProtocolInfo`, `ConfigXML`, `Sdk`);
`ModuleParams` and `ModuleHost`; the remaining fields of `AisDecoder`.

The proofs: `SpscQueue` and `Pipeline`, `GcService`, `NetProcessor`, `TextLayer`,
`Nmea450Traffic`, `DhfModule`, `ModuleHost`, `Sdk`.

Left: proofs of the liveness properties, once TLAPS has rules for fairness.
