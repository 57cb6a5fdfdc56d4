# UltimateAntiCheat in TLA+

UltimateAntiCheat is a user-mode anti-cheat for Windows games: a C++ client
linked into the game, with detection threads that look for debuggers, injected
modules, tampered code and forbidden programs, and a C# server that the client
keeps a session with and reports its findings to. This directory holds TLA+
models of the parts whose correctness depends on the order in which threads,
packets and calls happen, the TLC configurations that check them, and TLAPS
proofs about the central one. Paths are relative to `src/`.

## 1. Inventory

| Component | State it keeps | Operations | Interacts with |
|---|---|---|---|
| Evidence locker (`Common/EvidenceLocker`) | `FlaggedList`, `SentFlags`, `HasEvidenceData`, `EvidenceData`, `AlreadySentEvidence`, two mutexes | `AddFlagged` (2 overloads), `AddEvidence`, `SendFlag`, `FlagWithData`, `PushAllEvidence` | called by every detection thread; sends through the network client |
| Detections (`Core/Detections`) | three threads, the DLL verification queue, lists of modules and drivers already checked, the blacklisted byte patterns | `StartMonitor`, `Monitor` loop, `OnDllNotification`, `CheckDLLSignature`, `MonitorProcessCreation`, `MonitorImportantRegistryKeys`, scans | reports to the locker, starts its push |
| Anti-debugger (`AntiDebug`) | its thread, list of detection functions | `CheckForDebugger` loop, `_IsHardwareDebuggerPresent` in a new thread per second | suspends all threads of the process; reports to the locker |
| Network client (`Network/NetClient`) | socket, recv thread, `HandshakeCompleted` | `Initialize`, `ProcessRequests`, `HandleInboundPacket`, `FlagCheater`, `QueryMemory`, `EndConnection` | server, locker |
| Server (`Server/Network`) | `clients`, per client its cookies, their count, `in_heartbeat_loop` | accept and read callbacks, packet handlers, heartbeat workers, `Stop` | network client |
| Packet codecs, cipher (`Network/Packets`, `PacketReader/Writer`) | none (pure) | read, write, `CipherData`, `Cipher` | both ends |
| Thread wrapper (`Process/Thread`) | `std::thread`, id, `ShutdownSignalled` | constructor, `BeginExecution`, `SignalShutdown`, `JoinThread`, `IsThreadSuspended`, destructor | every thread owner |
| Start-up and shutdown (`Core/AntiCheat`, `AntiCheatLib`, `main.cpp`) | owns all of the above, the driver | constructor, `Initialize`, `LaunchDefenses`, `IsAnyThreadSuspended`, `Cleanup`, `FastCleanup`, destructor | everything |
| Integrity checker (`AntiTamper/Integrity`) | section checksums, violations, its thread | `PeriodicIntegrityCheck`, checksum and region scans, `AddViolation` | the loader, the headers and sections of every module; nobody reads its violations |
| Event logger (`GameEvents/EventLogger`) | event queue, worker, `mtx`, endpoint | `LogEvent`, `SendDataToServer`, worker loop | HTTP client |
| Virtual machine (`Obscure/VirtualMachine.hpp`) | stack, `sp`, `ip` | `Execute`, `SetStackSize` | constructed by Detections, never executed |
| Logger (`Common/Logger`) | `consoleMutex`, log file | `log`, `logw` | every thread |
| Preventions, remapping, protected memory | page protections | `DeployBarrier`, `StopMultipleProcessInstances`, `remap` | start-up |
| Process, PEB, export and handle inspection; services, signatures, HTTP, hashing | none of consequence | queries | the scans |

What is hard in this code, and what makes each component correct:

- **Shared lists, half locked.** `AddFlagged` searches `FlaggedList` and
  `EvidenceData` before it takes `EvidenceListMutex`; the push reads and writes
  the same containers with no lock at all, in another thread, while its sends
  may fail. Correct means: one writer at a time; what is recorded stays and
  goes out under its own flag; a flag counts as sent only if it was; evidence
  goes out once; nothing stays behind a flag that counts as sent.
- **A session over a byte stream without lengths.** A read may return several
  packets, and only the first is looked at; answers to heartbeats are compared
  by position; one pool thread sets `in_heartbeat_loop`, another clears it;
  `clients` has no lock; an exception in a callback ends the server. Correct
  means: an honest client is never refused, has one heartbeat worker, gets its
  heartbeats in turn and for as long as the session lasts, and is forgotten when
  it goes.
- **Threads that suspend threads.** Every second a new scan suspends every
  other thread, main suspends the detection threads to see whether anybody has
  suspended them, and both log under a mutex, and allocate and print under locks
  of the C runtime, that a suspended thread may hold.
  Correct means: each suspension is undone exactly once, the client never comes
  to a halt, and its own scans raise no alarm.
- **Start-up and shutdown.** A thread may run before the pointer through which
  it reads its own shutdown flag is set, and before that flag is cleared;
  `FastCleanup` terminates threads that may hold a lock; the destructor cleans
  up a second time and joins threads that never look at their flag.
- **A queue whose mutex is locked twice.** Game threads log events while one
  worker drains the queue, keeps its mutex for the whole pass and locks it a second
  time before it takes the first event. Correct means: what is logged is sent.
  It is not.
- **Modules that come, go and change.** The loader calls back into the client
  on any thread, also on the one that drains the queue it fills; the integrity
  thread looks modules up by name, by a remembered address and by a section
  count that belongs to another module, while main rewrites that header and
  unmaps the image. Correct means: a verdict per load; a recorded violation has
  a cause outside the client; a lasting change is recorded.
- **Processes that live shorter than their numbers.** WMI names a new process
  by its number a second late, the scan reads whatever has that number then,
  with patterns from a web page. Correct means: who is flagged held a pattern,
  and who keeps one is flagged.
- **Bytes.** Nothing on the wire says where a packet ends; the ciphers depend on
  a byte's place; buffers are reused and grow. Correct means: each end reads
  what the other wrote.

`PROJECT.json` lists every hazard at its line, with the properties that watch it.

## 2. Modules

| Module | Models |
|---|---|
| `EvidenceReporting` | what the locker promises: records are kept, and only records are delivered (the abstract specification) |
| `Heartbeats` | what a session promises about its heartbeats: a cookie is given only after the last was answered (the abstract specification of `Session` and `Wire`) |
| `EvidenceLocker` | the locker, the detection threads in it and the push |
| `MCEvidenceLocker` | its instance for TLC |
| `EvidenceLockerProofs` | the theorems about it |
| `Link` | TCP connections as both programs use them |
| `NetClient` | the client's end of a session |
| `AnticheatServer` | the server: callbacks, handlers, heartbeat workers, client list |
| `Session` | `NetClient` and `AnticheatServer` composed over `Link` |
| `MCSession` | its instances for TLC |
| `HwScan` | hardware-register scans, the console mutex, the runtime's locks and `IsAnyThreadSuspended` |
| `MCHwScan` | its instance for TLC |
| `ManagedThread` | the wrapper class `Thread` around every long-lived thread |
| `Lifecycle` | start-up and shutdown over it: constructors, loops, ways out, destructors |
| `MCLifecycle` | its instances for TLC |
| `EventLogger` | the event queue, its worker up to the second lock, and the callers of `LogEvent` |
| `MCEventLogger` | its instance for TLC |
| `ModuleWatch` | loader, DLL queue, integrity thread and the remapping of the image |
| `MCModuleWatch` | its instance for TLC |
| `ProcessWatch` | the fetched patterns, the WMI watch and the byte scan of new processes |
| `MCProcessWatch` | its instance for TLC |
| `Wire` | one connection byte by byte: writers, ciphers, buffers, readers, handlers |
| `MCWire` | its instance for TLC |
| `WireProofs` | the theorems about its codecs, its reads and the exchange |
| `ProcessWatchProofs` | the theorems about `ProcessWatch` |
| `SessionProofs` | the theorems about `Session` |
| `HwScanProofs` | the theorems about `HwScan` |
| `LifecycleProofs` | the theorems about `Lifecycle` |
| `ModuleWatchProofs` | the theorems about `ModuleWatch` |

### EvidenceLocker

One step is one access to a shared container. `pc[t]` says where thread `t`
stands: a detection thread goes `idle -> find -> lock -> mark (-> add -> has) ->
idle`, which is `AddFlagged` line by line (`Detect` the call, `FindFlag` the
search, `PushFlag` the lock and first `push_back`, `MarkUnsent`, `AddEvidence`,
`SetHasEvidence`). The push goes `flag -> unsent -> (evidence ->) find -> send
-> (marksent ->) flag`; `flagIt` and `eviIt` are its positions in the two lists.
`SendFlag` and `FlagWithData` begin with a call of `AddFlagged(flag)` and only
send when that returns `false`, so the pusher shares the `AddFlagged` actions:
`Return` says where each caller goes on. `StartPush` leaves the monitor thread
waiting (`Detections.cpp:306`: the `std::async` future is destroyed at the end
of the loop body, and its destructor waits). A send succeeds (`SendOk`) or fails
(`SendFail`) at any time. `sent` counts what the server was told; it is the only
variable the program does not have.

Abstractions. The lists are sequences and an access to one is atomic: the
standard calls an unlocked read beside a write undefined, and the model takes
the outcome in which every access sees some consistent list. `pid` never changes
what is done. `AlreadySentEvidence` is a set, because only membership is asked.
`SendFlagMutex` is taken by the push alone.

### Link, NetClient, AnticheatServer, Session

`toServer[c]` and `toClient[c]` hold packets sent and not yet read; a read takes
the first and any number of those after it, which are lost, as both receive
loops lose them. A closed end is read as end of file, a reset one makes reads,
writes and `Disconnect` throw. A heartbeat's cookie is its number: the server
compares the cookie it gets with the one at `current_heartbeat_count` in
`heartbeat_responses`, and a list of all cookies sent so far is its length. The
cipher and the XOR of the answer are bijections and left out.

`reader[c]` is where the callback of a client is (`adding` in the accept callback,
`pending` in the operating system, `search` in the `foreach`, `handle` in
`HandlePacket`, `rearm` after it, `removing` in `List.Remove`); `worker[c]` is its
heartbeat worker. `server` is `running`, `stopped` or the name of the exception
that ended the process.

`clients` is a `List<T>` without a lock. A change of it is under way from `adding`
or `removing` to the callback's next step (`Changing`); two that overlap set
`raced`, and from then on the list may lack any entry, have it twice or have a null
one: every reader of the list chooses (`MayFind`, `MayMiss`, `EnumerationThrows`,
`Remove`), and the model does not keep what is left in it. `disturbed` holds the
callbacks whose enumeration another callback's change has invalidated: they throw,
or, if they had not begun, go on.

A write to a client that has closed its end may be answered with a reset
(`clientEnd[c] = "reset"`): whatever reads, writes or disconnects then may throw or
find the client not connected. When `EndRead` throws, `clients.Remove(c)` is called
with a null `c` and the client stays in the list (`EndReadThrows`). A send that
returns false drops the client (`HandleHello`), or makes its worker disconnect it
and leave `in_heartbeat_loop` set (`WorkerWrites`).

### HwScan

`pc[t]`, the suspend count Windows keeps (`suspends[t]`), the holder of
`consoleMutex` and that of `runtime`. The last stands for the locks of the C
runtime, the heap's and stdout's: whoever logs takes them inside the console mutex
(`WriteLine`, `Logger.hpp:83-99`), and without it detection threads allocate, main
writes `std::cout` (`main.cpp:211`) and a scan adds its flag (`EnterRuntime`,
`LeaveRuntime`). One lock is enough, because a log call needs all of them.
A suspended thread takes no step. The one exception is a call of `SuspendThread`
already entered, which completes inside the kernel: so two threads can suspend each
other. `left[s]` is the rest of a scan's snapshot, in any order; `found[s]` what
`GetThreadContext` gave. The log calls of lines 115 and 131 come before
`ResumeThread`, the one of line 102 has nobody suspended. Main runs
`IsAnyThreadSuspended` once (`main.cpp:202`). Left out are allocations of a scan
between its steps, which it makes while it has nobody suspended, and a console
somebody has stopped by hand, where printing does not return.

### ManagedThread, Lifecycle

Six loops (`Loops`): the monitor, its two watchers (process creation, registry),
the anti-debugger, the receive loop and the integrity loop. For each, `at[l]`
says where it is, `object[l]` and `owner[l]` whether its wrapper is built and the
owner's pointer to it set, `flag[l]` is `ShutdownSignalled`. A thread starts in
`Spawn`, inside the constructor of its wrapper; `Construct` stores the flag,
which held anything before (the project is built as C++14, whose
`std::atomic<bool>` is not initialised), `Assign` the owner's pointer. `main` is
where the main thread stands and `cur` the loop it is busy with:
`checks -> spawn -> construct -> assign -> driver -> initialize -> ... ->
parent -> built -> waiting` on the way up; `fast -> splash -> cleanup <-> join ->
cleaned -> unwind -> delete -> deleted -> exited` on the way down. A throw goes
from anywhere on the way up to `unwind`, without a destructor of `AntiCheat`.
`Order` is the order in which each phase treats the threads; that of `unwind` is
the reverse order of the members, with the three wrappers of `Detections` in the
order of its destructor. `crash` records a null or dangling pointer that was
used, after which nothing runs.

Abstractions. A loop is its test of the flag, a pass that may log, and the tick
the watchers store in the monitor's wrapper. Of the console mutex the model
keeps who holds it; `main` takes and releases it in one step. At most one
register scan runs at a time (`HwScan` has the overlaps). A receive loop in
`recv()` returns only if the server sends something or the connection ends.
Allocation failures, an `Integrity` constructor that throws, the thread
suspensions of `HwScan` and `EndConnection` are left out, and so is that
`TerminateThread` may orphan the heap's lock as it does the console mutex.

### EventLogger

`wpc` is where the worker is: `loop -> lock -> sleep -> loop` while there is nothing
to send or no endpoint, and `lock -> take` once there is. `owner` is the holder of
`mtx`, which the worker keeps from `lock` to the end of the pass. `SendDataToServer`
locks it again (`EventLogger.cpp:105`), which is undefined for a `std::mutex`: it
blocks or throws out of the thread, whichever the build's does (`relock`, chosen
once). Either way the worker goes no further. Posting, retrying and putting back,
which come behind that line, are never reached and not modelled; nothing else calls
`SendDataToServer`, and no other file uses the class.

### ModuleWatch

`base[m]` is where a module is mapped, `content` and `writable` describe its
non-writable sections, in the order of its headers; a section's number stands
for its name. The byte sum of a section is an abstract number, so two contents
may share one. The loader's notification is `NotifyLock`, `NotifyPush`, by the
thread that loads, which may be the monitor in its signature check; `LockQueue`,
`PopOrLeave`, `Judge` are `CheckDLLSignature`. The integrity thread walks
`Records` (`im`) and the sections the header of each admits to (`is`); each
section is summed three times (`round`: against the start, for the disc, "from
the disc"), and a sum is a lookup and, later, a read (`LookUp`, `ReadSection`).
`DeployBarrier` is main's `ChangeNumberOfSections` and, in a release build, the
copy, unmapping and mapping of the image; while it is unmapped (`~mapped`) code
of the program can only fault. `crashed` ends everything. Where a disc may fail
(`disc` in `Worlds`), opening, reading or parsing a file gives a sum of 0
(`DiscReadFails`), which the comparison takes for a change; `misread` records it.
`GetSections` looks the module up a second time, after the handle was fetched: when
it is not at the handle any more, `ReadSection` finds no section, the bytes of the
module that lies there now, or a fault.

Abstractions. All sections modelled are non-writable ones. A file on disc never
changes: what it holds does not matter, because the comparison with it sums the
loaded image. The path of a DLL and the DLL are one name. A violation is
recorded per section, whatever text goes with it. The loader's callback logs; the
console mutex it takes under the loader lock is not modelled.

### ProcessWatch

`process[p]` is what runs under the number `p`: an id, given at its start and
never reused, and the bytes of its `.text`. `known` and `events` are WMI's.
The thread's `pc` is `fetch -> setup -> wait -> scan -> wait`, `next` the pattern
that is read next: the section is read anew for each one. An event whose `Get` or
`QueryInterface` fails is dropped (`DropEvent`, `lost`); when `Next` fails for good
the loop goes on and hears nothing (`NextFails`, `deaf`), because its result is not
looked at. That an event which names a process number also has a name is assumed. A pattern list is a
sequence of lines of tokens; what `stoul` throws at is one of them. A section
shorter than a pattern makes the scan run on behind its buffer, which matches or
faults: both are allowed.

### Wire

A stream is a sequence of bytes as they travel, ciphered. A read takes a part of
it: with `split = FALSE` one that ends where a packet ends (or, if none fits, a
full buffer), with `split = TRUE` any. Byte values, key, cookie length and buffer
sizes are parameters. A packet is built by the same calls as in `Packets.cpp`,
on an array that doubles; the server's goes out with all the capacity of its
`MemoryStream`. `buffer` is the server's receive buffer: a new read overwrites
its beginning only. What the first byte of a packet says is a label that no
action but the history of `atServer` and `atClient` and the choice of a read
looks at. `SC_QUERY_MEMORY`, which the server never sends, is what a torn read may
look like: the client reads an address and a size, and sends bytes of its memory,
sends nothing, or ends in an allocation that fails. `MakeHeartbeat` checks that it
was called from its own module, which it always is. Exceptions on either side are states of that side. Where `Session`
treats packets as whole, this module shows what that takes.

## 3. Runs

Every run keeps deadlock checking on unless it says otherwise.

| Run | Expect | What it shows |
|---|---|---|
| `EvidenceLocker` | pass | monitor thread, process watcher and push; three flags, two pieces of evidence; sends may fail. Types, one writer, marked only if sent, evidence sent once, monitor's evidence kept, monitor's bare flags sent once, refinement of `EvidenceReporting`, every detection reaches the server |
| `EvidenceStranded` | violation | evidence another thread adds while the push sends its flag alone is never sent |
| `Session` | pass | a client with two heartbeats beside one that says hello, reports a flag and leaves: types, answers meet their cookies, one worker, cookies given in turn; callbacks find their client until two changes of the list have overlapped; clients that left are forgotten unless a reset comes first |
| `HeartbeatsStop` | violation | answer handled before the worker clears `in_heartbeat_loop`: no heartbeat is ever sent again |
| `FlagKillsServer` | violation | the first reported flag ends the server: nothing fills `Detections` |
| `HwScan` | pass | two scans, a logging thread and main: suspensions balanced, an alarm means a real suspension, a suspended thread runs again unless threads wait in a circle of suspensions, the console mutex and the runtime's locks |
| `Lifecycle` | pass | the program with anti-debugging, thread check and driver, and the library with networking: no wrapper is deleted under its thread; no loop stops unsignalled although flag and pointer are stored late; null pointers are used only by a thread just being started, dangling ones only after a failed constructor or by scans nobody joins; after 'q' the driver is unloaded and only the integrity loop, the receive loop or a lost console mutex can stop main |
| `QuitEnds` | violation | after 'q' main joins the integrity loop, for ever |
| `EventsPushed` | violation | an event that is logged with an endpoint set is never sent: the worker stops where it locks its mutex again |
| `ModuleWatch` | pass | DLLs that load, unload and come back elsewhere; or contents and page protections that change beside a remapping; or disc reads that fail: verdicts per load and in order, violations with a cause, every load judged, lasting changes of the byte sum recorded |
| `ProcessWatch` | pass | two processes on two numbers and three answers of the pattern page: a flagged process that still runs held a pattern, or a short section or an empty pattern is to blame; one that keeps one and the same pattern is flagged, unless WMI drops its event |
| `Wire` | pass | hello, two heartbeats, a flag and a goodbye, in any reads: if none tears a packet each end reads what was said, nobody throws, an honest client is not dropped but for an empty hello field, and cookies are given in turn |

Bounds. *EvidenceLocker* needs none: sequences stay short because each thread
lists a flag or a piece of evidence at most a fixed number of times, so the
state space is finite by itself. Three flags are one per way of reporting (by
the monitor alone without data, by it alone with data, by two threads both
ways); two pieces of evidence are one per thread that has any. Two writers and
the push are enough for every race of the code, whose critical sections involve
two parties each; the theorems need no bound. *Session*: `MaxHeartbeats` and
`MaxFlags` bound what each client is sent and reports. Two heartbeats are enough
for an answer to meet the wrong cookie; two clients for a callback to disturb
another's enumeration and for two changes of the list to overlap. *HwScan*: two scans overlap in every way two scans can,
and a circle needs at most one thread more; each scan identity is used once. A scan may find a register set in the detection
thread, and log and end there; it fails to read main, and logs, and finds nothing in
the other scan.
*Lifecycle* has finitely many states by itself; the two settings between them
start all six loops (a program with networking would have one more thread to
terminate), and `QuitEnds` uses the settings `main.cpp` sets itself.

*EventLogger*: two callers and three events; the run needs one of each.
*ModuleWatch*: the program with two sections, a DLL with one more and one with
one less (the section count is the program's for all), and one that comes later;
`Places` lets one of them come back at another's address; `Changing` bounds
which sections change: the program's first, its second (which the shortened
header hides) and one beyond the program's count. `Worlds` holds what happens
around the client: three loads or unloads in a debug build, or two changes in a
release build; or disc reads that fail. Together they add no step of the client that
one alone has not.
*ProcessWatch*: `MaxStarts` and `MaxChanges`; two starts are enough for a number
to pass on, two changes for a pattern to come and go; `Answers` and `Texts`
contain a pattern at a section's end, one longer than a section, a comment, an
error page and an unreadable section, and two texts that hold different patterns of
one list, so that a process can go from one to the other between two reads. *Wire*: bytes of two bits keep 16-bit
numbers at 16, which no length in the instance exceeds; the client's array
starts with 3 bytes and must double for every packet, the server's stream with 4
and must grow for a heartbeat; a read takes several packets and the buffers
are shorter than all of them. `MaxHeartbeats`, `MaxFlags`, `Hellos`, `Cookies` and
`Tails` bound what is said; the version number is such that a torn read can take it
for `SC_QUERY_MEMORY`.

Where the system may really stop, deadlock is not checked: a session ends when
both clients have left or the server has stopped, scans that have suspended
each other stop the client, the program exits or dies, the logger's worker is stuck,
the watched process has crashed, and all bounded loads, changes, processes or
packets have happened.

### Fairness

- *EvidenceLocker*: threads are scheduled (weak fairness on each), the mutex
  starves nobody (strong fairness on `PushFlag`: its waiters are few and each
  holder leaves after a bounded number of steps), the monitor loop gets to its
  push again and again although it may find more on the way (strong fairness on
  `StartPush`), and a server that is tried again and again is reached again and
  again (strong fairness on `SendOk`); a send that fails is a step nobody can
  count on. No detection ever has to happen.
- *Session*: its run needs only that the server's read callbacks are scheduled
  (`CallbackFairSpec`). `HeartbeatsStop` is found under `FairSpec`, where the accept
  callback, the workers and the receive thread are scheduled too. Connecting,
  flagging, leaving, dying and stopping are never forced.
- *HwScan*: strong fairness per thread, because a thread is disabled whenever it
  is suspended and enabled again after; a call that prints or allocates returns
  once its thread runs and has the locks. Logging, allocating and starting scans are
  not forced.
- *Lifecycle*: strong fairness on main and on each loop that can wait for the
  console mutex, which every holder gives back after a bounded number of steps;
  weak fairness on scans. Nothing forces 'q', a call of `Destroy` or `recv()`
  to return.
- *EventLogger*: the worker and a thread inside `LogEvent` are scheduled, and the
  mutex starves nobody (strong fairness on `LockPass` and `LockToLog`). Nobody has
  to log or to destroy.
- *ModuleWatch*: monitor, integrity thread and main are scheduled, and the
  queue's mutex starves nobody; loads, unloads and changes are free.
- *ProcessWatch*: WMI polls and the watcher is scheduled; processes do nothing
  they do not want to, and the subscription need not fail.
- *Wire* states safety only.

## 4. Proofs

`EvidenceLockerProofs` proves, for any sets of threads, flags and data and any
assignment of reports to threads, from the assumptions of `EvidenceLocker`
(`DistinctThreads`, `NoDataIsNoData`, `SomeFlag`, `ReportsAssumption`):

| Theorem | Property |
|---|---|
| `TypeCorrect` | `TypeOK` |
| `WritersExclude` | `OneWriter` |
| `MarkedWereSent` | `MarkedOnlyIfSent` |
| `EvidenceOnce` | `EvidenceSentOnce` |
| `RefinesReporting` | `ImplementsReporting` |
| `MonitorKeepsEvidence` | `MonitorEvidenceKept` |
| `MonitorFlagsOnce` | `MonitorFlagSentOnce` |

None of the properties is inductive. `TypeInv` adds to the types that the push
stands inside the lists and that a thread adding evidence has some. `ControlInv`
adds where the threads can be: the push never gets past the search of
`AddFlagged`, because it only asks about listed flags (`PushPlaces`: this is why
the push can call it without taking the lock); the monitor thread waits while
its push runs (`DetectorPlaces`); what is being sent stands in the lists
(`SendsRecorded`); a flag about to be marked was sent (`MarksSent`). On top of
it, `OnceInv` says that evidence that went out is in `AlreadySentEvidence` and
evidence about to go is not; `KeptInv` that evidence of the monitor thread shows
in `HasEvidenceData` whenever a push looks; `BareInv` that a bare flag of the
monitor thread, once sent, is marked or about to be, and is listed only once.
The refinement maps a listed flag and a recorded piece of evidence to
`recorded` and a counted send to `delivered`; `PushFlag` and `AddEvidence` are
`Record`, `SendOk` is `Deliver`, all else stutters. The lemmas `PushMoves`,
`DetectorMoves`, `MonitorMoves` say once what each kind of step leaves alone.

`WireProofs` proves, from `WireAssumption` (a byte has at least two values, the
XOR is an involution, keys are bytes), for packets of any length:

| Theorem | What it says |
|---|---|
| `ServerReadsClient` | the server's cipher undoes the client's |
| `ClientReadsServer` | and the client's the server's |
| `NumberReadBack` | a 16-bit number is read as written, at any place |
| `TextReadBack` | a written text passes the length check, is read back whole, and the next field is looked for right behind it |
| `TypeCorrect` | `TypeOK` |
| `ReadsRight` | `ReadAsSaid` |
| `NobodyThrows` | `NobodyThrown` |
| `CookiesInTurn` | without split packets, the connection implements `Heartbeats` |
| `CookiesOneByOne` | `BeatsInTurn`, the same as a property of the run |

`Plus` and `Minus` undo each other on bytes (`ByteShift`, from division with
remainder), so does the XOR; the two ciphers apply them in opposite orders to
even and odd places. For the text, the bytes before it, its length and itself
are joined (`ThreeJoined`, `FourJoined`) and each index is computed.

`ReadsRight` and `NobodyThrows` also use `FitAssumption`: the opcodes and the
length of a cookie are 16-bit numbers; a hello, a heartbeat with the bytes that
follow its cookie, and a flag fit the server's buffer, and what the server sends
fits `RECV_LENGTH`. The code justifies the first of these: cookies have 128
bytes, the buffers 1024 and 512, the server's packets 32 and 256. How many bytes
follow the cookie it does not bound (the client writes up to the next zero in
memory): that they fit is an assumption about what lies there. A longer packet
is torn by the read, and torn packets set `split`, where the two properties, by
their statement, promise nothing. `TypeCorrect` needs no such assumption.

The argument: a writer whose array doubles always has room (`DoubledHasRoom`; the
least power of two exists by `LeastNat` and `PowerOfTwo`), so what it wrote is
there, one field behind the other (`Wrote`). A cipher turns the start of a longer
array into what it would make of the start alone (`CipherStarts`), so what the
server pads and what stays in a reused buffer behind a packet do not change how
the packet is read. The streams are rows of whole packets (`UpPackets`,
`DownPackets`), each made by one of the writers, until a read ends inside one. A
whole read takes packets off the row and leaves the first of them at the front
of the buffer (`WholeRead`, `UpRead`, `DownRead`), and the reader finds there
what the writer meant (`HelloRead`, `HeartbeatRead`, `CookieArrives`). Which
heartbeat is compared with which cookie is `Turn`: at most one of a cookie going
down, a worker about to answer and an answer going up exists at a time, and it
belongs to the cookie saved last (`Pending`); the server sends the next cookie
only after it, and a goodbye comes only after the client left. `Inv` is the types
together with all of this as long as nothing is split (`~split => Orderly`).
`CookiesInTurn` follows from it: `Turn` gives the guard of `Give`, the types that of
`Accept`. So `Session`, which passes packets on as values, and `Wire`, which passes
them on as bytes, implement the same exchange. Neither implements the other step by
step: the server's callback is one step of `Wire` and several of `Session`.

`ProcessWatchProofs` proves, from `WatchAssumption` (a byte has values, the answers
are lines of tokens, the sections are bytes), for any process numbers, answers,
sections and bounds:

| Theorem | Property |
|---|---|
| `TypeCorrect` | `TypeOK` |
| `FlagsHaveGround` | `FlagHasGround` |

`TypeInv` adds to the types that events and processes stay below the count of
starts, that nothing is read where nobody runs, and that nothing has been found
before the subscription. Numbers pass on from process to process while a scan
reads, so a flag is only right if the number the scan read under was still that
of the event's process; `EventsName` says so: no process runs under two numbers,
and an event that waits or is worked on carries its process's number as long as
that process lives. `GroundInv` is then inductive: every flag, and the result of
the scan so far, rests on a section that held the pattern (`FoundOccurs`: what the
two loops find is an occurrence), on a scan that ran too far, on an empty line, or
on a process that is gone and does not come back (`GroundStays`).

`SessionProofs` proves, from `MaxFlagsAssumption` and `MaxHeartbeatsAssumption` (the
bounds of each client are numbers), for any clients:

| Theorem | Property |
|---|---|
| `TypeCorrect` | `TypeOK` |
| `WorkersAlone` | `OneWorker` |
| `ClientFound` | `CallbackFindsClient` |
| `AnswersAlwaysMatch` | `AnswersMatch` |
| `CookiesInTurn` | each session implements `Heartbeats` |
| `CookiesOneByOne` | `BeatsInTurn`, the same as a property of the run |

Every action is about one client and leaves the others as they were
(`OthersAlike`), unless it ends the server; then no callback or worker is left
(`ServerOver`), which is the part `ServerInv` adds to the two properties it makes
inductive. `ClientFound` holds as long as no two changes of the list have overlapped,
and the changes of other clients leave the client where it is. `AnswersMatch` needs to know why a cookie is not replaced before its answer
has been compared: nothing in the server waits for the answer. `TurnInv` says that
the order is kept by the messages themselves. A hello or an answer going up, the
callback that has it, the callback about to queue a worker, the worker asleep or
about to write, and a heartbeat going down are the places from which the exchange
goes on, and at most one of them is occupied (`Turn`). In each, either the cookies
are even, or exactly the last one saved is due and the packet carries it (`Fits`).
A read that joins packets can only lose the turn (`UpShorter`, `DownShorter`), never
double it.

The refinement (`Beating(c)` in `Session`) maps the cookies saved for a client to
`given` and the comparisons passed to `answered`, until the server ends or closes
the connection (`Ended`). `WorkerWakes` is `Give`, an accepted `HandleHeartbeat` is
`Accept`, the rest stutters or is `End` (`StepMoves`). Nothing in the server asks
whether the last cookie was answered before it saves the next; that it was is
`TurnInv`.

`HwScanProofs` proves, from `DistinctThreads`, `FiniteScans` (the scans can be
counted), `CheckedAssumption` and `ContextAssumption`, for any detection threads and
any number of scans that overlap, with the runtime's locks taken inside the console mutex
and without it:

| Theorem | Property |
|---|---|
| `TypeCorrect` | `TypeOK` |
| `SuspensionsReturned` | `SuspendsBalanced` |
| `AlarmsAreScans` | `AlarmMeansSuspended` |

That counts are never negative, part of the types, rests on the balance itself: who
resumes is one of those counted. `PlaceInv` says where each kind of thread stands
and that no scan has opened one that has not begun, without which a scan could keep
a thread that is not counted. Each action then adds one holder (`CountUp`), removes
one (`CountDown`), or leaves all of them (`CountKept`, `StepKeeps`); a scan that
ends runs, so nobody keeps it (`RunsUnheld`). An alarm sees a count above zero, so
it sees a holder, and main itself is not one yet.

`LifecycleProofs` proves, from `ConfigsAssumption`, for any set of configurations:

| Theorem | Property |
|---|---|
| `TypeCorrect` | `TypeOK` |
| `NoneDeletedRunning` | `DeletedAfterEnd` |
| `NoneStopsUnasked` | `StopMeansSignalled` |
| `PointersAlwaysHold` | `PointersHold` |

The invariant adds three parts. `PathInv`: each loop is started once, after those
before it (`Earlier`), so a start never revives a wrapper. `LoopInv`: a loop that
runs is known to its owner, or main is just starting it; a flag that is set was
set by somebody, or is the garbage of a wrapper main is just constructing. With it,
what `Cleanup` skips because the pointer is null does not run. `EndInv`: the loops
`Cleanup` has come past (`Joined`) have ended, all but the integrity loop have when
the destructors begin after a constructor that succeeded, and before the
destructors only a failed constructor has deleted anything. A loop's step moves one
running loop, or crashes at a place that says what was wrong (`LoopDoes`), and keeps
all this whatever main does meanwhile (`LoopKeeps`); the steps of the ways out are
one lemma (`ExitKeeps`), because each stops, deletes or skips the current loop.

`ModuleWatchProofs` proves, from `ModulesAssumption` (among others: recorded modules
lie at different addresses), for any modules, sections, contents and sums:

| Theorem | Property |
|---|---|
| `TypeCorrect` | `TypeOK` |
| `ViolationsHaveCause` | `ViolationMeansChange` |
| `VerdictsFollowLoads` | `VerdictsInOrder` |

`OriginInv` says what is as at the start without a cause to differ: the base of a
module never unloaded, the content and protection of a section never changed, and
the copy main is about to map in place of the image. `ExpectInv` carries it through
the three rounds of a comparison, although each takes several steps and anything
may change between them: what is expected is the sum of the start (`StartSum`),
which for a section beyond the program's count is none, in the record as in every
later look-up. A record is found by the base, and since a module that stayed is
alone at its own, the record is its own. Where a read of the file fails, what is
compared is 0 instead, and the section is in `misread` (`DiscKeeps`).

The order of the verdicts rests on `TurnInv`: only the monitor, while it verifies,
has a module in hand, and it begins after the barrier that start-up waits for.
`VerdictInv` divides the notifications of the loader in three: those that have
their verdict, as many as were judged, the one in hand, and those in the queue, in
the order they came. The number of unsigned modules among the first is counted
with `Cardinality`, so that one more judged adds one or none (`RefusedIs`); the
lists of notifications only grow at their end (`ListsLonger`).

Every invariant of the passing runs is a theorem, and so are their action
properties and refinements. Only model-checked is liveness (`DetectionReachesServer`
and all of it in the other modules), which TLAPS does not do under fairness, and what
a torn read of `Wire` brings, about which the runs say that no promise holds.

## 5. What the models found

- Evidence can be stranded (`EvidenceStranded`). Two hardware scans that overlap
  can also list one flag twice, because the search of `AddFlagged` is outside the
  lock; for the monitor's own flags `MonitorFlagSentOnce` excludes it.
- Heartbeats can stop for good while the session is up (`HeartbeatsStop`).
- The server does not survive a reported flag (`FlagKillsServer`).
- A scan that logs can bring the client to a halt: it suspends a thread that holds
  the console mutex, or one inside `std::cout` or the heap, and then waits for that
  lock; or main suspends the holder, the scan suspends main and wants the console.
  Every such stop is a circle over suspensions, the console mutex and the locks of
  the runtime (`SuspendedRunsAgain`, up to `Knot`). Main also takes the
  suspensions of the client's own scans for an attacker's, and ends the program:
  `AlarmMeansSuspended` says just how much an alarm means.
- The program does not end after 'q' (`QuitEnds`), and a constructor that fails
  once the integrity thread is started does not return either.
- A terminated thread that was logging takes the console mutex with it, and
  main waits for it in the next destructor (`ConsoleLost`; every property of
  `Lifecycle` about the end allows for it).
- A driver stays loaded when `Initialize` or `LaunchDefenses` fails after it was
  loaded, and always in the library, whose only way out is `Cleanup`
  (`DriverLeft` excludes both).
- `PushAllEvidence` returns the opposite of what its comment says
  (`Common/EvidenceLocker.cpp:134` and `173`). Nobody reads the result.
- The event logger's worker locks a `std::mutex` it holds (`EventLogger.cpp:24`,
  `105`), which blocks or throws: with the first event it finds, it stops, and every
  later `LogEvent` and the destructor with it, or the program ends. No event is ever
  sent (`EventsPushed`).
- A client whose system answers a write behind its end with a reset stays in the
  server's list: `EndRead` throws and `clients.Remove(null)` removes nobody
  (`Server.cs:116`; `DeadClientForgotten` excludes it). The list has no lock:
  connects and disconnects that overlap may lose an entry, and the next packet of
  that client ends the server with a null reference (`CallbackFindsClient` claims
  nothing then).
- Integrity: `GetSections` takes the program's section count for every module
  (`Process.cpp:116`), so further sections sum to 0 at the start and ever after,
  although `Integrity.hpp:68` speaks of all of them; once the barrier has set the
  program's count to 1 only its first section is looked at. The comparison with
  the file on disc returns the sum of the loaded image (`Integrity.cpp:236`;
  `Integrity.hpp:69` says it compares to the files), or 0 when the file cannot be
  opened or parsed, which is recorded as tampering (`misread`). A sum of bytes does
  not see their order. A module that is unloaded and loaded again elsewhere is a
  violation; at the address of one with fewer sections `.at` throws
  (`Integrity.hpp:178`), and one that is unloaded between lookup and read faults.
  `TamperRecorded` holds for exactly what is left. Nobody calls `GetViolations`.
- While the image is unmapped (`remap.cpp:405`) other threads of the client that
  run its code fault.
- The byte scan runs past sections shorter than a pattern (`Detections.cpp:1003`);
  a line without a byte matches everything (`:365`); an error page in place of
  the list makes `stoul` throw in the constructor (`:361`); a number above 255 is
  cut. When WMI cannot be set up the watcher is gone and nobody is told; when it
  fails later the watcher hears nothing more, and an event that cannot be read is
  dropped. A process that goes from one pattern to another between two reads of its
  section holds a pattern all the time and is not flagged.
- On the wire, a read that tears a packet makes the client throw in a thread
  that does not catch, or the server read on into an older packet
  (`ReadAsSaid`, `NobodyThrown` exclude it by `~split`; TCP does not). Of packets
  run together, all but the first are lost, also a heartbeat behind the answer to
  the hello. The heartbeat's answer has no terminator and is as long as memory
  makes it; the server accepts it because it does not use that length.

## 6. Not modelled, and the plan

Not modelled for good: the Windows queries behind the detections (PEB, export and
handle inspection, services, signatures), HTTP beyond its outcomes, hashing,
string encryption and vendored code (`json.hpp`, `curl`, `zlib`: more than two
thirds of the repository's lines). They are inputs of the checks, pure functions
or sequences of system calls with no state of their own. The virtual machine is
constructed but never given a program. What the event logger does behind
its second lock never runs. The TLS callback, which turns away threads it does
not know, the check of the import table, the mitigation policies, the module's
random name and the single-instance check are not modelled either.

Still to come: the TLS callback and the table of thread starts it consults, as one
more writer of the lists `EvidenceLocker` models; for the module watch an abstract
specification, a judge of modules, which its invariants should imply step by step;
and, once its second lock is gone, what the event logger retries and puts back.
