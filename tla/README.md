# A verification of remote.exe, remoteds and the kernel debugger's serial link

The repository holds the sources of some two hundred programs: the Windows
Server 2003 development and support tools. Most are sequential filters, editors,
compilers and viewers. Two pieces are verified here. `src/remote` is remote.exe, which
runs a command on one machine and lets any number of clients, coming and going,
see its output and type to it, with remoteds, which keeps a list of such servers. It is
small (some 9 000 lines), its server is one thread driving many chains of overlapped
I/O through completion routines, and what makes it correct is spread over a dozen
files: the kind of code where a test reaches few of the orders in which things may
happen. `src/debuggers/ntsd64/dbgkdtrans.cpp` is the debugger's end of the serial line
to a kernel being debugged: a protocol that must survive lost and damaged packets, with
three layers of retries on this end, of which a working line exercises none.

## The system

| part | source | state it keeps | operations |
|---|---|---|---|
| main loop | `srvmain.c` | `rghWait`, `bShuttingDownServer` | waits alertably; connection, timer, child and stdin events; the 30 second sweep; shutdown |
| sessions | `srvhshak.c`, `srvctos.c`, `srvstoc.c`, `srvutil.c` | a `REMOTE_CLIENT` per client: flags, two OVERLAPPEDs, buffers, `cbWrite`, `dwFilePos` | handshake, input chain, output chain, `CloseClient` |
| lists | `srvlist.c`, `srvlist.h` | handshaking, connected and closing clients, a critical section each | add, move, remove; `SendStatus` walks them on another thread |
| child | `srvchild.c` | one OVERLAPPED, the child's pipes | read the child's output, write it to the temp file |
| temp file | `srvchild.c`, `srvutil.c` | `hWriteTempFile`, `dwWriteFilePointer` | everything any client may see is appended to it, from several places |
| connections | `srvmain.c`, `srvhshak.c` | listening IN pipes, one OUT pipe, `bOutPipeConnected`, a timer | accept, pair two pipes, recycle |
| filter | `srvstoc.c` | three buffers of each client, `SFLG_READINGCOMMAND` | removes clients' own commands from what a client is sent |
| advertising | `srvad.c` | timer, mailslot write | announce the server to remoteds |
| queries | `srvquery.c` | machine-wide mutex, query pipe | one server per machine answers `remote /q` |
| client | `client.c` | two threads, two pipe handles | connect with retries, copy both ways |
| directory | `remoteds.c`, `rdsrelay.c` | table of known servers, the last message | collect advertisements, age entries out, answer queries |
| kernel transport | `ntsd64/dbgkdtrans.cpp` | two packet ids, one buffer, `m_ValidUnaccessedPacket`, `m_Resync`, `m_BreakIn` | write and wait for packets, answer file requests, break in, synchronize |
| its callers | `ntsd64/event.cpp`, `target.cpp`, `dbgdata.cpp` | the request being made | repeat a request until it is answered; wait for the target to stop |

How they interact. A client connects to an IN pipe (and before it, if it is an
old one, to the OUT pipe); the main loop allocates its node and the handshake
starts, a chain of completion routines that alternates reads and writes. At its
end the node moves to the client list and two chains start. The input chain reads
a line, filters it (a command of remote's own is carried out and echoed), writes
it to the child, and reads the next. The output chain reads the temp file at the
client's `dwFilePos` and writes what it read to the client's pipe, until the client
has caught up; then it is idle, and `cbWrite` is zero. The child's chain reads the
child's output and appends it to the temp file. Whoever appends to the temp file
calls `StartServerToClientFlow`, which restarts the output chain of each connected
client whose chain is idle. Any routine may find its client's pipe broken and call
`CloseClient`, which itself appends an announcement and wakes the others.

What is hard. Everything runs on one thread, but in any order the kernel
completes I/O in; calls nest (`CloseClient` inside `StartReadTempFile` inside a walk
of the list); two places wait alertably in the middle of a routine; the same
OVERLAPPED carries reads of a pipe and writes to another; cancelled I/O completes
later, for a node on its way out; and nodes are freed on the strength of a
30 second silence. Beside this thread run the Ctrl-C handler's, which writes to
the temp file, the status command's, which walks the lists, and the query server's.

The debugger's engine calls the transport from one thread: it writes a request and
waits for its answer, or lets the target run and waits for it to stop. While it waits
the transport shows what the target prints, carries out its file requests, writing the
answers from inside the wait, and looks at two flags that the user's thread sets. What
is hard is that everything waits for something: the engine for an answer, a write for
its acknowledgement, the target for either; each packet may be lost; a packet sent again
must not count twice; and there is one buffer.

The repository's other programs are listed as components, not modelled, in
`PROJECT.json`.

## Plan

1. `RemoteSession`: sessions, chains, lists, closing, sweep, shutdown. Done, with
   the proofs of its safety invariant in `RemoteSessionProofs` and of no lost wakeup and
   no failure of its own in `RemoteSessionServingProofs`.
2. `RemoteConnect`: pipe instances and the pairing of IN and OUT, with the one
   minute timer, one-pipe clients, and further servers on the same pipe name. Done,
   with the proofs in `RemoteConnectProofs`: of the instances for any servers, of pairing
   for a server that is alone, of turns for servers that share a name.
3. `RemoteTempFile`: the temp file's contents, with its writers as separate actors.
   Done, with the abstract specification `AppendLog`, which the messages that no
   other write overlaps implement, proved in `RemoteTempFileProofs`, and the proof of
   what clients read in `RemoteTempFileReadProofs`.
4. `RemoteFilter`: `StartWriteSessionOutput` over text with commands in it, against a
   definition of what a client should see, for every way the text is cut into
   reads. Done, with the proof that it is what a client is sent, for any sizes, in
   `RemoteFilterProofs`.
5. `RemoteDirectory`: servers advertising and remoteds listening. Done, with the proof
   of its safety properties in `RemoteDirectoryProofs`.
6. `KdTransport`: the debugger's serial transport and the loops that call it, with the
   abstract conversation `KdDialogue`, which it implements on the checked instance. Done;
   `KdTransportProofs` proves its types.
7. Proofs to come: what of `KdDialogue` holds for any number of faults (see below), starting
   with breaks: the engine sees a break only as the target's last one.
8. Modules that could follow: the pointer operations of `srvlist.h` with `SendStatus`
   walking the lists on its own thread; the takeover of the query pipe (`srvquery.c`);
   `client.c`; the thread messages of mtscript.

How the modules meet. `RemoteSession` starts where `RemoteConnect` leaves a client, at
the name read on its IN pipe, and takes for granted that a session's output goes to its
own client; `RemoteConnect` shows when that holds. `RemoteSession` counts the temp file
in units and lets its writers, except the child's write, take no time; `RemoteTempFile`
takes that write apart from the others and adds the thread `RemoteSession` leaves out.
`RemoteSession` lets the filter send any part of what was read; `RemoteFilter` says which,
for one client, and takes the file as `RemoteTempFile` describes it without overlaps.
`RemoteDirectory` composes the servers' side of advertising with remoteds. `KdTransport`
shares nothing with these.

## RemoteSession

The module models every routine of `srvhshak.c`, `srvctos.c`, `srvstoc.c` and
`srvchild.c`, `FilterCommand` and `CloseClient` of `srvutil.c`, and of `srvmain.c` the
start and end of sessions, the timeout of the main wait and shutdown.

*State.* `list[c]` is the list a node is linked in (`"none"` before it is allocated,
`"freed"` after `HeapFree`); `flags[c]` its `SFLG_` bits; `rd[c]` and `wr[c]` the operation
pending on its `ReadOverlapped` and `WriteOverlapped`, named after what completes it;
`cbWrite`, `left` (`cbReadTempBuffer`), `filePos` (`dwFilePos`) are its fields; `ptr` is
`dwWriteFilePointer` and `eof` the length of the temp file; `child` the operation on
`ReadChildOverlapped`, `childIn` whether `hWriteChildStdIn` is open; `killers` the
clients whose `@K` is waiting in `SleepEx`; `srv` where `OverlappedServer` is, and `ran`
whether a completion routine ran in the `SleepEx` of the loop it ends with. Offsets are
counted in units: one announcement, echo or child's write is one unit.

*Steps.* One completion routine, from its delivery to its return, is one step: the
thread is not interrupted. Its whole effect is in the action, the nested calls
included. These change state that their caller goes on to use, so it is threaded
through them as a record (`FlowNow`, `FlowBecomes`): `StartServerToClientFlow(lst, f)`,
`Announce` and `CloseFlows` return the set of flows they may end in. The one routine
that does not run to its end is `@K`: it waits alertably, other routines run inside
it, and it goes on in `FilterKillReturns`.

*Environment.* Reads, writes and `CancelIo` behave as documented: a cancelled
operation completes with `ERROR_OPERATION_ABORTED` unless it had completed already,
in any order with others. Any pipe may break at any time. Rarer failures are
switched on by the constant `Faults`: a full disk, a failing temp file read, a
completion with no data, an unexpected error code. The child may exit at any
time. A routine that runs on a freed node may find the memory unchanged or not;
from there on the server is "wild" and nothing more is said of it.

*What is abstracted.* The text (a read of n units is sent in any number of pieces,
in whole, or not at all, as the filter may decide), names and times, which OUT
pipe a client has (a client may be closed in `ReadClientNameCompleted` for want of
one), partial completions of writes, and the Ctrl-C thread.

### What is checked

| run | bounds | property | what it says of the code |
|---|---|---|---|
| `session_faults` | 2 clients, all faults, 1 unit of output, reads of 2 | `TypeOK` | |
| | | `OverlappedExclusive` | an OVERLAPPED never has two operations, whichever way walks, chains and closings meet |
| | | `HandshakeHalfDuplex` | the comment in `srvhshak.c` that the handshake never reads and writes at once |
| | | `ChainFlagAgrees` | `cbWrite` is nonzero exactly while a connected client's output chain is active |
| | | `FlagsMatchList` | the flags by which `CloseClient` picks the critical section to unlink under name the list the node is on |
| | | `FreedOnlyChildWrite` | the sweep frees no node with I/O pending on its own handles |
| `session_live` | 2 clients, broken pipes only, 2 units of output, reads of 1 | `IdleMeansCaughtUp` | no lost wakeup: an idle client has been sent all there is |
| | | `ServingNeverFails` | none of the server's `ErrorExit`s is reached while it serves |
| | | `OutputDelivered` | every unit reaches every client that stays, what is written while its chain runs too |
| | | `ShutdownEnds` | a server whose child has exited ends, unless one kind of client never stops sending |

Bounds. Two clients are enough for one to act inside a walk started for the
other, and the local one is never absent. `MaxOutput` bounds input and child output only: announcements
of joining and leaving clients are units too, and add to it. `BUFFSIZE` is 1 in `session_live` and
`session_freed`, so that two units are two reads, and output comes while a chain is in the
middle; in `session_faults` it is 2, so that one read may return less than it asked for. All
runs are exhaustive.

Fairness (`session_live`). The kernel completes temp file I/O and pipe writes, a
cancelled operation completes, and the server's thread returns to an alertable wait:
weak fairness of the output chain's completions and of shutdown's steps. Nothing is
assumed of what clients type, of the child, or of when the server is shut down; a client
that stops reading its pipe is outside the assumption, as it is outside what the
code can promise. The loop at the end of shutdown calls `SleepEx` again until 50 milliseconds
pass without a completion (`srvmain.c:623`): every completion routine sets `ran`, and `Exit`
waits for a `SleepEx` during which none ran. Weak fairness asks for `Exit` only where routines
stop running, so it assumes nothing of how long chains are. That they do stop is what
`ShutdownEnds` says.

### What the code does not do

`session_freed` (violation of `FreedNodesIdle`): a node is freed while its write to the
child is pending, which a comment in `srvmain.c` presumes over. `CloseClient` cancels
what is pending on the client's own handles, and that write is on `hWriteChildStdIn`.
The invariant `FreedOnlyChildWrite` says that this is the only such operation.

More shows in the model. The module states two invariants that the code does not
have; each is found violated with the constants of `session_live`, as the INVARIANT of
a configuration:

* `NoErrorExit`: a child's last write to the temp file, cancelled by the server's own
  shutdown, ends it through `ErrorExit`; the temp file stays.
* `WalkStaysOnList`, with `Faults = {"tempread"}`: a failing temp file read in a walk
  takes the walk onto the closing list.

And with a full disk the announcement of a client that joins cannot be written, and
then nothing starts its output.

Clients still in the handshake are passed over by shutdown. One that is connected after that
is served in the final loop, and if it never stops sending lines or commands the loop never
ends: TLC finds this for `~<>[]ShuttingDown`. `ShutdownEnds` says that nothing else holds the
server there.

One lost wakeup the code itself admits. The Ctrl-C handler echoes to the temp file on its own
thread and starts no client's output, "because we're on the wrong thread, so we punt", as its
comment has it (`srvutil.c:696-707`): until something else is written, idle clients are not sent the echo.
That thread is not in this module, so `IdleMeansCaughtUp` and `OutputDelivered` speak of servers
in which nobody presses Ctrl-C; its writes are in `RemoteTempFile`.

### What is proved

`RemoteSessionProofs` proves, for any set of clients, any `BUFFSIZE`, any bound and
any faults (from the four assumptions the module states of its constants), that the
safety properties of `session_faults` hold throughout. The properties are not
inductive: that a routine issues a read on a free OVERLAPPED depends on what else
may be pending on it, which depends on the node's list and on which chain it is
in. `SessionInv` says just that, one rule per list: `OutputRule` relates list, `wr` and
`cbWrite`; `FlowRule` adds that a pending temp file read is below the end of the
file (so it returns data, and the chain does not stop with `cbWrite` nonzero);
`InputRule` relates list, `rd`, `wr` and the waiting `@K`s; `FlagRule` flags and list.

The nested calls are what the proof is about. `WalkOK`, `AnnounceOK` and
`CloseFlowsOK` show that a walk, an announcement and the announcement of a closing
keep every node's `FlowRule`, and touch no node off the client list (`SameOthers`), in
whatever state their caller is; `CloseClientOK` concludes for `CloseClient` called from
any routine, with the caller's own client half way between two rules (`FlowOKBut`).
Each action then has a lemma, and `NextOK` puts them together.

`RemoteSessionServingProofs` goes on from there, again action by action. Each step goes
where `ServerGoes` says, and keeps every client from being left behind (`NoneLeftBehind`).

* `NoLostWakeup`: `IdleMeansCaughtUp` holds for any clients and bounds if the disk has room.
  The reason is in `WalkCatchesUp`: after a walk of the client list no client on it is idle
  and behind, whatever the state before, so that a routine need only end with a walk, or
  leave pointer and file alone; the client whose own chain comes to rest does so because its
  read was at the end. Hypothesis `"diskfull" \notin Faults`: an announcement that cannot be
  written starts nobody, and TLC finds a joining client left behind.
* `FailuresHaveCauses`: with any faults, the server leaves its loop by shutdown or for one of
  the causes named in `ServerGoes`. The `ErrorExit`s that assert the state of a chain
  ("StartReadTempFile entered with nonzero cbWrite", zero `cbWrite` on completion) are not
  among them.
* `ServesUntilShutdown`: `ServingNeverFails`, if the system returns no unexpected error and no
  temp file read fails (`{"fatal", "tempread"} \cap Faults = {}`; a full disk is allowed).

Only model-checked: liveness (`OutputDelivered`, `ShutdownEnds`), which the prover does not
handle.

## RemoteConnect

The pipe instances servers listen on, up to the point where a session has its two
pipes. Servers on one pipe name are interchangeable to a client: it gets the
instance that was created first, whoever's that is.

*State.* `inListen` and `outListen` are the listening instances of each kind on the
machine, oldest first, each named by its server. `cConnectIns`, `bOutPipeConnected` are
the server's variables of that name, `hPipeOut` the client connected to its one OUT
instance, `timer` whether `hConnectOutTimer` is set, `perPipeEvent` the named event by
which a server tells an earlier one that it is no longer alone. Of a client, `pos` is how
far `EstablishSession` and `SendMyInfo` have come, `home` the server of its IN pipe, `node`
what that server has made of the connection, and `writeTo` the client its `PipeWriteH`
leads to.

*Steps.* One event of a main loop, one completion routine, one step of a client. The
main loop waits on an array of handles and handles the first that is signaled: that
order (the event of another server, OUT, the IN pipes) is in the guards `FallBackDue`,
`OutDue` and `InsLookedAt`. `HandleInPipeConnected` has both of its outcomes, the second
when the node cannot be allocated.

A client may connect between `CreateNamedPipe` and `ConnectNamedPipe` (`"rush"`). Then
`outFresh` and `inFresh` say that the second call is still to come, `early` who has connected
to the IN pipe meanwhile, and the call is a step of its own (`ConnectNamedPipeOut`,
`ConnectNamedPipeIn`) before any other of that server (`Ready`). It finds nobody, and the
instance listens; or a client, which is handled at once, on IN without a look at the OUT event;
or that the client has gone, which is an `ErrorExit` (`ServerEnds`): all instances and sessions of
the server go, and it may be started again. Only an instance that is alone in its queue has
this gap (`Gap`): behind others, whoever comes in between gets one of those. A handler that
creates two instances creates both before it calls `ConnectNamedPipe` on either, which the code
does one after the other: the model has the code's behaviours and some more.

*Environment.* The constant `May` names what can happen: clients that die, clients that
take longer than the minute of the OUT pipe's timer (without `"slow"` the timer fires
only for a client that is not coming), allocations that fail, clients and servers
that start while another client is connecting (`"crowd"`), and clients quick enough to
connect before `ConnectNamedPipe`, and to be gone by then (`"rush"`).

| run | bounds | property | what it says of the code |
|---|---|---|---|
| `connect_any` | 2 servers, 3 clients, slow and quick ones, no memory, servers that end | `TypeOK` | |
| | | `InstancesKept` | each path that closes a pipe instance creates its successor, and no path creates two |
| | | `OutComesBack` | the OUT instance of a server that runs listens again and again, wherever clients stop |
| `connect_alone` | 1 server, 4 clients that may die, 3 IN pipes | `Paired` | a session's output goes to the client its input comes from |
| | | `Welcomed` | no client that lives is hung up on |
| | | `OutKept` | a two-pipe client keeps OUT until its session has it |
| `connect_turns` | 3 servers, 4 clients, one at a time | `OldestAlike` | when nobody connects, the oldest OUT and IN instances are one server's |
| | | `Welcomed` | and so no two-pipe client is refused |

Bounds. Pairing goes wrong between a client that holds OUT and one that takes its
place, with a third (or a one-pipe client) on an IN pipe; three IN pipes let three
names be read in any order. Order among instances needs a third server to show that
it is kept by more than alternation.

Fairness (`OutComesBack`). Weak fairness of each server's handlers, of its calls of
`ConnectNamedPipe` and of its timer, which is what the thread, its main loop and the system's timer
give. None of any step of a client, nor of starting a server.

What the code does not do: with two servers on a name (`May = {"crowd"}`), `OutKept` does
not hold, as a one-pipe client disconnects a two-pipe client that is on its way, which
`server.h` says does not happen. Also: with `"slow"` the next two-pipe client may be
paired with the IN pipe of the one before; with two servers and clients that die,
`OldestAlike` fails and stays false; `client.c:531` waits on the understanding that OUT is
recycled after two minutes, `srvmain.c:990` sets one.

With `"rush"`, `Welcomed`, `OutKept` and `Paired` fail for a server that is alone, so the runs and
theorems about them leave it out. Two of them fail though no server ends: a two-pipe client whose
IN pipe is found connected by `ConnectNamedPipe` is handled before the OUT event, and when its
name is read the server says that it is not connected to OUT and closes it. And a client that
is gone between the two calls (`ERROR_NO_DATA`) ends the server, for all its clients; those on
their way may go on with another server, or with the same one started again, and be paired
with somebody else's pipe there.

*Proved* in `RemoteConnectProofs`, in three parts.

For one server, any clients and any `CONNECT_COUNT`, if clients are neither slow nor quicker than
`ConnectNamedPipe` and memory does not run out (`Alone`): `Paired`, `Welcomed` and `OutKept`. None is inductive. `PairInv` adds
the four facts the code relies on without saying so: there is one OUT instance (`OneOut`), a
two-pipe client on its way is the one connected to it (`HoldsOut`), the server has seen it
there before it reads its name (`SeenFirst`, from the order of the handles), and no session
was made of it before (`StillToCome`).

For any servers and clients and everything in `May`: `TypeOK` and `InstancesKept`. `KeptInv`
says of every server that its listening IN instances and the clients waiting on its IN pipes
add up to `cConnectIns` (0 before it starts), and that its one OUT instance either listens or is
connected, and that a client on an IN pipe whose `ConnectNamedPipe` is to come is still to be
handled (`EarlyKept`). That is counting in a sequence from which instances are taken anywhere and
appended again; lemmas on `Instances` and `Rest` (what is left of a queue without a server's
instances) carry it. `Rest` is a recursive function, and what it keeps is proved from the
least prefix for which it would not (`WFMin` on the naturals).

For any servers that share a name while clients come one at a time (`InTurn`, `May = {}`):
`OldestAlike` and `Welcomed`. `TurnInv` has two kinds of state. Between clients (`Between`) one
server is alone, or all are down to one instance each and the IN and OUT queues are the same
sequence, or one is about to close its spare IN instances. During one (`During`) a single client
is on its way to a single server, and the queues differ by what it has taken (`Queues`).

Of this module only liveness (`OutComesBack`) is only model-checked.

## RemoteTempFile

What the temp file holds, byte by byte, under its three writers: the main thread,
which waits for each of its writes (`WriteFileSynch`); the child's output, written by an
overlapped write during which other routines run; and the Ctrl-C handler on its own
thread. All write at `dwWriteFilePointer`.

*State.* `file` and `eof` are the file, a byte being the message it is of, or `Hole`;
`ptr` is `dwWriteFilePointer`; `status`, `by`, `off`, `len` describe each message's write;
`child` is the message `ReadChildOverlapped` carries; `main` and `ctrlc` say what the two
threads are in the middle of. `dwWriteFilePointer += n` is a load and a store, on two
threads, without a lock: `mainReg` and `ctrlcReg` hold what was loaded, and the actions
`MainAdds` and `CtrlcAdds` store it. `filePos` and `seen` are a client's `dwFilePos` and what
it was sent. `overlapped` is a history variable: the messages whose write, from the
moment its offset is taken until the pointer is past it, shares some time with another's.

*Abstraction.* A write transfers all its bytes at once, at any time between its issue
and its completion; a read gets any part of what it asks for, up to the end of the file.
The runs of this module and of `RemoteConnect` do not look for deadlock: they stop when
all messages are written, or all clients have connected.

| run | bounds | property | what it says of the code |
|---|---|---|---|
| `tempfile_log` | 3 messages of 1 or 2 bytes, any writers, full disk | `LogSpec` | messages no write overlapped implement `AppendLog`: each behind those before, whole, and never changed |
| | | `SeenWhole` | until writes overlap, no client is sent a byte before it is written |
| | | `NoGap` | until writes overlap or fail, the file is full up to the pointer |

`LogSpec` is about whatever overlapping messages do to the pointer: a stale store sets
it back, but never before the end of a message that had the file to itself. Of the three
messages two may overlap before the third, after it, or around it; four were checked
as well (ten million states) and change nothing. The condition of `SeenWhole` is needed:
after a pointer was set back, a message lands on bytes that a client has read.

What the code does not do: `ChildOutputKept`, which the module states, does not hold (two
messages and the writers `"main"` and `"child"` show it). An echo or an announcement made
while the child's output is being written takes the same offset; the output is lost, and
clients are sent the bytes behind it that nobody wrote.

*Proved* in `RemoteTempFileProofs`, for any number of messages of any length and any
of the writers: `ImplementsLog`, that the specification implements `AppendLog` under
the mapping of `text` to the bytes of the messages no write overlapped (`Text`).
`LogInv` is its invariant. `LogRule` says that such a message is in the file and that
every offset there is (the pointer, a loaded copy of it, the place of a message still
being written) is behind it; `AloneRule` carries a message there from the moment
its place is taken, while nobody else is active; `MainRule`, `CtrlcRule` and `ChildRule`
tell the writers' messages apart. Each step then adds the bytes of at most one message
(`OneMore`), behind all others (`StepAppends`).

`RemoteTempFileReadProofs` adds what holds until the first overlap (`Serial`): the pointer stands
where the one pending message will go, or behind it when its writer has counted it; the file
ends where that message does or is to begin; every loaded copy of the pointer is still the pointer;
and what the client has read of a message in the file is that message. From it follow `SeenWhole`
and, where no write failed either, `NoGap`, for any messages of any length.

## RemoteFilter

What one client is sent of the temp file. Lines that clients type are echoed there in
the format of `CMDSTRING`: BEGINMARK, the line and who typed it, the client's id, ENDMARK.
`StartWriteSessionOutput` drops marks and ids, and leaves out the lines of the client it
writes to, which that client has on its screen already.

*State.* `file` is the temp file. A byte is known by its position and carries what it is
(`text`, a mark, part of a line, of this client's id or another's) and the command it
belongs to. `filePos`, `asked`, `left` and `pch` are `dwFilePos`, `cbWrite` of a read,
`cbReadTempBuffer` and the position of the scan; `reading` is `SFLG_READINGCOMMAND`; `wbuf`
and `cmd` are `WriteBuffer` and `CommandBuffer`, as positions of the file, and so are `out`,
the write that is pending, and `sent`. `start` and `cuts` are history: where the client's
first read began, and where each read began.

*Steps.* One per completion routine, but the loop of `StartWriteSessionOutput` is taken a byte
at a time (`Scan...`), a step for each branch of its body. The file only grows between
completion routines, never within the scan, since all writers run on this thread or are
waited for; each growth starts the client's output if that is idle.

*Environment.* The child may write marks of its own; `NothingLost` and `OwnHidden` speak of
files where it has not (`Unmarked`), the others of all. A client joins at any position:
its lines to send times 50, back from the end of the file, may be anywhere. A read returns
what it asked for (`RemoteTempFile` has the shorter ones); a write that fails closes the client.

| run | bounds | property | what it says of the code |
|---|---|---|---|
| `filter` | reads of up to 6 bytes; 3 pieces of child's text (1, 3), its marks, and commands of 1 or 5 bytes with an id of 2 | `TypeOK` | |
| | | `NoOverflow` | the `ErrorExit` of a full `WriteBuffer` is out of reach |
| | | `InOrder` | nothing overtakes or doubles on its way through two buffers and the shifted read buffer |
| | | `NothingLost` | an idle client was sent exactly what is `Visible` |
| | | `OwnHidden` | its own commands it is not sent, unless a read ended within their id |
| | | `ComesToRest` | the chain ends idle, or closed |

`Visible` is the definition the code is held to. It says also what the code does where it
falls short of "We hide each client's input": a read that ends between the id and ENDMARK
shows the client its own line (the id is looked for in the read buffer); of a command
longer than the buffer all is shown but the mark and the byte that found the buffer full;
and of a command that began before the client's first read what is left is shown, its id
and all.

Bounds. With 6 bytes to a read, a command of one byte (5 with marks and id) fits into one with a
byte of text before it, a command of 5 with its id does not fit into `CommandBuffer`, and every
place in a command is the end of a read in some behaviour. Fairness: what is pending completes and the thread goes on.

*Proved* in `RemoteFilterProofs`, for any sizes of the buffers, the id, commands, texts and
appends (`SizesAssumption`: `BUFFSIZE` and `IdLen` are not 0): all five invariants. `FilterInv` follows
each byte of the file on its way. `PlaceRule` and `BufferRule` are about sizes, and imply
`NoOverflow`: what is in `WriteBuffer` came out of the read buffer since it was last shifted.
`OrderRule` orders the bytes sent, pending and buffered. `FileRule` says how commands lie in the file.
Where the child writes no marks, `CommandBufferRule` says that while a command is read
`CommandBuffer` holds the bytes after its BEGINMARK, `TextRule` which bytes of a command the scan
may still take for text, and `SentRule` that of the bytes whose fate is decided (up to `Done`)
exactly those that are `Visible` were sent, are pending, or are in `WriteBuffer`. An idle client
has all bytes decided and nothing pending, hence `NothingLost`; `OwnHidden` needs besides that a
command one read returned from its id on is recognised (`CommandBufferRule`'s last line says where
that read began). `ComesToRest` is liveness and only model-checked.

## RemoteDirectory

Servers that are to be found send a message to a mailslot some time after they start, and
then every two hours; when they end they send another (`srvad.c`). remoteds reads them all
and keeps a table (`remoteds.c`).

*State.* Of a server: `open` (`hMailslot`), `writes` (how many of its mailslot writes are
pending), `sending` (`bSendingToMailslot`). Of remoteds: `last`, the message that the other of
its two buffers holds; `table` and `hiWater` (`Table`, `nTableHiWater`), the time stamp of an
entry being its age; `liNow`, the age of the time that `CleanupThread` took before it waits
for the table. `onAir` is the bag of copies on their way. `silent` is history: how long
remoteds has read nothing of a server, or `Dropped` when it read something and passed
it over.

*Steps.* A server's timer, the completion of a write, its end. `ReadMailslot` is one turn of
the loop of `main`, since the table is locked for it; `CleanupWakes` and `CleanupScans` are
the two halves of `CleanupThread`, which may be apart. `Tick` is the clock.

*Environment.* A message arrives as up to `Transports` copies or not at all, in any order
with others, and any time later. A server may be killed. Opening or writing the mailslot and
allocating an entry may fail.

| run | bounds | property | what it says of the code |
|---|---|---|---|
| `directory` | 2 servers, 2 copies of each message, 2 on the air, 1 failure | `TypeOK` | |
| | | `FoundOnce` | an entry is there once and not above the high-water mark, where no one looks |
| | | `SendingIsPending` | `bSendingToMailslot`, one flag for two writes, is not left set |
| | | `ForgottenWasSilent` | who is aged out was silent for the time, or repeated itself |
| | | `GoneIsForgotten` | who is gone disappears for good |

Bounds. A table that starts with one slot (as the code's does) grows with the second server,
and has its first slot freed and reused under the second. One tick of age limit is
enough to tell old from new. Fairness: remoteds reads what there is, its cleanup thread
runs, and time passes; nothing is assumed of servers, who may never end.

*Proved* in `RemoteDirectoryProofs`, for any servers, copies of messages, ages and failures
(`LimitsAssumption`: these bounds are natural numbers): all four safety properties. `DirInv` is
`TypeOK`, `SendingIsPending` and `FoundOnce`, which together are inductive, and `AgeIsSilence`, which
`ForgottenWasSilent` needs: the age in a server's slot is no more than its silence, unless a message
of it was passed over; `liNow` bounds what the cleanup thread missed while it waited. What the loops
for a slot pick rests on sets of slots having a least and a greatest element (`LeastExists`,
`GreatestExists`); of the bag of messages on the air only its elements matter. `GoneIsForgotten` is only model-checked.

What the code does not do. The exception in `ForgottenWasSilent` is real: where one server
advertises alone, each of its messages is the same as the last one taken, is passed over as
a copy, and does not refresh the entry. After twelve hours the entry goes though its
server was heard six times, and does not come back until another server is heard, as the
messages are still the same. A stop message for a server that is not listed stamps the
time in the slot above the high-water mark, which is past the table when that is full
(`remoteds.c:380`). And `max` for `min` at `srvad.c:342` makes the interval between
messages go from ten minutes to two hours at once.

## KdTransport and KdDialogue

The debugger's end of the serial line. A data packet carries one of two ids, is sent until
acknowledged, and is acted on once; the answer to a request, or any other packet in turn,
counts as the acknowledgement of what was sent before. `WaitForPacket` serves both waits,
for an acknowledgement and for a packet. A packet read while waiting for an acknowledgement
is left in the buffer for the next wait. When either end is lost it sends RESET, and the
other answers RESET and starts its ids, and its last packet, again.

*State.* `hpc` and `hfor` say where the thread is and what `WaitForPacket` was called for;
`after` what it will be called for when the packet being written (`out`) is acknowledged, and
whether that write is itself inside a wait. `nextToSend`, `expected`, `ahead`, `resync`,
`breakIn` are the members of those names; `buf` is the one buffer, `t` from its header and
`n` its body; `dataLoops` is `Synchronize`'s count. `toTarget` and `toHost` are the packets on the
line. The rest counts breaks, lines and requests, for `KdDialogue`.

*Steps.* One packet read, with all that is done about it until the thread reads again:
`ReadPacketContents`, the switch of `WaitForPacket`, the packet written in answer, and, when the
wait ends, what its caller does next (`WriteDone`, `Retry`, `WaitForPacket`, `Deliver`). A header
with an id that no packet has is answered by RESEND, but in a wait for an acknowledgement it is
acknowledged under that id and passed over, as in the code (`ReadBadHeader`). The three loops that
retry are in the model: that of `WriteDataPacket`, those of the engine's requests, and
that of its wait for a state change. `Synchronize` is taken a packet at a time.

*Environment.* The target is not in these sources. It is modelled as the mirror image that this
end takes it for: it sends a packet until it is acknowledged, or until data comes that could only
be an answer; it answers RESET with RESET; while it runs it reads only break-ins. Its first packet
has `SYNC_PACKET_ID` set. Up to `MaxFaults` packets are lost, or damaged in the header or the body. The line
keeps its order. With `Early = FALSE` a timeout fires only when nothing is on the line, as
the timeouts are far longer than a packet takes.

`KdDialogue` is what engine and target may take for granted: lines are shown once each and in
order, a break is seen only while the target is in it, a request is carried out while the
engine waits for it, the answer is that request's, and the target runs when it is let and not
before. `shown` is the sequence of all that was shown or carried out, so that a line shown
again, or before one that was printed earlier, is a step `KdDialogue` does not have.
`DialogueSpec` says that `KdTransport` implements it; `View` and `Running` are the mapping.

| run | bounds | property | what it says of the code |
|---|---|---|---|
| `kd_safe` | 2 breaks, 2 requests, 2 lines or file requests, 1 break-in, 2 faults | `TypeOK` | |
| | | `DialogueSpec` | whatever two packets are lost or damaged, nothing is done twice, skipped, or taken for something else |
| `kd_live` | 2 breaks, 1 request, 1 resync, 1 fault | `AsksAreAnswered` | the engine gets its answer |
| | | `BreaksAreSeen` | a break reaches the engine |
| | | `GoIsHeard` | a target that is let run, runs |
| | | `SyncEnds` | `Synchronize` finds its RESET |

Bounds. Ids alternate between two values, so a third packet of a kind is needed for an id to
come back: two breaks with requests between them send each end more than that. Two faults
let an acknowledgement and the packet sent again for it both be hit. Resyncs by the user are
in `kd_live` only, where the first three properties excuse what a resync in the middle of a
conversation costs (`resyncs > 0`): the request, break or line it passes over may be lost, and
with a fault besides both ends may answer RESETs to each other without end. The header of
the transport's class says that `Synchronize` is for startup (`dbgkdtrans.hpp:100`); the
option "resync" (`dbgclt.cpp:381`) calls for it at any time.

Fairness (`kd_live`). Both ends read what arrives, and time out when nothing does. The line loses
no more than `MaxFaults` packets. Nothing is assumed of when the target breaks or the engine asks.

What the code does not do.

* `kd_ahead` (violation of `StoredIsKept`): a state change read ahead is overwritten. It happens
  when the write during which it is read is the answer to a file request: the outer wait goes on
  reading without looking at the buffer. The target stays stopped and the engine waits for it.
* No run checks `DamagedIsRefused`, which the module states for the reader: a state change whose
  checksum is wrong can reach the engine. The flag for a packet read ahead stays set while the outer
  wait of a file request reads a damaged repetition over it; a break-in then ends that wait, and the
  next takes what is in the buffer. TLC finds this under the constants of `kd_ahead` with
  `Lines = {"file"}`, one break, one line, no requests, one break-in and `MaxFaults = 3`.
* With two faults `GoIsHeard` fails: after a damaged repetition and a lost packet the target's
  repeated state change counts as the acknowledgement of a go that it has not read, and the next
  packet's id is one the target does not expect.
* With `Early = TRUE` `DialogueSpec` fails: a request that was made again has two answers, and the
  second is taken for the answer to the next request of the same kind.

*Proved* in `KdTransportProofs`, for any bounds, early timeouts, faults and resyncs, if a target
sends lines of the two kinds there are (`LinesAssumption`): `TypeOK`. It is inductive as it stands.
The two lines are unbounded in the proof: they stay sequences of packets whatever is lost or damaged.

`DialogueSpec` is no theorem: it holds with any two faults, and three are enough to break it. One way is
`DamagedIsRefused`, above: the break the engine sees is none. Another needs no read-ahead. A RESEND that
reaches the target when it has just gone on to receive makes it send its state change under a new id;
if that is lost, the go that comes next counts as its acknowledgement (any data does,
`dbgkdtrans.cpp:2350`), and the ids of the two ends disagree: the next line is taken for a repetition,
acknowledged, and not shown. What TLC found to hold with three faults is that the engine sees no
break but the target's last (the damaged one apart), and that a request is carried out only while
the engine waits for it. With `Early = TRUE` two faults are enough to break the second.
The four properties of `kd_live` are liveness.

## What is proved, and what is not

Eight modules hold theorems; each is named in the section of the module it is about.
Every invariant that a run checks is also a theorem for all values of the constants, under
the hypotheses given there, as are `OutKept`, `ServingNeverFails`, `ForgottenWasSilent` and the
refinement `LogSpec`. Each inductive invariant was checked by TLC on the instances of the runs
before it was proved.

Only model-checked are

* liveness: `OutputDelivered`, `ShutdownEnds`, `OutComesBack`, `ComesToRest`, `GoneIsForgotten`,
  `AsksAreAnswered`, `BreaksAreSeen`, `GoIsHeard`, `SyncEnds`. The prover has no rules for fairness;
* the refinement `DialogueSpec`, true within its bounds only, as said above;
* what is violated: `FreedNodesIdle`, `StoredIsKept`, and `DamagedIsRefused`, which no run checks.

The theorems take from the modules only the assumptions stated there of the constants: that sizes
and bounds are numbers (sizes not 0), that the markers for "none" are not members of the sets they
stand beside, that the local client is a client, that switches name what there is to switch.

## Not modelled

Of remote.exe: the memory of closed clients while the server is never silent for 30 seconds;
the wrap of 32 bit offsets after 4 GB of output; the interval of the advertising timer;
`SendStatus`, the query server and the client program, which have no module yet; security
descriptors and console I/O. Of remoteds: the parsing of messages, the thread that
lists the table, and rdsrelay, whose test for duplicates is remoteds'.

Of the debuggers: the 1394 transport and connections over the net; the retry limits, which
give up on a wait; the initial break-in; targets that do not acknowledge packets (`m_AckWrites`)
or reboot in the middle; the refusal of a second thread (`m_WaitingThread`); and everything above
the transport.

The rest of the repository is listed in `PROJECT.json` with the reason for each part. Most of it
is sequential code over formats and text, or user interface over interfaces that are not in
the tree, where what could be wrong is in the data and not in the order of steps. Some programs
with threads of their own (mtscript, list, windiff) are named above as what could come next.
