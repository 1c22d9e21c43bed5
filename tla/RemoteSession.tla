--------------------------- MODULE RemoteSession ---------------------------
(***************************************************************************)
(* The sessions of a remote.exe server: the REMOTE_CLIENT nodes, the three *)
(* lists they move through, the chain of overlapped reads each client's    *)
(* input runs on, the chain of temp file reads and pipe writes its output  *)
(* runs on, the chain that copies the child's output to the temp file,     *)
(* CloseClient, the 30 second sweep of the closing list and shutdown.      *)
(*                                                                         *)
(* One thread runs everything here.  A step is one completion routine      *)
(* (delivered while that thread waits alertably) or one return of the main *)
(* loop's wait; between two steps the kernel completes I/O in any order.   *)
(* Calls nest inside a step (CloseClient writes to the temp file and wakes *)
(* the other clients), so the state they share is threaded through them    *)
(* as a record, a "flow", and an operator returns the set of flows it may  *)
(* end in.                                                                 *)
(***************************************************************************)
EXTENDS Naturals

CONSTANTS
    Clients,      \* the REMOTE_CLIENT nodes ever allocated
    LocalClient,  \* the node of the server's own console session
    BUFFSIZE,     \* largest temp file read, in units of output
    MaxOutput,    \* bound: no more input or child output once this much is written
    Faults        \* which I/O failures the environment may produce

FaultKinds ==
    { "diskfull",   \* a write to the temp file fails
      "tempread",   \* ReadFileEx on the temp file fails, and not at its end
      "zeroread",   \* a client read completes with no data
      "fatal" }     \* an error code no handler expects

ASSUME ClientsAssumption == LocalClient \in Clients
ASSUME BuffsizeAssumption == BUFFSIZE \in Nat \ {0}
ASSUME MaxOutputAssumption == MaxOutput \in Nat
ASSUME FaultsAssumption == Faults \subseteq FaultKinds

VARIABLES
    srv,         \* where OverlappedServer is, or how the process ended
    childAlive,  \* the child process runs
    childIn,     \* hWriteChildStdIn
    child,       \* the operation pending on ReadChildOverlapped
    childOff,    \* the temp file offset of that operation, when a write
    list,        \* the list each node is on
    flags,       \* ServerFlags: SFLG_HANDSHAKING and SFLG_CLOSING
    rd,          \* the operation pending on ReadOverlapped
    killers,     \* clients whose @K is waiting in SleepEx
    left,        \* cbReadTempBuffer
    wr,          \* the operation pending on WriteOverlapped
    cbWrite,     \* cbWrite
    filePos,     \* dwFilePos
    ptr,         \* dwWriteFilePointer
    eof,         \* the length of the temp file
    ran          \* a completion routine ran in the final loop's SleepEx

childVars == <<childAlive, childIn, child, childOff>>
flowVars == <<srv, wr, cbWrite, filePos, ptr, eof>>
vars == <<srv, childAlive, childIn, child, childOff, list, flags, rd, killers,
          left, wr, cbWrite, filePos, ptr, eof, ran>>

(***************************************************************************)
(* srv: "running" is the main loop, "draining" the wait for the child once *)
(* bShuttingDownServer is set, "flushing" the final SleepEx loop, with     *)
(* hWriteTempFile closed.  "errorexit" is ErrorExit.  "lost" is a walk of   *)
(* the client list that has left it, "wild" a routine run on a freed node: *)
(* nothing later is defined, so nothing later is modelled.                 *)
(***************************************************************************)
SrvStates == {"running", "draining", "flushing", "exited", "errorexit", "lost",
              "wild"}
FinalStates == {"exited", "errorexit", "lost", "wild"}

Lists == {"none", "handshaking", "normal", "closing", "freed"}
Flags == {"HANDSHAKING", "CLOSING"}

\* Reads and writes a client's own handles carry, and the write to the child
\* that runs on ReadOverlapped.  "cancelled": CancelIo was called on it, so
\* its completion routine is queued.  "overlap": a second operation was issued
\* on an OVERLAPPED that still had one pending.
OwnReads == {"name", "size", "info", "cmd"}
ReadOps == OwnReads \cup {"child", "cancelled", "overlap", "none"}
OutputChain == {"temp", "writenext", "readnext"}
WriteOps == OutputChain \cup {"reply", "cancelled", "overlap", "none"}
ChildOps == {"read", "readcancelled", "write", "writecancelled", "stopped"}

\* What an OVERLAPPED carries once op is issued on it.
Issue(op, pending) == IF pending = "none" THEN op ELSE "overlap"

Lesser(a, b) == IF a < b THEN a ELSE b
Greater(a, b) == IF a < b THEN b ELSE a

-----------------------------------------------------------------------------
(* The part of the state that nested calls change. *)

FlowNow == [srv |-> srv, wr |-> wr, cbWrite |-> cbWrite, filePos |-> filePos,
            ptr |-> ptr, eof |-> eof]

FlowBecomes(f) ==
    /\ srv' = f.srv
    /\ wr' = f.wr
    /\ cbWrite' = f.cbWrite
    /\ filePos' = f.filePos
    /\ ptr' = f.ptr
    /\ eof' = f.eof

\* dwWriteFilePointer > pClient->dwFilePos, for a client with no chain active.
Behind_WithoutFlag(f, c) == f.ptr > f.filePos[c]
Behind(f, c) == f.cbWrite[c] = 0 /\ f.ptr > f.filePos[c]

TempReadMayFail == "tempread" \in Faults

\* StartReadTempFile, when its ReadFileEx does not fail: asked for output past
\* the end of the file it leaves the client idle (ERROR_HANDLE_EOF).
StartReadTempFile(f, c) ==
    IF f.cbWrite[c] # 0 THEN [f EXCEPT !.srv = "errorexit"]
    ELSE IF Behind(f, c) /\ f.filePos[c] < f.eof
    THEN [f EXCEPT !.wr[c] = Issue("temp", @),
                   !.cbWrite[c] = Lesser(BUFFSIZE, f.ptr - f.filePos[c])]
    ELSE f

\* StartServerToClientFlow over the clients lst puts on ClientListHead.  A
\* failing read closes its client inside the walk; the walk then follows the
\* node's link into the closing list and does not come back to its own head.
StartServerToClientFlow(lst, f) ==
    LET idle == {c \in Clients : lst[c] = "normal" /\ Behind(f, c)}
        woken == {c \in idle : f.filePos[c] < f.eof}
    IN {[f EXCEPT
           !.wr = [c \in Clients |-> IF c \in woken THEN Issue("temp", f.wr[c])
                     ELSE f.wr[c]],
           !.cbWrite = [c \in Clients |->
                          IF c \in woken
                          THEN Lesser(BUFFSIZE, f.ptr - f.filePos[c])
                          ELSE f.cbWrite[c]]]}
       \cup {g \in {[f EXCEPT !.srv = "lost"]} : TempReadMayFail /\ idle # {}}

\* One unit written to the temp file at offset off, and the pointer advanced.
AfterWrite(f, off) == [f EXCEPT !.ptr = @ + 1, !.eof = Greater(@, off + 1)]

\* The idiom
\*     if (WriteFileSynch(hWriteTempFile, ..., dwWriteFilePointer, ...)) {
\*         dwWriteFilePointer += cb;  StartServerToClientFlow();  }
\* hWriteTempFile is closed while flushing.
Announce(lst, f) ==
    (IF f.srv = "flushing" THEN {}
     ELSE StartServerToClientFlow(lst, AfterWrite(f, f.ptr)))
    \cup {g \in {f} : f.srv = "flushing" \/ "diskfull" \in Faults}

-----------------------------------------------------------------------------
(* CloseClient, for a client not yet closing: what it does to the lists and *)
(* to the client's operations, and the flows its announcement may lead to.  *)

Closed(lst, c) == [lst EXCEPT ![c] = "closing"]

CloseNode(c, r) ==
    /\ list' = Closed(list, c)
    /\ flags' = [flags EXCEPT ![c] = @ \cup {"CLOSING"}]
    /\ rd' = [r EXCEPT ![c] = IF @ \in OwnReads THEN "cancelled" ELSE @]

CancelOutput_KeepTempRead(f, c) ==
    [f EXCEPT !.wr[c] = IF @ \in {"none", "temp"} THEN @ ELSE "cancelled"]
CancelOutput(f, c) ==
    [f EXCEPT !.wr[c] = IF @ = "none" THEN "none" ELSE "cancelled"]

CloseFlows(c, f) ==
    IF f.srv # "running" THEN {CancelOutput(f, c)}
    ELSE Announce(Closed(list, c), CancelOutput(f, c))

CloseClient(c, r, f) ==
    /\ CloseNode(c, r)
    /\ \E g \in CloseFlows(c, f) : FlowBecomes(g)

-----------------------------------------------------------------------------
(* What completion routines share. *)

\* The main thread runs completion routines in its waits; while it waits for
\* the child to exit, only as long as the child has not.
Alertable == \/ srv \in {"running", "flushing"}
             \/ srv = "draining" /\ childAlive

\* The main loop is not inside a nested alertable wait of a @K.
InMainLoop == srv = "running" /\ killers = {}

Live(c) == list[c] \in {"handshaking", "normal"} /\ "CLOSING" \notin flags[c]

ReadDone(c) == [rd EXCEPT ![c] = "none"]
WriteDone(c) == [FlowNow EXCEPT !.wr[c] = "none"]

\* CloseClient as a handler's last call.
CloseAndReturn(c, r, f) ==
    /\ CloseClient(c, r, f)
    /\ UNCHANGED <<childVars, killers, left>>

\* The process ends here; what the handler would have done next it does not.
ErrorExit ==
    /\ srv' = "errorexit"
    /\ UNCHANGED <<childVars, list, flags, rd, killers, left, wr, cbWrite, filePos,
                   ptr, eof>>

\* HandleSessionError for a client that is not closing: a broken, aborted or
\* empty pipe closes it, any other error ends the server.
SessionError(c, r, f) ==
    \/ CloseAndReturn(c, r, f)
    \/ "fatal" \in Faults /\ ErrorExit

\* CancelIo and CloseHandle on hWriteChildStdIn: every client's write to the
\* child completes with ERROR_OPERATION_ABORTED unless it already has.
CancelChildWrites(r) ==
    [c \in Clients |-> IF r[c] = "child" THEN "cancelled" ELSE r[c]]

-----------------------------------------------------------------------------
(* Connection and handshake. *)

HandleInPipeConnected(c) ==
    /\ InMainLoop
    /\ list[c] = "none"
    /\ \/ /\ list' = [list EXCEPT ![c] = "handshaking"]
          /\ flags' = [flags EXCEPT ![c] = {"HANDSHAKING"}]
          /\ rd' = [rd EXCEPT ![c] = Issue("name", @)]
          /\ UNCHANGED flowVars
       \/ /\ list' = Closed(list, c)
          /\ flags' = [flags EXCEPT ![c] = {"HANDSHAKING", "CLOSING"}]
          /\ \E g \in CloseFlows(c, FlowNow) : FlowBecomes(g)
          /\ UNCHANGED rd
    /\ UNCHANGED <<childVars, killers, left>>

ReadClientNameCompleted_ReadEarly(c) ==
    /\ Alertable
    /\ Live(c) /\ rd[c] = "name"
    /\ rd' = [rd EXCEPT ![c] = "size"]
    /\ FlowBecomes([FlowNow EXCEPT !.wr[c] = Issue("reply", @)])
    /\ UNCHANGED <<childVars, list, flags, killers, left>>

\* The client is accepted, or closed: on any error, a short read, a wrong
\* magic number, a two-pipe client without its OUT pipe (RemoteConnect), or a
\* reply that cannot be written.
ReadClientNameCompleted(c) ==
    /\ Alertable
    /\ Live(c) /\ rd[c] = "name"
    /\ \/ CloseAndReturn(c, ReadDone(c), FlowNow)
       \/ /\ rd' = ReadDone(c)
          /\ FlowBecomes([FlowNow EXCEPT !.wr[c] = Issue("reply", @)])
          /\ UNCHANGED <<childVars, list, flags, killers, left>>

WriteServerReplyCompleted(c) ==
    /\ Alertable
    /\ Live(c) /\ wr[c] = "reply"
    /\ \/ SessionError(c, rd, WriteDone(c))
       \/ /\ rd' = [rd EXCEPT ![c] = Issue("size", @)]
          /\ FlowBecomes(WriteDone(c))
          /\ UNCHANGED <<childVars, list, flags, killers, left>>

ReadClientStartupInfoSizeCompleted(c) ==
    /\ Alertable
    /\ Live(c) /\ rd[c] = "size"
    /\ \/ SessionError(c, ReadDone(c), FlowNow)
       \/ /\ rd' = [ReadDone(c) EXCEPT ![c] = Issue("info", @)]
          /\ UNCHANGED <<childVars, flowVars, list, flags, killers, left>>

\* Where the temp file is read from first: as far back as the client asked for.
FirstRead_NoClamp(back) == ptr - back
FirstRead(back) == IF ptr > back THEN ptr - back ELSE 0

ReadClientStartupInfoCompleted_KeepsFlag(c) ==
    /\ Alertable
    /\ Live(c) /\ rd[c] = "info"
    /\ list' = [list EXCEPT ![c] = "normal"]
    /\ rd' = [rd EXCEPT ![c] = "cmd"]
    /\ \E g \in Announce(list', FlowNow) : FlowBecomes(g)
    /\ UNCHANGED <<childVars, flags, killers, left>>

\* The client joins the normal list, to be sent the temp file from the line it
\* asked for; its first read may fail and close it; then its connection is
\* announced to everyone, which is what starts its own output.
ReadClientStartupInfoCompleted(c) ==
    /\ Alertable
    /\ Live(c) /\ rd[c] = "info"
    /\ \/ SessionError(c, ReadDone(c), FlowNow)
       \/ \E back \in 0..(ptr + 1) :
            LET f == [FlowNow EXCEPT !.filePos[c] = FirstRead(back)] IN
            /\ \/ /\ list' = [list EXCEPT ![c] = "normal"]
                  /\ flags' = [flags EXCEPT ![c] = @ \ {"HANDSHAKING"}]
                  /\ rd' = [ReadDone(c) EXCEPT ![c] = Issue("cmd", @)]
                  /\ \E g \in Announce(list', f) : FlowBecomes(g)
               \/ /\ list' = Closed(list, c)
                  /\ flags' = [flags EXCEPT ![c] = {"CLOSING"}]
                  /\ rd' = ReadDone(c)
                  /\ \E g \in CloseFlows(c, f) :
                       \E h \in Announce(list', g) : FlowBecomes(h)
            /\ UNCHANGED <<childVars, killers, left>>

-----------------------------------------------------------------------------
(* A client's input: FilterCommand, and the write to the child. *)

\* A command remote.exe keeps for itself and echoes (@M, @P, @H, an unknown
\* one, ^C): it is written to the temp file and the next read is issued.  (@S
\* changes nothing here.)  @H wakes the clients whether its writes succeed or
\* not.
FilterMessage(c) ==
    /\ ptr < MaxOutput
    /\ \E g \in Announce(list, FlowNow)
                  \cup (IF "diskfull" \in Faults \/ srv = "flushing"
                        THEN StartServerToClientFlow(list, FlowNow) ELSE {}) :
         \/ FlowBecomes(g) /\ UNCHANGED <<list, flags, rd>>
         \/ CloseClient(c, ReadDone(c), g)
    /\ UNCHANGED <<childVars, killers, left>>

\* A line for the child: echoed to the temp file, then written to the child on
\* the same OVERLAPPED.  If that write fails the client's input chain stops.
FilterLine(c) ==
    /\ ptr < MaxOutput
    /\ \E g \in Announce(list, FlowNow) : FlowBecomes(g)
    /\ \E op \in {"none"} \cup {o \in {"child"} : childIn = "open"} :
         rd' = [ReadDone(c) EXCEPT ![c] = Issue(op, @)]
    /\ UNCHANGED <<childVars, list, flags, killers, left>>

\* @K: the first closes the child's input and waits, alertably; a later one
\* terminates the child, if it still runs.
FilterKill(c) ==
    \/ /\ childIn = "open"
       /\ childIn' = "closed"
       /\ rd' = CancelChildWrites(ReadDone(c))
       /\ killers' = killers \cup {c}
       /\ UNCHANGED <<flowVars, childAlive, child, childOff, list, flags, left>>
    \/ /\ childIn = "closed"
       /\ childAlive' = FALSE
       /\ UNCHANGED <<flowVars, childIn, child, childOff, list, flags, rd,
                      killers, left>>

ReadClientInputCompleted(c) ==
    /\ Alertable
    /\ Live(c) /\ rd[c] = "cmd"
    /\ \/ SessionError(c, ReadDone(c), FlowNow)
       \/ /\ "zeroread" \in Faults
          /\ rd' = ReadDone(c)
          /\ UNCHANGED <<childVars, flowVars, list, flags, killers, left>>
       \/ FilterMessage(c)
       \/ FilterLine(c)
       \/ FilterKill(c)

\* The @K's waits are over: its client's next read is issued, unless a routine
\* that ran meanwhile closed the client.
FilterKillReturns(c) ==
    /\ c \in killers
    /\ srv = "running"
    /\ killers' = killers \ {c}
    /\ \/ /\ Live(c)
          /\ rd' = [rd EXCEPT ![c] = Issue("cmd", @)]
          /\ UNCHANGED <<flowVars, list, flags>>
       \/ Live(c) /\ CloseClient(c, rd, FlowNow)
       \/ ~Live(c) /\ UNCHANGED <<flowVars, list, flags, rd>>
    /\ UNCHANGED <<childVars, left>>

WriteChildStdInCompleted(c) ==
    /\ Alertable
    /\ Live(c) /\ rd[c] \in {"child", "cancelled"}
    /\ \/ SessionError(c, ReadDone(c), FlowNow)
       \/ /\ rd' = [ReadDone(c) EXCEPT ![c] = Issue("cmd", @)]
          /\ UNCHANGED <<childVars, flowVars, list, flags, killers, left>>

-----------------------------------------------------------------------------
(* A client's output: temp file to pipe. *)

\* StartReadTempFile as the last call of a handler of c.
ReadNextChunk(c, f) ==
    \/ /\ FlowBecomes(StartReadTempFile(f, c))
       /\ UNCHANGED <<list, flags, rd>>
    \/ /\ TempReadMayFail /\ Behind(f, c)
       /\ CloseClient(c, rd, f)

\* m units wait in ReadTempBuffer.  Some are written with more to process
\* after them, or the rest is written, or nothing of them is to be sent (the
\* client's own commands, or a command still incomplete), or the pipe write
\* fails.  RemoteFilter models which text is sent.
StartWriteSessionOutput(c, f, m) ==
    \/ \E k \in 1..m :
         /\ left' = [left EXCEPT ![c] = m - k]
         /\ FlowBecomes([f EXCEPT !.wr[c] = Issue("writenext", @), !.cbWrite[c] = k])
         /\ UNCHANGED <<list, flags, rd>>
    \/ /\ m > 0
       /\ left' = [left EXCEPT ![c] = 0]
       /\ FlowBecomes([f EXCEPT !.wr[c] = Issue("readnext", @), !.cbWrite[c] = m])
       /\ UNCHANGED <<list, flags, rd>>
    \/ /\ left' = [left EXCEPT ![c] = 0]
       /\ ReadNextChunk(c, [f EXCEPT !.cbWrite[c] = 0])
    \/ /\ m > 0
       /\ left' = [left EXCEPT ![c] = 0]
       /\ CloseClient(c, rd, f)

ReadTempFileCompleted_Rereads(c) ==
    /\ Alertable
    /\ Live(c) /\ wr[c] = "temp"
    /\ StartWriteSessionOutput(c, WriteDone(c), Lesser(cbWrite[c], eof - filePos[c]))
    /\ UNCHANGED <<childVars, killers>>

\* The read was issued below the end of the file, so it returns data.
ReadTempFileCompleted(c) ==
    /\ Alertable
    /\ Live(c) /\ wr[c] = "temp"
    /\ \/ SessionError(c, rd, WriteDone(c))
       \/ LET n == Lesser(cbWrite[c], eof - filePos[c]) IN
          /\ StartWriteSessionOutput(c, [WriteDone(c) EXCEPT !.filePos[c] = @ + n], n)
          /\ UNCHANGED <<childVars, killers>>

\* WriteSessionOutputCompletedCommon: no chain can be active with cbWrite zero.
OutputWritten(c, done) == IF cbWrite[c] = 0 THEN ErrorExit ELSE done

WriteSessionOutputCompletedWriteNext(c) ==
    /\ Alertable
    /\ Live(c) /\ wr[c] = "writenext"
    /\ \/ SessionError(c, rd, WriteDone(c))
       \/ OutputWritten(c, /\ StartWriteSessionOutput(c, WriteDone(c), left[c])
                           /\ UNCHANGED <<childVars, killers>>)

WriteSessionOutputCompletedReadNext_KeepsFlag(c) ==
    /\ Alertable
    /\ Live(c) /\ wr[c] = "readnext"
    /\ ReadNextChunk(c, WriteDone(c))
    /\ UNCHANGED <<childVars, killers, left>>

WriteSessionOutputCompletedReadNext_Stops(c) ==
    /\ Alertable
    /\ Live(c) /\ wr[c] = "readnext"
    /\ FlowBecomes([WriteDone(c) EXCEPT !.cbWrite[c] = 0])
    /\ UNCHANGED <<childVars, list, flags, rd, killers, left>>

WriteSessionOutputCompletedReadNext(c) ==
    /\ Alertable
    /\ Live(c) /\ wr[c] = "readnext"
    /\ \/ SessionError(c, rd, WriteDone(c))
       \/ OutputWritten(c, /\ ReadNextChunk(c, [WriteDone(c) EXCEPT !.cbWrite[c] = 0])
                           /\ UNCHANGED <<childVars, killers, left>>)

-----------------------------------------------------------------------------
(* The child's output. *)

\* A full disk, or a read that cannot be issued: close the child's input, so
\* that it exits, and let the chain stop.
StopChildInput ==
    /\ child' = "stopped"
    /\ childIn' = "closed"
    /\ rd' = CancelChildWrites(rd)

ReadChildOutputCompleted ==
    /\ Alertable
    /\ child \in {"read", "readcancelled"}
    /\ \/ /\ child' = "stopped"
          /\ UNCHANGED <<childIn, childOff, flowVars, rd>>
       \/ /\ srv # "flushing" /\ ptr < MaxOutput
          /\ child' = "write"
          /\ childOff' = ptr
          /\ UNCHANGED <<childIn, flowVars, rd>>
       \/ /\ srv # "flushing" /\ "diskfull" \in Faults
          /\ StopChildInput
          /\ UNCHANGED <<childOff, flowVars>>
       \/ srv # "flushing" /\ "fatal" \in Faults /\ ErrorExit
    /\ UNCHANGED <<childAlive, list, flags, killers, left>>

WriteTempFileCompleted_NoFlow ==
    /\ Alertable
    /\ child \in {"write", "writecancelled"}
    /\ FlowBecomes(AfterWrite(FlowNow, childOff))
    /\ child' = "read"
    /\ UNCHANGED <<childIn, rd, childOff, childAlive, list, flags, killers, left>>

\* The write lands at the offset it was issued with; the pointer is advanced
\* from where it is now.  The next read cannot be issued once shutdown has
\* closed hReadChildOutput.
WriteTempFileCompleted ==
    /\ Alertable
    /\ child \in {"write", "writecancelled"}
    /\ \/ /\ \E g \in StartServerToClientFlow(list, AfterWrite(FlowNow, childOff)) :
               FlowBecomes(g)
          /\ \/ /\ srv = "running"
                /\ child' = "read"
                /\ UNCHANGED <<childIn, rd>>
             \/ StopChildInput
          /\ UNCHANGED childOff
       \/ /\ "diskfull" \in Faults
          /\ StopChildInput
          /\ UNCHANGED <<childOff, flowVars>>
       \/ /\ child = "writecancelled" \/ "fatal" \in Faults
          /\ ErrorExit
    /\ UNCHANGED <<childAlive, list, flags, killers, left>>

ChildExits ==
    /\ childAlive
    /\ srv \notin FinalStates
    /\ childAlive' = FALSE
    /\ UNCHANGED <<flowVars, childIn, child, childOff, list, flags, rd, killers, left>>

-----------------------------------------------------------------------------
(* Clients on their way out, and the server's end. *)

\* A completion for a client that is closing: SFLG_CLOSING makes the routine
\* return at once.
ReadCompletedClosing(c) ==
    /\ Alertable
    /\ list[c] = "closing" /\ rd[c] # "none"
    /\ rd' = ReadDone(c)
    /\ UNCHANGED <<childVars, flowVars, list, flags, killers, left>>

WriteCompletedClosing(c) ==
    /\ Alertable
    /\ list[c] = "closing" /\ wr[c] # "none"
    /\ FlowBecomes(WriteDone(c))
    /\ UNCHANGED <<childVars, list, flags, rd, killers, left>>

\* A completion for a node already freed: its flags are whatever the heap now
\* keeps there.  The routine may find SFLG_CLOSING as it was, or run wild.
CompletedFreed(c) ==
    /\ Alertable
    /\ list[c] = "freed"
    /\ \/ rd[c] # "none" /\ rd' = ReadDone(c) /\ wr' = wr
       \/ wr[c] # "none" /\ wr' = WriteDone(c).wr /\ rd' = rd
    /\ srv' \in {srv, "wild"}
    /\ UNCHANGED <<childVars, cbWrite, filePos, ptr, eof, list, flags, killers, left>>

\* No completion is waiting to be delivered.
NothingQueued ==
    /\ \A c \in Clients : rd[c] # "cancelled" /\ wr[c] # "cancelled"
    /\ child \notin {"readcancelled", "writecancelled"}

\* 30 seconds without a completion: everything on the closing list is freed.
WaitTimedOut ==
    /\ InMainLoop
    /\ NothingQueued
    /\ \E c \in Clients : list[c] = "closing"
    /\ list' = [c \in Clients |-> IF list[c] = "closing" THEN "freed" ELSE list[c]]
    /\ UNCHANGED <<childVars, flowVars, flags, rd, killers, left>>

\* The child has exited or local input has ended.  The child's pipes are
\* closed, every client on the normal list is closed, without announcement;
\* clients still in the handshake are left as they are.
ShutDown ==
    /\ InMainLoop
    /\ srv' = "draining"
    /\ childIn' = "closed"
    /\ child' = IF child = "read" THEN "readcancelled" ELSE child
    /\ LET normal == {c \in Clients : list[c] = "normal"}
           r == CancelChildWrites(rd)
       IN
       /\ list' = [c \in Clients |-> IF c \in normal THEN "closing" ELSE list[c]]
       /\ flags' = [c \in Clients |->
                      IF c \in normal THEN flags[c] \cup {"CLOSING"} ELSE flags[c]]
       /\ rd' = [c \in Clients |->
                   IF c \in normal /\ r[c] \in OwnReads THEN "cancelled" ELSE r[c]]
       /\ wr' = [c \in Clients |->
                   IF c \in normal /\ wr[c] # "none" THEN "cancelled" ELSE wr[c]]
    /\ UNCHANGED <<childAlive, childOff, killers, left, cbWrite, filePos, ptr, eof>>

CloseTempFile ==
    /\ srv = "draining" /\ ~childAlive
    /\ srv' = "flushing"
    /\ child' = IF child = "write" THEN "writecancelled" ELSE child
    /\ UNCHANGED <<childAlive, childIn, childOff, list, flags, rd, killers, left,
                   wr, cbWrite, filePos, ptr, eof>>

\* SleepEx returns WAIT_IO_COMPLETION: it is called again.
SleepAgain ==
    /\ srv = "flushing" /\ ran
    /\ ran' = FALSE
    /\ UNCHANGED <<childVars, flowVars, list, flags, rd, killers, left>>

\* 50 milliseconds without a completion, and the temp file is deleted.
Exit ==
    /\ srv = "flushing" /\ ~ran
    /\ NothingQueued
    /\ srv' = "exited"
    /\ UNCHANGED <<childVars, list, flags, rd, killers, left, wr, cbWrite, filePos,
                   ptr, eof, ran>>

\* The process is over.
Ended == srv \in FinalStates /\ UNCHANGED vars

-----------------------------------------------------------------------------

\* After StartLocalSession and StartChildOutPipeRead.
Init ==
    /\ srv = "running"
    /\ childAlive = TRUE /\ childIn = "open"
    /\ child = "read" /\ childOff = 0
    /\ list = [c \in Clients |-> IF c = LocalClient THEN "normal" ELSE "none"]
    /\ flags = [c \in Clients |-> {}]
    /\ rd = [c \in Clients |-> IF c = LocalClient THEN "cmd" ELSE "none"]
    /\ killers = {}
    /\ left = [c \in Clients |-> 0]
    /\ wr = [c \in Clients |-> "none"]
    /\ cbWrite = [c \in Clients |-> 0]
    /\ filePos = [c \in Clients |-> 0]
    /\ ptr = 0 /\ eof = 0
    /\ ran = FALSE

\* The completion of the operation pending on c's ReadOverlapped, or on its
\* WriteOverlapped.
InputCompletion(c) ==
    \/ ReadClientNameCompleted(c)
    \/ ReadClientStartupInfoSizeCompleted(c)
    \/ ReadClientStartupInfoCompleted(c)
    \/ ReadClientInputCompleted(c)
    \/ WriteChildStdInCompleted(c)
    \/ ReadCompletedClosing(c)

OutputCompletion(c) ==
    \/ WriteServerReplyCompleted(c)
    \/ ReadTempFileCompleted(c)
    \/ WriteSessionOutputCompletedWriteNext(c)
    \/ WriteSessionOutputCompletedReadNext(c)
    \/ WriteCompletedClosing(c)

ClientCompletion(c) == InputCompletion(c) \/ OutputCompletion(c) \/ CompletedFreed(c)

ChildCompletion == ReadChildOutputCompleted \/ WriteTempFileCompleted

\* A completion routine ran: the SleepEx that let it run will say so.
Noted == ran' = (srv = "flushing")

Completion == ChildCompletion \/ \E c \in Clients : ClientCompletion(c)

ServerStep ==
    \/ \E c \in Clients : HandleInPipeConnected(c) \/ FilterKillReturns(c)
    \/ ChildExits
    \/ WaitTimedOut
    \/ ShutDown
    \/ CloseTempFile

Next ==
    \/ Completion /\ Noted
    \/ ServerStep /\ UNCHANGED ran
    \/ SleepAgain
    \/ Exit
    \/ Ended

Spec == Init /\ [][Next]_vars

\* The kernel completes I/O and the server's thread returns to an alertable
\* wait: a client that stays connected keeps reading its pipe, temp file I/O
\* completes, SleepEx and the main loop's wait return.  Nothing is assumed of
\* what clients send, of the child, or of when shutdown happens.  The final
\* loop is left after a silence: Exit is disabled by every routine that runs
\* until SleepEx is called again, so weak fairness asks for it only where
\* routines stop running.
Fairness ==
    /\ \A c \in Clients :
         /\ WF_vars(OutputCompletion(c) /\ Noted)
         /\ WF_vars((ReadCompletedClosing(c) \/ CompletedFreed(c)) /\ Noted)
         /\ WF_vars(FilterKillReturns(c) /\ UNCHANGED ran)
    /\ WF_vars(/\ ChildCompletion
               /\ child \in {"write", "writecancelled", "readcancelled"}
               /\ Noted)
    /\ WF_vars(\/ CloseTempFile /\ UNCHANGED ran
               \/ SleepAgain
               \/ Exit)

FairSpec == Spec /\ Fairness

-----------------------------------------------------------------------------
TypeOK ==
    /\ srv \in SrvStates
    /\ childAlive \in BOOLEAN
    /\ childIn \in {"open", "closed"}
    /\ child \in ChildOps
    /\ childOff \in Nat
    /\ list \in [Clients -> Lists]
    /\ flags \in [Clients -> SUBSET Flags]
    /\ rd \in [Clients -> ReadOps]
    /\ killers \subseteq Clients
    /\ left \in [Clients -> Nat]
    /\ wr \in [Clients -> WriteOps]
    /\ cbWrite \in [Clients -> Nat]
    /\ filePos \in [Clients -> Nat]
    /\ ptr \in Nat
    /\ eof \in Nat
    /\ ran \in BOOLEAN

-----------------------------------------------------------------------------
(* Safety. *)

\* "During handshaking we never have both a read and write pending"
\* (srvhshak.c), which is what lets the size of the client's information be
\* kept in WriteBuffer between the two reads.
HandshakeHalfDuplex ==
    \A c \in Clients : list[c] = "handshaking" => rd[c] = "none" \/ wr[c] = "none"

\* No OVERLAPPED ever carries two operations, whichever way the input chain,
\* the output chain, the handshake and the walks of the client list meet.
OverlappedExclusive ==
    \A c \in Clients : rd[c] # "overlap" /\ wr[c] # "overlap"

\* For a connected client cbWrite is nonzero exactly while its output chain has
\* an operation pending, so StartServerToClientFlow, which looks at nothing
\* else, never issues a second operation on a WriteOverlapped in use.
ChainFlagAgrees ==
    \A c \in Clients : list[c] = "normal" =>
        /\ wr[c] \in OutputChain \cup {"none"}
        /\ cbWrite[c] # 0 <=> wr[c] # "none"

\* No lost wakeup: between two steps of the running server, a connected client
\* with no output chain active has been given everything the temp file holds.
IdleMeansCaughtUp ==
    srv = "running" =>
        \A c \in Clients : list[c] = "normal" /\ cbWrite[c] = 0
                               => filePos[c] >= Lesser(ptr, eof)

\* SFLG_HANDSHAKING and SFLG_CLOSING say which list a node is on, and with it
\* which critical section CloseClient must hold to unlink it: SendStatus walks
\* the lists on another thread.
FlagsMatchList ==
    \A c \in Clients :
        /\ list[c] = "handshaking" <=> flags[c] = {"HANDSHAKING"}
        /\ list[c] \in {"closing", "freed"} <=> "CLOSING" \in flags[c]

\* Once freed, a node's pipes and temp file handle have no I/O pending: only a
\* write to the child, whose handle is not the client's, can still be.
FreedOnlyChildWrite ==
    \A c \in Clients : list[c] = "freed" =>
        wr[c] = "none" /\ rd[c] \in {"none", "child", "cancelled"}

\* "closing clients have finished any pending IOs and the memory can be
\* released" (srvmain.c, where the closing list is freed).
FreedNodesIdle ==
    \A c \in Clients : list[c] = "freed" => wr[c] = "none" /\ rd[c] = "none"

\* A walk of the client list that may close clients stays on that list, as the
\* comment in srvmain.c on CloseClient removing entries from it requires.
WalkStaysOnList == srv # "lost"

\* While it serves, and produced no fault but broken connections, the server
\* reaches none of its own ErrorExits (nonzero cbWrite in StartReadTempFile, zero
\* cbWrite when output was written) and runs wild in no way but one: by a write
\* to the child that outlives its client's node.
ServingNeverFails ==
    [][srv = "running" /\ FreedNodesIdle => srv' \in {"running", "draining"}]_vars

\* WriteTempFileCompleted's ErrorExit("WriteTempFileCompleted may need work")
\* asserts that the write can only fail for want of disk space.
NoErrorExit == srv # "errorexit"

-----------------------------------------------------------------------------
(* Liveness. *)

\* Every unit of output reaches every client that stays connected, whoever
\* wrote it, also what is written while the client's chain of reads and writes is
\* running: again and again the client has been given all there is, or it has
\* gone, or the server has.
OutputDelivered ==
    \A c \in Clients :
        []<>(srv = "running" /\ list[c] = "normal"
                => filePos[c] >= Lesser(ptr, eof))

\* A server whose child is gone is shutting down for ever only if a client that
\* was still in the handshake when the others were closed, and whose reads are
\* still served, never stops sending: the routines that run in the final loop
\* start no other chain that does not end, and no completion it waits for fails
\* to come.
ShuttingDown == srv = "flushing" \/ (srv = "draining" /\ ~childAlive)
ShutdownEnds ==
    <>[]ShuttingDown
        => \E c \in Clients : []<><<ReadClientInputCompleted(c) /\ Noted>>_vars

=============================================================================
