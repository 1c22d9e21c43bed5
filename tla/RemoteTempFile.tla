--------------------------- MODULE RemoteTempFile ---------------------------
(***************************************************************************)
(* The temp file of a remote.exe server, which holds everything a client   *)
(* is to see, and its three writers.                                       *)
(*                                                                         *)
(* The main thread appends announcements and echoes with WriteFileSynch,   *)
(* which returns when the text is written.  The child's output is written  *)
(* by an overlapped write; other routines of the main thread run before it *)
(* completes.  The Ctrl-C handler appends on a thread of its own.  All     *)
(* three write at dwWriteFilePointer and advance it; the file system does  *)
(* each write at some time between its issue and its completion.           *)
(***************************************************************************)
EXTENDS Naturals

CONSTANTS
    MaxMessages,  \* bound: messages ever written
    MaxLen,       \* bound: bytes of a message
    Writers,      \* the writers there are
    Hole,         \* what a byte reads as that nobody wrote
    DiskFull      \* whether writes may fail

Messages == 1..MaxMessages
AllWriters == {"main", "child", "ctrlc"}
NoMessage == 0

ASSUME BoundsAssumption == MaxMessages \in Nat /\ MaxLen \in Nat \ {0}
ASSUME HoleAssumption == Hole \notin Messages
ASSUME WritersAssumption == Writers \subseteq AllWriters /\ DiskFull \in BOOLEAN

VARIABLES
    file,        \* the bytes of the temp file, by position
    eof,         \* its length
    ptr,         \* dwWriteFilePointer
    status,      \* how far the write of each message is
    by,          \* its writer
    off,         \* the position it is written at
    len,         \* its length
    child,       \* the message ReadChildOverlapped carries
    main,        \* what the main thread is doing, to which message
    mainReg,     \* dwWriteFilePointer as the main thread loaded it
    ctrlc,       \* the same of the Ctrl-C thread
    ctrlcReg,
    overlapped,  \* messages whose write had another's in its time
    filePos,     \* dwFilePos of a client
    seen         \* the bytes it was sent

fileVars == <<file, eof>>
msgVars == <<status, by, off, len>>
readerVars == <<filePos, seen>>
mainVars == <<main, mainReg>>
ctrlcVars == <<ctrlc, ctrlcReg>>
vars == <<file, eof, ptr, status, by, off, len, child, main, mainReg, ctrlc,
          ctrlcReg, overlapped, filePos, seen>>

\* "claimed": its position is taken, its write not issued.
Statuses == {"new", "claimed", "issued", "written", "done", "failed"}
Bytes == Messages \cup {Hole}

\* What a thread does: wait for the write of a message, or, having loaded
\* dwWriteFilePointer, store it advanced past the message.
Doing(at) == [at : at, msg : Messages \cup {NoMessage}]
Idle == [at |-> "idle", msg |-> NoMessage]

TypeOK ==
    /\ eof \in Nat /\ file \in [0..(eof - 1) -> Bytes]
    /\ ptr \in Nat /\ mainReg \in Nat /\ ctrlcReg \in Nat
    /\ status \in [Messages -> Statuses]
    /\ by \in [Messages -> AllWriters \cup {"none"}]
    /\ off \in [Messages -> Nat]
    /\ len \in [Messages -> Nat]
    /\ child \in Messages \cup {NoMessage}
    /\ main \in Doing({"idle", "waits", "adds"})
    /\ ctrlc \in Doing({"idle", "claims", "adds", "waits"})
    /\ overlapped \subseteq Messages
    /\ filePos \in Nat /\ seen \in [0..(filePos - 1) -> Bytes]

Init ==
    /\ file = [i \in 0..(0 - 1) |-> Hole] /\ eof = 0 /\ ptr = 0
    /\ status = [m \in Messages |-> "new"]
    /\ by = [m \in Messages |-> "none"]
    /\ off = [m \in Messages |-> 0] /\ len = [m \in Messages |-> 0]
    /\ child = NoMessage
    /\ main = Idle /\ mainReg = 0 /\ ctrlc = Idle /\ ctrlcReg = 0
    /\ overlapped = {}
    /\ filePos = 0 /\ seen = [i \in 0..(0 - 1) |-> Hole]

Span(m) == off[m]..(off[m] + len[m] - 1)

\* Messages some writer is busy with.
Active == {m \in Messages : status[m] \in {"claimed", "issued", "written"}}

-----------------------------------------------------------------------------
\* A writer takes the position of a message, the next in order.
Begin(m, writer, st) ==
    /\ writer \in Writers
    /\ status[m] = "new" /\ \A k \in Messages : k < m => status[k] # "new"
    /\ status' = [status EXCEPT ![m] = st]
    /\ by' = [by EXCEPT ![m] = writer]
    /\ off' = [off EXCEPT ![m] = ptr]
    /\ \E n \in 1..MaxLen : len' = [len EXCEPT ![m] = n]
    /\ overlapped' = IF Active = {} THEN overlapped ELSE overlapped \cup Active \cup {m}

Advance_Short(reg, m) == reg + len[m] - 1
Advance_Long(reg, m) == reg + len[m] + 1
Advance(reg, m) == reg + len[m]

Became(m, st) == status' = [status EXCEPT ![m] = st]

KeepMessages == UNCHANGED <<by, off, len, overlapped>>

\* The file system writes a message, or cannot.
Transfer(m) ==
    /\ status[m] = "issued"
    /\ \/ LET end == IF off[m] + len[m] > eof THEN off[m] + len[m] ELSE eof
          IN  /\ Became(m, "written")
              /\ eof' = end
              /\ file' = [i \in 0..(end - 1) |->
                            IF i \in Span(m) THEN m
                            ELSE IF i < eof THEN file[i] ELSE Hole]
       \/ DiskFull /\ Became(m, "failed") /\ UNCHANGED fileVars
    /\ UNCHANGED <<ptr, child, mainVars, ctrlcVars, readerVars>> /\ KeepMessages

-----------------------------------------------------------------------------
(* The main thread. *)

\* WriteFileSynch(hWriteTempFile, ..., dwWriteFilePointer, &olMainThread), of
\* an announcement or an echo.
MainWrites(m) ==
    /\ main = Idle
    /\ Begin(m, "main", "issued")
    /\ main' = [at |-> "waits", msg |-> m]
    /\ UNCHANGED <<fileVars, ptr, child, mainReg, ctrlcVars, readerVars>>

\* It returns; only if it succeeded is the pointer advanced.
MainWritten ==
    /\ main.at = "waits"
    /\ \/ /\ status[main.msg] = "written"
          /\ main' = [at |-> "adds", msg |-> main.msg] /\ mainReg' = ptr
       \/ /\ status[main.msg] = "failed"
          /\ main' = Idle /\ UNCHANGED mainReg
    /\ UNCHANGED <<fileVars, ptr, msgVars, child, ctrlcVars, overlapped, readerVars>>

\* ReadChildOutputCompleted.  The child's next output is read when its last
\* was written, and never once a write failed.
ChildWrites(m) ==
    /\ main = Idle /\ child = NoMessage
    /\ Begin(m, "child", "issued")
    /\ child' = m
    /\ UNCHANGED <<fileVars, ptr, mainVars, ctrlcVars, readerVars>>

\* WriteTempFileCompleted, called like every completion routine when the main
\* thread does nothing else.
WriteTempFileCompleted ==
    /\ main = Idle /\ child # NoMessage
    /\ status[child] = "written"
    /\ main' = [at |-> "adds", msg |-> child] /\ mainReg' = ptr
    /\ UNCHANGED <<fileVars, ptr, msgVars, child, ctrlcVars, overlapped, readerVars>>

\* dwWriteFilePointer += tmp ends: what was loaded is stored, advanced.
MainAdds ==
    /\ main.at = "adds"
    /\ ptr' = Advance(mainReg, main.msg)
    /\ Became(main.msg, "done")
    /\ child' = IF child = main.msg THEN NoMessage ELSE child
    /\ main' = Idle
    /\ UNCHANGED <<fileVars, mainReg, ctrlcVars, readerVars>> /\ KeepMessages

-----------------------------------------------------------------------------
(* The Ctrl-C handler's thread: it takes the position, advances the pointer, *)
(* and writes, whether or not it can.                                        *)

CtrlcClaims(m) ==
    /\ ctrlc = Idle
    /\ Begin(m, "ctrlc", "claimed")
    /\ ctrlc' = [at |-> "claims", msg |-> m]
    /\ UNCHANGED <<fileVars, ptr, child, mainVars, ctrlcReg, readerVars>>

CtrlcLoads ==
    /\ ctrlc.at = "claims"
    /\ ctrlc' = [ctrlc EXCEPT !.at = "adds"] /\ ctrlcReg' = ptr
    /\ UNCHANGED <<fileVars, ptr, msgVars, child, mainVars, overlapped, readerVars>>

CtrlcAdds ==
    /\ ctrlc.at = "adds"
    /\ ptr' = Advance(ctrlcReg, ctrlc.msg)
    /\ Became(ctrlc.msg, "issued")
    /\ ctrlc' = [ctrlc EXCEPT !.at = "waits"]
    /\ UNCHANGED <<fileVars, child, mainVars, ctrlcReg, readerVars>> /\ KeepMessages

CtrlcWritten ==
    /\ ctrlc.at = "waits"
    /\ \/ status[ctrlc.msg] = "written" /\ Became(ctrlc.msg, "done")
       \/ status[ctrlc.msg] = "failed" /\ UNCHANGED status
    /\ ctrlc' = Idle
    /\ UNCHANGED <<fileVars, ptr, child, mainVars, ctrlcReg, readerVars>> /\ KeepMessages

-----------------------------------------------------------------------------
\* How far a read of the client gets that asks for all up to the pointer: not
\* behind the end of the file, where it fails (ERROR_HANDLE_EOF).
ReadEnd_AsAsked == ptr
ReadEnd == IF ptr < eof THEN ptr ELSE eof

\* StartReadTempFile and ReadTempFileCompleted, for one client: a read gets as
\* much of it as fits the client's buffer.
ClientReads ==
    /\ filePos < ReadEnd
    /\ filePos' \in (filePos + 1)..ReadEnd
    /\ seen' = [i \in 0..(filePos' - 1) |->
                  IF i < filePos THEN seen[i] ELSE IF i < eof THEN file[i] ELSE Hole]
    /\ UNCHANGED <<fileVars, ptr, msgVars, child, mainVars, ctrlcVars, overlapped>>

Next ==
    \/ \E m \in Messages :
         MainWrites(m) \/ ChildWrites(m) \/ CtrlcClaims(m) \/ Transfer(m)
    \/ MainWritten \/ WriteTempFileCompleted \/ MainAdds
    \/ CtrlcLoads \/ CtrlcAdds \/ CtrlcWritten
    \/ ClientReads

Spec == Init /\ [][Next]_vars

-----------------------------------------------------------------------------
(* Properties. *)

\* Messages that were written with no other write in their time.
Undisturbed == {m \in Messages : status[m] = "done" /\ m \notin overlapped}

\* Their bytes, by position, as the file has them.
Text == UNION {{<<i, file[i]>> : i \in Span(m)} : m \in Undisturbed}

Log == INSTANCE AppendLog WITH text <- Text

\* The messages that no other write overlapped form an append-only log: each
\* is behind those before it, whole, and stays as it is, though writes that do
\* overlap destroy one another and may set dwWriteFilePointer back
\* (srvutil.c:704-706, srvchild.c:158).
LogSpec == Log!Spec

\* While no writes have overlapped, a client that has read past a message was
\* sent it as it was written: it never reads a byte before it is written,
\* though the Ctrl-C handler advances the pointer first (srvutil.c:705,
\* srvstoc.c:90).
SeenWhole ==
    overlapped = {} =>
        \A m \in Undisturbed : \A i \in Span(m) : i < filePos => seen[i] = m

\* While no writes have overlapped and none has failed, the file has a byte for
\* every position below the pointer when nobody is writing: no reader waits
\* at its end, or is sent bytes nobody wrote.
NoGap ==
    Active = {} /\ overlapped = {} /\ (\A m \in Messages : status[m] # "failed")
        => ptr = eof /\ \A i \in 0..(eof - 1) : file[i] # Hole

\* "File containing all that was output by child process" (server.h:154).
ChildOutputKept ==
    \A m \in Messages : by[m] = "child" /\ status[m] = "done"
        => \A i \in Span(m) : file[i] = m

=============================================================================
