---------------------------- MODULE RemoteFilter ----------------------------
(***************************************************************************)
(* What one client of remote.exe is sent of the temp file.  The file holds *)
(* the child's output and, between a BEGINMARK and an ENDMARK, the lines   *)
(* clients typed, each followed by the id of its client.  The client's     *)
(* output chain (src/remote/srvstoc.c) reads the file a buffer at a time,  *)
(* drops marks and ids, and leaves out the lines this client typed.        *)
(*                                                                         *)
(* A byte of the file is known by its position, so that a byte lost,       *)
(* doubled or moved shows.                                                 *)
(***************************************************************************)
EXTENDS Integers, Sequences, FiniteSets

CONSTANTS BUFFSIZE,     \* server.h, the size of each of the client's buffers
          IdLen,        \* sizeof(HexAsciiId)
          Bodies,       \* lengths of what is formatted before the id
          Texts,        \* lengths of the child's writes
          MaxAppends    \* bound: how often something is appended to the file

\* The buffers hold something and an id is not empty (server.h); lengths are lengths.
ASSUME SizesAssumption ==
  /\ {BUFFSIZE, IdLen} \subseteq Nat \ {0}
  /\ Bodies \cup Texts \cup {MaxAppends} \subseteq Nat

VARIABLES
  file,         \* the temp file: its bytes, each [k: kind, b: begin, e: end]
  appends,      \* how often it was written
  pc,           \* where the client's output chain is
  filePos,      \* dwFilePos
  asked,        \* cbWrite of a pending read
  left,         \* cbReadTempBuffer
  pch,          \* bytes of ReadTempBuffer the scan has passed
  reading,      \* SFLG_READINGCOMMAND
  wbuf, cmd,    \* WriteBuffer and CommandBuffer, as positions in the file
  out,          \* what the pending WriteFileEx sends
  sent,         \* what the client has been sent
  start, cuts   \* history: dwFilePos of the client's first read, and of every read

vars == <<file, appends, pc, filePos, asked, left, pch, reading, wbuf, cmd, out, sent,
          start, cuts>>

Kinds == {"text", "begin", "body", "mine", "theirs", "end"}

\* A byte of the child's.  The marks are ordinary characters to a child.
Text(k) == [k |-> k, b |-> 0, e |-> 0]

\* CMDSTRING behind n bytes: BEGINMARK, the line and its attribution, the id of the
\* client that typed it (0, which is nobody's, when all are to see it), ENDMARK.
CmdString(id, body, n) ==
  LET last == body + IdLen + 2
      kind(i) == IF i = 1 THEN "begin"
                 ELSE IF i <= body + 1 THEN "body"
                 ELSE IF i < last THEN id ELSE "end"
  IN  [i \in 1 .. last |-> [k |-> kind(i), b |-> n + 1, e |-> n + last]]

Appends ==
     {[i \in 1 .. n |-> Text("text")] : n \in Texts}
  \cup {<<Text("begin")>>, <<Text("end")>>}
  \cup {CmdString(id, body, Len(file)) : id \in {"mine", "theirs"}, body \in Bodies}

Init ==
  /\ file = <<>> /\ appends = 0 /\ pc = "joining"
  /\ filePos = 0 /\ asked = 0 /\ left = 0 /\ pch = 0
  /\ reading = FALSE
  /\ wbuf = <<>> /\ cmd = <<>> /\ out = <<>> /\ sent = <<>>
  /\ start = 0 /\ cuts = {}

-----------------------------------------------------------------------------
(* Operators the routines below share. *)

\* StartReadTempFile with cbWrite zero, the file being f and the next byte at pos.
StartReadTempFile_NotBehind(f, pos) ==
  /\ pc' = "read"
  /\ asked' = IF BUFFSIZE < Len(f) - pos THEN BUFFSIZE ELSE Len(f) - pos
  /\ cuts' = cuts \cup {pos}
StartReadTempFile(f, pos) ==
  IF Len(f) > pos
  THEN /\ pc' = "read"
       /\ asked' = IF BUFFSIZE < Len(f) - pos THEN BUFFSIZE ELSE Len(f) - pos
       /\ cuts' = cuts \cup {pos}
  ELSE pc' = "idle" /\ asked' = 0 /\ cuts' = cuts

\* The byte the scan has come to, at pch of the buffer.
Here == filePos - left + pch + 1
AtMark(k) == pch < left /\ file[Here].k = k

\* The rest of the buffer moves to its front and bytes go to the client, after which
\* the scan goes on (WriteSessionOutputCompletedWriteNext).
WriteAndGoOn(bytes) ==
  /\ left' = left - pch - 1 /\ pch' = 0
  /\ out' = bytes
  /\ pc' = "writenext"

Shorter(n, m) == IF n < m THEN n ELSE m
WithoutId == SubSeq(cmd, 1, Len(cmd) - Shorter(Len(cmd), IdLen))

\* memcmp(pch - sizeof(HexAsciiId), HexAsciiId, ...): when fewer bytes than that are in
\* the buffer the comparison takes in the last byte of ReadBuffer, which is always 0.
IdMatches_OffByOne ==
  /\ pch > IdLen
  /\ \A i \in 1 .. IdLen : file[Here - i].k = "mine"
IdMatches ==
  /\ pch >= IdLen
  /\ \A i \in 1 .. IdLen : file[Here - i].k = "mine"

-----------------------------------------------------------------------------
(* Whatever appends to the file runs on the same thread, between two completion  *)
(* routines of this client, and then starts the output of clients that are idle. *)
AppendToTempFile ==
  \E bytes \in Appends :
    /\ pc # "scan"
    /\ appends < MaxAppends
    /\ file' = file \o bytes /\ appends' = appends + 1
    /\ IF pc = "idle" THEN StartReadTempFile(file', filePos)
                      ELSE UNCHANGED <<pc, asked, cuts>>
    /\ UNCHANGED <<filePos, left, pch, reading, wbuf, cmd, out, sent, start>>

\* ReadClientInfoCompleted: so many lines back from the end, wherever that is, and
\* the announcement that starts the client's output.
ReadClientInfoCompleted ==
  /\ pc = "joining"
  /\ file' = Append(file, Text("text")) /\ UNCHANGED appends
  /\ \E pos \in 0 .. Len(file) :
       filePos' = pos /\ start' = pos /\ StartReadTempFile(file', pos)
  /\ UNCHANGED <<left, pch, reading, wbuf, cmd, out, sent>>

ReadTempFileCompleted ==
  /\ pc = "read"
  /\ filePos' = filePos + asked
  /\ left' = asked /\ pch' = 0
  /\ pc' = "scan"
  /\ UNCHANGED <<file, appends, asked, reading, wbuf, cmd, out, sent, start, cuts>>

(* StartWriteSessionOutput: one step for each byte, and one for the end.         *)
ScanBeginMark_NoFlush ==
  /\ pc = "scan" /\ ~reading /\ AtMark("begin")
  /\ reading' = TRUE /\ pch' = pch + 1
  /\ UNCHANGED <<file, appends, pc, filePos, asked, left, wbuf, cmd, out, sent, start, cuts>>
ScanBeginMark ==
  /\ pc = "scan" /\ ~reading /\ AtMark("begin")
  /\ reading' = TRUE
  /\ IF pch # 0 /\ wbuf # <<>>
     THEN WriteAndGoOn(wbuf) /\ wbuf' = <<>>
     ELSE pch' = pch + 1 /\ UNCHANGED <<left, out, pc, wbuf>>
  /\ UNCHANGED <<file, appends, filePos, asked, cmd, sent, start, cuts>>

\* ErrorExit("cbWriteBuffer overflow"), or the byte is copied.
ScanText ==
  /\ pc = "scan" /\ ~reading /\ pch < left /\ ~AtMark("begin")
  /\ IF Len(wbuf) = BUFFSIZE
     THEN pc' = "errorexit" /\ UNCHANGED <<wbuf, pch>>
     ELSE wbuf' = Append(wbuf, Here) /\ pch' = pch + 1 /\ UNCHANGED pc
  /\ UNCHANGED <<file, appends, filePos, asked, left, reading, cmd, out, sent, start, cuts>>

ScanCommand_NoLimit ==
  /\ pc = "scan" /\ reading /\ pch < left /\ ~AtMark("end")
  /\ cmd' = Append(cmd, Here) /\ pch' = pch + 1
  /\ UNCHANGED <<file, appends, pc, filePos, asked, left, reading, wbuf, out, sent, start, cuts>>
ScanCommand ==
  /\ pc = "scan" /\ reading /\ pch < left
  /\ ~AtMark("end") /\ Len(cmd) < BUFFSIZE
  /\ cmd' = Append(cmd, Here) /\ pch' = pch + 1
  /\ UNCHANGED <<file, appends, pc, filePos, asked, left, reading, wbuf, out, sent, start, cuts>>

\* An ENDMARK, or a byte for which CommandBuffer has no room: either is passed over.
ScanEndMark ==
  /\ pc = "scan" /\ reading /\ pch < left
  /\ AtMark("end") \/ Len(cmd) = BUFFSIZE
  /\ reading' = FALSE /\ cmd' = <<>>
  /\ LET command == IF AtMark("end") THEN WithoutId ELSE cmd
     IN  IF command # <<>> /\ ~(AtMark("end") /\ IdMatches)
         THEN WriteAndGoOn(command)
         ELSE pch' = pch + 1 /\ UNCHANGED <<left, out, pc>>
  /\ UNCHANGED <<file, appends, filePos, asked, wbuf, sent, start, cuts>>

ScanEnds_KeepsBuffer ==
  /\ pc = "scan" /\ pch = left
  /\ left' = 0 /\ pch' = 0
  /\ IF wbuf # <<>>
     THEN out' = wbuf /\ pc' = "readnext" /\ UNCHANGED <<asked, cuts, wbuf>>
     ELSE StartReadTempFile(file, filePos) /\ UNCHANGED <<out, wbuf>>
  /\ UNCHANGED <<file, appends, filePos, reading, cmd, sent, start>>
ScanEnds_Reads ==
  /\ pc = "scan" /\ pch = left
  /\ left' = 0 /\ pch' = 0
  /\ StartReadTempFile(file, filePos)
  /\ UNCHANGED <<file, appends, filePos, reading, cmd, sent, start, out, wbuf>>
ScanEnds ==
  /\ pc = "scan" /\ pch = left
  /\ left' = 0 /\ pch' = 0
  /\ IF wbuf # <<>>
     THEN out' = wbuf /\ wbuf' = <<>> /\ pc' = "readnext" /\ UNCHANGED <<asked, cuts>>
     ELSE StartReadTempFile(file, filePos) /\ UNCHANGED <<out, wbuf>>
  /\ UNCHANGED <<file, appends, filePos, reading, cmd, sent, start>>

WriteSessionOutputCompletedWriteNext ==
  /\ pc = "writenext"
  /\ sent' = sent \o out /\ out' = <<>>
  /\ pc' = "scan"
  /\ UNCHANGED <<file, appends, filePos, asked, left, pch, reading, wbuf, cmd, start, cuts>>

WriteSessionOutputCompletedReadNext ==
  /\ pc = "readnext"
  /\ sent' = sent \o out /\ out' = <<>>
  /\ StartReadTempFile(file, filePos)
  /\ UNCHANGED <<file, appends, filePos, left, pch, reading, wbuf, cmd, start>>

\* A read or write that fails closes the client, as does its pipe when it breaks.
CloseClient ==
  /\ pc \in {"read", "writenext", "readnext"}
  /\ pc' = "closed"
  /\ UNCHANGED <<file, appends, filePos, asked, left, pch, reading, wbuf, cmd, out, sent,
                 start, cuts>>

Scan == ScanBeginMark \/ ScanText \/ ScanCommand \/ ScanEndMark \/ ScanEnds

Next ==
  \/ AppendToTempFile
  \/ ReadClientInfoCompleted
  \/ ReadTempFileCompleted
  \/ Scan
  \/ WriteSessionOutputCompletedWriteNext
  \/ WriteSessionOutputCompletedReadNext
  \/ CloseClient

Spec == Init /\ [][Next]_vars

\* The thread goes on with what it does and I/O that is pending completes.
FairSpec ==
  /\ Spec
  /\ WF_vars(ReadTempFileCompleted) /\ WF_vars(Scan)
  /\ WF_vars(WriteSessionOutputCompletedWriteNext)
  /\ WF_vars(WriteSessionOutputCompletedReadNext)

-----------------------------------------------------------------------------
(* Properties. *)

Positions == 1 .. Len(file)
Sent == {sent[i] : i \in DOMAIN sent}

TypeOK ==
  /\ file \in Seq([k : Kinds, b : 0 .. Len(file), e : 0 .. Len(file)])
  /\ appends \in 0 .. MaxAppends
  /\ pc \in {"joining", "idle", "read", "scan", "writenext", "readnext", "closed",
             "errorexit"}
  /\ filePos \in 0 .. Len(file) /\ start \in 0 .. Len(file)
  /\ asked \in 0 .. BUFFSIZE /\ left \in 0 .. BUFFSIZE /\ pch \in 0 .. left
  /\ reading \in BOOLEAN
  /\ {wbuf, cmd, out, sent} \subseteq Seq(Positions)
  /\ Len(wbuf) <= BUFFSIZE /\ Len(cmd) <= BUFFSIZE
  /\ cuts \subseteq 0 .. Len(file)

\* The ErrorExit of a full WriteBuffer is never reached: what a read returned is all
\* written before the next read, and a command waits in a buffer of its own.
NoOverflow == pc # "errorexit"

\* The client is sent the bytes of the file in their order and none twice, though they
\* pass through two buffers, the buffer is shifted under the scan, and a command may
\* wait for its end across reads, text going before and behind it.
InOrder ==
  LET queue == sent \o out \o (IF reading THEN wbuf \o cmd ELSE cmd \o wbuf)
  IN  \A i, j \in DOMAIN queue : i < j => queue[i] < queue[j]

\* The child has written no mark of its own, so commands are where CMDSTRING put them.
Unmarked == \A p \in Positions : file[p].b = 0 => file[p].k = "text"

\* A command that fits in CommandBuffer and was read from its BEGINMARK on.
Fits(p) == file[p].e - file[p].b - 1 <= BUFFSIZE
ReadWhole(p) == file[p].b > start

\* The position of the ENDMARK and of the id before it are in one read.
IdInOneRead(p) == \A c \in cuts : ~(file[p].e - IdLen <= c /\ c < file[p].e)
Mine(p) == file[file[p].e - 1].k = "mine"

\* What the client should see, byte by byte: text; the lines of commands, those of its
\* own only where a read ended between id and ENDMARK; what is left of a command whose
\* BEGINMARK was before its time; and of a command too long for the buffer everything
\* but the mark and the byte that found the buffer full.
Visible(p) ==
  \/ file[p].b = 0
  \/ ~ReadWhole(p)
  \/ ~Fits(p) /\ p \notin {file[p].b, file[p].b + BUFFSIZE + 1}
  \/ Fits(p) /\ file[p].k = "body" /\ ~(Mine(p) /\ IdInOneRead(p))

\* A client that is idle has been sent just that, however the file was cut into reads:
\* nothing anyone else typed or the child printed is lost, held back or shown twice.
NothingLost ==
  pc = "idle" /\ Unmarked => Sent = {p \in Positions : p > start /\ Visible(p)}

\* "We hide each client's input from their output pipe": it holds of every command that
\* one read returns whole from its id on.
OwnHidden ==
  Unmarked =>
    \A p \in Positions :
      /\ file[p].b > start /\ Fits(p) /\ Mine(p)
      /\ file[p].e <= filePos /\ IdInOneRead(p)
      => p \notin Sent

\* Once started the chain comes to rest, and it rests only when all that is in the file
\* has been read (and, as NothingLost says, sent): no routine stops half way.
ComesToRest == pc = "read" ~> (pc \in {"idle", "closed"})
=============================================================================
