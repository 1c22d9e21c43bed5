------------------------- MODULE RemoteFilterProofs -------------------------
(***************************************************************************)
(* What a client of remote.exe is sent, for buffers, ids, lines and writes *)
(* of any length: the bytes of the temp file in their order, none lost,    *)
(* and none of a command of its own that one read returned whole.          *)
(***************************************************************************)
EXTENDS RemoteFilter, TLAPS

(***************************************************************************)
(* The inductive invariant.                                                *)
(***************************************************************************)

Byte == [k : Kinds, b : Nat, e : Nat]

Front == filePos - left         \* bytes of the file before the front of ReadTempBuffer
Scanned == Front + pch          \* bytes of the file the scan has passed
Done == Scanned - Len(cmd)      \* bytes whose fate is decided

Bytes(s) == {s[i] : i \in DOMAIN s}
Increasing(s) == \A i, j \in DOMAIN s : i < j => s[i] < s[j]
Within(s, low, high) == \A i \in DOMAIN s : low < s[i] /\ s[i] <= high
Before(s, t) == \A i \in DOMAIN s : \A j \in DOMAIN t : s[i] < t[j]

Typed ==
  /\ file \in Seq(Byte)
  /\ appends \in 0 .. MaxAppends
  /\ pc \in {"joining", "idle", "read", "scan", "writenext", "readnext", "closed"}
  /\ filePos \in Nat /\ start \in Nat /\ asked \in Nat /\ left \in Nat /\ pch \in Nat
  /\ reading \in BOOLEAN
  /\ wbuf \in Seq(Nat) /\ cmd \in Seq(Nat) /\ out \in Seq(Nat) /\ sent \in Seq(Nat)
  /\ cuts \subseteq Nat

\* Where a command is in the file, and that all of it is there.
CommandRule(f, p) ==
  LET b == f[p].b
      e == f[p].e
  IN  b # 0 \/ e # 0 =>
        /\ 0 < b /\ b <= p /\ p <= e /\ e <= Len(f) /\ b + IdLen < e
        /\ \A q \in b .. e : f[q].b = b /\ f[q].e = e
        /\ p = b => f[p].k = "begin"
        /\ p = e => f[p].k = "end"
        /\ b < p /\ p < e - IdLen => f[p].k = "body"
        /\ e - IdLen <= p /\ p < e => f[p].k = f[e - 1].k
        /\ f[e - 1].k \in {"mine", "theirs"}
WellFormed(f) == \A p \in 1 .. Len(f) : CommandRule(f, p)
FileRule == WellFormed(file)

\* How far the chain has come.
PlaceRule ==
  /\ start <= Front /\ filePos <= Len(file)
  /\ pch <= left /\ left <= BUFFSIZE /\ asked <= BUFFSIZE
  /\ pc \notin {"scan", "writenext", "closed"} => left = 0
  /\ pc # "scan" => pch = 0
  /\ pc = "read" => filePos + asked <= Len(file)
  /\ pc = "idle" => filePos = Len(file)
  /\ \A c \in cuts : c <= Front
  /\ pc = "joining" => start = 0 /\ filePos = 0 /\ cuts = {} /\ ~reading /\ sent = <<>>

\* Only one of the buffers holds anything; WriteBuffer holds bytes since the last shift.
BufferRule ==
  /\ Len(wbuf) <= pch /\ Len(cmd) <= BUFFSIZE
  /\ pc \notin {"writenext", "readnext", "closed"} => out = <<>>
  /\ IF reading THEN wbuf = <<>> ELSE cmd = <<>>
  /\ out # <<>> => wbuf = <<>> /\ cmd = <<>>

OrderRule ==
  /\ Increasing(sent) /\ Within(sent, start, Scanned)
  /\ \A s \in {out, wbuf, cmd} :
       Increasing(s) /\ Within(s, start, Scanned) /\ Before(sent, s)

\* CommandBuffer holds what follows a BEGINMARK, whose end is yet to come.
CommandBufferRule ==
  reading =>
    /\ Done \in Positions /\ start < Done
    /\ file[Done].b = Done /\ Scanned < file[Done].e
    /\ \A i \in DOMAIN cmd : cmd[i] = Done + i
    /\ Front \in cuts \/ Front <= Done

\* The scan takes bytes of a command for text only when it missed the BEGINMARK or has
\* passed the byte that found the buffer full.
TextRule ==
  ~reading /\ Scanned > start /\ file[Scanned].b # 0 /\ Scanned < file[Scanned].e
    => file[Scanned].b <= start \/ Scanned > file[Scanned].b + BUFFSIZE

\* What the client was sent, or is about to be, is what it should see.
SentRule ==
  Bytes(sent) \cup Bytes(out) \cup Bytes(wbuf) = {p \in start + 1 .. Done : Visible(p)}

FilterInv ==
  /\ Typed /\ FileRule /\ PlaceRule /\ BufferRule /\ OrderRule
  /\ Unmarked => CommandBufferRule /\ TextRule /\ SentRule

(***************************************************************************)
(* The file.                                                               *)
(***************************************************************************)

Extends(g, f) ==
  /\ Len(f) <= Len(g)
  /\ \A p \in 1 .. Len(f) : g[p] = f[p]

LEMMA Appended ==
  ASSUME NEW f \in Seq(Byte), NEW bytes \in Seq(Byte)
  PROVE  LET g == f \o bytes
         IN  /\ g \in Seq(Byte) /\ Len(g) = Len(f) + Len(bytes)
             /\ Extends(g, f)
             /\ \A i \in 1 .. Len(bytes) : g[Len(f) + i] = bytes[i]
  BY DEF Extends

\* What is there stays as it is.
LEMMA CommandKept ==
  ASSUME NEW f \in Seq(Byte), NEW g \in Seq(Byte), WellFormed(f), Extends(g, f),
         NEW p \in 1 .. Len(f)
  PROVE  CommandRule(g, p)
<1> DEFINE b == f[p].b
           e == f[p].e
<1>1. CommandRule(f, p) /\ f[p] \in Byte /\ g[p] = f[p]
  BY DEF WellFormed, Extends
<1>2. CASE b = 0 /\ e = 0
  BY <1>1, <1>2 DEF CommandRule
<1>3. CASE b # 0 \/ e # 0
  <2>1. /\ 0 < b /\ b <= p /\ p <= e /\ e <= Len(f) /\ b + IdLen < e
        /\ b \in Nat /\ e \in Nat /\ IdLen \in Nat
    BY <1>1, <1>3, SizesAssumption DEF CommandRule, Byte
  <2>2. \A q \in b .. e : g[q] = f[q]
    BY <2>1 DEF Extends
  <2>3. g[e - 1] = f[e - 1]
    <3>1. e - 1 \in b .. e
      BY <2>1
    <3> QED
      BY <2>2, <3>1
  <2>4. e <= Len(g)
    BY <2>1 DEF Extends
  <2>5. \A q \in b .. e : g[q].b = b /\ g[q].e = e
    BY <1>1, <1>3, <2>2 DEF CommandRule
  <2> QED
    BY <1>1, <1>3, <2>1, <2>3, <2>4, <2>5 DEF CommandRule
<1> QED
  BY <1>2, <1>3

LEMMA TextAppended ==
  ASSUME NEW f \in Seq(Byte), WellFormed(f), NEW bytes \in Seq(Byte),
         \A i \in 1 .. Len(bytes) : bytes[i].b = 0 /\ bytes[i].e = 0
  PROVE  f \o bytes \in Seq(Byte) /\ WellFormed(f \o bytes) /\ Extends(f \o bytes, f)
<1> DEFINE g == f \o bytes
<1>1. /\ g \in Seq(Byte) /\ Len(g) = Len(f) + Len(bytes) /\ Extends(g, f)
      /\ \A i \in 1 .. Len(bytes) : g[Len(f) + i] = bytes[i]
  BY Appended
<1> HIDE DEF g
<1>2. ASSUME NEW p \in 1 .. Len(g), p \notin 1 .. Len(f) PROVE CommandRule(g, p)
  <2>1. p - Len(f) \in 1 .. Len(bytes) /\ p = Len(f) + (p - Len(f))
    BY <1>1, <1>2
  <2>2. g[p] = bytes[p - Len(f)]
    BY <1>1, <2>1
  <2> QED
    BY <2>1, <2>2 DEF CommandRule
<1>3. WellFormed(g)
  BY <1>1, <1>2, CommandKept DEF WellFormed
<1> QED
  BY <1>1, <1>3 DEF g

LEMMA CmdStringAppended ==
  ASSUME NEW f \in Seq(Byte), WellFormed(f),
         NEW id \in {"mine", "theirs"}, NEW body \in Bodies
  PROVE  LET g == f \o CmdString(id, body, Len(f))
         IN  g \in Seq(Byte) /\ WellFormed(g) /\ Extends(g, f)
<1> DEFINE n == Len(f)
           bytes == CmdString(id, body, n)
           last == body + IdLen + 2
           g == f \o bytes
<1>1. body \in Nat /\ IdLen \in Nat /\ IdLen > 0 /\ n \in Nat
  BY SizesAssumption
<1>2. DOMAIN bytes = 1 .. last
  BY DEF CmdString
<1>3. \A i \in 1 .. last : bytes[i].b = n + 1 /\ bytes[i].e = n + last
  BY DEF CmdString
<1>4. \A i \in 1 .. last : bytes[i].k = IF i = 1 THEN "begin"
                                         ELSE IF i <= body + 1 THEN "body"
                                         ELSE IF i < last THEN id ELSE "end"
  BY DEF CmdString
<1>5. bytes \in Seq(Byte) /\ Len(bytes) = last
  <2>1. bytes \in [1 .. last -> Byte]
    BY <1>1 DEF CmdString, Byte, Kinds
  <2>2. last \in Nat
    BY <1>1
  <2> HIDE DEF bytes, last
  <2> QED
    BY <2>1, <2>2
<1> HIDE DEF bytes
<1>6. /\ g \in Seq(Byte) /\ Len(g) = n + last /\ Extends(g, f)
      /\ \A i \in 1 .. last : g[n + i] = bytes[i]
  <2>1. /\ g \in Seq(Byte) /\ Len(g) = Len(f) + Len(bytes) /\ Extends(g, f)
        /\ \A i \in 1 .. Len(bytes) : g[Len(f) + i] = bytes[i]
    BY <1>5, Appended
  <2> QED
    BY <1>5, <2>1
<1> HIDE DEF g
<1>7. ASSUME NEW i \in 1 .. last PROVE CommandRule(g, n + i)
  <2> DEFINE b == n + 1
             e == n + last
  <2>1. i \in Int /\ 1 <= i /\ i <= last /\ last \in Nat /\ body + IdLen + 2 = last
    BY <1>1
  <2> HIDE DEF n, last
  <2>2. \A q \in b .. e : q - n \in 1 .. last /\ q = n + (q - n)
    BY <1>1, <2>1
  <2>3. \A q \in b .. e : g[q] = bytes[q - n]
    BY <1>6, <2>2
  <2>4. \A q \in b .. e : g[q].b = b /\ g[q].e = e
    BY <1>3, <2>2, <2>3
  <2>5. e - 1 \in b .. e /\ b + IdLen < e /\ 0 < b
    BY <1>1, <2>1
  <2>6. g[e - 1].k = id
    <3>1. e - 1 - n = last - 1 /\ last - 1 \in 1 .. last /\ last - 1 # 1
          /\ ~(last - 1 <= body + 1) /\ last - 1 < last
      BY <1>1, <2>1
    <3>2. g[e - 1] = bytes[last - 1]
      BY <2>3, <2>5, <3>1
    <3> QED
      BY <1>4, <3>1, <3>2
  <2>7. g[n + i] = bytes[i] /\ g[n + i].b = b /\ g[n + i].e = e
    BY <1>3, <1>6, <2>1
  <2>8. /\ n + i = b => g[n + i].k = "begin"
        /\ n + i = e => g[n + i].k = "end"
        /\ b < n + i /\ n + i < e - IdLen => g[n + i].k = "body"
        /\ e - IdLen <= n + i /\ n + i < e => g[n + i].k = id
    BY <1>1, <1>4, <2>1, <2>7
  <2>9. b <= n + i /\ n + i <= e /\ e <= Len(g)
    BY <1>1, <1>6, <2>1
  <2> QED
    BY <2>4, <2>5, <2>6, <2>7, <2>8, <2>9 DEF CommandRule
<1>8. \A p \in 1 .. Len(g) : p \in 1 .. n \/ (p - n \in 1 .. last /\ p = n + (p - n))
  BY <1>1, <1>6
<1>9. WellFormed(g)
  BY <1>6, <1>7, <1>8, CommandKept DEF WellFormed
<1> QED
  BY <1>6, <1>9 DEF g, bytes

LEMMA FileAppended ==
  ASSUME Typed, FileRule, NEW bytes \in Appends, file' = file \o bytes
  PROVE  file' \in Seq(Byte) /\ FileRule' /\ Extends(file', file)
<1>1. file \in Seq(Byte) /\ WellFormed(file)
  BY DEF Typed, FileRule
<1>2. CASE bytes \in {[i \in 1 .. n |-> Text("text")] : n \in Texts}
  <2> PICK n \in Texts : bytes = [i \in 1 .. n |-> Text("text")]
    BY <1>2
  <2>1. Text("text") \in Byte /\ Text("text").b = 0 /\ Text("text").e = 0
    BY DEF Text, Byte, Kinds
  <2>2. n \in Nat
    BY SizesAssumption
  <2>3. bytes \in [1 .. n -> Byte]
    BY <2>1
  <2>4. bytes \in Seq(Byte) /\ Len(bytes) = n
    BY <2>2, <2>3
  <2> QED
    BY <1>1, <2>1, <2>4, TextAppended DEF FileRule
<1>3. CASE bytes \in {<<Text("begin")>>, <<Text("end")>>}
  <2>1. Text("begin") \in Byte /\ Text("end") \in Byte
    BY DEF Text, Byte, Kinds
  <2>2. bytes \in Seq(Byte) /\ Len(bytes) = 1
    BY <1>3, <2>1
  <2>3. bytes[1].b = 0 /\ bytes[1].e = 0
    BY <1>3 DEF Text
  <2> QED
    BY <1>1, <2>2, <2>3, TextAppended DEF FileRule
<1>4. CASE bytes \in {CmdString(id, body, Len(file)) : id \in {"mine", "theirs"},
                                                       body \in Bodies}
  <2> PICK id \in {"mine", "theirs"}, body \in Bodies : bytes = CmdString(id, body, Len(file))
    BY <1>4
  <2> QED
    BY <1>1, CmdStringAppended DEF FileRule
<1> QED
  BY <1>2, <1>3, <1>4 DEF Appends

LEMMA FileStep ==
  ASSUME FilterInv, [Next]_vars
  PROVE  file' \in Seq(Byte) /\ FileRule' /\ Extends(file', file)
<1>1. Typed /\ FileRule
  BY DEF FilterInv
<1>2. CASE UNCHANGED file
  BY <1>1, <1>2 DEF Typed, FileRule, Extends
<1>3. CASE AppendToTempFile
  BY <1>1, <1>3, FileAppended DEF AppendToTempFile
<1>4. CASE ReadClientInfoCompleted
  <2>1. Text("text") \in Byte
    BY DEF Text, Byte, Kinds
  <2>2. file' = file \o <<Text("text")>>
    BY <1>1, <1>4, <2>1 DEF ReadClientInfoCompleted, Typed
  <2> DEFINE bytes == <<Text("text")>>
  <2>3. bytes \in Seq(Byte) /\ Len(bytes) = 1
    BY <2>1
  <2>4. bytes[1].b = 0 /\ bytes[1].e = 0
    BY DEF Text
  <2>5. file \in Seq(Byte) /\ WellFormed(file)
    BY <1>1 DEF Typed, FileRule
  <2> HIDE DEF bytes
  <2>6. \A i \in 1 .. Len(bytes) : bytes[i].b = 0 /\ bytes[i].e = 0
    BY <2>3, <2>4
  <2>7. file \o bytes \in Seq(Byte) /\ WellFormed(file \o bytes) /\ Extends(file \o bytes, file)
    BY <2>3, <2>5, <2>6, TextAppended
  <2> QED
    BY <2>2, <2>7 DEF bytes, FileRule
<1>5. UNCHANGED file \/ AppendToTempFile \/ ReadClientInfoCompleted
  BY DEF Next, vars, Scan, ReadTempFileCompleted, ScanBeginMark, ScanText, ScanCommand,
     ScanEndMark, ScanEnds, WriteSessionOutputCompletedWriteNext,
     WriteSessionOutputCompletedReadNext, CloseClient
<1> QED
  BY <1>2, <1>3, <1>4, <1>5

(***************************************************************************)
(* Where the chain is and what the buffers hold.                           *)
(***************************************************************************)

LEMMA Sizes ==
  ASSUME Typed
  PROVE  /\ BUFFSIZE \in Nat /\ BUFFSIZE > 0 /\ IdLen \in Nat /\ IdLen > 0 /\ MaxAppends \in Nat
         /\ Len(file) \in Nat /\ filePos \in Nat /\ start \in Nat /\ asked \in Nat
         /\ left \in Nat /\ pch \in Nat /\ Len(wbuf) \in Nat /\ Len(cmd) \in Nat
  BY SizesAssumption DEF Typed

LEMMA ReadStarted ==
  ASSUME NEW n \in Nat, NEW pos \in Nat, BUFFSIZE \in Nat, cuts \subseteq Nat, NEW f,
         Len(f) = n, StartReadTempFile(f, pos)
  PROVE  pc' \in {"read", "idle"} /\ asked' \in Nat /\ cuts' \subseteq Nat
<1>1. CASE n > pos
  <2>1. n - pos \in Nat
    BY <1>1
  <2>2. cuts' = cuts \cup {pos} /\ asked' \in {BUFFSIZE, n - pos} /\ pc' = "read"
    BY <1>1 DEF StartReadTempFile
  <2>3. asked' \in Nat
    BY <2>1, <2>2
  <2>4. cuts' \subseteq Nat
    BY <2>2
  <2> QED
    BY <2>2, <2>3, <2>4
<1>2. CASE ~(n > pos)
  <2>1. pc' = "idle" /\ asked' = 0 /\ cuts' = cuts
    BY <1>2 DEF StartReadTempFile
  <2> QED
    BY <2>1
<1> QED
  BY <1>1, <1>2

LEMMA TypedStep ==
  ASSUME FilterInv, [Next]_vars
  PROVE  Typed'
<1>1. Typed /\ PlaceRule /\ BufferRule
  BY DEF FilterInv
<1>20. /\ Len(file) \in Nat /\ BUFFSIZE \in Nat /\ BUFFSIZE > 0 /\ IdLen \in Nat
       /\ file' \in Seq(Byte) /\ Len(file') \in Nat /\ cuts \subseteq Nat
       /\ filePos \in Nat /\ start \in Nat /\ asked \in Nat
       /\ left \in Nat /\ pch \in Nat /\ Len(wbuf) \in Nat /\ Len(cmd) \in Nat
  BY <1>1, Sizes, FileStep DEF Typed
<1> USE <1>1, <1>20
<1>2. Front \in Nat /\ (pch < left => Here \in Nat)
  BY DEF Typed, PlaceRule, Front, Here
<1>3. CASE UNCHANGED vars
  BY <1>3 DEF Typed, vars
<1>4. CASE AppendToTempFile
  <2>1. appends' \in 0 .. MaxAppends
    BY <1>4, Sizes DEF AppendToTempFile, Typed
  <2>2. pc' \in {pc, "read", "idle"} /\ asked' \in Nat /\ cuts' \subseteq Nat
    <3>1. CASE pc = "idle"
      <4>1. StartReadTempFile(file', filePos)
        BY <1>4, <3>1 DEF AppendToTempFile
      <4> QED
        BY <4>1, ReadStarted
    <3>2. CASE pc # "idle"
      BY <1>4, <3>2 DEF AppendToTempFile
    <3> QED
      BY <3>1, <3>2
  <2> QED
    BY <1>4, <2>1, <2>2 DEF AppendToTempFile, Typed
<1>5. CASE ReadClientInfoCompleted
  <2>1. PICK pos \in 0 .. Len(file) :
           filePos' = pos /\ start' = pos /\ StartReadTempFile(file', pos)
    BY <1>5 DEF ReadClientInfoCompleted
  <2>2. pc' \in {"read", "idle"} /\ asked' \in Nat /\ cuts' \subseteq Nat
    <3>1. pos \in Nat
      OBVIOUS
    <3> QED
      BY <2>1, <3>1, ReadStarted
  <2> QED
    BY <1>5, <2>1, <2>2 DEF ReadClientInfoCompleted, Typed
<1>6. CASE ReadTempFileCompleted
  BY <1>6 DEF ReadTempFileCompleted, Typed
<1>7. CASE ScanBeginMark
  <2>1. left' \in Nat /\ pch' \in Nat /\ pc' \in {"scan", "writenext"}
    BY <1>7 DEF ScanBeginMark, AtMark, WriteAndGoOn
  <2>2. out' \in {out, wbuf} /\ wbuf' \in {wbuf, <<>>}
    BY <1>7 DEF ScanBeginMark, WriteAndGoOn
  <2>3. out' \in Seq(Nat) /\ wbuf' \in Seq(Nat)
    <3>1. <<>> \in Seq(Nat)
      OBVIOUS
    <3> QED
      BY <2>2, <3>1 DEF Typed
  <2> QED
    BY <1>7, <2>1, <2>3 DEF ScanBeginMark, Typed
<1>8. CASE ScanText
  <2>1. Len(wbuf) # BUFFSIZE
    BY <1>8 DEF ScanText, BufferRule, PlaceRule
  <2>2. wbuf' \in Seq(Nat)
    <3>1. wbuf' = Append(wbuf, Here) /\ Here \in Nat /\ wbuf \in Seq(Nat)
      BY <1>2, <1>8, <2>1 DEF ScanText, Typed
    <3> QED
      BY <3>1
  <2> QED
    BY <1>8, <2>1, <2>2 DEF ScanText, Typed
<1>9. CASE ScanCommand
  <2>1. cmd' \in Seq(Nat)
    BY <1>2, <1>9 DEF ScanCommand, Typed
  <2> QED
    BY <1>9, <2>1 DEF ScanCommand, Typed
<1>10. CASE ScanEndMark
  <2>1. WithoutId \in Seq(Nat)
    <3>1. Len(cmd) - Shorter(Len(cmd), IdLen) \in 0 .. Len(cmd)
      BY DEF Shorter
    <3> QED
      BY <3>1 DEF WithoutId, Typed
  <2>2. out' \in Seq(Nat) /\ left' \in Nat /\ pch' \in Nat /\ pc' \in {"scan", "writenext"}
    <3>1. /\ left' \in Nat /\ pch' \in Nat /\ pc' \in {"scan", "writenext"}
          /\ out' \in {out, cmd, WithoutId}
      BY <1>10 DEF ScanEndMark, WriteAndGoOn
    <3> QED
      BY <2>1, <3>1 DEF Typed
  <2>3. cmd' \in Seq(Nat)
    BY <1>10 DEF ScanEndMark
  <2> QED
    BY <1>10, <2>2, <2>3 DEF ScanEndMark, Typed
<1>11. CASE ScanEnds
  <2>1. pc' \in {"readnext", "read", "idle"} /\ asked' \in Nat /\ cuts' \subseteq Nat
    <3>1. CASE wbuf # <<>>
      BY <1>11, <3>1 DEF ScanEnds
    <3>2. CASE wbuf = <<>>
      <4>1. StartReadTempFile(file, filePos)
        BY <1>11, <3>2 DEF ScanEnds
      <4> QED
        BY <4>1, ReadStarted
    <3> QED
      BY <3>1, <3>2
  <2>2. out' \in Seq(Nat) /\ wbuf' \in Seq(Nat)
    <3>1. out' \in {out, wbuf} /\ wbuf' \in {wbuf, <<>>}
      BY <1>11 DEF ScanEnds
    <3>2. <<>> \in Seq(Nat)
      OBVIOUS
    <3> QED
      BY <3>1, <3>2 DEF Typed
  <2> QED
    BY <1>11, <2>1, <2>2 DEF ScanEnds, Typed
<1>12. CASE WriteSessionOutputCompletedWriteNext
  BY <1>12 DEF WriteSessionOutputCompletedWriteNext, Typed
<1>13. CASE WriteSessionOutputCompletedReadNext
  <2>1. sent' \in Seq(Nat)
    BY <1>13 DEF WriteSessionOutputCompletedReadNext, Typed
  <2> QED
    <3>1. pc' \in {"read", "idle"} /\ asked' \in Nat /\ cuts' \subseteq Nat
      <4>1. StartReadTempFile(file, filePos)
        BY <1>13 DEF WriteSessionOutputCompletedReadNext
      <4> QED
        BY <4>1, ReadStarted
    <3> QED
      BY <1>13, <2>1, <3>1 DEF WriteSessionOutputCompletedReadNext, Typed
<1>14. CASE CloseClient
  BY <1>14 DEF CloseClient, Typed
<1> QED
  BY <1>3, <1>4, <1>5, <1>6, <1>7, <1>8, <1>9, <1>10, <1>11, <1>12, <1>13, <1>14
  DEF Next, Scan

LEMMA PlaceStep ==
  ASSUME FilterInv, [Next]_vars
  PROVE  PlaceRule'
<1>1. Typed /\ PlaceRule /\ BufferRule
  BY DEF FilterInv
<1>2. Len(file) <= Len(file') /\ Len(file') \in Nat
  BY FileStep DEF Extends
<1>3. \A c \in cuts : c \in Nat
  BY <1>1 DEF Typed
<1> USE <1>1, <1>2, <1>3, Sizes DEF PlaceRule, Front
<1>4. CASE UNCHANGED vars
  BY <1>4 DEF vars
<1>5. CASE AppendToTempFile
  BY <1>5 DEF AppendToTempFile, StartReadTempFile
<1>6. CASE ReadClientInfoCompleted
  <2>1. Len(file') = Len(file) + 1
    BY <1>6 DEF ReadClientInfoCompleted, Typed
  <2> QED
    BY <1>6, <2>1 DEF ReadClientInfoCompleted, StartReadTempFile
<1>7. CASE ReadTempFileCompleted
  BY <1>7 DEF ReadTempFileCompleted
<1>8. CASE ScanBeginMark
  BY <1>8 DEF ScanBeginMark, AtMark, WriteAndGoOn
<1>9. CASE ScanText
  BY <1>9 DEF ScanText, BufferRule
<1>10. CASE ScanCommand
  BY <1>10 DEF ScanCommand
<1>11. CASE ScanEndMark
  BY <1>11 DEF ScanEndMark, WriteAndGoOn
<1>12. CASE ScanEnds
  BY <1>12 DEF ScanEnds, StartReadTempFile
<1>13. CASE WriteSessionOutputCompletedWriteNext
  BY <1>13 DEF WriteSessionOutputCompletedWriteNext
<1>14. CASE WriteSessionOutputCompletedReadNext
  BY <1>14 DEF WriteSessionOutputCompletedReadNext, StartReadTempFile
<1>15. CASE CloseClient
  BY <1>15 DEF CloseClient
<1> QED
  BY <1>4, <1>5, <1>6, <1>7, <1>8, <1>9, <1>10, <1>11, <1>12, <1>13, <1>14, <1>15
  DEF Next, Scan

LEMMA BufferStep ==
  ASSUME FilterInv, [Next]_vars
  PROVE  BufferRule'
<1>1. Typed /\ PlaceRule /\ BufferRule
  BY DEF FilterInv
<1>2. wbuf \in Seq(Nat) /\ cmd \in Seq(Nat) /\ out \in Seq(Nat) /\ Len(<<>>) = 0
  BY <1>1 DEF Typed
<1>3. wbuf = <<>> <=> Len(wbuf) = 0
  BY <1>2
<1> USE <1>1, <1>2, <1>3, Sizes DEF PlaceRule, BufferRule
<1>4. CASE UNCHANGED vars
  BY <1>4 DEF vars
<1>5. CASE AppendToTempFile
  <2>1. pc' = pc \/ (pc = "idle" /\ pc' \in {"read", "idle"})
    BY <1>5 DEF AppendToTempFile, StartReadTempFile
  <2> QED
    BY <1>5, <2>1 DEF AppendToTempFile
<1>6. CASE ReadClientInfoCompleted
  BY <1>6 DEF ReadClientInfoCompleted, StartReadTempFile
<1>7. CASE ReadTempFileCompleted
  BY <1>7 DEF ReadTempFileCompleted
<1>8. CASE ScanBeginMark
  BY <1>8 DEF ScanBeginMark, AtMark, WriteAndGoOn
<1>9. CASE ScanText
  <2>1. Len(wbuf) # BUFFSIZE
    BY <1>9 DEF ScanText
  <2>2. Here \in Nat
    BY <1>9 DEF Here, ScanText, Front
  <2>3. Len(wbuf') = Len(wbuf) + 1 /\ out = <<>>
    BY <1>9, <2>1, <2>2 DEF ScanText
  <2> QED
    BY <1>9, <2>1, <2>3 DEF ScanText
<1>10. CASE ScanCommand
  <2>1. Len(cmd') = Len(cmd) + 1 /\ out = <<>>
    BY <1>10 DEF ScanCommand
  <2> QED
    BY <1>10, <2>1 DEF ScanCommand
<1>11. CASE ScanEndMark
  BY <1>11 DEF ScanEndMark, WriteAndGoOn
<1>12. CASE ScanEnds
  BY <1>12 DEF ScanEnds, StartReadTempFile
<1>13. CASE WriteSessionOutputCompletedWriteNext
  BY <1>13 DEF WriteSessionOutputCompletedWriteNext
<1>14. CASE WriteSessionOutputCompletedReadNext
  BY <1>14 DEF WriteSessionOutputCompletedReadNext, StartReadTempFile
<1>15. CASE CloseClient
  BY <1>15 DEF CloseClient
<1> QED
  BY <1>4, <1>5, <1>6, <1>7, <1>8, <1>9, <1>10, <1>11, <1>12, <1>13, <1>14, <1>15
  DEF Next, Scan

(***************************************************************************)
(* The order of what is sent.                                              *)
(***************************************************************************)

\* A sequence of positions that are all in (low, high], in their order.
Run(s, low, high) == Increasing(s) /\ Within(s, low, high)

LEMMA EmptyRun ==
  ASSUME NEW low, NEW high, NEW t
  PROVE  Run(<<>>, low, high) /\ Before(t, <<>>) /\ Before(<<>>, t)
  BY DEF Run, Increasing, Within, Before

LEMMA RunExtended ==
  ASSUME NEW s \in Seq(Nat), NEW low \in Nat, NEW high \in Nat, low <= high,
         Run(s, low, high)
  PROVE  Run(Append(s, high + 1), low, high + 1) /\ Run(s, low, high + 1)
<1> DEFINE t == Append(s, high + 1)
<1>1. /\ DOMAIN t = DOMAIN s \cup {Len(s) + 1} /\ t[Len(s) + 1] = high + 1
      /\ \A i \in DOMAIN s : t[i] = s[i] /\ s[i] \in Nat /\ i \in 1 .. Len(s)
      /\ Len(s) \in Nat
  OBVIOUS
<1> HIDE DEF t
<1>2. \A i \in DOMAIN s : low < s[i] /\ s[i] <= high
  BY DEF Run, Within
<1>3. \A i, j \in DOMAIN s : i < j => s[i] < s[j]
  BY DEF Run, Increasing
<1>4. Increasing(t)
  BY <1>1, <1>2, <1>3 DEF Increasing
<1>5. Within(t, low, high + 1) /\ Within(s, low, high + 1)
  BY <1>1, <1>2 DEF Within
<1> QED
  BY <1>4, <1>5 DEF Run, t

LEMMA BeforeExtended ==
  ASSUME NEW s \in Seq(Nat), NEW t \in Seq(Nat), NEW low \in Nat, NEW high \in Nat,
         Run(s, low, high), Before(s, t)
  PROVE  Before(s, Append(t, high + 1))
<1>1. \A i \in DOMAIN s : s[i] \in Nat /\ s[i] <= high
  BY DEF Run, Within
<1>2. \A j \in DOMAIN Append(t, high + 1) :
        \/ j \in DOMAIN t /\ Append(t, high + 1)[j] = t[j]
        \/ Append(t, high + 1)[j] = high + 1
  OBVIOUS
<1>3. ASSUME NEW i \in DOMAIN s, NEW j \in DOMAIN Append(t, high + 1)
      PROVE  s[i] < Append(t, high + 1)[j]
  <2>1. CASE j \in DOMAIN t /\ Append(t, high + 1)[j] = t[j]
    BY <2>1 DEF Before
  <2>2. CASE Append(t, high + 1)[j] = high + 1
    <3>1. s[i] \in Nat /\ s[i] <= high
      BY <1>1
    <3> QED
      BY <2>2, <3>1
  <2> QED
    BY <1>2, <2>1, <2>2
<1> QED
  BY <1>3 DEF Before

LEMMA RunsJoined ==
  ASSUME NEW s \in Seq(Nat), NEW t \in Seq(Nat), NEW low \in Nat, NEW high \in Nat,
         Run(s, low, high), Run(t, low, high), Before(s, t)
  PROVE  Run(s \o t, low, high)
<1> DEFINE u == s \o t
<1>1. Len(s) \in Nat /\ Len(t) \in Nat /\ DOMAIN u = 1 .. (Len(s) + Len(t))
      /\ DOMAIN s = 1 .. Len(s) /\ DOMAIN t = 1 .. Len(t)
  OBVIOUS
<1>2. \A i \in 1 .. Len(s) : u[i] = s[i]
  OBVIOUS
<1>3. \A i \in (Len(s) + 1) .. (Len(s) + Len(t)) : u[i] = t[i - Len(s)]
  OBVIOUS
<1> DEFINE m == Len(s)
           n == Len(t)
<1> HIDE DEF u, m, n
<1>6. m \in Nat /\ n \in Nat /\ DOMAIN u = 1 .. (m + n) /\ DOMAIN s = 1 .. m /\ DOMAIN t = 1 .. n
  BY <1>1 DEF m, n
<1>7. \A i \in DOMAIN u : i <= m => i \in DOMAIN s /\ u[i] = s[i]
  BY <1>2, <1>6 DEF m, n
<1>8. \A i \in DOMAIN u : m < i => i - m \in DOMAIN t /\ u[i] = t[i - m]
  <2> TAKE i \in DOMAIN u
  <2> HAVE m < i
  <2>1. i \in (m + 1) .. (m + n) /\ i - m \in 1 .. n
    BY <1>6
  <2> QED
    BY <1>3, <1>6, <2>1 DEF m, n
<1>4. Within(u, low, high)
  BY <1>6, <1>7, <1>8 DEF Run, Within
<1>5. ASSUME NEW i \in DOMAIN u, NEW j \in DOMAIN u, i < j PROVE u[i] < u[j]
  <2>1. CASE j <= m
    <3>1. i \in DOMAIN s /\ j \in DOMAIN s /\ u[i] = s[i] /\ u[j] = s[j]
      BY <1>5, <1>6, <1>7, <2>1
    <3> QED
      BY <1>5, <3>1 DEF Run, Increasing
  <2>2. CASE i <= m /\ m < j
    <3>1. i \in DOMAIN s /\ j - m \in DOMAIN t /\ u[i] = s[i] /\ u[j] = t[j - m]
      BY <1>7, <1>8, <2>2
    <3> QED
      BY <3>1 DEF Before
  <2>3. CASE m < i
    <3>1. m < j /\ i - m < j - m
      BY <1>5, <1>6, <2>3
    <3>2. /\ i - m \in DOMAIN t /\ j - m \in DOMAIN t
          /\ u[i] = t[i - m] /\ u[j] = t[j - m]
      BY <1>8, <2>3, <3>1
    <3> QED
      BY <3>1, <3>2 DEF Run, Increasing
  <2> QED
    BY <1>5, <1>6, <2>1, <2>2, <2>3
<1> QED
  BY <1>4, <1>5 DEF Run, Increasing, u

LEMMA RunCut ==
  ASSUME NEW s \in Seq(Nat), NEW t \in Seq(Nat), NEW low, NEW high, NEW n \in 0 .. Len(t),
         Run(t, low, high), Before(s, t)
  PROVE  Run(SubSeq(t, 1, n), low, high) /\ Before(s, SubSeq(t, 1, n))
<1>1. DOMAIN SubSeq(t, 1, n) \subseteq DOMAIN t
      /\ \A i \in DOMAIN SubSeq(t, 1, n) : SubSeq(t, 1, n)[i] = t[i]
  OBVIOUS
<1> QED
  BY <1>1 DEF Run, Increasing, Within, Before

LEMMA OrderStep ==
  ASSUME FilterInv, [Next]_vars
  PROVE  OrderRule'
<1>1. Typed /\ PlaceRule /\ BufferRule /\ OrderRule
  BY DEF FilterInv
<1>2. /\ wbuf \in Seq(Nat) /\ cmd \in Seq(Nat) /\ out \in Seq(Nat) /\ sent \in Seq(Nat)
      /\ start \in Nat /\ Scanned \in Nat /\ start <= Scanned
      /\ filePos \in Nat /\ left \in Nat /\ pch \in Nat
  BY <1>1 DEF Typed, PlaceRule, Scanned, Front
<1>3. /\ Run(sent, start, Scanned) /\ Run(out, start, Scanned)
      /\ Run(wbuf, start, Scanned) /\ Run(cmd, start, Scanned)
      /\ Before(sent, out) /\ Before(sent, wbuf) /\ Before(sent, cmd)
  BY <1>1 DEF OrderRule, Run
<1>4. SUFFICES
        /\ Run(sent', start', Scanned') /\ Run(out', start', Scanned')
        /\ Run(wbuf', start', Scanned') /\ Run(cmd', start', Scanned')
        /\ Before(sent', out') /\ Before(sent', wbuf') /\ Before(sent', cmd')
  BY DEF OrderRule, Run
<1>5. CASE /\ UNCHANGED <<wbuf, cmd, out, sent, start>> /\ Scanned' = Scanned
  BY <1>3, <1>5 DEF Run, Increasing, Within, Before
<1>6. CASE UNCHANGED vars \/ AppendToTempFile \/ CloseClient
  BY <1>5, <1>6 DEF vars, AppendToTempFile, CloseClient, Scanned, Front
<1>8. CASE ReadTempFileCompleted
  <2>1. left = 0 /\ pch = 0 /\ left' = asked /\ pch' = 0 /\ filePos' = filePos + asked
        /\ asked \in Nat
    BY <1>1, <1>8 DEF ReadTempFileCompleted, PlaceRule, Typed
  <2>2. Scanned' = Scanned
    BY <1>2, <2>1 DEF Scanned, Front
  <2> QED
    BY <1>5, <1>8, <2>2 DEF ReadTempFileCompleted
<1>7. CASE ReadClientInfoCompleted
  <2>1. sent' = <<>> /\ out' = <<>> /\ wbuf' = <<>> /\ cmd' = <<>>
    <3>1. Len(wbuf) = 0
      BY <1>1, <1>2, <1>7 DEF ReadClientInfoCompleted, PlaceRule, BufferRule
    <3>2. wbuf = <<>>
      BY <1>2, <3>1
    <3> QED
      BY <1>1, <1>7, <3>2 DEF ReadClientInfoCompleted, PlaceRule, BufferRule
  <2> QED
    BY <2>1, EmptyRun DEF Run, Increasing, Within, Before
<1>9. CASE ScanBeginMark
  <2>1. CASE pch # 0 /\ wbuf # <<>>
    <3>1. /\ wbuf' = <<>> /\ out' = wbuf /\ UNCHANGED <<sent, cmd, start, filePos>>
          /\ left' = left - pch - 1 /\ pch' = 0
      BY <1>9, <2>1 DEF ScanBeginMark, WriteAndGoOn
    <3>2. Scanned' = Scanned + 1
      BY <1>2, <3>1 DEF Scanned, Front
    <3> QED
      BY <1>2, <1>3, <3>1, <3>2, RunExtended, EmptyRun
  <2>2. CASE ~(pch # 0 /\ wbuf # <<>>)
    <3>1. UNCHANGED <<wbuf, out, sent, cmd, start, filePos, left>> /\ pch' = pch + 1
      BY <1>9, <2>2 DEF ScanBeginMark
    <3>2. Scanned' = Scanned + 1
      BY <1>2, <3>1 DEF Scanned, Front
    <3> QED
      BY <1>2, <1>3, <3>1, <3>2, RunExtended
  <2> QED
    BY <2>1, <2>2
<1>10. CASE ScanText
  <2>1. Len(wbuf) # BUFFSIZE
    BY <1>1, <1>10, Sizes DEF ScanText, BufferRule, PlaceRule
  <2>2. /\ wbuf' = Append(wbuf, Here) /\ pch' = pch + 1
        /\ UNCHANGED <<out, sent, cmd, start, filePos, left>>
    BY <1>10, <2>1 DEF ScanText
  <2>3. Scanned' = Scanned + 1 /\ Here = Scanned + 1
    BY <1>2, <2>2 DEF Scanned, Front, Here
  <2> QED
    BY <1>2, <1>3, <2>2, <2>3, RunExtended, BeforeExtended
<1>11. CASE ScanCommand
  <2>1. /\ cmd' = Append(cmd, Here) /\ pch' = pch + 1
        /\ UNCHANGED <<out, sent, wbuf, start, filePos, left>>
    BY <1>11 DEF ScanCommand
  <2>2. Scanned' = Scanned + 1 /\ Here = Scanned + 1
    BY <1>2, <2>1 DEF Scanned, Front, Here
  <2> QED
    BY <1>2, <1>3, <2>1, <2>2, RunExtended, BeforeExtended
<1>12. CASE ScanEndMark
  <2>1. PICK n \in 0 .. Len(cmd) : out' \in {out, SubSeq(cmd, 1, n)}
    <3>1. Len(cmd) - Shorter(Len(cmd), IdLen) \in 0 .. Len(cmd)
      BY <1>1, Sizes DEF Shorter
    <3>2. cmd = SubSeq(cmd, 1, Len(cmd)) /\ Len(cmd) \in 0 .. Len(cmd)
      BY <1>2
    <3>3. out' \in {out, cmd, WithoutId}
      BY <1>12 DEF ScanEndMark, WriteAndGoOn
    <3> QED
      BY <3>1, <3>2, <3>3 DEF WithoutId
  <2>2. /\ cmd' = <<>> /\ UNCHANGED <<sent, wbuf, start, filePos>>
        /\ (left' = left /\ pch' = pch + 1) \/ (left' = left - pch - 1 /\ pch' = 0)
    BY <1>2, <1>12 DEF ScanEndMark, WriteAndGoOn
  <2>3. Scanned' = Scanned + 1
    BY <1>2, <2>2 DEF Scanned, Front
  <2>4. Run(SubSeq(cmd, 1, n), start, Scanned) /\ Before(sent, SubSeq(cmd, 1, n))
        /\ SubSeq(cmd, 1, n) \in Seq(Nat)
    BY <1>2, <1>3, RunCut
  <2>5. Run(out', start, Scanned) /\ Before(sent, out') /\ out' \in Seq(Nat)
    BY <1>2, <1>3, <2>1, <2>4
  <2> QED
    BY <1>2, <1>3, <2>2, <2>3, <2>5, RunExtended, EmptyRun
<1>13. CASE ScanEnds
  <2>1. /\ UNCHANGED <<sent, cmd, start, filePos>> /\ left' = 0 /\ pch' = 0 /\ pch = left
        /\ (UNCHANGED <<out, wbuf>> \/ (out' = wbuf /\ wbuf' = <<>>))
    BY <1>13 DEF ScanEnds
  <2>2. Scanned' = Scanned
    BY <1>2, <2>1 DEF Scanned, Front
  <2> QED
    BY <1>3, <2>1, <2>2, EmptyRun
<1>14. CASE WriteSessionOutputCompletedWriteNext \/ WriteSessionOutputCompletedReadNext
  <2>1. sent' = sent \o out /\ out' = <<>> /\ UNCHANGED <<wbuf, cmd, start, filePos, left, pch>>
    BY <1>14 DEF WriteSessionOutputCompletedWriteNext, WriteSessionOutputCompletedReadNext
  <2>2. Scanned' = Scanned
    BY <2>1 DEF Scanned, Front
  <2>3. Run(sent', start, Scanned)
    BY <1>2, <1>3, <2>1, RunsJoined
  <2>4. out # <<>> => wbuf = <<>> /\ cmd = <<>>
    BY <1>1 DEF BufferRule
  <2>5. out = <<>> => sent' = sent
    BY <1>2, <2>1
  <2> QED
    BY <1>3, <2>1, <2>2, <2>3, <2>4, <2>5, EmptyRun
<1> QED
  BY <1>6, <1>7, <1>8, <1>9, <1>10, <1>11, <1>12, <1>13, <1>14 DEF Next, Scan

(***************************************************************************)
(* Commands, while marks are only where CMDSTRING put them.                *)
(***************************************************************************)

LEMMA UnmarkedBefore ==
  ASSUME FilterInv, [Next]_vars, Unmarked'
  PROVE  Unmarked
<1>1. Extends(file', file) /\ Len(file) \in Nat /\ Len(file') \in Nat
  BY FileStep, Sizes DEF FilterInv
<1>2. \A p \in Positions : p \in Positions' /\ file'[p] = file[p]
  BY <1>1 DEF Extends, Positions
<1> QED
  BY <1>2 DEF Unmarked

LEMMA ByteAt ==
  ASSUME Typed, FileRule, NEW p \in Positions
  PROVE  CommandRule(file, p) /\ file[p].b \in Nat /\ file[p].e \in Nat
<1>1. p \in 1 .. Len(file) /\ file \in Seq(Byte)
  BY DEF Positions, Typed
<1>2. file[p] \in Byte
  BY <1>1
<1> QED
  BY <1>1, <1>2 DEF FileRule, WellFormed, Byte

\* What the scan can tell of the next byte.
LEMMA NextByte ==
  ASSUME Typed, FileRule, PlaceRule, Unmarked, pch < left
  PROVE  /\ Here = Scanned + 1 /\ Here \in Positions /\ start < Here
         /\ file[Here].b = Here => Here + IdLen < file[Here].e /\ file[Here].k = "begin"
         /\ file[Here].k = "begin" => file[Here].b = Here
         /\ file[Here].k = "end" => file[Here].b # 0 /\ file[Here].e = Here
         /\ file[Here].b # 0 /\ file[Here].e = Here => file[Here].k = "end"
         /\ file[Here].b # 0 /\ file[Here].b # Here =>
              /\ Scanned \in Positions /\ file[Here].b <= Scanned /\ Here <= file[Here].e
              /\ file[Scanned].b = file[Here].b /\ file[Scanned].e = file[Here].e
<1>1. /\ filePos \in Nat /\ left \in Nat /\ pch \in Nat /\ start \in Nat /\ Len(file) \in Nat
      /\ IdLen \in Nat /\ IdLen > 0 /\ start <= filePos - left /\ filePos <= Len(file)
  BY Sizes DEF PlaceRule, Front
<1>2. Here = Scanned + 1 /\ Here \in Positions /\ start < Here /\ Here \in Nat /\ Scanned \in Nat
  BY <1>1 DEF Here, Scanned, Front, Positions
<1> DEFINE b == file[Here].b
           e == file[Here].e
<1>3. CommandRule(file, Here) /\ b \in Nat /\ e \in Nat
  BY <1>2, ByteAt
<1>4. b = 0 => file[Here].k = "text"
  BY <1>2 DEF Unmarked
<1>5. b # 0 => /\ b <= Here /\ Here <= e /\ e <= Len(file) /\ b + IdLen < e
               /\ Here = b => file[Here].k = "begin"
               /\ Here = e => file[Here].k = "end"
               /\ b < Here /\ Here < e - IdLen => file[Here].k = "body"
               /\ e - IdLen <= Here /\ Here < e => file[Here].k \in {"mine", "theirs"}
  BY <1>3 DEF CommandRule
<1>6. b # 0 => \A q \in b .. e : file[q].b = b /\ file[q].e = e
  BY <1>3 DEF CommandRule
<1>7. b # 0 /\ b # Here => Scanned \in b .. e /\ Scanned \in Positions
  BY <1>1, <1>2, <1>3, <1>5 DEF Positions
<1>8. b # 0 => Here = b \/ Here = e \/ (b < Here /\ Here < e - IdLen)
               \/ (e - IdLen <= Here /\ Here < e)
  BY <1>1, <1>2, <1>3, <1>5
<1> QED
  BY <1>1, <1>2, <1>3, <1>4, <1>5, <1>6, <1>7, <1>8

\* While a command is read its bytes are in CommandBuffer, and the next is its too.
LEMMA NextOfCommand ==
  ASSUME Typed, FileRule, PlaceRule, Unmarked, pch < left, reading, CommandBufferRule
  PROVE  /\ file[Here].b = Done /\ file[Here].e = file[Done].e
         /\ Here = Done + Len(cmd) + 1 /\ Here <= file[Done].e
<1>1. /\ Scanned \in Nat /\ Len(cmd) \in Nat /\ Done \in Positions /\ Done = Scanned - Len(cmd)
      /\ Here = Scanned + 1
  BY NextByte, Sizes DEF CommandBufferRule, Done, Positions, PlaceRule, Scanned, Front
<1>2. CommandRule(file, Done) /\ file[Done].b = Done /\ file[Done].e \in Nat /\ Done # 0
      /\ Scanned < file[Done].e
  BY <1>1, ByteAt DEF CommandBufferRule, Positions
<1>3. \A q \in Done .. file[Done].e : file[q].b = Done /\ file[q].e = file[Done].e
  BY <1>2 DEF CommandRule
<1>4. Here \in Done .. file[Done].e
  BY <1>1, <1>2 DEF Positions
<1> QED
  BY <1>1, <1>3, <1>4

LEMMA CommandBufferStep ==
  ASSUME FilterInv, [Next]_vars, Unmarked'
  PROVE  CommandBufferRule' /\ TextRule'
<1>1. /\ Typed /\ FileRule /\ PlaceRule /\ BufferRule /\ Unmarked
      /\ CommandBufferRule /\ TextRule
  BY UnmarkedBefore DEF FilterInv
<1>2. /\ Extends(file', file)
      /\ \A q \in Positions : q \in Positions' /\ file'[q] = file[q]
  BY <1>1, FileStep, Sizes DEF Extends, Positions
<1>3. /\ filePos \in Nat /\ left \in Nat /\ pch \in Nat /\ start \in Nat /\ asked \in Nat
      /\ Len(cmd) \in Nat /\ Len(file) \in Nat /\ Scanned \in Nat /\ cmd \in Seq(Nat)
      /\ Front \in Nat /\ Scanned = Front + pch
      /\ start <= Scanned /\ filePos <= Len(file) /\ Scanned <= Len(file)
  BY <1>1, Sizes DEF PlaceRule, Scanned, Front, Typed
<1>4. CASE /\ UNCHANGED <<reading, cmd, start>> /\ Front' = Front /\ Scanned' = Scanned
           /\ cuts \subseteq cuts'
  <2>1. Done' = Done
    BY <1>4 DEF Done
  <2>2. CommandBufferRule'
    BY <1>1, <1>2, <1>4, <2>1 DEF CommandBufferRule
  <2>3. Scanned > start => Scanned \in Positions
    BY <1>3 DEF Positions
  <2>4. TextRule'
    BY <1>1, <1>2, <1>4, <2>3 DEF TextRule
  <2> QED
    BY <2>2, <2>4
<1>5. CASE UNCHANGED vars \/ CloseClient \/ WriteSessionOutputCompletedWriteNext
  BY <1>4, <1>5 DEF vars, CloseClient, WriteSessionOutputCompletedWriteNext, Front, Scanned
<1>6. CASE AppendToTempFile
  <2>1. UNCHANGED <<reading, cmd, start, filePos, left, pch>> /\ cuts \subseteq cuts'
    BY <1>6 DEF AppendToTempFile, StartReadTempFile
  <2> QED
    BY <1>4, <2>1 DEF Front, Scanned
<1>7. CASE ReadClientInfoCompleted
  <2>1. ~reading' /\ Scanned' = start'
    BY <1>1, <1>3, <1>7 DEF ReadClientInfoCompleted, PlaceRule, Scanned, Front
  <2>2. start' \in Nat
    BY <1>3, <1>7 DEF ReadClientInfoCompleted
  <2> QED
    BY <2>1, <2>2 DEF CommandBufferRule, TextRule
<1>8. CASE ReadTempFileCompleted
  <2>1. /\ filePos' = filePos + asked /\ left' = asked /\ pch' = 0 /\ left = 0 /\ pch = 0
        /\ UNCHANGED <<reading, cmd, start, cuts>>
    BY <1>1, <1>8 DEF ReadTempFileCompleted, PlaceRule
  <2>2. Front' = Front /\ Scanned' = Scanned
    BY <1>3, <2>1 DEF Front, Scanned
  <2> QED
    BY <1>4, <2>1, <2>2
<1>9. CASE WriteSessionOutputCompletedReadNext
  <2>1. UNCHANGED <<reading, cmd, start, filePos, left, pch>> /\ cuts \subseteq cuts'
    BY <1>9 DEF WriteSessionOutputCompletedReadNext, StartReadTempFile
  <2> QED
    BY <1>4, <2>1 DEF Front, Scanned
<1>10. CASE ScanBeginMark
  <2>1. /\ pch < left /\ file[Here].k = "begin" /\ ~reading /\ reading'
        /\ UNCHANGED <<file, cmd, start, cuts, filePos>>
        /\ \/ left' = left - pch - 1 /\ pch' = 0
           \/ left' = left /\ pch' = pch + 1
    BY <1>10 DEF ScanBeginMark, AtMark, WriteAndGoOn
  <2>2. /\ Here = Scanned + 1 /\ Here \in Positions /\ start < Here /\ file[Here].b = Here
        /\ Here + IdLen < file[Here].e /\ file[Here].e \in Nat /\ IdLen \in Nat
    BY <1>1, <2>1, NextByte, ByteAt, Sizes
  <2>3. Scanned' = Scanned + 1 /\ Front' <= Scanned'
    BY <1>3, <2>1 DEF Scanned, Front
  <2>4. cmd = <<>> /\ Len(cmd') = 0 /\ DOMAIN cmd' = {}
    BY <1>1, <2>1 DEF BufferRule
  <2>5. Done' = Here
    BY <2>2, <2>3, <2>4, <1>3 DEF Done
  <2>6. Scanned' < file[Here].e
    BY <1>3, <2>2, <2>3
  <2>7. CommandBufferRule'
    BY <2>1, <2>2, <2>3, <2>4, <2>5, <2>6 DEF CommandBufferRule, Positions
  <2> QED
    BY <2>1, <2>7 DEF TextRule
<1>11. CASE ScanText
  <2>1. Len(wbuf) # BUFFSIZE
    BY <1>1, <1>11, Sizes DEF ScanText, BufferRule, PlaceRule
  <2>2. /\ pch < left /\ file[Here].k # "begin" /\ ~reading /\ ~reading'
        /\ UNCHANGED <<file, start, left, filePos>> /\ pch' = pch + 1
    BY <1>11, <2>1 DEF ScanText, AtMark
  <2>3. Scanned' = Here /\ Here = Scanned + 1
    BY <1>1, <1>3, <2>2, NextByte DEF Scanned, Front
  <2>4. ASSUME file[Here].b # 0, Here < file[Here].e
        PROVE  file[Here].b <= start \/ Here > file[Here].b + BUFFSIZE
    <3>1. /\ Scanned \in Positions /\ file[Here].b <= Scanned
          /\ file[Scanned].b = file[Here].b /\ file[Scanned].e = file[Here].e
          /\ file[Here].b \in Nat /\ file[Here].e \in Nat /\ BUFFSIZE \in Nat
      BY <1>1, <2>2, <2>4, NextByte, ByteAt, Sizes
    <3>2. CASE Scanned = start
      BY <3>1, <3>2
    <3>3. CASE Scanned > start
      <4>1. file[Scanned].b <= start \/ Scanned > file[Scanned].b + BUFFSIZE
        BY <1>1, <1>3, <2>2, <2>3, <2>4, <3>1, <3>3 DEF TextRule
      <4> QED
        BY <1>3, <2>3, <3>1, <4>1
    <3> QED
      BY <1>3, <3>2, <3>3
  <2> QED
    BY <2>2, <2>3, <2>4 DEF TextRule, CommandBufferRule
<1>12. CASE ScanCommand
  <2>1. /\ pch < left /\ file[Here].k # "end" /\ reading /\ reading'
        /\ cmd' = Append(cmd, Here) /\ pch' = pch + 1
        /\ UNCHANGED <<file, start, left, filePos, cuts>>
    BY <1>12 DEF ScanCommand, AtMark
  <2>2. /\ file[Here].b = Done /\ file[Here].e = file[Done].e
        /\ Here = Done + Len(cmd) + 1 /\ Here <= file[Done].e
    BY <1>1, <2>1, NextOfCommand
  <2>3. /\ Here \in Nat /\ Here = Scanned + 1 /\ Here \in Positions
        /\ (file[Here].b # 0 /\ file[Here].e = Here => file[Here].k = "end")
    BY <1>1, <1>3, <2>1, NextByte
  <2>4. Done \in Positions /\ start < Done /\ file[Done].b = Done /\ file[Done].e \in Nat
    BY <1>1, <2>1, ByteAt DEF CommandBufferRule
  <2>5. Here < file[Done].e
    BY <2>1, <2>2, <2>3, <2>4 DEF Positions
  <2>6. Scanned' = Here /\ Front' = Front
    BY <1>3, <2>1, <2>3 DEF Scanned, Front
  <2>7. /\ Len(cmd') = Len(cmd) + 1 /\ Here \in Nat
        /\ DOMAIN cmd' = DOMAIN cmd \cup {Len(cmd) + 1}
        /\ cmd'[Len(cmd) + 1] = Here /\ \A i \in DOMAIN cmd : cmd'[i] = cmd[i]
    BY <1>3, <2>1, <2>3
  <2>8. Done' = Done
    BY <1>3, <2>2, <2>3, <2>4, <2>6, <2>7 DEF Done, Positions
  <2>9. \A i \in DOMAIN cmd' : cmd'[i] = Done + i
    <3>1. \A i \in DOMAIN cmd : cmd[i] = Done + i
      BY <1>1, <2>1 DEF CommandBufferRule
    <3>2. cmd'[Len(cmd) + 1] = Done + (Len(cmd) + 1)
      BY <1>3, <2>2, <2>4, <2>7 DEF Positions
    <3> QED
      BY <2>7, <3>1, <3>2
  <2>10. CommandBufferRule'
    BY <1>1, <2>1, <2>4, <2>5, <2>6, <2>8, <2>9 DEF CommandBufferRule, Positions
  <2> QED
    BY <2>1, <2>10 DEF TextRule
<1>13. CASE ScanEndMark
  <2>1. /\ pch < left /\ reading /\ ~reading' /\ UNCHANGED <<file, start, filePos>>
        /\ file[Here].k = "end" \/ Len(cmd) = BUFFSIZE
        /\ \/ left' = left - pch - 1 /\ pch' = 0
           \/ left' = left /\ pch' = pch + 1
    BY <1>13 DEF ScanEndMark, AtMark, WriteAndGoOn
  <2>2. /\ file[Here].b = Done /\ file[Here].e = file[Done].e
        /\ Here = Done + Len(cmd) + 1 /\ Here <= file[Done].e
    BY <1>1, <2>1, NextOfCommand
  <2>3. /\ Here \in Nat /\ Here = Scanned + 1
        /\ (file[Here].k = "end" => file[Here].e = Here)
    BY <1>1, <1>3, <2>1, NextByte
  <2>4. Done \in Nat
    BY <1>1, <2>1 DEF CommandBufferRule, Positions
  <2>5. Scanned' = Here
    BY <1>3, <2>1, <2>3 DEF Scanned, Front
  <2>6. Here < file[Here].e => Here > file[Here].b + BUFFSIZE
    BY <1>3, <2>1, <2>2, <2>3, <2>4
  <2> QED
    BY <2>1, <2>5, <2>6 DEF TextRule, CommandBufferRule
<1>14. CASE ScanEnds
  <2>1. /\ UNCHANGED <<file, reading, cmd, start, filePos>> /\ left' = 0 /\ pch' = 0
        /\ pch = left /\ cuts \subseteq cuts'
    BY <1>14 DEF ScanEnds, StartReadTempFile
  <2>2. Scanned' = Scanned /\ Front' = filePos /\ Scanned = filePos /\ Done' = Done
    BY <1>3, <2>1 DEF Scanned, Front, Done
  <2>3. TextRule'
    BY <1>1, <2>1, <2>2 DEF TextRule
  <2>4. CASE ~reading
    BY <2>1, <2>3, <2>4 DEF CommandBufferRule
  <2>5. CASE reading
    <3>1. Done \in Positions /\ Scanned < file[Done].e /\ file[Done].e <= Len(file)
          /\ file[Done].b = Done /\ file[Done].e \in Nat
      <4>1. Done \in Positions /\ Scanned < file[Done].e /\ file[Done].b = Done
        BY <1>1, <2>5 DEF CommandBufferRule
      <4>2. CommandRule(file, Done) /\ file[Done].e \in Nat /\ Done # 0
        BY <1>1, <4>1, ByteAt DEF Positions
      <4> QED
        BY <4>1, <4>2 DEF CommandRule
    <3>2. filePos < Len(file)
      BY <1>3, <2>2, <3>1
    <3>3. wbuf = <<>> /\ StartReadTempFile(file, filePos)
      BY <1>1, <1>14, <2>5 DEF BufferRule, ScanEnds
    <3>4. cuts' = cuts \cup {filePos}
      BY <1>3, <3>2, <3>3 DEF StartReadTempFile
    <3>5. CommandBufferRule'
      BY <1>1, <2>1, <2>2, <2>5, <3>4 DEF CommandBufferRule, Positions
    <3> QED
      BY <2>3, <3>5
  <2> QED
    BY <2>4, <2>5
<1> QED
  BY <1>5, <1>6, <1>7, <1>8, <1>9, <1>10, <1>11, <1>12, <1>13, <1>14 DEF Next, Scan

(***************************************************************************)
(* What the client is sent.                                                *)
(***************************************************************************)

LEMMA BytesOf ==
  ASSUME NEW s \in Seq(Nat), NEW t \in Seq(Nat), NEW n \in Nat
  PROVE  /\ Bytes(<<>>) = {} /\ Bytes(Append(s, n)) = Bytes(s) \cup {n}
         /\ Bytes(s \o t) = Bytes(s) \cup Bytes(t)
<1>1. Bytes(<<>>) = {}
  BY DEF Bytes
<1>2. /\ DOMAIN Append(s, n) = DOMAIN s \cup {Len(s) + 1} /\ Append(s, n)[Len(s) + 1] = n
      /\ \A i \in DOMAIN s : Append(s, n)[i] = s[i]
  OBVIOUS
<1>3. Bytes(Append(s, n)) = Bytes(s) \cup {n}
  BY <1>2 DEF Bytes
<1> DEFINE u == s \o t
           m == Len(s)
<1>4. m \in Nat /\ Len(t) \in Nat /\ DOMAIN u = 1 .. (m + Len(t))
      /\ DOMAIN s = 1 .. m /\ DOMAIN t = 1 .. Len(t)
  OBVIOUS
<1>5. \A i \in DOMAIN s : u[i] = s[i]
  OBVIOUS
<1>6. \A i \in (m + 1) .. (m + Len(t)) : u[i] = t[i - m]
  OBVIOUS
<1> HIDE DEF u, m
<1>7. ASSUME NEW i \in DOMAIN u PROVE u[i] \in Bytes(s) \cup Bytes(t)
  <2>1. CASE i <= m
    BY <1>4, <1>5, <2>1 DEF Bytes
  <2>2. CASE m < i
    <3>1. i \in (m + 1) .. (m + Len(t)) /\ i - m \in DOMAIN t
      BY <1>4, <2>2
    <3> QED
      BY <1>6, <3>1 DEF Bytes
  <2> QED
    BY <1>4, <2>1, <2>2
<1>8. Bytes(s) \subseteq Bytes(u)
  BY <1>4, <1>5 DEF Bytes
<1>9. ASSUME NEW i \in DOMAIN t PROVE t[i] \in Bytes(u)
  <2>1. m + i \in (m + 1) .. (m + Len(t)) /\ m + i \in DOMAIN u /\ (m + i) - m = i
    BY <1>4
  <2>2. u[m + i] = t[i]
    BY <1>6, <2>1
  <2> QED
    BY <2>1, <2>2 DEF Bytes
<1>10. Bytes(u) = Bytes(s) \cup Bytes(t)
  BY <1>7, <1>8, <1>9 DEF Bytes
<1> QED
  BY <1>1, <1>3, <1>10 DEF u

\* Where the bytes are of a command of which the scan has passed one.
LEMMA SameCommand ==
  ASSUME Typed, FileRule, NEW p \in Positions, NEW q \in Positions, p <= q,
         file[p].b # 0, q <= file[p].e
  PROVE  file[q].b = file[p].b /\ file[q].e = file[p].e
<1>1. CommandRule(file, p) /\ file[p].b \in Nat /\ file[p].e \in Nat
  BY ByteAt
<1>2. q \in file[p].b .. file[p].e
  BY <1>1 DEF CommandRule, Positions
<1> QED
  BY <1>1, <1>2 DEF CommandRule

\* The bytes whose fate is decided keep it, as the file grows and is cut where the scan is.
LEMMA VisibleKept ==
  ASSUME FilterInv, Unmarked, Extends(file', file), start' = start,
         cuts' = cuts \/ (cuts' = cuts \cup {filePos} /\ Scanned = filePos),
         NEW p \in (start + 1) .. Done
  PROVE  Visible(p)' <=> Visible(p)
<1>1. /\ Typed /\ FileRule /\ PlaceRule /\ BufferRule /\ CommandBufferRule /\ TextRule
  BY DEF FilterInv
<1>2. /\ start \in Nat /\ Scanned \in Nat /\ Len(cmd) \in Nat /\ Done = Scanned - Len(cmd)
      /\ Scanned <= filePos /\ filePos <= Len(file) /\ filePos \in Nat /\ Len(file) \in Nat
      /\ IdLen \in Nat /\ IdLen > 0 /\ BUFFSIZE \in Nat /\ left \in Nat /\ pch \in Nat
  BY <1>1, Sizes DEF PlaceRule, Scanned, Front, Done
<1>3. p \in Positions /\ p \in Nat /\ p <= Scanned
  BY <1>2 DEF Positions
<1>4. CommandRule(file, p) /\ file[p].b \in Nat /\ file[p].e \in Nat
  BY <1>1, <1>3, ByteAt
<1>5. file'[p] = file[p]
  BY <1>3 DEF Extends, Positions
<1>6. CASE file[p].b = 0
  BY <1>5, <1>6 DEF Visible
<1>7. CASE file[p].b # 0
  <2>1. /\ file[p].b <= p /\ p <= file[p].e /\ file[p].e <= Len(file)
        /\ file[p].b + IdLen < file[p].e
        /\ \A q \in file[p].b .. file[p].e : file[q].b = file[p].b /\ file[q].e = file[p].e
        /\ p = file[p].b => file[p].k = "begin"
    BY <1>4, <1>7 DEF CommandRule
  <2>2. file[p].e - 1 \in Positions
    BY <1>2, <1>4, <2>1 DEF Positions
  <2>3. file'[file[p].e - 1] = file[file[p].e - 1]
    BY <2>2 DEF Extends, Positions
  <2>4. /\ Mine(p)' <=> Mine(p)
        /\ Fits(p)' <=> Fits(p)
        /\ ReadWhole(p)' <=> ReadWhole(p)
    BY <1>5, <2>3 DEF Mine, Fits, ReadWhole
  <2>5. ASSUME ReadWhole(p), Fits(p), file[p].k = "body" PROVE file[p].e <= Scanned
    <3>1. SUFFICES ASSUME Scanned < file[p].e PROVE FALSE
      BY <1>2, <1>4
    <3>2. CASE reading
      <4>1. Done \in Positions /\ file[Done].b = Done
        BY <1>1, <3>2 DEF CommandBufferRule
      <4>2. p <= Done /\ Done <= file[p].e
        BY <1>2, <1>4, <3>1
      <4>3. file[Done].b = file[p].b
        BY <1>1, <1>3, <1>7, <4>1, <4>2, SameCommand
      <4>4. p = file[p].b
        BY <1>2, <1>3, <1>4, <2>1, <4>1, <4>2, <4>3 DEF Positions
      <4> QED
        BY <2>1, <2>5, <4>4
    <3>3. CASE ~reading
      <4>1. Scanned \in Positions /\ Scanned > start
        BY <1>2, <1>3 DEF Positions
      <4>2. file[Scanned].b = file[p].b /\ file[Scanned].e = file[p].e
        BY <1>1, <1>2, <1>3, <1>4, <1>7, <3>1, <4>1, SameCommand
      <4>3. Scanned > file[p].b + BUFFSIZE
        BY <1>1, <1>2, <1>4, <1>7, <2>5, <3>1, <3>3, <4>1, <4>2 DEF TextRule, ReadWhole
      <4> QED
        BY <1>2, <1>4, <2>5, <3>1, <4>3 DEF Fits
    <3> QED
      BY <3>2, <3>3
  <2>6. ASSUME ReadWhole(p), Fits(p), file[p].k = "body"
        PROVE  IdInOneRead(p)' <=> IdInOneRead(p)
    BY <1>2, <1>4, <1>5, <2>5, <2>6 DEF IdInOneRead
  <2> QED
    BY <1>5, <2>4, <2>6 DEF Visible
<1> QED
  BY <1>6, <1>7

\* A line that typed this client is recognised when one read returned it from its id on.
LEMMA IdRecognised ==
  ASSUME FilterInv, Unmarked, pch < left, reading, file[Here].k = "end",
         NEW p \in (Done + 1) .. Here
  PROVE  IdMatches <=> Mine(p) /\ IdInOneRead(p)
<1>1. /\ Typed /\ FileRule /\ PlaceRule /\ CommandBufferRule
  BY DEF FilterInv
<1>2. /\ file[Here].b = Done /\ file[Here].e = Here /\ file[Done].e = Here
      /\ Here = Scanned + 1 /\ Here \in Positions
  BY <1>1, NextByte, NextOfCommand
<1>3. /\ Done \in Nat /\ Done # 0 /\ Here \in Nat /\ IdLen \in Nat /\ IdLen > 0
      /\ Front \in Nat /\ pch \in Nat /\ Scanned = Front + pch /\ Done <= Scanned
      /\ cuts \subseteq Nat /\ Done \in Positions /\ p \in Nat /\ p \in Positions
      /\ Len(file) \in Nat
  <2>1. /\ IdLen \in Nat /\ IdLen > 0 /\ pch \in Nat /\ filePos \in Nat /\ left \in Nat
        /\ Len(file) \in Nat /\ Len(cmd) \in Nat /\ cuts \subseteq Nat
        /\ left <= filePos
    BY <1>1, Sizes DEF PlaceRule, Front, Typed
  <2>2. Front \in Nat /\ Scanned = Front + pch /\ Scanned \in Nat /\ Here \in Nat
    BY <1>2, <2>1 DEF Front, Scanned
  <2>3. Done \in Positions /\ Done = Scanned - Len(cmd)
    BY <1>1 DEF CommandBufferRule, Done
  <2>4. Done \in Nat /\ Done # 0 /\ Done <= Scanned
    BY <2>1, <2>2, <2>3 DEF Positions
  <2>5. p \in Nat /\ p \in Positions
    BY <1>2, <2>1, <2>2, <2>4 DEF Positions
  <2> QED
    BY <2>1, <2>2, <2>3, <2>4, <2>5
<1>4. /\ Done + IdLen < Here
      /\ \A q \in Done .. Here : file[q].b = Done /\ file[q].e = Here
  <2>1. CommandRule(file, Here)
    BY <1>1, <1>2, ByteAt
  <2> QED
    BY <1>2, <1>3, <2>1 DEF CommandRule
<1>5. file[p].b = Done /\ file[p].e = Here
  BY <1>3, <1>4
<1>6. (\A i \in 1 .. IdLen : file[Here - i].k = "mine") <=> Mine(p)
  <2>1. \A i \in 1 .. IdLen : file[Here - i].k = file[Here - 1].k
    <3> TAKE i \in 1 .. IdLen
    <3>0. i \in Nat /\ 1 <= i /\ i <= IdLen
      BY <1>3
    <3>1. Here - i \in Done .. Here /\ Here - i \in Positions
      <4>1. Done <= Here - i /\ Here - i <= Here /\ Here - i \in Nat /\ 0 < Here - i
        BY <1>3, <1>4, <3>0
      <4>2. Here <= Len(file)
        BY <1>2 DEF Positions
      <4> QED
        BY <1>3, <4>1, <4>2 DEF Positions
    <3>2. CommandRule(file, Here - i)
      BY <1>1, <3>1, ByteAt
    <3>3. file[Here - i].b = Done /\ file[Here - i].e = Here
      BY <1>4, <3>1
    <3>4. Here - IdLen <= Here - i /\ Here - i < Here
      BY <1>3
    <3> QED
      BY <1>3, <3>2, <3>3, <3>4 DEF CommandRule
  <2>2. 1 \in 1 .. IdLen
    BY <1>3
  <2> QED
    BY <1>5, <2>1, <2>2 DEF Mine
<1>7. pch >= IdLen <=> IdInOneRead(p)
  <2>1. pch >= IdLen <=> Front < Here - IdLen
    BY <1>2, <1>3
  <2>2. ASSUME Front < Here - IdLen, NEW c \in cuts PROVE c < Here - IdLen
    BY <1>1, <1>3, <2>2 DEF PlaceRule
  <2>3. ASSUME \A c \in cuts : ~(Here - IdLen <= c /\ c < Here) PROVE Front < Here - IdLen
    <3>1. Front < Here
      BY <1>2, <1>3
    <3>2. Front \in cuts \/ Front <= Done
      BY <1>1 DEF CommandBufferRule
    <3> QED
      BY <1>3, <1>4, <2>3, <3>1, <3>2
  <2>4. IdInOneRead(p) <=> \A c \in cuts : ~(Here - IdLen <= c /\ c < Here)
    BY <1>5 DEF IdInOneRead
  <2>5. Front < Here - IdLen => \A c \in cuts : ~(Here - IdLen <= c /\ c < Here)
    BY <1>3, <2>2
  <2> QED
    BY <2>1, <2>3, <2>4, <2>5
<1> QED
  BY <1>6, <1>7 DEF IdMatches

\* Of a command whose end the scan has come to the client is sent what it should see.
LEMMA CommandSent ==
  ASSUME FilterInv, Unmarked, ScanEndMark
  PROVE  Bytes(out') = {p \in (Done + 1) .. Here : Visible(p)}
<1>1. /\ Typed /\ FileRule /\ PlaceRule /\ BufferRule /\ CommandBufferRule
  BY DEF FilterInv
<1>2. /\ pch < left /\ reading /\ pc = "scan"
      /\ AtMark("end") \/ Len(cmd) = BUFFSIZE
  BY DEF ScanEndMark
<1>3. /\ file[Here].b = Done /\ file[Here].e = file[Done].e
      /\ Here = Done + Len(cmd) + 1 /\ Here <= file[Done].e
      /\ (AtMark("end") <=> Here = file[Done].e)
      /\ Here \in Positions /\ Done \in Positions /\ start < Done
  <2>1. /\ file[Here].b = Done /\ file[Here].e = file[Done].e
        /\ Here = Done + Len(cmd) + 1 /\ Here <= file[Done].e
    BY <1>1, <1>2, NextOfCommand
  <2>2. Done \in Positions /\ start < Done /\ Done # 0
    BY <1>1, <1>2 DEF CommandBufferRule, Positions
  <2>3. /\ Here \in Positions
        /\ (file[Here].k = "end" => file[Here].b # 0 /\ file[Here].e = Here)
        /\ (file[Here].b # 0 /\ file[Here].e = Here => file[Here].k = "end")
    BY <1>1, <1>2, NextByte
  <2>4. AtMark("end") <=> Here = file[Done].e
    BY <1>2, <2>1, <2>2, <2>3 DEF AtMark
  <2> QED
    BY <2>1, <2>2, <2>3, <2>4
<1>4. /\ Done \in Nat /\ Done # 0 /\ Here \in Nat /\ IdLen \in Nat /\ IdLen > 0
      /\ BUFFSIZE \in Nat /\ BUFFSIZE > 0 /\ Len(cmd) \in Nat /\ cmd \in Seq(Nat)
      /\ start \in Nat /\ file[Done].e \in Nat /\ Len(cmd) <= BUFFSIZE /\ Len(file) \in Nat
  <2>1. file[Done].e \in Nat
    BY <1>1, <1>3, ByteAt
  <2>2. /\ IdLen \in Nat /\ IdLen > 0 /\ BUFFSIZE \in Nat /\ BUFFSIZE > 0 /\ Len(cmd) \in Nat
        /\ start \in Nat /\ Len(file) \in Nat
    BY <1>1, Sizes
  <2>3. cmd \in Seq(Nat) /\ Len(cmd) <= BUFFSIZE
    BY <1>1 DEF Typed, BufferRule
  <2>4. Done \in Nat /\ Done # 0 /\ Here \in Nat
    BY <1>3, <2>2 DEF Positions
  <2> QED
    BY <2>1, <2>2, <2>3, <2>4
<1> DEFINE E == file[Done].e
<1>5. /\ Done + IdLen < E
      /\ \A q \in Done .. E : file[q].b = Done /\ file[q].e = E
  <2>1. CommandRule(file, Done) /\ file[Done].b = Done
    BY <1>1, <1>2, <1>3, ByteAt DEF CommandBufferRule
  <2> QED
    BY <1>4, <2>1 DEF CommandRule
<1>6. out = <<>>
  BY <1>1, <1>2 DEF BufferRule
<1>7. \A n \in 0 .. Len(cmd) : Bytes(SubSeq(cmd, 1, n)) = (Done + 1) .. (Done + n)
  <2> TAKE n \in 0 .. Len(cmd)
  <2>1. DOMAIN SubSeq(cmd, 1, n) = 1 .. n
        /\ \A i \in 1 .. n : SubSeq(cmd, 1, n)[i] = cmd[i] /\ i \in DOMAIN cmd
    BY <1>4
  <2>2. \A i \in 1 .. n : SubSeq(cmd, 1, n)[i] = Done + i
    <3>1. \A i \in DOMAIN cmd : cmd[i] = Done + i
      BY <1>1, <1>2 DEF CommandBufferRule
    <3> QED
      BY <2>1, <3>1
  <2>3. \A i \in (Done + 1) .. (Done + n) : i - Done \in 1 .. n /\ i = Done + (i - Done)
    BY <1>4
  <2>4. \A i \in 1 .. n : Done + i \in (Done + 1) .. (Done + n)
    BY <1>4
  <2> QED
    BY <2>1, <2>2, <2>3, <2>4 DEF Bytes
<1>8. \A p \in (Done + 1) .. Here :
        /\ p \in Positions /\ file[p].b = Done /\ file[p].e = E /\ CommandRule(file, p)
        /\ p \in Nat /\ Done < p /\ p <= Here
  <2> TAKE p \in (Done + 1) .. Here
  <2>1. p \in Positions /\ p \in Done .. E /\ p \in Nat /\ Done < p /\ p <= Here
    BY <1>3, <1>4 DEF Positions
  <2> QED
    BY <1>1, <1>5, <2>1, ByteAt
<1>20. E \in Nat /\ Here <= E /\ (AtMark("end") <=> Here = E)
  BY <1>3, <1>4
<1> HIDE DEF E
<1>9. CASE AtMark("end")
  <2>1. Here = E /\ E \in Nat /\ Len(cmd) = E - Done - 1 /\ Len(cmd) >= IdLen
    <3>1. Here = E
      BY <1>9, <1>20
    <3>2. Here = Done + Len(cmd) + 1 /\ Done + IdLen < Here
      BY <1>3, <1>5, <3>1
    <3> QED
      BY <1>4, <1>20, <3>1, <3>2
  <2>2. WithoutId = SubSeq(cmd, 1, Len(cmd) - IdLen) /\ Len(cmd) - IdLen \in 0 .. Len(cmd)
    <3>1. Shorter(Len(cmd), IdLen) = IdLen
      BY <1>4, <2>1 DEF Shorter
    <3>2. WithoutId = SubSeq(cmd, 1, Len(cmd) - IdLen)
      BY <3>1 DEF WithoutId
    <3> QED
      BY <1>4, <2>1, <3>2
  <2>3. Bytes(WithoutId) = (Done + 1) .. (E - IdLen - 1)
    <3>1. Done + (Len(cmd) - IdLen) = E - IdLen - 1
      <4>1. \A d, l, i, e \in Nat : l = e - d - 1 => d + (l - i) = e - i - 1
        OBVIOUS
      <4> QED
        BY <1>4, <2>1, <4>1
    <3> QED
      BY <1>7, <2>2, <3>1
  <2>4. \A p \in (Done + 1) .. Here : Fits(p) /\ ReadWhole(p)
    <3> TAKE p \in (Done + 1) .. Here
    <3>1. file[p].b = Done /\ file[p].e = E
      BY <1>8
    <3> QED
      BY <1>3, <1>4, <2>1, <3>1 DEF Fits, ReadWhole
  <2>5. \A p \in (Done + 1) .. Here : file[p].k = "body" <=> p <= E - IdLen - 1
    <3> TAKE p \in (Done + 1) .. Here
    <3>1. /\ file[p].b = Done /\ file[p].e = E /\ CommandRule(file, p)
          /\ p \in Nat /\ Done < p /\ p <= E
      BY <1>8, <2>1
    <3>2. /\ p = E => file[p].k = "end"
          /\ Done < p /\ p < E - IdLen => file[p].k = "body"
          /\ E - IdLen <= p /\ p < E => file[p].k \in {"mine", "theirs"}
      BY <1>4, <3>1 DEF CommandRule
    <3>3. p = E \/ p < E - IdLen \/ (E - IdLen <= p /\ p < E)
      BY <1>4, <1>20, <3>1
    <3>4. p < E - IdLen <=> p <= E - IdLen - 1
      BY <1>4, <1>20, <3>1
    <3>5. CASE p < E - IdLen
      BY <3>1, <3>2, <3>4, <3>5
    <3>6. CASE ~(p < E - IdLen)
      <4>1. file[p].k # "body"
        BY <3>2, <3>3, <3>6
      <4> QED
        BY <3>4, <3>6, <4>1
    <3> QED
      BY <3>5, <3>6
  <2>6. \A p \in (Done + 1) .. Here :
          Visible(p) <=> p <= E - IdLen - 1 /\ ~IdMatches
    <3> TAKE p \in (Done + 1) .. Here
    <3>1. IdMatches <=> Mine(p) /\ IdInOneRead(p)
      BY <1>2, <1>9, IdRecognised DEF AtMark
    <3>2. file[p].b # 0
      BY <1>4, <1>8
    <3> QED
      BY <2>4, <2>5, <3>1, <3>2 DEF Visible
  <2>7. CASE WithoutId # <<>> /\ ~IdMatches
    <3>1. out' = WithoutId
      BY <1>9, <2>7 DEF ScanEndMark, WriteAndGoOn
    <3>2. {p \in (Done + 1) .. Here : Visible(p)} = (Done + 1) .. (E - IdLen - 1)
      <4>1. \A p \in (Done + 1) .. Here : Visible(p) <=> p <= E - IdLen - 1
        BY <2>6, <2>7
      <4>2. \A p : p \in (Done + 1) .. (E - IdLen - 1)
                     <=> p \in (Done + 1) .. Here /\ p <= E - IdLen - 1
        BY <1>4, <2>1
      <4> QED
        BY <4>1, <4>2
    <3> QED
      BY <2>3, <3>1, <3>2
  <2>8. CASE WithoutId = <<>> \/ IdMatches
    <3>1. out' = <<>>
      BY <1>6, <1>9, <2>8 DEF ScanEndMark
    <3>2. WithoutId = <<>> => (Done + 1) .. (E - IdLen - 1) = {}
      BY <2>3 DEF Bytes
    <3>3. \A p \in (Done + 1) .. Here : ~Visible(p)
      BY <1>4, <2>6, <2>8, <3>2
    <3>4. Bytes(<<>>) = {}
      BY DEF Bytes
    <3> QED
      BY <3>1, <3>3, <3>4
  <2> QED
    BY <2>7, <2>8
<1>10. CASE ~AtMark("end")
  <2>1. Len(cmd) = BUFFSIZE /\ Here < E /\ Here = Done + BUFFSIZE + 1
    BY <1>2, <1>3, <1>4, <1>10, <1>20
  <2>2. cmd # <<>> /\ cmd = SubSeq(cmd, 1, Len(cmd))
    BY <1>4, <2>1
  <2>3. out' = cmd
    BY <1>10, <2>2 DEF ScanEndMark, WriteAndGoOn
  <2>4. Bytes(out') = (Done + 1) .. (Done + BUFFSIZE)
    <3>1. Bytes(SubSeq(cmd, 1, Len(cmd))) = (Done + 1) .. (Done + Len(cmd))
      BY <1>4, <1>7
    <3> QED
      BY <2>1, <2>2, <2>3, <3>1
  <2>5. \A p \in (Done + 1) .. Here : Visible(p) <=> p # Here
    <3> TAKE p \in (Done + 1) .. Here
    <3>1. /\ file[p].b = Done /\ file[p].e = E /\ p \in Nat /\ Done < p /\ p <= Here
      BY <1>8
    <3>2. ~Fits(p) /\ ReadWhole(p) /\ file[p].b # 0
      BY <1>3, <1>4, <1>20, <2>1, <3>1 DEF Fits, ReadWhole
    <3> QED
      BY <1>4, <2>1, <3>1, <3>2 DEF Visible
  <2>6. {p \in (Done + 1) .. Here : Visible(p)} = (Done + 1) .. (Done + BUFFSIZE)
    BY <1>4, <2>1, <2>5
  <2> QED
    BY <2>4, <2>6
<1> QED
  BY <1>9, <1>10

\* While file, start and reads are as they were everything is visible that was.
LEMMA VisibleUnchanged ==
  ASSUME UNCHANGED <<file, start, cuts>>, NEW p
  PROVE  Visible(p)' <=> Visible(p)
  BY DEF Visible, ReadWhole, Fits, Mine, IdInOneRead

Shown == Bytes(sent) \cup Bytes(out) \cup Bytes(wbuf)

LEMMA SentStep ==
  ASSUME FilterInv, [Next]_vars, Unmarked'
  PROVE  SentRule'
<1>1. /\ Typed /\ FileRule /\ PlaceRule /\ BufferRule /\ Unmarked
      /\ CommandBufferRule /\ TextRule
  BY UnmarkedBefore DEF FilterInv
<1>2. Shown = {p \in (start + 1) .. Done : Visible(p)}
  BY <1>1 DEF FilterInv, SentRule, Shown
<1>3. /\ filePos \in Nat /\ left \in Nat /\ pch \in Nat /\ start \in Nat /\ asked \in Nat
      /\ Len(cmd) \in Nat /\ Scanned \in Nat /\ start <= Scanned /\ Done = Scanned - Len(cmd)
      /\ wbuf \in Seq(Nat) /\ out \in Seq(Nat) /\ sent \in Seq(Nat) /\ cmd \in Seq(Nat)
      /\ Scanned <= filePos
  BY <1>1, Sizes DEF PlaceRule, Scanned, Front, Typed, Done
<1>4. SUFFICES Shown' = {p \in (start' + 1) .. Done' : Visible(p)'}
  BY DEF SentRule, Shown
<1>5. CASE /\ Shown' = Shown /\ start' = start /\ Done' = Done
           /\ cuts' = cuts \/ (cuts' = cuts \cup {filePos} /\ Scanned = filePos)
  <2>1. \A p \in (start + 1) .. Done : Visible(p)' <=> Visible(p)
    BY <1>1, <1>5, FileStep, VisibleKept
  <2> QED
    BY <1>2, <1>5, <2>1
<1>6. CASE UNCHANGED vars \/ CloseClient
  BY <1>5, <1>6 DEF vars, CloseClient, Shown, Scanned, Done, Front
<1>7. CASE AppendToTempFile
  <2>1. UNCHANGED <<cmd, start, filePos, left, pch, wbuf, out, sent>>
    BY <1>7 DEF AppendToTempFile
  <2>2. cuts' = cuts \/ (cuts' = cuts \cup {filePos} /\ pc = "idle")
    BY <1>7 DEF AppendToTempFile, StartReadTempFile
  <2>3. pc = "idle" => Scanned = filePos
    BY <1>1, <1>3 DEF PlaceRule, Scanned, Front
  <2> QED
    BY <1>5, <2>1, <2>2, <2>3 DEF Shown, Scanned, Done, Front
<1>8. CASE ReadClientInfoCompleted
  <2>1. /\ sent = <<>> /\ out = <<>> /\ cmd = <<>> /\ Len(wbuf) <= 0 /\ left = 0 /\ pch = 0
        /\ UNCHANGED <<sent, out, wbuf, cmd, left, pch>> /\ start' = filePos' /\ start' \in Nat
    BY <1>1, <1>3, <1>8 DEF ReadClientInfoCompleted, PlaceRule, BufferRule
  <2>2. wbuf = <<>> /\ Len(cmd) = 0
    BY <1>3, <2>1
  <2>3. Shown' = {}
    BY <2>1, <2>2 DEF Shown, Bytes
  <2>4. PICK pos \in Nat : filePos' = pos /\ start' = pos
    BY <2>1
  <2>5. Done' = pos
    BY <2>1, <2>2, <2>4 DEF Done, Scanned, Front
  <2>6. (start' + 1) .. Done' = {}
    BY <2>4, <2>5
  <2> QED
    BY <2>3, <2>6
<1>9. CASE ReadTempFileCompleted
  <2>1. /\ filePos' = filePos + asked /\ left' = asked /\ pch' = 0 /\ left = 0 /\ pch = 0
        /\ UNCHANGED <<cmd, start, cuts, wbuf, out, sent>>
    BY <1>1, <1>9 DEF ReadTempFileCompleted, PlaceRule
  <2>2. Done' = Done
    BY <1>3, <2>1 DEF Front, Scanned, Done
  <2> QED
    BY <1>5, <2>1, <2>2 DEF Shown
<1>10. CASE ScanBeginMark
  <2>1. /\ pch < left /\ file[Here].k = "begin" /\ ~reading /\ out = <<>>
        /\ UNCHANGED <<file, cmd, start, cuts, filePos, sent>>
        /\ \/ left' = left - pch - 1 /\ pch' = 0
           \/ left' = left /\ pch' = pch + 1
        /\ UNCHANGED <<out, wbuf>> \/ (out' = wbuf /\ wbuf' = <<>>)
    BY <1>1, <1>10 DEF ScanBeginMark, AtMark, WriteAndGoOn, BufferRule
  <2>2. /\ Here = Scanned + 1 /\ Here \in Positions /\ start < Here /\ file[Here].b = Here
        /\ Here \in Nat /\ Here # 0
    BY <1>1, <1>3, <2>1, NextByte
  <2>3. Len(cmd) = 0 /\ Done = Scanned /\ Done' = Here
    <3>1. cmd = <<>>
      BY <1>1, <2>1 DEF BufferRule
    <3> QED
      BY <1>3, <2>1, <2>2, <3>1 DEF Done, Scanned, Front
  <2>4. ~Visible(Here)
    BY <2>1, <2>2 DEF Visible, ReadWhole
  <2>5. Shown' = Shown
    BY <2>1 DEF Shown, Bytes
  <2>6. (start' + 1) .. Done' = (start + 1) .. Done \cup {Here}
    BY <1>3, <2>1, <2>2, <2>3
  <2> QED
    BY <1>2, <2>1, <2>4, <2>5, <2>6, VisibleUnchanged
<1>11. CASE ScanText
  <2>1. Len(wbuf) # BUFFSIZE
    BY <1>1, <1>11, Sizes DEF ScanText, BufferRule, PlaceRule
  <2>2. /\ pch < left /\ file[Here].k # "begin" /\ ~reading /\ wbuf' = Append(wbuf, Here)
        /\ UNCHANGED <<file, start, left, filePos, cmd, cuts, out, sent>> /\ pch' = pch + 1
    BY <1>11, <2>1 DEF ScanText, AtMark
  <2>3. Here = Scanned + 1 /\ Here \in Positions /\ start < Here /\ Here \in Nat
    BY <1>1, <1>3, <2>2, NextByte
  <2>4. Len(cmd) = 0 /\ Done = Scanned /\ Done' = Here
    <3>1. cmd = <<>>
      BY <1>1, <2>2 DEF BufferRule
    <3> QED
      BY <1>3, <2>2, <2>3, <3>1 DEF Done, Scanned, Front
  <2>5. ASSUME file[Here].b # 0, ReadWhole(Here)
        PROVE  ~Fits(Here) /\ Here \notin {file[Here].b, file[Here].b + BUFFSIZE + 1}
    <3>1. /\ Scanned \in Positions /\ file[Here].b <= Scanned /\ Here <= file[Here].e
          /\ file[Scanned].b = file[Here].b /\ file[Scanned].e = file[Here].e
          /\ file[Here].b \in Nat /\ file[Here].e \in Nat /\ BUFFSIZE \in Nat
      BY <1>1, <2>2, <2>3, <2>5, NextByte, ByteAt, Sizes
    <3>2. file[Here].b > start
      BY <2>5 DEF ReadWhole
    <3>3. Scanned > start /\ Scanned < file[Scanned].e
      BY <1>3, <2>3, <3>1, <3>2
    <3>4. Scanned > file[Here].b + BUFFSIZE
      BY <1>1, <1>3, <2>2, <2>5, <3>1, <3>2, <3>3 DEF TextRule
    <3> QED
      BY <1>3, <2>3, <3>1, <3>4 DEF Fits
  <2>6. Visible(Here)
    BY <2>5 DEF Visible
  <2>7. Shown' = Shown \cup {Here}
    <3>1. Bytes(wbuf') = Bytes(wbuf) \cup {Here} /\ Bytes(sent') = Bytes(sent)
          /\ Bytes(out') = Bytes(out)
      BY <1>3, <2>2, <2>3, BytesOf
    <3> QED
      BY <3>1 DEF Shown
  <2>8. (start' + 1) .. Done' = (start + 1) .. Done \cup {Here}
    BY <1>3, <2>2, <2>3, <2>4
  <2> QED
    BY <1>2, <2>2, <2>6, <2>7, <2>8, VisibleUnchanged
<1>12. CASE ScanCommand
  <2>1. /\ cmd' = Append(cmd, Here) /\ pch' = pch + 1 /\ pch < left
        /\ UNCHANGED <<file, start, left, filePos, cuts, out, sent, wbuf>>
    BY <1>12 DEF ScanCommand
  <2>2. Scanned' = Scanned + 1 /\ Len(cmd') = Len(cmd) + 1
    BY <1>3, <2>1 DEF Scanned, Front
  <2>3. Done' = Done
    BY <1>3, <2>2 DEF Done
  <2> QED
    BY <1>5, <2>1, <2>3 DEF Shown
<1>13. CASE ScanEndMark
  <2>1. /\ pch < left /\ reading /\ out = <<>> /\ wbuf = <<>> /\ cmd' = <<>>
        /\ UNCHANGED <<file, start, cuts, filePos, sent, wbuf>>
        /\ \/ left' = left - pch - 1 /\ pch' = 0
           \/ left' = left /\ pch' = pch + 1
    BY <1>1, <1>13 DEF ScanEndMark, AtMark, WriteAndGoOn, BufferRule
  <2>2. Here = Scanned + 1 /\ Here \in Nat /\ start < Done /\ Done <= Scanned /\ Done \in Nat
    BY <1>1, <1>3, <2>1, NextByte DEF CommandBufferRule, Positions
  <2>3. Done' = Here
    BY <1>3, <2>1, <2>2 DEF Done, Scanned, Front
  <2>4. Bytes(out') = {p \in (Done + 1) .. Here : Visible(p)}
    BY <1>1, <1>13, CommandSent
  <2>5. Shown' = Shown \cup Bytes(out')
    BY <2>1 DEF Shown, Bytes
  <2>6. (start' + 1) .. Done' = (start + 1) .. Done \cup (Done + 1) .. Here
    BY <1>3, <2>1, <2>2, <2>3
  <2> QED
    BY <1>2, <2>1, <2>4, <2>5, <2>6, VisibleUnchanged
<1>14. CASE ScanEnds
  <2>1. /\ UNCHANGED <<cmd, start, filePos, sent>> /\ left' = 0 /\ pch' = 0 /\ pch = left
        /\ UNCHANGED <<out, wbuf>> \/ (out' = wbuf /\ wbuf' = <<>> /\ out = <<>>)
        /\ cuts' = cuts \/ cuts' = cuts \cup {filePos}
    BY <1>1, <1>14 DEF ScanEnds, StartReadTempFile, BufferRule
  <2>2. Scanned = filePos /\ Done' = Done
    BY <1>3, <2>1 DEF Scanned, Front, Done
  <2>3. Shown' = Shown
    BY <2>1 DEF Shown, Bytes
  <2> QED
    BY <1>5, <2>1, <2>2, <2>3
<1>15. CASE WriteSessionOutputCompletedWriteNext \/ WriteSessionOutputCompletedReadNext
  <2>1. /\ sent' = sent \o out /\ out' = <<>>
        /\ UNCHANGED <<wbuf, cmd, start, filePos, left, pch>>
        /\ cuts' = cuts \/ (cuts' = cuts \cup {filePos} /\ pc = "readnext")
    BY <1>15 DEF WriteSessionOutputCompletedWriteNext, WriteSessionOutputCompletedReadNext,
       StartReadTempFile
  <2>2. pc = "readnext" => Scanned = filePos
    BY <1>1, <1>3 DEF PlaceRule, Scanned, Front
  <2>3. Bytes(sent') = Bytes(sent) \cup Bytes(out) /\ Bytes(out') = {}
    BY <1>3, <2>1, BytesOf
  <2>4. Shown' = Shown /\ Done' = Done
    BY <2>1, <2>3 DEF Shown, Done, Scanned, Front
  <2> QED
    BY <1>5, <2>1, <2>2, <2>4
<1> QED
  BY <1>6, <1>7, <1>8, <1>9, <1>10, <1>11, <1>12, <1>13, <1>14, <1>15 DEF Next, Scan

(***************************************************************************)
(* The theorems.                                                           *)
(***************************************************************************)

LEMMA FilterStep == FilterInv /\ [Next]_vars => FilterInv'
<1> SUFFICES ASSUME FilterInv, [Next]_vars PROVE FilterInv'
  OBVIOUS
<1>1. Unmarked' => CommandBufferRule' /\ TextRule' /\ SentRule'
  BY CommandBufferStep, SentStep
<1> QED
  BY <1>1, TypedStep, FileStep, PlaceStep, BufferStep, OrderStep DEF FilterInv

LEMMA InitFilter == Init => FilterInv
<1> SUFFICES ASSUME Init PROVE FilterInv
  OBVIOUS
<1>1. BUFFSIZE \in Nat /\ MaxAppends \in Nat /\ <<>> \in Seq(Byte) /\ <<>> \in Seq(Nat)
      /\ Len(<<>>) = 0
  BY SizesAssumption
<1>2. FileRule
  BY <1>1 DEF Init, FileRule, WellFormed
<1>7. Typed
  <2>1. file \in Seq(Byte) /\ appends \in 0 .. MaxAppends
    BY <1>1 DEF Init
  <2> QED
    BY <1>1, <2>1 DEF Init, Typed
<1>3. PlaceRule /\ BufferRule
  BY <1>1 DEF Init, PlaceRule, BufferRule, Front
<1>4. OrderRule
  BY <1>1 DEF Init, OrderRule, Increasing, Within, Before
<1>5. CommandBufferRule /\ TextRule
  BY DEF Init, CommandBufferRule, TextRule, Scanned, Front
<1>6. SentRule
  <2>1. Done = 0 /\ start = 0
    <3>1. Scanned = 0 /\ Len(cmd) = 0 /\ start = 0
      BY <1>1 DEF Init, Scanned, Front
    <3> QED
      BY <3>1 DEF Done
  <2>2. (start + 1) .. Done = {}
    BY <2>1
  <2> QED
    BY <2>2 DEF Init, SentRule, Bytes
<1> QED
  BY <1>2, <1>3, <1>4, <1>5, <1>6, <1>7 DEF FilterInv

\* The chain keeps its buffers, its place in the file and what it has sent in step, for
\* any sizes (srvstoc.c:73-469).
THEOREM FilterInvariant == Spec => []FilterInv
  BY InitFilter, FilterStep, PTL DEF Spec

\* The variables have their types; no buffer exceeds its size (srvstoc.c:165-374).
THEOREM FilterTypes == Spec => []TypeOK
<1>1. FilterInv => TypeOK
  <2> SUFFICES ASSUME FilterInv PROVE TypeOK
    OBVIOUS
  <2>1. Typed /\ FileRule /\ PlaceRule /\ BufferRule /\ OrderRule
    BY DEF FilterInv
  <2>2. /\ filePos \in Nat /\ left \in Nat /\ pch \in Nat /\ start \in Nat /\ asked \in Nat
        /\ Len(file) \in Nat /\ Len(wbuf) \in Nat /\ BUFFSIZE \in Nat /\ IdLen \in Nat
    BY <2>1, Sizes
  <2>3. file \in Seq([k : Kinds, b : 0 .. Len(file), e : 0 .. Len(file)])
    <3>1. \A p \in Positions :
            file[p] \in Byte /\ file[p].b \in 0 .. Len(file) /\ file[p].e \in 0 .. Len(file)
      <4> TAKE p \in Positions
      <4>1. CommandRule(file, p) /\ file[p].b \in Nat /\ file[p].e \in Nat /\ file[p] \in Byte
        BY <2>1, ByteAt DEF Typed, Positions
      <4>2. CASE file[p].b = 0 /\ file[p].e = 0
        BY <2>2, <4>1, <4>2
      <4>3. CASE file[p].b # 0 \/ file[p].e # 0
        <5>1. file[p].b <= p /\ p <= file[p].e /\ file[p].e <= Len(file)
          BY <4>1, <4>3 DEF CommandRule
        <5> QED
          BY <2>2, <4>1, <5>1 DEF Positions
      <4> QED
        BY <4>2, <4>3
    <3>2. \A p \in Positions : file[p] \in [k : Kinds, b : 0 .. Len(file), e : 0 .. Len(file)]
      BY <3>1 DEF Byte
    <3>3. file \in [1 .. Len(file) -> [k : Kinds, b : 0 .. Len(file), e : 0 .. Len(file)]]
      BY <2>1, <3>2 DEF Typed, Positions
    <3>4. Len(file) \in Nat
      BY <2>2
    <3> DEFINE R == [k : Kinds, b : 0 .. Len(file), e : 0 .. Len(file)]
               n == Len(file)
    <3> HIDE DEF R, n
    <3>5. file \in [1 .. n -> R] /\ n \in Nat
      BY <3>3, <3>4 DEF R, n
    <3>6. file \in Seq(R)
      BY <3>5
    <3> QED
      BY <3>6 DEF R
  <2>4. ASSUME NEW s \in {wbuf, cmd, out, sent} PROVE s \in Seq(Positions)
    <3>1. s \in Seq(Nat) /\ Within(s, start, Scanned)
      BY <2>1 DEF Typed, OrderRule
    <3>2. Scanned <= Len(file) /\ Scanned \in Nat
      BY <2>1, <2>2 DEF Scanned, Front, PlaceRule
    <3>3. \A i \in 1 .. Len(s) : s[i] \in Positions
      BY <2>2, <3>1, <3>2 DEF Within, Positions
    <3> QED
      BY <3>1, <3>3
  <2>5. cuts \subseteq 0 .. Len(file)
    BY <2>1, <2>2 DEF Typed, PlaceRule, Front
  <2>6. filePos \in 0 .. Len(file) /\ start \in 0 .. Len(file)
        /\ asked \in 0 .. BUFFSIZE /\ left \in 0 .. BUFFSIZE /\ pch \in 0 .. left
        /\ Len(wbuf) <= BUFFSIZE /\ Len(cmd) <= BUFFSIZE
    BY <2>1, <2>2 DEF PlaceRule, BufferRule, Front
  <2> QED
    BY <2>1, <2>3, <2>4, <2>5, <2>6 DEF TypeOK, Typed
<1> QED
  BY <1>1, FilterInvariant, PTL

\* The ErrorExit of a full WriteBuffer is never reached (srvstoc.c:241-244).
THEOREM BufferNeverFull == Spec => []NoOverflow
<1>1. FilterInv => NoOverflow
  BY DEF FilterInv, Typed, NoOverflow
<1> QED
  BY <1>1, FilterInvariant, PTL

\* The client is sent the bytes of the file in their order, none twice (srvstoc.c:165-374).
THEOREM BytesInOrder == Spec => []InOrder
<1>1. FilterInv => InOrder
  <2> SUFFICES ASSUME FilterInv PROVE InOrder
    OBVIOUS
  <2>1. Typed /\ PlaceRule /\ BufferRule /\ OrderRule
    BY DEF FilterInv
  <2>2. /\ wbuf \in Seq(Nat) /\ cmd \in Seq(Nat) /\ out \in Seq(Nat) /\ sent \in Seq(Nat)
        /\ start \in Nat /\ Scanned \in Nat
    BY <2>1 DEF Typed, PlaceRule, Scanned, Front
  <2> DEFINE behind == IF reading THEN wbuf \o cmd ELSE cmd \o wbuf
             queue == sent \o out \o behind
  <2>3. behind = (IF reading THEN cmd ELSE wbuf)
    <3>1. <<>> \o cmd = cmd /\ <<>> \o wbuf = wbuf
      BY <2>2
    <3>2. IF reading THEN wbuf = <<>> ELSE cmd = <<>>
      BY <2>1 DEF BufferRule
    <3> QED
      BY <3>1, <3>2
  <2>4. behind \in Seq(Nat) /\ (out # <<>> => behind = <<>>)
    BY <2>1, <2>2, <2>3 DEF BufferRule
  <2> HIDE DEF behind
  <2>5. queue = sent \o (IF out = <<>> THEN behind ELSE out)
    <3>1. CASE out = <<>>
      <4>1. sent \o out = sent
        BY <2>2, <3>1
      <4> QED
        BY <3>1, <4>1
    <3>2. CASE out # <<>>
      <4>1. (sent \o out) \o <<>> = sent \o out
        BY <2>2
      <4> QED
        BY <2>4, <3>2, <4>1
    <3> QED
      BY <3>1, <3>2
  <2>6. PICK s \in {out, wbuf, cmd} : queue = sent \o s
    BY <2>3, <2>5
  <2>7. Run(sent \o s, start, Scanned)
    <3>1. Run(sent, start, Scanned) /\ Run(s, start, Scanned) /\ Before(sent, s)
      BY <2>1 DEF OrderRule, Run
    <3> QED
      BY <2>2, <3>1, RunsJoined
  <2>8. Increasing(queue)
    BY <2>6, <2>7 DEF Run
  <2> QED
    BY <2>8 DEF InOrder, Increasing, behind
<1> QED
  BY <1>1, FilterInvariant, PTL

\* A client that is idle has been sent all it should see, however the file was cut into
\* reads (srvstoc.c:73-160, 165-374).
THEOREM NothingIsLost == Spec => []NothingLost
<1>1. FilterInv => NothingLost
  <2> SUFFICES ASSUME FilterInv, pc = "idle", Unmarked
               PROVE  Sent = {p \in Positions : p > start /\ Visible(p)}
    BY DEF NothingLost
  <2>1. /\ Typed /\ FileRule /\ PlaceRule /\ BufferRule /\ CommandBufferRule /\ SentRule
    BY DEF FilterInv
  <2>2. /\ filePos = Len(file) /\ left = 0 /\ pch = 0 /\ out = <<>> /\ filePos \in Nat
        /\ Len(wbuf) <= 0 /\ wbuf \in Seq(Nat) /\ start \in Nat /\ cmd \in Seq(Nat)
    BY <2>1 DEF Typed, PlaceRule, BufferRule
  <2>3. wbuf = <<>> /\ Scanned = Len(file)
    BY <2>2 DEF Scanned, Front
  <2>4. ~reading
    <3> SUFFICES ASSUME reading PROVE FALSE
      OBVIOUS
    <3>1. Done \in Positions /\ file[Done].b = Done /\ Scanned < file[Done].e
      BY <2>1 DEF CommandBufferRule
    <3>2. CommandRule(file, Done) /\ file[Done].e \in Nat /\ Done # 0
      BY <2>1, <3>1, ByteAt DEF Positions
    <3>3. file[Done].e <= Len(file)
      BY <3>1, <3>2 DEF CommandRule
    <3> QED
      BY <2>2, <2>3, <3>1, <3>2, <3>3
  <2>5. Done = Len(file)
    BY <2>1, <2>2, <2>3, <2>4 DEF BufferRule, Done
  <2>6. Sent = {p \in (start + 1) .. Len(file) : Visible(p)}
    BY <2>1, <2>2, <2>3, <2>5 DEF SentRule, Bytes, Sent
  <2> QED
    BY <2>2, <2>6 DEF Positions
<1> QED
  BY <1>1, FilterInvariant, PTL

\* A client is never sent a command of its own that one read returned from its id on
\* (srvstoc.c:268-278).
THEOREM OwnIsHidden == Spec => []OwnHidden
<1>1. FilterInv => OwnHidden
  <2> SUFFICES ASSUME FilterInv, Unmarked, NEW p \in Positions,
                      file[p].b > start, Fits(p), Mine(p), IdInOneRead(p)
               PROVE  p \notin Sent
    BY DEF OwnHidden
  <2>1. Typed /\ FileRule /\ SentRule
    BY DEF FilterInv
  <2>2. file[p].b # 0 /\ ReadWhole(p)
    BY <2>1, Sizes, ByteAt DEF ReadWhole
  <2>3. ~Visible(p)
    BY <2>2 DEF Visible
  <2> QED
    BY <2>1, <2>3 DEF SentRule, Bytes, Sent
<1> QED
  BY <1>1, FilterInvariant, PTL
=============================================================================
