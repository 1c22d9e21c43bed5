-------------------------- MODULE KdTransportProofs --------------------------
(***************************************************************************)
(* The transport's state, the target's and the packets between them are    *)
(* what they are taken to be, for any bounds on breaks, lines, requests    *)
(* and faults, whether or not a timeout may come early, and whatever       *)
(* resynchronizations the user asks for.                                   *)
(***************************************************************************)
EXTENDS KdTransport, TLAPS

Hpcs == {"engine", "wait", "sync", "eat", "synced"}
Bits == {0, 1}

HostOK ==
  /\ hpc \in Hpcs /\ hfor \in {"ack", "manip", "state"}
  /\ after \in [type : {"manip", "state"}, inside : BOOLEAN]
  /\ out \in Payloads /\ req \in Payloads /\ buf \in Payloads
  /\ nextToSend \in Bits /\ expected \in Bits
  /\ ahead \in BOOLEAN /\ resync \in BOOLEAN /\ breakIn \in BOOLEAN
  /\ dataLoops \in 0 .. 3

TargetOK ==
  /\ tpc \in {"run", "send", "receive"}
  /\ tout \in Payloads /\ tlast \in Payloads
  /\ tnext \in Bits /\ texp \in Bits /\ tsync \in BOOLEAN

LinesOK == toTarget \in Seq(Packets) /\ toHost \in Seq(Packets)

ToldOK == breaks \in Nat /\ printed \in Nat /\ carriedOut \in Nat
LearnedOK == seen \in Nat /\ shown \in Seq(Nat) /\ asked \in Nat /\ answered \in Nat
BoundsOK == faults \in Nat /\ breakIns \in Nat /\ resyncs \in Nat

LEMMA Parts ==
  TypeOK <=> HostOK /\ TargetOK /\ LinesOK /\ ToldOK /\ LearnedOK /\ BoundsOK
BY DEF TypeOK, HostOK, TargetOK, LinesOK, ToldOK, LearnedOK, BoundsOK, Hpcs, Bits

LEMMA PartsNext ==
  ASSUME HostOK', TargetOK', LinesOK', ToldOK', LearnedOK', BoundsOK'
  PROVE  TypeOK'
BY DEF TypeOK, HostOK, TargetOK, LinesOK, ToldOK, LearnedOK, BoundsOK, Hpcs, Bits

LEMMA Unmoved ==
  ASSUME TypeOK
  PROVE  /\ UNCHANGED host => HostOK'
         /\ UNCHANGED target => TargetOK'
         /\ UNCHANGED told => ToldOK'
         /\ UNCHANGED learned => LearnedOK'
         /\ UNCHANGED bounds => BoundsOK'
<1>1. HostOK /\ TargetOK /\ ToldOK /\ LearnedOK /\ BoundsOK
  BY Parts
<1>2. UNCHANGED host => HostOK'
  BY <1>1 DEF host, HostOK
<1>3. UNCHANGED target => TargetOK'
  BY <1>1 DEF target, TargetOK
<1>4. UNCHANGED told => ToldOK'
  BY <1>1 DEF told, ToldOK
<1>5. UNCHANGED learned => LearnedOK'
  BY <1>1 DEF learned, LearnedOK
<1>6. UNCHANGED bounds => BoundsOK'
  BY <1>1 DEF bounds, BoundsOK
<1> QED BY <1>2, <1>3, <1>4, <1>5, <1>6

-----------------------------------------------------------------------------
(* Payloads and packets. *)

LEMMA PayloadTypes ==
  /\ \A t \in Types, n \in Nat : Payload(t, n) \in Payloads
  /\ \A p \in Payloads : p.t \in Types /\ p.n \in Nat
  /\ NoData \in Payloads
BY DEF Payload, Payloads, NoData, Types

LEMMA PacketTypes ==
  /\ \A k \in {"data", "ack", "reset", "resend", "breakin"}, id \in Bits,
        sync \in BOOLEAN, p \in Payloads : Packet(k, id, sync, p) \in Packets
  /\ \A id \in Bits, p \in Payloads : Data(id, p) \in Packets
  /\ \A id \in Bits : Ack(id) \in Packets
  /\ \A id \in Bits, sync \in BOOLEAN : MatchingNone(id, sync) \in Packets
  /\ RESET \in Packets /\ RESEND \in Packets /\ BREAKIN \in Packets
  /\ \A m \in Packets : /\ m.id \in Bits /\ m.sync \in BOOLEAN /\ m.p \in Payloads
                        /\ m.p.t \in Types /\ m.p.n \in Nat
                        /\ [m EXCEPT !.bad = "header"] \in Packets
                        /\ [m EXCEPT !.bad = "body"] \in Packets
<1>1. \A k \in {"data", "ack", "reset", "resend", "breakin"}, id \in Bits,
        sync \in BOOLEAN, p \in Payloads : Packet(k, id, sync, p) \in Packets
  BY DEF Packet, Packets, Bits
<1>2. NoData \in Payloads /\ 0 \in Bits
  BY PayloadTypes DEF Bits
<1>3. \A id \in Bits, p \in Payloads : Data(id, p) \in Packets
  BY <1>1 DEF Data
<1>4. \A id \in Bits : Ack(id) \in Packets
  BY <1>1, <1>2 DEF Ack
<1>5. \A id \in Bits, sync \in BOOLEAN : MatchingNone(id, sync) \in Packets
  BY <1>4 DEF MatchingNone, Packets
<1>6. RESET \in Packets /\ RESEND \in Packets /\ BREAKIN \in Packets
  BY <1>1, <1>2 DEF RESET, RESEND, BREAKIN, Control
<1>7. ASSUME NEW m \in Packets
      PROVE  /\ m.id \in Bits /\ m.sync \in BOOLEAN /\ m.p \in Payloads
             /\ [m EXCEPT !.bad = "header"] \in Packets
             /\ [m EXCEPT !.bad = "body"] \in Packets
  BY DEF Packets, Bits
<1>8. \A m \in Packets : m.p.t \in Types /\ m.p.n \in Nat
  BY <1>7, PayloadTypes
<1> QED BY <1>1, <1>3, <1>4, <1>5, <1>6, <1>7, <1>8

LEMMA LineTypes ==
  ASSUME NEW q \in Seq(Packets)
  PROVE  /\ \A m \in First(q) : m \in Packets /\ q # <<>> /\ m = Head(q)
         /\ q # <<>> => Tail(q) \in Seq(Packets) /\ Head(q) \in Packets
         /\ \A i \in DOMAIN q : Without(q, i) \in Seq(Packets)
<1>1. \A m \in First(q) : m \in Packets /\ q # <<>> /\ m = Head(q)
  BY DEF First
<1>2. q # <<>> => Tail(q) \in Seq(Packets) /\ Head(q) \in Packets
  OBVIOUS
<1>3. ASSUME NEW i \in DOMAIN q PROVE Without(q, i) \in Seq(Packets)
  <2>1. i \in 1 .. Len(q) /\ Len(q) \in Nat
    OBVIOUS
  <2>2. SubSeq(q, 1, i - 1) \in Seq(Packets) /\ SubSeq(q, i + 1, Len(q)) \in Seq(Packets)
    BY <2>1
  <2> QED BY <2>2 DEF Without
<1> QED BY <1>1, <1>2, <1>3

-----------------------------------------------------------------------------
(* The loops of the transport that end, go on or begin again. *)

\* Where a wait leaves the thread.
WaitOK ==
  /\ hpc' \in Hpcs /\ hfor' \in {"ack", "manip", "state"} /\ ahead' \in BOOLEAN
  /\ seen' \in Nat /\ answered' \in Nat

LEMMA WaitTypes ==
  ASSUME TypeOK, NEW a \in BOOLEAN, NEW b \in Payloads
  PROVE  /\ \A type \in {"manip", "state"} : Deliver(type, b) => WaitOK
         /\ KeepWaiting(a) => WaitOK
         /\ \A type \in {"manip", "state"} : WaitForPacket(type, a, b) => WaitOK
         /\ WriteDone(a, b) => WaitOK
<1>1. ASSUME NEW type \in {"manip", "state"}, Deliver(type, b) PROVE WaitOK
  BY <1>1, PayloadTypes DEF Deliver, WaitOK, TypeOK, Hpcs
<1>2. KeepWaiting(a) => WaitOK
  BY DEF KeepWaiting, WaitOK, TypeOK, Hpcs
<1>3. ASSUME NEW type \in {"manip", "state"}, WaitForPacket(type, a, b) PROVE WaitOK
  BY <1>1, <1>3 DEF WaitForPacket, WaitOK, TypeOK, Hpcs
<1>4. after.type \in {"manip", "state"}
  BY DEF TypeOK
<1>5. ASSUME WriteDone(a, b) PROVE WaitOK
  BY <1>3, <1>4, <1>5 DEF WriteDone, WaitOK, TypeOK, Hpcs
<1> QED BY <1>1, <1>2, <1>3, <1>5

\* What a step that only waits and writes may change.
WriteOK ==
  /\ WaitOK
  /\ after' \in [type : {"manip", "state"}, inside : BOOLEAN]
  /\ out' \in Payloads /\ buf' \in Payloads
  /\ nextToSend' \in Bits /\ toTarget' \in Seq(Packets)

LEMMA RetryTypes ==
  ASSUME TypeOK, NEW ms \in Seq(Packets), NEW n \in Bits, NEW b \in Payloads,
         Retry(ms, n, b)
  PROVE  WriteOK
<1>1. buf' = b /\ nextToSend' = n
  BY DEF Retry
<1>2. /\ hfor \in {"ack", "manip", "state"} /\ ahead \in BOOLEAN
      /\ out \in Payloads /\ req \in Payloads /\ toTarget \in Seq(Packets)
      /\ after \in [type : {"manip", "state"}, inside : BOOLEAN]
  BY DEF TypeOK
<1>3. Data(n, out) \in Packets /\ Data(n, req) \in Packets
  BY <1>2, PacketTypes
<1>4. CASE hfor = "ack"
  <2>1. /\ toTarget' = toTarget \o Append(ms, Data(n, out))
        /\ KeepWaiting(ahead) /\ UNCHANGED <<out, after>>
    BY <1>4 DEF Retry
  <2>2. toTarget' \in Seq(Packets)
    BY <1>2, <1>3, <2>1
  <2> QED BY <1>1, <1>2, <2>1, <2>2, WaitTypes DEF WriteOK
<1>5. CASE hfor = "manip"
  <2>1. /\ toTarget' = toTarget \o Append(ms, Data(n, req))
        /\ out' = req /\ after' = Then("manip")
        /\ hfor' = "ack" /\ UNCHANGED <<hpc, ahead, seen, answered>>
    BY <1>5 DEF Retry
  <2>2. toTarget' \in Seq(Packets)
    BY <1>2, <1>3, <2>1
  <2>3. after' \in [type : {"manip", "state"}, inside : BOOLEAN]
    BY <2>1 DEF Then
  <2> QED BY <1>1, <1>2, <2>1, <2>2, <2>3 DEF WriteOK, WaitOK, TypeOK, Hpcs
<1>6. CASE hfor = "state"
  <2>1. /\ toTarget' = toTarget \o ms
        /\ WaitForPacket("state", ahead, b) /\ UNCHANGED <<out, after>>
    BY <1>6 DEF Retry
  <2>2. toTarget' \in Seq(Packets)
    BY <1>2, <2>1
  <2> QED BY <1>1, <1>2, <2>1, <2>2, WaitTypes DEF WriteOK
<1> QED BY <1>2, <1>4, <1>5, <1>6

\* What the other variables of a step of the transport's thread may be.
LEMMA HostSteps ==
  ASSUME TypeOK, WriteOK, HostSame,
         expected' \in Bits, toHost' \in Seq(Packets), shown' \in Seq(Nat)
  PROVE  TypeOK'
<1>1. /\ UNCHANGED <<req, resync, breakIn, dataLoops, asked>>
      /\ UNCHANGED target /\ UNCHANGED told /\ UNCHANGED bounds
  BY DEF HostSame
<1>2. TargetOK' /\ ToldOK' /\ BoundsOK'
  BY <1>1, Unmoved
<1>3. HostOK' /\ LinesOK' /\ LearnedOK'
  BY <1>1 DEF TypeOK, WriteOK, WaitOK, HostOK, LinesOK, LearnedOK, Bits
<1> QED BY <1>2, <1>3, PartsNext

-----------------------------------------------------------------------------
(* The packets the transport's thread reads. *)

LEMMA Taken ==
  ASSUME TypeOK, NEW m \in First(toHost), Reading(m)
  PROVE  /\ m \in Packets /\ toHost' \in Seq(Packets)
         /\ m.id \in Bits /\ m.sync \in BOOLEAN /\ m.p \in Payloads
         /\ m.p.t \in Types /\ m.p.n \in Nat
         /\ \A t \in Types : Header(t) \in Payloads
<1>1. toHost \in Seq(Packets)
  BY DEF TypeOK
<1>2. m \in Packets /\ toHost # <<>>
  BY <1>1, LineTypes
<1>3. toHost' \in Seq(Packets)
  BY <1>1, <1>2, LineTypes DEF Reading
<1>4. buf.n \in Nat
  BY PayloadTypes DEF TypeOK
<1>5. \A t \in Types : Header(t) \in Payloads
  BY <1>4, PayloadTypes DEF Header
<1> QED BY <1>2, <1>3, <1>5, PacketTypes

\* What a packet that is only acknowledged, or asked for again, leaves.
LEMMA Answered ==
  ASSUME TypeOK, NEW m \in Packets, toTarget' = Append(toTarget, m),
         buf' \in Payloads, nextToSend' \in Bits, UNCHANGED <<out, after>>, WaitOK
  PROVE  WriteOK
<1>1. toTarget' \in Seq(Packets)
  BY DEF TypeOK
<1> QED BY <1>1 DEF TypeOK, WriteOK

LEMMA AckTypes ==
  ASSUME TypeOK, NEW m \in First(toHost), ReadAck(m)
  PROVE  TypeOK'
<1>1. /\ Reading(m) /\ buf' = Header("none")
      /\ HostSame /\ UNCHANGED <<out, after, expected, toTarget, shown>>
  BY DEF ReadAck
<1>2. toHost' \in Seq(Packets) /\ Header("none") \in Payloads
  BY <1>1, Taken DEF Types
<1>3. PICK b \in Payloads : b = buf'
  BY <1>1, <1>2
<1>4. nextToSend' \in Bits
  <2>1. nextToSend' = 1 - nextToSend \/ nextToSend' = nextToSend
    BY DEF ReadAck
  <2>2. nextToSend \in Bits
    BY DEF TypeOK, Bits
  <2> QED BY <2>1, <2>2 DEF Bits
<1>5. WriteDone(ahead, b) \/ KeepWaiting(ahead)
  BY <1>3 DEF ReadAck
<1>6. ahead \in BOOLEAN
  BY DEF TypeOK
<1>7. WaitOK
  BY <1>5, <1>6, WaitTypes
<1>8. WriteOK
  BY <1>1, <1>2, <1>4, <1>7 DEF TypeOK, WriteOK
<1>9. expected' \in Bits /\ shown' \in Seq(Nat)
  BY <1>1 DEF TypeOK, Bits
<1> QED BY <1>1, <1>2, <1>8, <1>9, HostSteps

LEMMA RetriedTypes ==
  ASSUME TypeOK, NEW m \in First(toHost), ReadReset(m) \/ ReadResend(m)
  PROVE  TypeOK'
<1>1. Reading(m) /\ HostSame /\ UNCHANGED shown
  BY DEF ReadReset, ReadResend
<1>2. toHost' \in Seq(Packets) /\ Header("none") \in Payloads
  BY <1>1, Taken DEF Types
<1>3. expected' \in Bits /\ shown' \in Seq(Nat)
  BY <1>1 DEF ReadReset, ReadResend, TypeOK, Bits
<1>4. CASE ReadReset(m)
  <2>1. <<RESET>> \in Seq(Packets) /\ 0 \in Bits
    BY PacketTypes DEF Bits
  <2>2. Retry(<<RESET>>, 0, Header("none"))
    BY <1>4 DEF ReadReset
  <2>3. WriteOK
    BY <1>2, <2>1, <2>2, RetryTypes
  <2> QED BY <1>1, <1>2, <1>3, <2>3, HostSteps
<1>5. CASE ReadResend(m)
  <2>1. <<>> \in Seq(Packets) /\ nextToSend \in Bits
    BY DEF TypeOK, Bits
  <2>2. Retry(<<>>, nextToSend, Header("none"))
    BY <1>5 DEF ReadResend
  <2>3. WriteOK
    BY <1>2, <2>1, <2>2, RetryTypes
  <2> QED BY <1>1, <1>2, <1>3, <2>3, HostSteps
<1> QED BY <1>4, <1>5

\* The data packets that go no further.
LEMMA RefusedTypes ==
  ASSUME TypeOK, NEW m \in First(toHost),
         ReadBadHeader(m) \/ ReadStaleForAck(m) \/ ReadRepeated(m)
  PROVE  TypeOK'
<1>1. /\ Reading(m) /\ KeepWaiting(ahead) /\ HostSame
      /\ UNCHANGED <<out, after, nextToSend, expected, shown>>
  BY DEF ReadBadHeader, ReadStaleForAck, ReadRepeated
<1>2. /\ toHost' \in Seq(Packets)
      /\ m.id \in Bits /\ m.sync \in BOOLEAN /\ m.p \in Payloads /\ m.p.t \in Types
      /\ \A t \in Types : Header(t) \in Payloads
  BY <1>1, Taken
<1>3. /\ RESEND \in Packets /\ Ack(m.id) \in Packets
      /\ MatchingNone(m.id, m.sync \/ m.bad = "header") \in Packets
  BY <1>2, PacketTypes
<1>4. buf' \in Payloads
  BY <1>2 DEF ReadBadHeader, ReadStaleForAck, ReadRepeated, Types
<1>5. ahead \in BOOLEAN /\ nextToSend' \in Bits /\ expected' \in Bits /\ shown' \in Seq(Nat)
  BY <1>1 DEF TypeOK, Bits
<1>6. WaitOK
  BY <1>1, <1>5, WaitTypes, PayloadTypes
<1>7. \E a \in Packets : toTarget' = Append(toTarget, a)
  BY <1>3 DEF ReadBadHeader, ReadStaleForAck, ReadRepeated
<1>8. WriteOK
  BY <1>1, <1>4, <1>5, <1>6, <1>7, Answered
<1> QED BY <1>1, <1>2, <1>5, <1>8, HostSteps

LEMMA BadBodyTypes ==
  ASSUME TypeOK, NEW m \in First(toHost), ReadBadBody(m)
  PROVE  TypeOK'
<1>1. /\ Reading(m) /\ HostSame /\ buf' = Payload(m.p.t, 0)
      /\ toTarget' = Append(toTarget, RESEND)
      /\ UNCHANGED <<out, after, expected, shown>>
  BY DEF ReadBadBody
<1>2. toHost' \in Seq(Packets) /\ m.p.t \in Types
  BY <1>1, Taken
<1>3. PICK b \in Payloads : b = buf'
  BY <1>1, <1>2, PayloadTypes
<1>4. nextToSend' \in Bits
  <2>1. nextToSend' = 1 - nextToSend \/ nextToSend' = nextToSend
    BY DEF ReadBadBody
  <2>2. nextToSend \in Bits
    BY DEF TypeOK, Bits
  <2> QED BY <2>1, <2>2 DEF Bits
<1>5. WriteDone(ahead, b) \/ KeepWaiting(ahead)
  BY <1>3 DEF ReadBadBody
<1>6. ahead \in BOOLEAN /\ expected' \in Bits /\ shown' \in Seq(Nat)
  BY <1>1 DEF TypeOK, Bits
<1>7. WaitOK
  BY <1>5, <1>6, WaitTypes
<1>8. WriteOK
  BY <1>1, <1>3, <1>4, <1>7, Answered, PacketTypes
<1> QED BY <1>1, <1>2, <1>6, <1>8, HostSteps

LEMMA AcceptedTypes ==
  ASSUME TypeOK, NEW m \in First(toHost), Accepting(m)
  PROVE  /\ toHost' \in Seq(Packets) /\ m.p \in Payloads
         /\ m.p.n \in Nat /\ m.id \in Bits
         /\ buf' = m.p /\ expected' \in Bits /\ AfterAccept(m) \in Bits
<1>1. Reading(m) /\ expected' = 1 - m.id /\ buf' = m.p
  BY DEF Accepting
<1>2. /\ toHost' \in Seq(Packets) /\ m.p \in Payloads
      /\ m.p.n \in Nat /\ m.id \in Bits
  BY <1>1, Taken
<1>3. \A x \in Bits : 1 - x \in Bits
  BY DEF Bits
<1>4. nextToSend \in Bits /\ 0 \in Bits
  BY DEF TypeOK, Bits
<1>5. AfterAccept(m) \in Bits
  BY <1>3, <1>4 DEF AfterAccept
<1> QED BY <1>1, <1>2, <1>3, <1>5

LEMMA ReadPrintTypes ==
  ASSUME TypeOK, NEW m \in First(toHost), ReadPrint(m)
  PROVE  TypeOK'
<1>1. /\ Accepting(m) /\ HostSame /\ UNCHANGED <<out, after>>
      /\ shown' = Append(shown, m.p.n) /\ nextToSend' = AfterAccept(m)
      /\ toTarget' = Append(toTarget, Ack(m.id))
      /\ WriteDone(ahead, m.p) \/ KeepWaiting(ahead)
  BY DEF ReadPrint
<1>2. /\ toHost' \in Seq(Packets) /\ m.p \in Payloads /\ m.p.n \in Nat /\ m.id \in Bits
      /\ buf' \in Payloads /\ expected' \in Bits /\ nextToSend' \in Bits
  BY <1>1, AcceptedTypes
<1>3. ahead \in BOOLEAN /\ shown' \in Seq(Nat)
  BY <1>1, <1>2 DEF TypeOK
<1>4. WaitOK
  BY <1>1, <1>2, <1>3, WaitTypes
<1>5. WriteOK
  BY <1>1, <1>2, <1>4, Answered, PacketTypes
<1> QED BY <1>1, <1>2, <1>3, <1>5, HostSteps

LEMMA ReadFileIoTypes ==
  ASSUME TypeOK, NEW m \in First(toHost), ReadFileIo(m)
  PROVE  TypeOK'
<1>1. /\ Accepting(m) /\ HostSame
      /\ shown' = Append(shown, m.p.n) /\ nextToSend' = AfterAccept(m)
      /\ out' = Payload("file", m.p.n)
      /\ toTarget' = toTarget \o <<Ack(m.id), Data(nextToSend', out')>>
      /\ after' = IF hfor = "ack" THEN after ELSE [type |-> hfor, inside |-> TRUE]
      /\ hfor' = "ack" /\ UNCHANGED <<hpc, ahead, seen, answered>>
  BY DEF ReadFileIo
<1>2. /\ toHost' \in Seq(Packets) /\ m.p.n \in Nat /\ m.id \in Bits
      /\ buf' \in Payloads /\ expected' \in Bits /\ nextToSend' \in Bits
  BY <1>1, AcceptedTypes
<1>3. PICK n \in Bits, p \in Payloads : n = nextToSend' /\ p = out'
  BY <1>1, <1>2, PayloadTypes DEF Types
<1>4. Ack(m.id) \in Packets /\ Data(n, p) \in Packets
  BY <1>2, PacketTypes
<1>5. toTarget' \in Seq(Packets)
  <2>1. toTarget' = toTarget \o <<Ack(m.id), Data(n, p)>>
    BY <1>1, <1>3
  <2>2. toTarget \in Seq(Packets)
    BY DEF TypeOK
  <2> QED BY <1>4, <2>1, <2>2
<1>6. after' \in [type : {"manip", "state"}, inside : BOOLEAN]
  BY <1>1 DEF TypeOK
<1>7. WriteOK
  BY <1>1, <1>2, <1>3, <1>5, <1>6 DEF WriteOK, WaitOK, TypeOK, Hpcs
<1>8. shown' \in Seq(Nat)
  BY <1>1, <1>2 DEF TypeOK
<1> QED BY <1>1, <1>2, <1>7, <1>8, HostSteps

LEMMA ReadForEngineTypes ==
  ASSUME TypeOK, NEW m \in First(toHost), ReadForEngine(m)
  PROVE  TypeOK'
<1>1. /\ Accepting(m) /\ HostSame /\ UNCHANGED <<out, after, shown>>
      /\ m.p.t \in {"state", "manip"} /\ nextToSend' = AfterAccept(m)
      /\ toTarget' = Append(toTarget, Ack(m.id))
  BY DEF ReadForEngine
<1>2. /\ toHost' \in Seq(Packets) /\ m.p \in Payloads /\ m.id \in Bits
      /\ buf' \in Payloads /\ expected' \in Bits /\ nextToSend' \in Bits
  BY <1>1, AcceptedTypes
<1>3. ahead \in BOOLEAN /\ shown' \in Seq(Nat)
  BY <1>1 DEF TypeOK
<1>4. \/ WriteDone(TRUE, m.p) \/ KeepWaiting(ahead)
      \/ hfor \in {"manip", "state"} /\ Deliver(hfor, m.p)
  BY <1>1 DEF ReadForEngine
<1>5. WaitOK
  BY <1>2, <1>3, <1>4, WaitTypes
<1>6. WriteOK
  BY <1>1, <1>2, <1>5, Answered, PacketTypes
<1> QED BY <1>1, <1>2, <1>3, <1>6, HostSteps

LEMMA HostTimesOutTypes ==
  ASSUME TypeOK, HostTimesOut
  PROVE  TypeOK'
<1>1. /\ Retry(<<>>, nextToSend, buf) /\ HostSame
      /\ UNCHANGED <<expected, toHost, shown>>
  BY DEF HostTimesOut
<1>2. <<>> \in Seq(Packets) /\ nextToSend \in Bits /\ buf \in Payloads
  BY DEF TypeOK, Bits
<1>3. WriteOK
  BY <1>1, <1>2, RetryTypes
<1>4. expected' \in Bits /\ toHost' \in Seq(Packets) /\ shown' \in Seq(Nat)
  BY <1>1 DEF TypeOK, Bits
<1> QED BY <1>1, <1>3, <1>4, HostSteps

-----------------------------------------------------------------------------
(* The engine, break-ins, Synchronize and the user. *)

LEMMA InitTypes == Init => TypeOK
<1> SUFFICES ASSUME Init PROVE TypeOK
  OBVIOUS
<1>1. NoData \in Payloads /\ Payload("go", 0) \in Payloads
  BY PayloadTypes DEF Types
<1>2. <<>> \in Seq(Packets) /\ Then("state") \in [type : {"manip", "state"}, inside : BOOLEAN]
  BY DEF Then
<1>3. HostOK
  <2>1. /\ hpc \in Hpcs /\ hfor \in {"ack", "manip", "state"}
        /\ nextToSend \in Bits /\ expected \in Bits /\ dataLoops \in 0 .. 3
    BY DEF Init, Hpcs, Bits
  <2>2. /\ after \in [type : {"manip", "state"}, inside : BOOLEAN]
        /\ out \in Payloads /\ req \in Payloads /\ buf \in Payloads
    BY <1>1, <1>2 DEF Init
  <2>3. ahead \in BOOLEAN /\ resync \in BOOLEAN /\ breakIn \in BOOLEAN
    BY DEF Init
  <2> QED BY <2>1, <2>2, <2>3 DEF HostOK
<1>4. TargetOK /\ LinesOK
  BY <1>1, <1>2 DEF Init, TargetOK, LinesOK, Bits
<1>5. ToldOK /\ LearnedOK /\ BoundsOK
  BY DEF Init, ToldOK, LearnedOK, BoundsOK
<1> QED BY <1>3, <1>4, <1>5, Parts

\* What the engine writes.
LEMMA EngineTypes ==
  ASSUME TypeOK, EngineAsks \/ KdContinue
  PROVE  TypeOK'
<1>1. asked \in Nat
  BY DEF TypeOK
<1>2. \E p \in Payloads : out' = p /\ req' = p
  <2>1. CASE EngineAsks
    BY <1>1, <2>1, PayloadTypes DEF EngineAsks, Types
  <2>2. CASE KdContinue
    BY <2>2, PayloadTypes DEF KdContinue, Types
  <2> QED BY <2>1, <2>2
<1>3. PICK p \in Payloads : out' = p /\ req' = p
  BY <1>2
<1>4. toTarget' = Append(toTarget, Data(nextToSend, p))
  BY <1>3 DEF EngineAsks, KdContinue
<1>5. Data(nextToSend, p) \in Packets
  BY PacketTypes DEF TypeOK, Bits
<1>6. toTarget' \in Seq(Packets) /\ toHost' \in Seq(Packets)
  BY <1>4, <1>5 DEF TypeOK, EngineAsks, KdContinue
<1>7. HostOK'
  <2>1. /\ after' = Then("manip") \/ after' = Then("state")
        /\ hpc' = "wait" /\ hfor' = "ack"
        /\ UNCHANGED <<nextToSend, expected, ahead, buf, resync, breakIn, dataLoops>>
    BY DEF EngineAsks, KdContinue
  <2>2. /\ Then("manip") \in [type : {"manip", "state"}, inside : BOOLEAN]
        /\ Then("state") \in [type : {"manip", "state"}, inside : BOOLEAN]
    BY DEF Then
  <2>3. after' \in [type : {"manip", "state"}, inside : BOOLEAN]
    BY <2>1, <2>2
  <2> QED BY <1>3, <2>1, <2>3 DEF TypeOK, HostOK, Hpcs, Bits
<1>8. TargetOK' /\ ToldOK' /\ BoundsOK'
  BY Unmoved DEF EngineAsks, KdContinue
<1>9. LearnedOK'
  BY <1>1 DEF TypeOK, LearnedOK, EngineAsks, KdContinue, learned
<1> QED BY <1>6, <1>7, <1>8, <1>9, PartsNext DEF LinesOK

LEMMA BreakInTypes ==
  ASSUME TypeOK, SendBreakIn
  PROVE  TypeOK'
<1>1. ahead \in BOOLEAN /\ buf \in Payloads
  BY DEF TypeOK
<1>2. WaitOK
  BY <1>1, WaitTypes DEF SendBreakIn
<1>3. toTarget' \in Seq(Packets) /\ toHost' \in Seq(Packets)
  BY PacketTypes DEF TypeOK, SendBreakIn
<1>4. HostOK' /\ LearnedOK'
  BY <1>2 DEF TypeOK, HostOK, LearnedOK, WaitOK, SendBreakIn, Bits
<1>5. TargetOK' /\ ToldOK' /\ BoundsOK'
  BY Unmoved DEF SendBreakIn
<1> QED BY <1>3, <1>4, <1>5, PartsNext DEF LinesOK

\* What Synchronize leaves alone is as it was.
LEMMA SyncSteps ==
  ASSUME TypeOK, SyncSame, hpc' \in Hpcs, UNCHANGED <<hfor, nextToSend, ahead, buf>>,
         UNCHANGED <<seen, answered>>, expected' \in Bits, dataLoops' \in 0 .. 3,
         resync' \in BOOLEAN, breakIn' \in BOOLEAN,
         toTarget' \in Seq(Packets), toHost' \in Seq(Packets)
  PROVE  TypeOK'
<1>1. TargetOK' /\ ToldOK' /\ BoundsOK'
  BY Unmoved DEF SyncSame
<1>2. HostOK' /\ LearnedOK'
  BY DEF TypeOK, HostOK, LearnedOK, SyncSame, Bits
<1> QED BY <1>1, <1>2, PartsNext DEF LinesOK

LEMMA StartSyncTypes ==
  ASSUME TypeOK, StartSync
  PROVE  TypeOK'
<1>1. toTarget' \in Seq(Packets)
  BY PacketTypes DEF TypeOK, StartSync
<1>2. /\ SyncSame /\ hpc' = "sync" /\ resync' = FALSE /\ dataLoops' = 0
      /\ UNCHANGED <<hfor, nextToSend, expected, ahead, buf, breakIn, toHost, seen, answered>>
  BY DEF StartSync
<1>3. /\ hpc' \in Hpcs
      /\ resync' \in BOOLEAN /\ breakIn' \in BOOLEAN
  BY <1>2 DEF TypeOK, Hpcs
<1>4. dataLoops' \in 0 .. 3
  BY <1>2
<1>5. expected' \in Bits /\ toHost' \in Seq(Packets)
  BY <1>2 DEF TypeOK, Bits
<1> QED BY <1>1, <1>2, <1>3, <1>4, <1>5, SyncSteps

LEMMA SyncDoneTypes ==
  ASSUME TypeOK, SyncDone
  PROVE  TypeOK'
<1>1. toHost' \in Seq(Packets)
  BY LineTypes DEF TypeOK, SyncDone
<1> QED BY <1>1, SyncSteps DEF SyncDone, TypeOK, Hpcs, Bits

LEMMA SyncEatsTypes ==
  ASSUME TypeOK, SyncEats
  PROVE  TypeOK'
<1>1. toHost' \in Seq(Packets)
  BY LineTypes DEF TypeOK, SyncEats
<1>2. /\ SyncSame
      /\ UNCHANGED <<hfor, nextToSend, expected, ahead, buf, resync, breakIn, seen, answered>>
      /\ hpc' \in {"sync", "eat"}
      /\ dataLoops' = (dataLoops + 1) % 4 \/ dataLoops' = dataLoops
      /\ toTarget' = Append(toTarget, RESET) \/ toTarget' = toTarget
  BY DEF SyncEats
<1>3. dataLoops' \in 0 .. 3
  <2>1. dataLoops \in 0 .. 3
    BY DEF TypeOK
  <2>2. (dataLoops + 1) % 4 \in 0 .. 3
    BY <2>1
  <2> QED BY <1>2, <2>1, <2>2
<1>4. toTarget' \in Seq(Packets)
  <2>1. toTarget \in Seq(Packets) /\ RESET \in Packets
    BY PacketTypes DEF TypeOK
  <2> QED BY <1>2, <2>1
<1> QED BY <1>1, <1>2, <1>3, <1>4, SyncSteps DEF TypeOK, Hpcs, Bits

LEMMA SyncTimesOutTypes ==
  ASSUME TypeOK, SyncTimesOut
  PROVE  TypeOK'
<1>1. toTarget' \in Seq(Packets)
  BY PacketTypes DEF TypeOK, SyncTimesOut
<1>2. breakIn' \in BOOLEAN
  BY DEF SyncTimesOut
<1> QED BY <1>1, <1>2, SyncSteps DEF SyncTimesOut, TypeOK, Hpcs, Bits

LEMMA SyncReturnsTypes ==
  ASSUME TypeOK, SyncReturns
  PROVE  TypeOK'
<1>1. /\ hfor \in {"ack", "manip", "state"} /\ ahead \in BOOLEAN
      /\ out \in Payloads /\ req \in Payloads /\ buf \in Payloads
      /\ toTarget \in Seq(Packets)
      /\ after \in [type : {"manip", "state"}, inside : BOOLEAN]
  BY DEF TypeOK
<1>2. Data(0, out) \in Packets /\ Data(0, req) \in Packets
  BY <1>1, PacketTypes DEF Bits
<1>3. /\ nextToSend' = 0 /\ buf' = buf
      /\ UNCHANGED <<req, expected, resync, breakIn, dataLoops, target, toHost, told, shown,
                     asked, bounds>>
  BY DEF SyncReturns
<1>4. ASSUME hfor = "ack" PROVE WriteOK
  <2>1. /\ toTarget' = Append(toTarget, Data(0, out))
        /\ hpc' = "wait" /\ UNCHANGED <<hfor, ahead, out, after, seen, answered>>
    BY <1>4 DEF SyncReturns
  <2>2. toTarget' \in Seq(Packets)
    BY <1>1, <1>2, <2>1
  <2> QED BY <1>1, <1>3, <2>1, <2>2 DEF WriteOK, WaitOK, TypeOK, Hpcs, Bits
<1>5. ASSUME hfor = "manip" PROVE WriteOK
  <2>1. /\ toTarget' = Append(toTarget, Data(0, req))
        /\ out' = req /\ after' = Then("manip")
        /\ hpc' = "wait" /\ hfor' = "ack" /\ UNCHANGED <<ahead, seen, answered>>
    BY <1>5 DEF SyncReturns
  <2>2. toTarget' \in Seq(Packets)
    BY <1>1, <1>2, <2>1
  <2>3. after' \in [type : {"manip", "state"}, inside : BOOLEAN]
    BY <2>1 DEF Then
  <2> QED BY <1>1, <1>3, <2>1, <2>2, <2>3 DEF WriteOK, WaitOK, TypeOK, Hpcs, Bits
<1>6. ASSUME hfor = "state" PROVE WriteOK
  <2>1. WaitForPacket("state", ahead, buf) /\ UNCHANGED <<toTarget, out, after>>
    BY <1>6 DEF SyncReturns
  <2>2. WaitOK
    BY <1>1, <2>1, WaitTypes
  <2> QED BY <1>1, <1>3, <2>1, <2>2 DEF WriteOK, Bits
<1>7. WriteOK
  BY <1>1, <1>4, <1>5, <1>6
<1>8. HostSame /\ expected' \in Bits /\ toHost' \in Seq(Packets) /\ shown' \in Seq(Nat)
  BY <1>3 DEF HostSame, TypeOK, Bits
<1> QED BY <1>7, <1>8, HostSteps

LEMMA UserTypes ==
  ASSUME TypeOK, RequestBreakIn \/ RequestResync
  PROVE  TypeOK'
<1>1. breakIns + 1 \in Nat /\ resyncs + 1 \in Nat
  BY DEF TypeOK
<1>2. BoundsOK'
  BY <1>1 DEF BoundsOK, TypeOK, RequestBreakIn, RequestResync
<1>3. HostOK'
  BY DEF HostOK, TypeOK, RequestBreakIn, RequestResync, Hpcs, Bits
<1>4. TargetOK' /\ ToldOK' /\ LearnedOK' /\ LinesOK'
  BY Unmoved DEF RequestBreakIn, RequestResync, TypeOK, LinesOK
<1> QED BY <1>2, <1>3, <1>4, PartsNext

-----------------------------------------------------------------------------
(* The target and the line. *)

LEMMA TargetSendsTypes ==
  ASSUME TypeOK, NEW p \in Payloads, NEW id \in Bits, NEW ms \in Seq(Packets),
         tsync' \in BOOLEAN, TargetSends(p, id, ms)
  PROVE  /\ tout' \in Payloads /\ tlast' \in Payloads /\ tpc' = "send"
         /\ toHost' \in Seq(Packets)
<1>1. PICK sync \in BOOLEAN : sync = tsync'
  OBVIOUS
<1>2. Packet("data", id, sync, p) \in Packets
  BY PacketTypes
<1>3. toHost' = toHost \o Append(ms, Packet("data", id, sync, p))
  BY <1>1 DEF TargetSends
<1>4. toHost \in Seq(Packets) /\ tlast \in Payloads
  BY DEF TypeOK
<1>5. toHost' \in Seq(Packets)
  BY <1>2, <1>3, <1>4
<1> QED BY <1>4, <1>5 DEF TargetSends

\* What the target may change in a step.
LEMMA TargetSteps ==
  ASSUME TypeOK, TargetSame, tpc' \in {"run", "send", "receive"},
         tout' \in Payloads, tlast' \in Payloads, tnext' \in Bits, texp' \in Bits,
         tsync' \in BOOLEAN, toTarget' \in Seq(Packets), toHost' \in Seq(Packets),
         breaks' \in Nat, printed' \in Nat, carriedOut' \in Nat
  PROVE  TypeOK'
<1>1. HostOK' /\ LearnedOK' /\ BoundsOK'
  BY Unmoved DEF TargetSame
<1> QED BY <1>1, PartsNext DEF TargetOK, LinesOK, ToldOK

LEMMA TargetSpeaksTypes ==
  ASSUME TypeOK, TargetPrints \/ TargetBreaks
  PROVE  TypeOK'
<1>1. /\ breaks + 1 \in Nat /\ printed + 1 \in Nat /\ breaks \in Nat /\ printed \in Nat
      /\ tnext \in Bits /\ tsync \in BOOLEAN /\ <<>> \in Seq(Packets)
  BY DEF TypeOK, Bits
<1>2. \E p \in Payloads : TargetSends(p, tnext, <<>>)
  <2>1. CASE TargetPrints
    <3>1. PICK t \in Lines : TargetSends(Payload(t, printed + 1), tnext, <<>>)
      BY <2>1 DEF TargetPrints
    <3>2. t \in Types
      BY <3>1, LinesAssumption DEF Types
    <3> QED BY <1>1, <3>1, <3>2, PayloadTypes
  <2>2. CASE TargetBreaks
    <3>1. "state" \in Types
      BY DEF Types
    <3> QED BY <1>1, <2>2, <3>1, PayloadTypes DEF TargetBreaks
  <2> QED BY <2>1, <2>2
<1>3. tsync' \in BOOLEAN
  BY <1>1 DEF TargetPrints, TargetBreaks
<1>4. /\ tout' \in Payloads /\ tlast' \in Payloads /\ tpc' = "send"
      /\ toHost' \in Seq(Packets)
  BY <1>1, <1>2, <1>3, TargetSendsTypes
<1>5. /\ TargetSame /\ UNCHANGED <<tnext, texp, toTarget, carriedOut>>
      /\ breaks' \in Nat /\ printed' \in Nat
  BY <1>1 DEF TargetPrints, TargetBreaks
<1> QED BY <1>3, <1>4, <1>5, TargetSteps DEF TypeOK, Bits

\* The packet the target reads.
LEMMA TargetTaken ==
  ASSUME TypeOK, NEW m \in First(toTarget), TargetTakes
  PROVE  /\ m \in Packets /\ toTarget' \in Seq(Packets)
         /\ m.id \in Bits /\ m.p \in Payloads /\ m.p.n \in Nat /\ Ack(m.id) \in Packets
<1>1. toTarget \in Seq(Packets)
  BY DEF TypeOK
<1>2. m \in Packets /\ toTarget' \in Seq(Packets)
  BY <1>1, LineTypes DEF TargetTakes
<1> QED BY <1>2, PacketTypes

LEMMA TargetPollsTypes ==
  ASSUME TypeOK, NEW m \in First(toTarget), TargetPolls(m)
  PROVE  TypeOK'
<1>1. /\ TargetTakes /\ UNCHANGED tsync
      /\ TargetSame /\ UNCHANGED <<tnext, texp, printed, carriedOut>>
  BY DEF TargetPolls
<1>2. toTarget' \in Seq(Packets)
  BY <1>1, TargetTaken
<1>3. /\ breaks + 1 \in Nat /\ tnext \in Bits /\ tsync' \in BOOLEAN
      /\ <<>> \in Seq(Packets) /\ "state" \in Types
  BY <1>1 DEF TypeOK, Bits, Types
<1>4. CASE m.k = "breakin" /\ breaks < MaxBreaks
  <2>1. breaks' = breaks + 1 /\ TargetSends(Payload("state", breaks + 1), tnext, <<>>)
    BY <1>4 DEF TargetPolls
  <2>2. Payload("state", breaks + 1) \in Payloads
    BY <1>3, PayloadTypes
  <2>3. /\ tout' \in Payloads /\ tlast' \in Payloads /\ tpc' = "send"
        /\ toHost' \in Seq(Packets)
    BY <1>3, <2>1, <2>2, TargetSendsTypes
  <2> QED BY <1>1, <1>2, <1>3, <2>1, <2>3, TargetSteps DEF TypeOK, Bits
<1>5. CASE ~(m.k = "breakin" /\ breaks < MaxBreaks)
  <2>1. UNCHANGED <<breaks, tpc, tout, tlast, toHost>>
    BY <1>5 DEF TargetPolls
  <2> QED BY <1>1, <1>2, <1>3, <2>1, TargetSteps DEF TypeOK, Bits
<1> QED BY <1>4, <1>5

LEMMA TargetResetsTypes ==
  ASSUME TypeOK, NEW m \in First(toTarget), TargetResets(m)
  PROVE  TypeOK'
<1>1. /\ TargetTakes /\ tnext' = 0 /\ tsync' = FALSE /\ texp' = 0
      /\ TargetSame /\ UNCHANGED told
      /\ \E p \in {tout, tlast} : TargetSends(p, 0, <<RESET>>)
  BY DEF TargetResets
<1>2. tout \in Payloads /\ tlast \in Payloads /\ <<RESET>> \in Seq(Packets) /\ 0 \in Bits
  BY PacketTypes DEF TypeOK, Bits
<1>3. toTarget' \in Seq(Packets)
  BY <1>1, TargetTaken
<1>4. /\ tout' \in Payloads /\ tlast' \in Payloads /\ tpc' = "send"
      /\ toHost' \in Seq(Packets)
  BY <1>1, <1>2, TargetSendsTypes
<1>5. breaks' \in Nat /\ printed' \in Nat /\ carriedOut' \in Nat
  BY <1>1 DEF told, TypeOK
<1> QED BY <1>1, <1>2, <1>3, <1>4, <1>5, TargetSteps

\* The three ways the target goes on: it sends, writes one packet, or writes none.
LEMMA TargetReadsSendingTypes ==
  ASSUME TypeOK, NEW m \in First(toTarget), TargetReadsSending(m)
  PROVE  TypeOK'
<1>1. TargetTakes /\ TargetSame /\ UNCHANGED <<texp, told>>
  BY DEF TargetReadsSending
<1>2. /\ toTarget' \in Seq(Packets) /\ Ack(m.id) \in Packets /\ RESEND \in Packets
      /\ MatchingNone(m.id, TRUE) \in Packets
  BY <1>1, TargetTaken, PacketTypes
<1>3. /\ tout \in Payloads /\ tlast \in Payloads /\ tnext \in Bits /\ texp \in Bits
      /\ tsync \in BOOLEAN /\ toHost \in Seq(Packets) /\ <<>> \in Seq(Packets)
      /\ tpc \in {"run", "send", "receive"}
  BY DEF TypeOK, Bits
<1>4. breaks' \in Nat /\ printed' \in Nat /\ carriedOut' \in Nat /\ texp' \in Bits
  BY <1>1, <1>3 DEF told, TypeOK
<1>5. CASE m.k = "resend"
  <2>1. UNCHANGED <<tsync, tnext>> /\ TargetSends(tout, tnext, <<>>)
    BY <1>5 DEF TargetReadsSending
  <2>2. /\ tout' \in Payloads /\ tlast' \in Payloads /\ tpc' = "send"
        /\ toHost' \in Seq(Packets)
    BY <1>3, <2>1, TargetSendsTypes
  <2> QED BY <1>1, <1>2, <1>3, <1>4, <2>1, <2>2, TargetSteps
<1>6. CASE m.k # "resend"
  <2>1. /\ \/ toHost' = toHost
           \/ \E a \in Packets : toHost' = Append(toHost, a)
        /\ UNCHANGED <<tout, tlast>> /\ (Sent \/ UNCHANGED <<tpc, tnext, tsync>>)
    BY <1>2, <1>6 DEF TargetReadsSending
  <2>2. toHost' \in Seq(Packets)
    BY <1>2, <1>3, <2>1
  <2>3. tpc' \in {"run", "send", "receive"} /\ tnext' \in Bits /\ tsync' \in BOOLEAN
    <3>1. 1 - tnext \in Bits
      BY <1>3 DEF Bits
    <3> QED BY <1>3, <2>1, <3>1 DEF Sent
  <2> QED BY <1>1, <1>2, <1>3, <1>4, <2>1, <2>2, <2>3, TargetSteps
<1> QED BY <1>5, <1>6

LEMMA TargetReadsReceivingTypes ==
  ASSUME TypeOK, NEW m \in First(toTarget), TargetReadsReceiving(m)
  PROVE  TypeOK'
<1>1. TargetTakes /\ TargetSame /\ UNCHANGED <<tnext, tsync, breaks, printed>>
  BY DEF TargetReadsReceiving
<1>2. /\ toTarget' \in Seq(Packets) /\ Ack(m.id) \in Packets /\ RESEND \in Packets
      /\ m.p \in Payloads /\ m.p.n \in Nat
  BY <1>1, TargetTaken, PacketTypes
<1>3. /\ tout \in Payloads /\ tlast \in Payloads /\ tnext \in Bits /\ texp \in Bits
      /\ tsync' \in BOOLEAN /\ toHost \in Seq(Packets) /\ carriedOut \in Nat
      /\ tpc \in {"run", "send", "receive"}
  BY <1>1 DEF TypeOK, Bits
<1>4. texp' = 1 - texp \/ texp' = texp
  BY DEF TargetReadsReceiving
<1>5. 1 - texp \in Bits
  BY <1>3 DEF Bits
<1>6. /\ texp' \in Bits /\ tnext' \in Bits /\ breaks' \in Nat /\ printed' \in Nat
      /\ carriedOut' \in Nat
  BY <1>1, <1>2, <1>3, <1>4, <1>5 DEF TargetReadsReceiving, TypeOK
<1>7. /\ tout' \in Payloads /\ tlast' \in Payloads /\ tpc' \in {"run", "send", "receive"}
      /\ toHost' \in Seq(Packets)
  <2>1. \/ TargetSends(m.p, tnext, <<Ack(m.id)>>) \/ TargetSends(tlast, tnext, <<>>)
        \/ /\ \/ toHost' = toHost
              \/ toHost' = Append(toHost, RESEND) \/ toHost' = Append(toHost, Ack(m.id))
           /\ tpc' = "run" \/ tpc' = tpc
           /\ UNCHANGED <<tout, tlast>>
    BY DEF TargetReadsReceiving
  <2>2. <<Ack(m.id)>> \in Seq(Packets) /\ <<>> \in Seq(Packets)
    BY <1>2
  <2>3. CASE TargetSends(m.p, tnext, <<Ack(m.id)>>)
    BY <1>2, <1>3, <2>2, <2>3, TargetSendsTypes
  <2>4. CASE TargetSends(tlast, tnext, <<>>)
    BY <1>3, <2>2, <2>4, TargetSendsTypes
  <2>5. CASE /\ \/ toHost' = toHost
                \/ toHost' = Append(toHost, RESEND) \/ toHost' = Append(toHost, Ack(m.id))
             /\ tpc' = "run" \/ tpc' = tpc
             /\ UNCHANGED <<tout, tlast>>
    <3>1. toHost' \in Seq(Packets)
      <4>1. Append(toHost, RESEND) \in Seq(Packets) /\ Append(toHost, Ack(m.id)) \in Seq(Packets)
        BY <1>2, <1>3
      <4> QED BY <1>3, <2>5, <4>1
    <3>2. tpc' \in {"run", "send", "receive"}
      BY <1>3, <2>5
    <3> QED BY <1>3, <2>5, <3>1, <3>2
  <2> QED BY <2>1, <2>3, <2>4, <2>5
<1> QED BY <1>1, <1>2, <1>3, <1>6, <1>7, TargetSteps

LEMMA TargetTimesOutTypes ==
  ASSUME TypeOK, TargetTimesOut
  PROVE  TypeOK'
<1>1. /\ TargetSame /\ TargetSends(tout, tnext, <<>>)
      /\ UNCHANGED <<tsync, tnext, texp, toTarget, told>>
  BY DEF TargetTimesOut
<1>2. /\ tout \in Payloads /\ tnext \in Bits /\ tsync' \in BOOLEAN
      /\ <<>> \in Seq(Packets)
  BY <1>1 DEF TypeOK, Bits
<1>3. /\ tout' \in Payloads /\ tlast' \in Payloads /\ tpc' = "send"
      /\ toHost' \in Seq(Packets)
  BY <1>1, <1>2, TargetSendsTypes
<1> QED BY <1>1, <1>2, <1>3, TargetSteps DEF told, TypeOK, Bits

\* One packet less, or one that has come to harm.
LEMMA HarmTypes ==
  ASSUME NEW q \in Seq(Packets), NEW i \in DOMAIN q, NEW part \in {"header", "body"}
  PROVE  [q EXCEPT ![i].bad = part] \in Seq(Packets)
<1>1. q \in [1 .. Len(q) -> Packets] /\ Len(q) \in Nat /\ i \in 1 .. Len(q)
  OBVIOUS
<1>2. [q[i] EXCEPT !.bad = part] \in Packets
  BY <1>1, PacketTypes
<1>3. [q EXCEPT ![i].bad = part] \in [1 .. Len(q) -> Packets]
  BY <1>1, <1>2
<1> QED BY <1>1, <1>3

LEMMA LineStepsTypes ==
  ASSUME TypeOK, Lose \/ Damage
  PROVE  TypeOK'
<1>1. toTarget \in Seq(Packets) /\ toHost \in Seq(Packets)
  BY DEF TypeOK
<1>2. toTarget' \in Seq(Packets) /\ toHost' \in Seq(Packets)
  <2>1. CASE Lose
    BY <1>1, <2>1, LineTypes DEF Lose
  <2>2. CASE Damage
    <3>1. PICK part \in {"header", "body"} :
            \/ \E i \in DOMAIN toHost :
                 toHost' = [toHost EXCEPT ![i].bad = part] /\ UNCHANGED toTarget
            \/ \E i \in DOMAIN toTarget :
                 toTarget' = [toTarget EXCEPT ![i].bad = part] /\ UNCHANGED toHost
      BY <2>2 DEF Damage
    <3>2. ASSUME NEW i \in DOMAIN toHost, toHost' = [toHost EXCEPT ![i].bad = part]
          PROVE  toHost' \in Seq(Packets)
      BY <1>1, <3>2, HarmTypes
    <3>3. ASSUME NEW i \in DOMAIN toTarget, toTarget' = [toTarget EXCEPT ![i].bad = part]
          PROVE  toTarget' \in Seq(Packets)
      BY <1>1, <3>3, HarmTypes
    <3> QED BY <1>1, <3>1, <3>2, <3>3
  <2> QED BY <2>1, <2>2
<1>3. faults + 1 \in Nat
  BY DEF TypeOK
<1>4. BoundsOK'
  BY <1>3 DEF BoundsOK, TypeOK, Lose, Damage
<1>5. HostOK' /\ TargetOK' /\ ToldOK' /\ LearnedOK'
  BY Unmoved DEF Lose, Damage
<1> QED BY <1>2, <1>4, <1>5, PartsNext DEF LinesOK

LEMMA NextTypes ==
  ASSUME TypeOK, [Next]_vars
  PROVE  TypeOK'
<1>1. CASE EngineAsks \/ KdContinue
  BY <1>1, EngineTypes
<1>2. CASE HostReads
  <2>1. PICK m \in First(toHost) :
          \/ ReadAck(m) \/ ReadReset(m) \/ ReadResend(m) \/ ReadBadHeader(m)
          \/ ReadStaleForAck(m) \/ ReadBadBody(m) \/ ReadRepeated(m)
          \/ ReadPrint(m) \/ ReadFileIo(m) \/ ReadForEngine(m)
    BY <1>2 DEF HostReads
  <2> QED BY <2>1, AckTypes, RetriedTypes, RefusedTypes, BadBodyTypes, ReadPrintTypes,
             ReadFileIoTypes, ReadForEngineTypes
<1>3. CASE HostTimesOut
  BY <1>3, HostTimesOutTypes
<1>4. CASE SendBreakIn
  BY <1>4, BreakInTypes
<1>5. CASE Synchronize
  BY <1>5, StartSyncTypes, SyncDoneTypes, SyncReturnsTypes, SyncEatsTypes,
     SyncTimesOutTypes DEF Synchronize
<1>6. CASE RequestBreakIn \/ RequestResync
  BY <1>6, UserTypes
<1>7. CASE TargetPrints \/ TargetBreaks
  BY <1>7, TargetSpeaksTypes
<1>8. CASE TargetReads
  <2>1. PICK m \in First(toTarget) :
          \/ TargetPolls(m) \/ TargetResets(m)
          \/ TargetReadsSending(m) \/ TargetReadsReceiving(m)
    BY <1>8 DEF TargetReads
  <2> QED BY <2>1, TargetPollsTypes, TargetResetsTypes, TargetReadsSendingTypes,
             TargetReadsReceivingTypes
<1>9. CASE TargetTimesOut
  BY <1>9, TargetTimesOutTypes
<1>10. CASE Lose \/ Damage
  BY <1>10, LineStepsTypes
<1>11. CASE UNCHANGED vars
  BY <1>11, Unmoved, PartsNext DEF vars, TypeOK, LinesOK
<1> QED BY <1>1, <1>2, <1>3, <1>4, <1>5, <1>6, <1>7, <1>8, <1>9, <1>10, <1>11 DEF Next

\* Ids stay ids and packets packets, through every loss, repetition, early timeout and
\* resynchronization: what WriteDataPacket and WaitForPacket do with
\* m_NextPacketToSend, m_PacketExpected and the packet buffer never leaves them with a
\* value the other end could not send.
THEOREM TransportTypes == Spec => []TypeOK
<1>1. Init => TypeOK
  BY InitTypes
<1>2. TypeOK /\ [Next]_vars => TypeOK'
  BY NextTypes
<1> QED BY <1>1, <1>2, PTL DEF Spec
=============================================================================
