---------------------------- MODULE KdTransport ----------------------------
(***************************************************************************)
(* The debugger's end of the serial link to a kernel that is debugged      *)
(* (src/debuggers/ntsd64/dbgkdtrans.cpp): packets with an alternating id,  *)
(* acknowledgements, resends, read-ahead, and the resynchronization of     *)
(* both ends.  A packet may be lost or damaged; the line keeps order.      *)
(*                                                                         *)
(* The target's end is not part of these sources.  It is modelled as what  *)
(* this end takes it to be, its mirror image with one packet in flight.    *)
(***************************************************************************)
EXTENDS Integers, Sequences, FiniteSets

CONSTANTS
  Lines,        \* what a running target sends: "print", "file" (which is answered)
  MaxBreaks, MaxPrints, MaxAsks,   \* bounds on what target and engine do
  MaxBreakIns, MaxResyncs,         \* bounds on what the user asks for
  MaxFaults,                       \* bound on packets lost or damaged
  MaxLine,                         \* bound on packets in flight one way
  Early         \* whether a timeout may fire before the answer can have come

ASSUME LinesAssumption == Lines \subseteq {"print", "file"}

VARIABLES
  hpc,          \* the engine, or where in the transport its thread is
  hfor,         \* what WaitForPacket is called for
  after,        \* what is waited for once WriteDataPacket is done, and whether it was
                \* called inside that wait
  out,          \* the data WriteDataPacket is sending
  req,          \* the engine's last request
  nextToSend, expected, \* m_NextPacketToSend and m_PacketExpected
  ahead,        \* m_ValidUnaccessedPacket
  buf,          \* s_PacketHeader and s_Packet, as the last packet left them
  resync, breakIn,      \* m_Resync and m_BreakIn
  dataLoops,    \* DataLoops of Synchronize
  tpc, tout, tlast,     \* the target: what it does, sends, and sends again on a reset
  tnext, tsync, texp,   \* the target's ids, and whether it sets SYNC_PACKET_ID
  toTarget, toHost,     \* packets on the line
  breaks, seen, printed, shown, asked, carriedOut, answered,  \* as in KdDialogue
  faults, breakIns, resyncs     \* counted for the bounds

host    == <<hpc, hfor, after, out, req, nextToSend, expected, ahead, buf, resync,
             breakIn, dataLoops>>
target  == <<tpc, tout, tlast, tnext, tsync, texp>>
told    == <<breaks, printed, carriedOut>>
learned == <<seen, shown, asked, answered>>
bounds  == <<faults, breakIns, resyncs>>
vars    == <<host, target, toTarget, toHost, told, learned, bounds>>

Payload(t, n) == [t |-> t, n |-> n]
NoData == Payload("none", 0)
Then(type) == [type |-> type, inside |-> FALSE]

\* Ids are INITIAL_PACKET_ID, 0 here, and INITIAL_PACKET_ID ^ 1.
Packet(k, id, sync, p) == [k |-> k, id |-> id, sync |-> sync, p |-> p, bad |-> "no"]
Data(id, p)  == Packet("data", id, FALSE, p)
Ack(id)      == Packet("ack", id, FALSE, NoData)
\* The acknowledgement of an id that no packet was sent under: one with SYNC_PACKET_ID
\* or, which comes to the same, an impossible one.
MatchingNone(id, odd) == [Ack(id) EXCEPT !.sync = odd]
Control(k)   == Packet(k, 0, FALSE, NoData)
RESET == Control("reset")
RESEND == Control("resend")
BREAKIN == Control("breakin")

Init ==
  /\ hpc = "wait" /\ hfor = "state" /\ after = Then("state")
  /\ out = NoData /\ req = Payload("go", 0)
  /\ nextToSend = 0 /\ expected = 0
  /\ ahead = FALSE /\ buf = NoData
  /\ resync = TRUE /\ breakIn = FALSE /\ dataLoops = 0
  /\ tpc = "run" /\ tout = NoData /\ tlast = NoData
  /\ tnext = 0 /\ tsync = TRUE /\ texp = 0
  /\ toTarget = <<>> /\ toHost = <<>>
  /\ breaks = 0 /\ printed = 0 /\ carriedOut = 0
  /\ seen = 0 /\ shown = <<>> /\ asked = 0 /\ answered = 0
  /\ faults = 0 /\ breakIns = 0 /\ resyncs = 0

-----------------------------------------------------------------------------
(* The debugger's end. *)

\* The end of WaitForPacket: the packet is the engine's.
Deliver(type, p) ==
  /\ hpc' = "engine" /\ hfor' = type /\ ahead' = FALSE
  /\ IF type = "state" THEN seen' = p.n /\ UNCHANGED answered
                       ELSE answered' = p.n /\ UNCHANGED seen

\* A header of type t is read over the last one, the body of which is left.
Header(t) == Payload(t, buf.n)

KeepWaiting(a) ==
  /\ ahead' = a
  /\ UNCHANGED <<hpc, hfor, seen, answered>>

\* WaitForPacket is called for type, with the read-ahead flag a and the buffer b.
WaitForPacket_IgnoresAhead(type, a, b) ==
  /\ hpc' = "wait" /\ hfor' = type /\ ahead' = a
  /\ UNCHANGED <<seen, answered>>
WaitForPacket(type, a, b) ==
  IF a /\ b.t = type
  THEN Deliver(type, b)
  ELSE /\ hpc' = "wait" /\ hfor' = type /\ ahead' = a
       /\ UNCHANGED <<seen, answered>>

\* WriteDataPacket returns to the engine, which waits for what it wants, or (when it was
\* called for an internal packet) to the wait that read that packet.
WriteDone(a, b) ==
  IF after.inside
  THEN /\ hpc' = "wait" /\ hfor' = after.type /\ ahead' = a
       /\ UNCHANGED <<seen, answered>>
  ELSE WaitForPacket(after.type, a, b)

\* WaitForPacket gives up, having sent ms, the next id being n.  WriteDataPacket writes
\* its packet again; the engine asks again, or waits again for a state change.
Retry_WaitsOn(ms, n, b) ==
  /\ buf' = b /\ nextToSend' = n
  /\ toTarget' = toTarget \o ms
  /\ KeepWaiting(ahead) /\ UNCHANGED <<out, after>>
Retry(ms, n, b) ==
  /\ buf' = b
  /\ nextToSend' = n
  /\ CASE hfor = "ack" ->
            /\ toTarget' = toTarget \o Append(ms, Data(n, out))
            /\ KeepWaiting(ahead) /\ UNCHANGED <<out, after>>
       [] hfor = "manip" ->
            /\ toTarget' = toTarget \o Append(ms, Data(n, req))
            /\ out' = req /\ after' = Then("manip")
            /\ hfor' = "ack" /\ UNCHANGED <<hpc, ahead, seen, answered>>
       [] hfor = "state" ->
            /\ toTarget' = toTarget \o ms
            /\ WaitForPacket("state", ahead, b) /\ UNCHANGED <<out, after>>

\* The engine's requests: while the target is stopped, one that it answers (ReadMemory
\* and its like) or the one that lets it run.
EngineAsks ==
  /\ hpc = "engine" /\ asked < MaxAsks
  /\ asked' = asked + 1
  /\ req' = Payload("manip", asked + 1) /\ out' = req' /\ after' = Then("manip")
  /\ hpc' = "wait" /\ hfor' = "ack"
  /\ toTarget' = Append(toTarget, Data(nextToSend, out'))
  /\ UNCHANGED <<nextToSend, expected, ahead, buf, resync, breakIn, dataLoops, target,
                 toHost, told, seen, shown, answered, bounds>>

KdContinue ==
  /\ hpc = "engine"
  /\ req' = Payload("go", 0) /\ out' = req' /\ after' = Then("state")
  /\ hpc' = "wait" /\ hfor' = "ack"
  /\ toTarget' = Append(toTarget, Data(nextToSend, out'))
  /\ UNCHANGED <<nextToSend, expected, ahead, buf, resync, breakIn, dataLoops, target,
                 toHost, told, learned, bounds>>

\* ReadPacketLeader comes to read: nothing else asks for its attention.
Reading(m) ==
  /\ hpc = "wait" /\ ~resync /\ ~(breakIn /\ hfor = "state")
  /\ toHost' = Tail(toHost)

HostSame == UNCHANGED <<req, resync, breakIn, dataLoops, target, told, asked, bounds>>

ReadAck_CountsOn(m) ==
  /\ Reading(m) /\ m.k = "ack"
  /\ buf' = Header("none")
  /\ IF hfor = "ack" /\ m.id = nextToSend /\ ~m.sync
     THEN nextToSend' = nextToSend + 1 /\ WriteDone(ahead, buf')
     ELSE UNCHANGED nextToSend /\ KeepWaiting(ahead)
  /\ HostSame /\ UNCHANGED <<out, after, expected, toTarget, shown>>
ReadAck(m) ==
  /\ Reading(m) /\ m.k = "ack"
  /\ buf' = Header("none")
  /\ IF hfor = "ack" /\ m.id = nextToSend /\ ~m.sync
     THEN nextToSend' = 1 - nextToSend /\ WriteDone(ahead, buf')
     ELSE UNCHANGED nextToSend /\ KeepWaiting(ahead)
  /\ HostSame /\ UNCHANGED <<out, after, expected, toTarget, shown>>

ReadReset(m) ==
  /\ Reading(m) /\ m.k = "reset"
  /\ expected' = 0
  /\ Retry(<<RESET>>, 0, Header("none"))
  /\ HostSame /\ UNCHANGED shown

ReadResend(m) ==
  /\ Reading(m) /\ m.k = "resend"
  /\ Retry(<<>>, nextToSend, Header("none"))
  /\ HostSame /\ UNCHANGED <<expected, shown>>

\* The type, the count or the id of a data packet is cut short or, while no
\* acknowledgement is awaited, the id is impossible.
ReadBadHeader(m) ==
  /\ Reading(m) /\ m.k = "data" /\ m.bad = "header"
  /\ toTarget' = Append(toTarget, RESEND)
  /\ buf' \in {Header("none"), Header(m.p.t)}
  /\ KeepWaiting(ahead)
  /\ HostSame /\ UNCHANGED <<out, after, nextToSend, expected, shown>>

\* Data that does not come in answer: its id is acknowledged, SYNC_PACKET_ID or an
\* impossible id and all, and its body passed over; its header stays in s_PacketHeader.
ReadStaleForAck(m) ==
  /\ Reading(m) /\ m.k = "data"
  /\ hfor = "ack" /\ (m.id # expected \/ m.sync \/ m.bad = "header")
  /\ toTarget' = Append(toTarget, MatchingNone(m.id, m.sync \/ m.bad = "header"))
  /\ buf' = Header(m.p.t) /\ KeepWaiting(ahead)
  /\ HostSame /\ UNCHANGED <<out, after, nextToSend, expected, shown>>

Answers(m) == hfor = "ack" /\ m.id = expected /\ ~m.sync

\* The body is short, its checksum wrong, or the trailing byte missing.  Where it came
\* in answer to a write, the header alone has acknowledged that write.
ReadBadBody(m) ==
  /\ Reading(m) /\ m.k = "data" /\ m.bad = "body"
  /\ hfor # "ack" \/ Answers(m)
  /\ toTarget' = Append(toTarget, RESEND)
  /\ buf' = Payload(m.p.t, 0)
  /\ IF hfor = "ack"
     THEN nextToSend' = 1 - nextToSend /\ WriteDone(ahead, buf')
     ELSE UNCHANGED nextToSend /\ KeepWaiting(ahead)
  /\ HostSame /\ UNCHANGED <<out, after, expected, shown>>

\* Every sound packet is acknowledged; one with another id than expected goes no further.
ReadRepeated(m) ==
  /\ Reading(m) /\ m.k = "data" /\ m.bad = "no"
  /\ hfor # "ack" /\ m.id # expected /\ ~m.sync
  /\ toTarget' = Append(toTarget, Ack(m.id))
  /\ buf' = m.p /\ KeepWaiting(ahead)
  /\ HostSame /\ UNCHANGED <<out, after, nextToSend, expected, shown>>

\* A packet the transport accepts, whether it answers a write or was waited for.
Accepting_AnyId(m) ==
  /\ Reading(m) /\ m.k = "data" /\ m.bad = "no"
  /\ expected' = 1 - m.id
  /\ buf' = m.p
Accepting(m) ==
  /\ Reading(m) /\ m.k = "data" /\ m.bad = "no"
  /\ IF hfor = "ack" THEN Answers(m) ELSE m.id = expected \/ m.sync
  /\ expected' = 1 - m.id
  /\ buf' = m.p

AfterAccept_Keeps(m) == IF m.sync THEN 0 ELSE nextToSend
AfterAccept(m) ==
  IF m.sync THEN 0 ELSE IF hfor = "ack" THEN 1 - nextToSend ELSE nextToSend

\* HandleDebugIo, HandleTraceIo: the line is shown.
ReadPrint(m) ==
  /\ Accepting(m) /\ m.p.t = "print"
  /\ shown' = Append(shown, m.p.n)
  /\ nextToSend' = AfterAccept(m)
  /\ toTarget' = Append(toTarget, Ack(m.id))
  /\ IF hfor = "ack" THEN WriteDone(ahead, m.p) ELSE KeepWaiting(ahead)
  /\ HostSame /\ UNCHANGED <<out, after>>

\* HandleFileIo, HandleControlRequest, the prompt of HandleDebugIo: carried out and
\* answered by a WritePacket inside the wait.
ReadFileIo(m) ==
  /\ Accepting(m) /\ m.p.t = "file"
  /\ shown' = Append(shown, m.p.n)
  /\ nextToSend' = AfterAccept(m)
  /\ out' = Payload("file", m.p.n)
  /\ toTarget' = toTarget \o <<Ack(m.id), Data(nextToSend', out')>>
  /\ after' = IF hfor = "ack" THEN after ELSE [type |-> hfor, inside |-> TRUE]
  /\ hfor' = "ack"
  /\ HostSame /\ UNCHANGED <<hpc, ahead, seen, answered>>

\* A packet for the engine.  Read ahead of the acknowledgement, it is left in the buffer.
ReadForEngine(m) ==
  /\ Accepting(m) /\ m.p.t \in {"state", "manip"}
  /\ nextToSend' = AfterAccept(m)
  /\ toTarget' = Append(toTarget, Ack(m.id))
  /\ CASE hfor = "ack" -> WriteDone(TRUE, m.p)
       [] hfor = m.p.t -> Deliver(hfor, m.p)
       [] OTHER -> KeepWaiting(ahead)
  /\ HostSame /\ UNCHANGED <<out, after, shown>>

\* No bytes within the timeout.
HostTimesOut ==
  /\ hpc = "wait" /\ ~resync /\ ~(breakIn /\ hfor = "state")
  /\ toHost = <<>> /\ Len(toTarget) < MaxLine
  /\ Early \/ toTarget = <<>>
  /\ Retry(<<>>, nextToSend, buf)
  /\ HostSame /\ UNCHANGED <<expected, toHost, shown>>

\* ReadPacketLeader, waiting for a state change: WriteBreakInPacket.
SendBreakIn ==
  /\ hpc = "wait" /\ hfor = "state" /\ breakIn
  /\ breakIn' = FALSE
  /\ toTarget' = Append(toTarget, BREAKIN)
  /\ WaitForPacket("state", ahead, buf)
  /\ UNCHANGED <<after, out, req, nextToSend, expected, buf, resync, dataLoops, target,
                 toHost, told, shown, asked, bounds>>

-----------------------------------------------------------------------------
(* Synchronize: RESET is sent until a RESET comes back. *)

SyncSame == UNCHANGED <<after, out, req, target, told, shown, asked, bounds>>

StartSync ==
  /\ hpc = "wait" /\ resync /\ ~(breakIn /\ hfor = "state")
  /\ hpc' = "sync" /\ resync' = FALSE /\ dataLoops' = 0
  /\ toTarget' = Append(toTarget, RESET)
  /\ SyncSame
  /\ UNCHANGED <<hfor, nextToSend, expected, ahead, buf, breakIn, toHost, seen, answered>>

SyncDone ==
  /\ hpc = "sync" /\ toHost # <<>> /\ Head(toHost).k = "reset"
  /\ toHost' = Tail(toHost)
  /\ expected' = 0
  /\ hpc' = "synced"
  /\ SyncSame
  /\ UNCHANGED <<hfor, nextToSend, ahead, buf, resync, breakIn, dataLoops, toTarget, seen,
                 answered>>

\* DBGKD_WAIT_RESYNC reaches the caller of WaitForPacket.
SyncReturns ==
  /\ hpc = "synced"
  /\ nextToSend' = 0 /\ UNCHANGED buf
  /\ CASE hfor = "ack" ->
            /\ toTarget' = Append(toTarget, Data(0, out))
            /\ hpc' = "wait" /\ UNCHANGED <<hfor, ahead, out, after, seen, answered>>
       [] hfor = "manip" ->
            /\ toTarget' = Append(toTarget, Data(0, req))
            /\ out' = req /\ after' = Then("manip")
            /\ hpc' = "wait" /\ hfor' = "ack" /\ UNCHANGED <<ahead, seen, answered>>
       [] hfor = "state" ->
            WaitForPacket("state", ahead, buf) /\ UNCHANGED <<toTarget, out, after>>
  /\ UNCHANGED <<req, expected, resync, breakIn, dataLoops, target, toHost, told, shown,
                 asked, bounds>>

\* Anything else is passed over up to a trailing byte, which only data packets have: with
\* a control packet the packets behind it go too.  Every fourth time RESET is sent again.
SyncEats_NeverAsks ==
  /\ hpc \in {"sync", "eat"} /\ toHost # <<>>
  /\ hpc = "sync" => Head(toHost).k # "reset"
  /\ toHost' = Tail(toHost)
  /\ hpc' = IF Head(toHost).k = "data" THEN "sync" ELSE "eat"
  /\ SyncSame
  /\ UNCHANGED <<hfor, nextToSend, expected, ahead, buf, resync, breakIn, dataLoops,
                 toTarget, seen, answered>>
SyncEats ==
  /\ hpc \in {"sync", "eat"} /\ toHost # <<>>
  /\ hpc = "sync" => Head(toHost).k # "reset"
  /\ toHost' = Tail(toHost)
  /\ IF Head(toHost).k = "data"
     THEN /\ hpc' = "sync"
          /\ dataLoops' = (dataLoops + 1) % 4
          /\ toTarget' = IF dataLoops = 3 THEN Append(toTarget, RESET) ELSE toTarget
     ELSE hpc' = "eat" /\ UNCHANGED <<dataLoops, toTarget>>
  /\ SyncSame
  /\ UNCHANGED <<hfor, nextToSend, expected, ahead, buf, resync, breakIn, seen, answered>>

SyncTimesOut ==
  /\ hpc \in {"sync", "eat"} /\ toHost = <<>> /\ Len(toTarget) < MaxLine
  /\ Early \/ toTarget = <<>>
  /\ hpc' = "sync"
  /\ breakIn' = (breakIn /\ hpc = "eat")
  /\ toTarget' = Append(toTarget, IF breakIn /\ hpc = "sync" THEN BREAKIN ELSE RESET)
  /\ SyncSame
  /\ UNCHANGED <<hfor, nextToSend, expected, ahead, buf, resync, dataLoops, toHost, seen,
                 answered>>

-----------------------------------------------------------------------------
(* The user. *)

RequestBreakIn ==
  /\ breakIns < MaxBreakIns /\ hpc # "engine"
  /\ breakIn' = TRUE /\ breakIns' = breakIns + 1
  /\ UNCHANGED <<hpc, hfor, after, out, req, nextToSend, expected, ahead, buf, resync,
                 dataLoops, target, toTarget, toHost, told, learned, faults, resyncs>>

RequestResync ==
  /\ resyncs < MaxResyncs
  /\ resync' = TRUE /\ resyncs' = resyncs + 1
  /\ UNCHANGED <<hpc, hfor, after, out, req, nextToSend, expected, ahead, buf, breakIn,
                 dataLoops, target, toTarget, toHost, told, learned, faults, breakIns>>

-----------------------------------------------------------------------------
(* The target, external.  It sends a packet until it is acknowledged, or until data  *)
(* comes that can only be sent in answer; that data it asks to be sent again.  While *)
(* it runs it looks for break-ins only.                                              *)

TargetSame == UNCHANGED <<host, learned, bounds>>

TargetSends(p, id, ms) ==
  /\ tout' = p
  /\ tlast' = IF p.t \in {"state", "file"} THEN p ELSE tlast
  /\ tpc' = "send"
  /\ toHost' = toHost \o Append(ms, Packet("data", id, tsync', p))

TargetPrints ==
  /\ tpc = "run" /\ printed < MaxPrints
  /\ printed' = printed + 1
  /\ UNCHANGED tsync
  /\ \E t \in Lines : TargetSends(Payload(t, printed + 1), tnext, <<>>)
  /\ TargetSame /\ UNCHANGED <<tnext, texp, toTarget, breaks, carriedOut>>

TargetBreaks ==
  /\ tpc = "run" /\ breaks < MaxBreaks
  /\ breaks' = breaks + 1
  /\ UNCHANGED tsync
  /\ TargetSends(Payload("state", breaks + 1), tnext, <<>>)
  /\ TargetSame /\ UNCHANGED <<tnext, texp, toTarget, printed, carriedOut>>

TargetTakes == toTarget' = Tail(toTarget)

TargetPolls(m) ==
  /\ tpc = "run" /\ TargetTakes
  /\ UNCHANGED tsync
  /\ IF m.k = "breakin" /\ breaks < MaxBreaks
     THEN /\ breaks' = breaks + 1
          /\ TargetSends(Payload("state", breaks + 1), tnext, <<>>)
     ELSE UNCHANGED <<breaks, tpc, tout, tlast, toHost>>
  /\ TargetSame /\ UNCHANGED <<tnext, texp, printed, carriedOut>>

\* The packet is known to have arrived.
Sent ==
  /\ tnext' = 1 - tnext /\ tsync' = FALSE
  /\ tpc' = IF tout.t = "print" THEN "run" ELSE "receive"

TargetReadsSending(m) ==
  /\ tpc = "send" /\ TargetTakes /\ m.k # "reset"
  /\ UNCHANGED <<texp, told>> /\ TargetSame
  /\ LET data == m.k = "data" /\ m.bad # "header"
         arrived == m.id = (IF data THEN texp ELSE tnext) /\ ~m.sync
         answers == IF m.bad = "header" THEN {RESEND, MatchingNone(m.id, TRUE)}
                    ELSE IF arrived THEN {RESEND} ELSE {Ack(m.id)}
     IN  CASE m.k = "resend" ->
                UNCHANGED <<tsync, tnext>> /\ TargetSends(tout, tnext, <<>>)
           [] m.k = "ack" /\ arrived -> Sent /\ UNCHANGED <<tout, tlast, toHost>>
           [] m.k = "data" ->
                /\ \E answer \in answers : toHost' = Append(toHost, answer)
                /\ IF data /\ arrived THEN Sent ELSE UNCHANGED <<tpc, tnext, tsync>>
                /\ UNCHANGED <<tout, tlast>>
           [] OTHER -> UNCHANGED <<tpc, tout, tlast, tnext, tsync, toHost>>

\* It sends its last packet again, as the first of a new sequence.
TargetResets(m) ==
  /\ tpc # "run" /\ TargetTakes /\ m.k = "reset"
  /\ tnext' = 0 /\ tsync' = FALSE /\ texp' = 0
  /\ TargetSends(IF tpc = "send" THEN tout ELSE tlast, 0, <<RESET>>)
  /\ TargetSame /\ UNCHANGED told

\* What the target was waiting for when it sent tlast.
Wanted(p) == IF tlast.t = "file" THEN p.t = "file" ELSE p.t \in {"manip", "go"}

TargetReadsReceiving(m) ==
  /\ tpc = "receive" /\ TargetTakes /\ m.k # "reset"
  /\ TargetSame /\ UNCHANGED <<tnext, tsync, breaks, printed>>
  /\ LET next == m.k = "data" /\ m.bad = "no" /\ m.id = texp
     IN  /\ texp' = IF next THEN 1 - texp ELSE texp
         /\ carriedOut' = IF next /\ Wanted(m.p) /\ m.p.t = "manip" THEN m.p.n
                                                                    ELSE carriedOut
         /\ CASE next /\ Wanted(m.p) /\ m.p.t = "manip" ->
                   TargetSends(m.p, tnext, <<Ack(m.id)>>)
              [] m.k = "resend" -> TargetSends(tlast, tnext, <<>>)
              [] m.k = "data" /\ ~(next /\ Wanted(m.p) /\ m.p.t = "manip") ->
                   /\ toHost' = Append(toHost, IF m.bad = "no" THEN Ack(m.id) ELSE RESEND)
                   /\ tpc' = IF next /\ Wanted(m.p) THEN "run" ELSE tpc
                   /\ UNCHANGED <<tout, tlast>>
              [] OTHER -> UNCHANGED <<tpc, tout, tlast, toHost>>

\* While the engine reads nothing the target goes on sending.
TargetTimesOut ==
  /\ tpc = "send" /\ Len(toHost) < MaxLine
  /\ Early \/ hpc = "engine" \/ (toHost = <<>> /\ toTarget = <<>>)
  /\ UNCHANGED <<tsync, tnext, texp, toTarget, told>>
  /\ TargetSends(tout, tnext, <<>>)
  /\ TargetSame

-----------------------------------------------------------------------------
(* The line. *)

Without(s, i) == SubSeq(s, 1, i - 1) \o SubSeq(s, i + 1, Len(s))

Lose ==
  /\ faults < MaxFaults /\ faults' = faults + 1
  /\ \/ \E i \in DOMAIN toHost : toHost' = Without(toHost, i) /\ UNCHANGED toTarget
     \/ \E i \in DOMAIN toTarget : toTarget' = Without(toTarget, i) /\ UNCHANGED toHost
  /\ UNCHANGED <<host, target, told, learned, breakIns, resyncs>>

Damage ==
  /\ faults < MaxFaults /\ faults' = faults + 1
  /\ \E part \in {"header", "body"} :
       \/ \E i \in DOMAIN toHost :
            /\ toHost[i].k = "data" /\ toHost[i].bad = "no"
            /\ toHost' = [toHost EXCEPT ![i].bad = part] /\ UNCHANGED toTarget
       \/ \E i \in DOMAIN toTarget :
            /\ toTarget[i].k = "data" /\ toTarget[i].bad = "no"
            /\ toTarget' = [toTarget EXCEPT ![i].bad = part] /\ UNCHANGED toHost
  /\ UNCHANGED <<host, target, told, learned, breakIns, resyncs>>

First(line) == {line[i] : i \in DOMAIN line \cap {1}}

HostReads ==
  \E m \in First(toHost) :
    \/ ReadAck(m) \/ ReadReset(m) \/ ReadResend(m) \/ ReadBadHeader(m)
    \/ ReadStaleForAck(m) \/ ReadBadBody(m) \/ ReadRepeated(m)
    \/ ReadPrint(m) \/ ReadFileIo(m) \/ ReadForEngine(m)

Synchronize == StartSync \/ SyncDone \/ SyncReturns \/ SyncEats \/ SyncTimesOut

TargetReads ==
  \E m \in First(toTarget) :
    \/ TargetPolls(m) \/ TargetResets(m)
    \/ TargetReadsSending(m) \/ TargetReadsReceiving(m)

Next ==
  \/ EngineAsks \/ KdContinue
  \/ HostReads \/ HostTimesOut \/ SendBreakIn \/ Synchronize
  \/ RequestBreakIn \/ RequestResync
  \/ TargetPrints \/ TargetBreaks \/ TargetReads \/ TargetTimesOut
  \/ Lose \/ Damage

Spec == Init /\ [][Next]_vars

FairSpec ==
  /\ Spec
  /\ WF_vars(HostReads) /\ WF_vars(HostTimesOut) /\ WF_vars(SendBreakIn)
  /\ WF_vars(Synchronize)
  /\ WF_vars(TargetReads) /\ WF_vars(TargetTimesOut)

-----------------------------------------------------------------------------
(* Properties. *)

Types == {"none", "go", "manip", "state", "print", "file"}
Payloads == [t : Types, n : Nat]
Packets == [k : {"data", "ack", "reset", "resend", "breakin"}, id : {0, 1},
            sync : BOOLEAN, p : Payloads, bad : {"no", "header", "body"}]

TypeOK ==
  /\ hpc \in {"engine", "wait", "sync", "eat", "synced"}
  /\ hfor \in {"ack", "manip", "state"}
  /\ after \in [type : {"manip", "state"}, inside : BOOLEAN]
  /\ out \in Payloads /\ req \in Payloads /\ buf \in Payloads
  /\ nextToSend \in {0, 1} /\ expected \in {0, 1}
  /\ ahead \in BOOLEAN /\ resync \in BOOLEAN /\ breakIn \in BOOLEAN
  /\ dataLoops \in 0 .. 3
  /\ tpc \in {"run", "send", "receive"}
  /\ tout \in Payloads /\ tlast \in Payloads
  /\ tnext \in {0, 1} /\ texp \in {0, 1} /\ tsync \in BOOLEAN
  /\ toTarget \in Seq(Packets) /\ toHost \in Seq(Packets)
  /\ breaks \in Nat /\ seen \in Nat /\ printed \in Nat /\ shown \in Seq(Nat)
  /\ asked \in Nat /\ carriedOut \in Nat /\ answered \in Nat
  /\ faults \in Nat /\ breakIns \in Nat /\ resyncs \in Nat

\* Where the conversation stands, for the engine and for the target.
View == IF hpc = "engine" THEN "stopped"
        ELSE IF req.t = "manip" THEN "asking" ELSE "waiting"
Running == tpc = "run" \/ tout.t = "print" \/ tlast.t = "file"

Dialogue == INSTANCE KdDialogue WITH view <- View, running <- Running
DialogueSpec == Dialogue!Spec

\* A request of the engine is answered, whatever packet of the conversation the line
\* loses or damages.  Here and below, a resync the user asks for in the middle of a
\* conversation excuses this end: it may cost a request, a break or a printed line.
AsksAreAnswered == hpc = "wait" /\ req.t = "manip" ~> (hpc = "engine" \/ resyncs > 0)

\* A break of the target reaches the engine, also while both ends first find each other.
BreaksAreSeen ==
  \A n \in 1 .. MaxBreaks : breaks >= n ~> (seen >= n \/ resyncs > 0)

\* A request to run reaches the target, which is seen from its running or from a later
\* break: that it was acknowledged is not enough, the target must have expected its id.
GoIsHeard ==
  hpc = "wait" /\ req.t = "go" /\ hfor = "ack"
    ~> (Running \/ hpc = "engine" \/ resyncs > 0)

\* Synchronize, which passes over what it does not know, finds the RESET of a target
\* that is there to answer, whenever it is called and whatever is on the line.
SyncEnds ==
  hpc \in {"sync", "eat"} /\ tpc # "run" ~> (hpc \in {"wait", "engine"} \/ tpc = "run")

\* "We leave it in the buffer and record the fact that we have one stored."
StoredIsKept == ahead => buf.t \in {"state", "manip"}

\* "Make sure the checksum is valid": no packet whose body is damaged, which is n = 0,
\* reaches the engine.
DamagedIsRefused == [][hpc # "engine" /\ hpc' = "engine" => buf'.n # 0]_vars
=============================================================================
