--------------------- MODULE RemoteSessionServingProofs ---------------------
(***************************************************************************)
(* Two further results about RemoteSession, for any set of clients and any *)
(* bounds, on top of the invariant of RemoteSessionProofs: no client is    *)
(* left idle behind the temp file, and the server does not fail while it   *)
(* serves.  Both are proved action by action: Step says what the walks of  *)
(* the client list, wherever they are nested, do to the server's state and *)
(* to the clients' progress.                                               *)
(***************************************************************************)
EXTENDS RemoteSessionProofs

USE DEF FinalStates, SrvStates, Lists, Flags, OwnReads, ReadOps, OutputChain,
        WriteOps, ChildOps

(* IdleMeansCaughtUp of a flow and of the lists it was produced under. *)
CaughtUp(lst, f) ==
    f.srv = "running" =>
        \A c \in Clients : lst[c] = "normal" /\ f.cbWrite[c] = 0
                               => f.filePos[c] >= Lesser(f.ptr, f.eof)

(* Where nested calls may take the server. *)
Walked(s, t) == t = s \/ (t = "lost" /\ TempReadMayFail)

(* Where a step may take the server, and from where: this is what the process
   can do of its own accord, and each of its failures has a cause. *)
ServerGoes ==
    \/ Walked(srv, srv')
    \/ srv = "running" /\ srv' = "draining"
    \/ srv # "running" /\ srv' \in {"flushing", "exited"}
    \/ srv' = "errorexit" /\ ("fatal" \in Faults \/ child = "writecancelled")
    \/ srv' = "wild" /\ ~FreedNodesIdle

(* No step leaves a client behind, if announcements reach the temp file. *)
NoneLeftBehind ==
    "diskfull" \notin Faults /\ IdleMeansCaughtUp => IdleMeansCaughtUp'

Step == ServerGoes /\ NoneLeftBehind

-----------------------------------------------------------------------------
(* What walks do. *)

(* A walk leaves no client behind that it could have started: after it an idle
   client has all that is in the file, whatever the flow was before. *)
LEMMA WalkCatchesUp ==
    ASSUME NEW lst, NEW f \in FlowType, NEW g \in StartServerToClientFlow(lst, f)
    PROVE  g \in FlowType /\ CaughtUp(lst, g) /\ Walked(f.srv, g.srv)
<1> DEFINE idle == {c \in Clients : lst[c] = "normal" /\ Behind(f, c)}
           woken == {c \in idle : f.filePos[c] < f.eof}
           w == [f EXCEPT
                   !.wr = [c \in Clients |-> IF c \in woken THEN Issue("temp", f.wr[c])
                                             ELSE f.wr[c]],
                   !.cbWrite = [c \in Clients |->
                                  IF c \in woken
                                  THEN Lesser(BUFFSIZE, f.ptr - f.filePos[c])
                                  ELSE f.cbWrite[c]]]
<1>1. g = w \/ (g = [f EXCEPT !.srv = "lost"] /\ TempReadMayFail)
  BY DEF StartServerToClientFlow
<1>2. CASE g = [f EXCEPT !.srv = "lost"] /\ TempReadMayFail
  BY <1>2 DEF FlowType, CaughtUp, Walked
<1>3. CASE g = w
  <2>1. /\ g.srv = f.srv /\ g.filePos = f.filePos /\ g.ptr = f.ptr /\ g.eof = f.eof
        /\ g.cbWrite = [c \in Clients |->
                          IF c \in woken THEN Lesser(BUFFSIZE, f.ptr - f.filePos[c])
                          ELSE f.cbWrite[c]]
    BY <1>3 DEF FlowType
  <2>2. ASSUME NEW c \in Clients, lst[c] = "normal", g.cbWrite[c] = 0
        PROVE  f.filePos[c] >= Lesser(f.ptr, f.eof)
    <3>1. f.filePos[c] \in Nat /\ f.ptr \in Nat /\ f.eof \in Nat
      BY DEF FlowType
    <3>2. c \notin woken
      <4>1. SUFFICES ASSUME c \in woken PROVE FALSE
        OBVIOUS
      <4>2. f.ptr > f.filePos[c]
        BY <4>1 DEF Behind
      <4>3. Lesser(BUFFSIZE, f.ptr - f.filePos[c]) # 0
        BY <3>1, <4>2, BuffsizeAssumption DEF Lesser
      <4> QED BY <2>1, <2>2, <4>1, <4>3
    <3>3. f.cbWrite[c] = 0
      BY <2>1, <2>2, <3>2
    <3>4. ~(f.ptr > f.filePos[c]) \/ ~(f.filePos[c] < f.eof)
      BY <2>2, <3>2, <3>3 DEF Behind
    <3> QED BY <3>1, <3>4 DEF Lesser
  <2>3. ASSUME NEW c \in woken
        PROVE  Lesser(BUFFSIZE, f.ptr - f.filePos[c]) \in Nat
    <3>1. f.filePos[c] \in Nat /\ f.ptr \in Nat /\ f.ptr > f.filePos[c]
      BY DEF Behind, FlowType
    <3> QED BY <3>1, BuffsizeAssumption DEF Lesser
  <2>4. g.wr = [c \in Clients |-> IF c \in woken THEN Issue("temp", f.wr[c])
                                  ELSE f.wr[c]]
    BY <1>3 DEF FlowType
  <2>5. g.wr \in [Clients -> WriteOps]
    <3>1. \A c \in Clients : f.wr[c] \in WriteOps /\ Issue("temp", f.wr[c]) \in WriteOps
      BY DEF FlowType, Issue
    <3> QED BY <2>4, <3>1
  <2>6. g.cbWrite \in [Clients -> Nat]
    <3>1. \A c \in Clients : f.cbWrite[c] \in Nat
      BY DEF FlowType
    <3> QED BY <2>1, <2>3, <3>1
  <2>7. g \in FlowType
    BY <1>3, <2>5, <2>6 DEF FlowType
  <2> QED BY <2>1, <2>2, <2>7 DEF CaughtUp, Walked
<1> QED
  BY <1>1, <1>2, <1>3

LEMMA AfterWriteType ==
    ASSUME NEW f \in FlowType, NEW off \in Nat
    PROVE  AfterWrite(f, off) \in FlowType /\ AfterWrite(f, off).srv = f.srv
<1> DEFINE g == AfterWrite(f, off)
<1>1. /\ g.srv = f.srv /\ g.wr = f.wr /\ g.cbWrite = f.cbWrite
      /\ g.filePos = f.filePos /\ g.ptr = f.ptr + 1 /\ g.eof = Greater(f.eof, off + 1)
  BY DEF FlowType, AfterWrite
<1>2. g.ptr \in Nat /\ g.eof \in Nat
  BY <1>1 DEF FlowType, Greater
<1> QED
  BY <1>1, <1>2 DEF FlowType, AfterWrite

(* So does an announcement that reaches the file; one that does not may leave
   a client that has just joined behind. *)
LEMMA AnnounceCatchesUp ==
    ASSUME NEW lst, NEW f \in FlowType, NEW g \in Announce(lst, f)
    PROVE  /\ g \in FlowType /\ Walked(f.srv, g.srv)
           /\ "diskfull" \notin Faults => CaughtUp(lst, g)
<1>1. CASE g \in StartServerToClientFlow(lst, AfterWrite(f, f.ptr))
  <2>1. f.ptr \in Nat
    BY DEF FlowType
  <2>2. AfterWrite(f, f.ptr) \in FlowType /\ AfterWrite(f, f.ptr).srv = f.srv
    BY <2>1, AfterWriteType
  <2>3. /\ g \in FlowType /\ CaughtUp(lst, g)
        /\ Walked(AfterWrite(f, f.ptr).srv, g.srv)
    BY <1>1, <2>2, WalkCatchesUp
  <2> QED BY <2>2, <2>3
<1>2. CASE g = f /\ (f.srv = "flushing" \/ "diskfull" \in Faults)
  BY <1>2 DEF CaughtUp, Walked
<1> QED
  BY <1>1, <1>2 DEF Announce

LEMMA CloseCatchesUp ==
    ASSUME NEW c \in Clients, NEW f \in FlowType, NEW g \in CloseFlows(c, f)
    PROVE  /\ g \in FlowType /\ Walked(f.srv, g.srv)
           /\ "diskfull" \notin Faults => CaughtUp(Closed(list, c), g)
<1> DEFINE h == CancelOutput(f, c)
<1>0. h.wr = [f.wr EXCEPT ![c] = IF @ = "none" THEN "none" ELSE "cancelled"]
  BY DEF FlowType, CancelOutput
<1>1. h \in FlowType /\ h.srv = f.srv
  BY <1>0 DEF FlowType, CancelOutput
<1>2. CASE f.srv # "running" /\ g = h
  BY <1>1, <1>2 DEF CaughtUp, Walked
<1>3. CASE g \in Announce(Closed(list, c), h)
  <2> HIDE DEF h
  <2>1. /\ g \in FlowType /\ Walked(h.srv, g.srv)
        /\ "diskfull" \notin Faults => CaughtUp(Closed(list, c), g)
    BY <1>1, <1>3, AnnounceCatchesUp
  <2> QED BY <1>1, <2>1
<1> QED
  BY <1>2, <1>3 DEF CloseFlows

-----------------------------------------------------------------------------
(* Endings handlers share. *)

LEMMA FlowNowType ==
    ASSUME SessionInv
    PROVE  /\ FlowNow \in FlowType /\ FlowNow.srv = srv
           /\ srv \in SrvStates /\ wr \in [Clients -> WriteOps]
           /\ cbWrite \in [Clients -> Nat] /\ filePos \in [Clients -> Nat]
           /\ ptr \in Nat /\ eof \in Nat
BY DEF SessionInv, FlowOK, FlowType, FlowNow

(* A step that ends in a flow its last call made. *)
LEMMA FlowStep ==
    ASSUME NEW f, Walked(srv, f.srv), NEW g, FlowBecomes(g), Walked(f.srv, g.srv),
           "diskfull" \notin Faults => CaughtUp(list', g)
    PROVE  Step
<1>1. ServerGoes
  BY DEF ServerGoes, FlowBecomes, Walked
<1>2. NoneLeftBehind
  BY DEF NoneLeftBehind, IdleMeansCaughtUp, CaughtUp, FlowBecomes
<1> QED
  BY <1>1, <1>2 DEF Step

(* A step that moves no client's position, wakes none and connects none. *)
LEMMA QuietStep ==
    ASSUME UNCHANGED <<cbWrite, filePos, ptr, eof>>, ServerGoes,
           \A c \in Clients : list'[c] = "normal" => list[c] = "normal"
    PROVE  Step
<1>1. srv' = "running" => srv = "running"
  BY DEF ServerGoes, Walked
<1> QED
  BY <1>1 DEF Step, NoneLeftBehind, IdleMeansCaughtUp

LEMMA CloseClientStep ==
    ASSUME NEW c \in Clients, NEW r, NEW f \in FlowType, Walked(srv, f.srv),
           CloseClient(c, r, f)
    PROVE  Step
<1>1. PICK g \in CloseFlows(c, f) : FlowBecomes(g)
  BY DEF CloseClient
<1>2. /\ Walked(f.srv, g.srv)
      /\ "diskfull" \notin Faults => CaughtUp(Closed(list, c), g)
  BY <1>1, CloseCatchesUp
<1>3. list' = Closed(list, c)
  BY DEF CloseClient, CloseNode
<1> QED
  BY <1>1, <1>2, <1>3, FlowStep

LEMMA ErrorExitStep ==
    ASSUME ErrorExit, "fatal" \in Faults \/ child = "writecancelled"
    PROVE  Step
BY QuietStep DEF ErrorExit, ServerGoes

LEMMA SessionErrorStep ==
    ASSUME NEW c \in Clients, NEW r, NEW f \in FlowType, f.srv = srv,
           SessionError(c, r, f)
    PROVE  Step
BY CloseClientStep, ErrorExitStep DEF SessionError, CloseAndReturn, Walked

(* WriteDone(c) is a flow of the server as it is. *)
LEMMA WriteDoneType ==
    ASSUME SessionInv, NEW c \in Clients
    PROVE  /\ WriteDone(c) \in FlowType
           /\ WriteDone(c) = [srv |-> srv, wr |-> [wr EXCEPT ![c] = "none"],
                              cbWrite |-> cbWrite, filePos |-> filePos,
                              ptr |-> ptr, eof |-> eof]
BY WriteDoneFor DEF FlowFor, FlowOKBut

-----------------------------------------------------------------------------
(* The handshake and a client's input. *)

LEMMA HandleInPipeConnectedStep ==
    ASSUME SessionInv, NEW c \in Clients, HandleInPipeConnected(c)
    PROVE  Step
<1>1. CASE /\ list' = [list EXCEPT ![c] = "handshaking"]
           /\ UNCHANGED flowVars
  <2>1. \A d \in Clients : list'[d] = "normal" => list[d] = "normal"
    BY <1>1 DEF SessionInv, RestType
  <2> QED BY <1>1, <2>1, QuietStep DEF flowVars, ServerGoes, Walked
<1>2. CASE /\ list' = Closed(list, c)
           /\ \E g \in CloseFlows(c, FlowNow) : FlowBecomes(g)
  <2>1. PICK g \in CloseFlows(c, FlowNow) : FlowBecomes(g)
    BY <1>2
  <2>2. FlowNow \in FlowType /\ Walked(srv, FlowNow.srv)
    BY FlowNowType DEF Walked
  <2>3. /\ Walked(FlowNow.srv, g.srv)
        /\ "diskfull" \notin Faults => CaughtUp(list', g)
    BY <1>2, <2>1, <2>2, CloseCatchesUp
  <2> QED BY <2>1, <2>2, <2>3, FlowStep
<1> QED
  BY <1>1, <1>2 DEF HandleInPipeConnected

(* A handler that issues the next operation of c and nothing else. *)
LEMMA IssueStep ==
    ASSUME UNCHANGED <<srv, cbWrite, filePos, ptr, eof, list>>
    PROVE  Step
BY QuietStep DEF ServerGoes, Walked

LEMMA ReadErrorStep ==
    ASSUME SessionInv, NEW c \in Clients, SessionError(c, ReadDone(c), FlowNow)
    PROVE  Step
BY FlowNowType, SessionErrorStep

LEMMA WriteErrorStep ==
    ASSUME SessionInv, NEW c \in Clients, SessionError(c, rd, WriteDone(c))
    PROVE  Step
<1>1. WriteDone(c) \in FlowType /\ WriteDone(c).srv = srv
  BY WriteDoneType
<1> QED
  BY <1>1, SessionErrorStep

LEMMA ReadClientNameCompletedStep ==
    ASSUME SessionInv, NEW c \in Clients, ReadClientNameCompleted(c)
    PROVE  Step
<1>1. CASE CloseAndReturn(c, ReadDone(c), FlowNow)
  BY <1>1, FlowNowType, CloseClientStep DEF CloseAndReturn, Walked
<1>2. CASE /\ FlowBecomes([FlowNow EXCEPT !.wr[c] = Issue("reply", @)])
           /\ UNCHANGED list
  <2>1. UNCHANGED <<srv, cbWrite, filePos, ptr, eof, list>>
    BY <1>2 DEF FlowBecomes, FlowNow
  <2> QED BY <2>1, IssueStep
<1> QED
  BY <1>1, <1>2 DEF ReadClientNameCompleted

LEMMA WriteServerReplyCompletedStep ==
    ASSUME SessionInv, NEW c \in Clients, WriteServerReplyCompleted(c)
    PROVE  Step
<1>1. CASE FlowBecomes(WriteDone(c)) /\ UNCHANGED list
  <2>1. UNCHANGED <<srv, cbWrite, filePos, ptr, eof, list>>
    BY <1>1, WriteDoneType DEF FlowBecomes
  <2> QED BY <2>1, IssueStep
<1> QED
  BY <1>1, WriteErrorStep DEF WriteServerReplyCompleted

LEMMA ReadClientStartupInfoSizeCompletedStep ==
    ASSUME SessionInv, NEW c \in Clients, ReadClientStartupInfoSizeCompleted(c)
    PROVE  Step
BY ReadErrorStep, IssueStep DEF ReadClientStartupInfoSizeCompleted, flowVars

(* The client that joins is announced, and its own output started, by the
   walk: it is not left behind from its first position. *)
LEMMA ReadClientStartupInfoCompletedStep ==
    ASSUME SessionInv, NEW c \in Clients, ReadClientStartupInfoCompleted(c)
    PROVE  Step
<1> DEFINE f(back) == [FlowNow EXCEPT !.filePos[c] = FirstRead(back)]
<1>1. ASSUME NEW back \in 0..(ptr + 1)
      PROVE  f(back) \in FlowType /\ Walked(srv, f(back).srv)
  <2>1. FirstRead(back) \in Nat
    BY FlowNowType DEF FirstRead
  <2>2. f(back) = [srv |-> srv, wr |-> wr, cbWrite |-> cbWrite,
                   filePos |-> [filePos EXCEPT ![c] = FirstRead(back)],
                   ptr |-> ptr, eof |-> eof]
    BY DEF FlowNow
  <2> QED BY <2>1, <2>2, FlowNowType DEF FlowType, Walked
<1>2. ASSUME NEW back \in 0..(ptr + 1), NEW g \in Announce(list', f(back)),
             FlowBecomes(g)
      PROVE  Step
  <2> HIDE DEF f
  <2>1. /\ Walked(f(back).srv, g.srv)
        /\ "diskfull" \notin Faults => CaughtUp(list', g)
    BY <1>1, <1>2, AnnounceCatchesUp
  <2> QED BY <1>1, <1>2, <2>1, FlowStep
<1>3. ASSUME NEW back \in 0..(ptr + 1), NEW g \in CloseFlows(c, f(back)),
             NEW h \in Announce(list', g), FlowBecomes(h)
      PROVE  Step
  <2> HIDE DEF f
  <2>1. g \in FlowType /\ Walked(f(back).srv, g.srv)
    BY <1>1, <1>3, CloseCatchesUp
  <2>2. Walked(srv, g.srv)
    BY <1>1, <2>1 DEF Walked
  <2>3. /\ Walked(g.srv, h.srv)
        /\ "diskfull" \notin Faults => CaughtUp(list', h)
    BY <1>3, <2>1, AnnounceCatchesUp
  <2> QED BY <1>3, <2>2, <2>3, FlowStep
<1> QED
  BY <1>2, <1>3, ReadErrorStep DEF ReadClientStartupInfoCompleted

LEMMA FilterMessageStep ==
    ASSUME SessionInv, NEW c \in Clients, FilterMessage(c)
    PROVE  Step
<1>1. PICK g : /\ \/ g \in Announce(list, FlowNow)
                  \/ g \in StartServerToClientFlow(list, FlowNow)
               /\ \/ FlowBecomes(g) /\ UNCHANGED <<list, flags, rd>>
                  \/ CloseClient(c, ReadDone(c), g)
  BY DEF FilterMessage
<1>2. /\ g \in FlowType /\ Walked(FlowNow.srv, g.srv)
      /\ "diskfull" \notin Faults => CaughtUp(list, g)
  BY <1>1, FlowNowType, AnnounceCatchesUp, WalkCatchesUp
<1>3. Walked(srv, FlowNow.srv) /\ Walked(srv, g.srv)
  BY <1>2, FlowNowType DEF Walked
<1> QED
  BY <1>1, <1>2, <1>3, FlowStep, CloseClientStep

LEMMA FilterLineStep ==
    ASSUME SessionInv, NEW c \in Clients, FilterLine(c)
    PROVE  Step
<1>1. PICK g \in Announce(list, FlowNow) : FlowBecomes(g)
  BY DEF FilterLine
<1>2. /\ Walked(srv, FlowNow.srv) /\ Walked(FlowNow.srv, g.srv)
      /\ "diskfull" \notin Faults => CaughtUp(list, g)
  BY <1>1, FlowNowType, AnnounceCatchesUp DEF Walked
<1> QED
  BY <1>1, <1>2, FlowStep DEF FilterLine

LEMMA ReadClientInputCompletedStep ==
    ASSUME SessionInv, NEW c \in Clients, ReadClientInputCompleted(c)
    PROVE  Step
<1>1. CASE FilterKill(c)
  BY <1>1, IssueStep DEF FilterKill, flowVars
<1>2. CASE UNCHANGED <<flowVars, list>>
  BY <1>2, IssueStep DEF flowVars
<1> QED
  BY <1>1, <1>2, ReadErrorStep, FilterMessageStep, FilterLineStep
     DEF ReadClientInputCompleted

LEMMA FilterKillReturnsStep ==
    ASSUME SessionInv, NEW c \in Clients, FilterKillReturns(c)
    PROVE  Step
<1>1. CASE UNCHANGED <<flowVars, list>>
  BY <1>1, IssueStep DEF flowVars
<1>2. CASE CloseClient(c, rd, FlowNow)
  BY <1>2, FlowNowType, CloseClientStep DEF Walked
<1> QED
  BY <1>1, <1>2 DEF FilterKillReturns

LEMMA WriteChildStdInCompletedStep ==
    ASSUME SessionInv, NEW c \in Clients, WriteChildStdInCompleted(c)
    PROVE  Step
BY ReadErrorStep, IssueStep DEF WriteChildStdInCompleted, flowVars

-----------------------------------------------------------------------------
(* A client's output. *)

(* A flow that differs from the current one only in c's chain and position. *)
NowBut(c, f) ==
    /\ f \in FlowType /\ f.srv = srv /\ f.ptr = ptr /\ f.eof = eof
    /\ \A d \in Clients \ {c} : f.cbWrite[d] = cbWrite[d] /\ f.filePos[d] = filePos[d]

(* c's chain goes on, or it has reached the end of the file. *)
LEMMA ChainStep ==
    ASSUME NEW c \in Clients, NEW f, NowBut(c, f), FlowBecomes(f), UNCHANGED list,
           f.cbWrite[c] # 0 \/ f.filePos[c] >= Lesser(f.ptr, f.eof)
    PROVE  Step
<1>1. ASSUME IdleMeansCaughtUp PROVE CaughtUp(list', f)
  BY <1>1 DEF NowBut, CaughtUp, IdleMeansCaughtUp
<1>2. NoneLeftBehind
  BY <1>1 DEF NoneLeftBehind, IdleMeansCaughtUp, CaughtUp, FlowBecomes
<1>3. ServerGoes
  BY DEF NowBut, FlowBecomes, ServerGoes, Walked
<1> QED
  BY <1>2, <1>3 DEF Step

LEMMA NowButChain ==
    ASSUME NEW c \in Clients, NEW f, NowBut(c, f), NEW w \in WriteOps, NEW k \in Nat
    PROVE  NowBut(c, Chain(f, c, w, k)) /\ Chain(f, c, w, k).cbWrite[c] = k
<1> DEFINE g == Chain(f, c, w, k)
<1>1. /\ g.srv = f.srv /\ g.filePos = f.filePos /\ g.ptr = f.ptr /\ g.eof = f.eof
      /\ g.wr = [f.wr EXCEPT ![c] = w] /\ g.cbWrite = [f.cbWrite EXCEPT ![c] = k]
  BY DEF NowBut, FlowType, Chain
<1>2. g \in FlowType
  BY <1>1 DEF NowBut, FlowType, Chain
<1> QED
  BY <1>1, <1>2 DEF NowBut, FlowType

LEMMA ReadNextChunkStep ==
    ASSUME NEW c \in Clients, NEW f, NowBut(c, f), f.cbWrite[c] = 0,
           ReadNextChunk(c, f)
    PROVE  Step
<1>1. f \in FlowType /\ f.filePos[c] \in Nat /\ f.ptr \in Nat /\ f.eof \in Nat
      /\ f.wr[c] \in WriteOps
  BY DEF NowBut, FlowType
<1>2. CASE FlowBecomes(StartReadTempFile(f, c)) /\ UNCHANGED list
  <2>1. CASE Behind(f, c) /\ f.filePos[c] < f.eof
    <3> DEFINE k == Lesser(BUFFSIZE, f.ptr - f.filePos[c])
               w == Issue("temp", f.wr[c])
    <3>1. k \in Nat \ {0}
      BY <1>1, <2>1, BuffsizeAssumption DEF Behind, Lesser
    <3>2. w \in WriteOps
      BY <1>1 DEF Issue
    <3>3. StartReadTempFile(f, c) = Chain(f, c, w, k)
      BY <2>1 DEF StartReadTempFile, Chain, Behind
    <3> HIDE DEF k, w
    <3>4. NowBut(c, Chain(f, c, w, k)) /\ Chain(f, c, w, k).cbWrite[c] # 0
      BY <3>1, <3>2, NowButChain
    <3> QED BY <1>2, <3>3, <3>4, ChainStep
  <2>2. CASE ~(Behind(f, c) /\ f.filePos[c] < f.eof)
    <3>1. StartReadTempFile(f, c) = f
      BY <2>2 DEF StartReadTempFile
    <3>2. f.filePos[c] >= Lesser(f.ptr, f.eof)
      BY <1>1, <2>2 DEF Behind, Lesser
    <3> QED BY <1>2, <3>1, <3>2, ChainStep
  <2> QED BY <2>1, <2>2
<1>3. CASE CloseClient(c, rd, f)
  BY <1>3, CloseClientStep DEF NowBut, Walked
<1> QED
  BY <1>2, <1>3 DEF ReadNextChunk

LEMMA StartWriteSessionOutputStep ==
    ASSUME NEW c \in Clients, NEW f, NowBut(c, f), NEW m \in Nat,
           StartWriteSessionOutput(c, f, m)
    PROVE  Step
<1>0. f \in FlowType /\ f.wr[c] \in WriteOps
  BY DEF NowBut, FlowType
<1>1. ASSUME NEW k \in Nat \ {0}, NEW op \in OutputChain, UNCHANGED list,
             FlowBecomes([f EXCEPT !.wr[c] = Issue(op, @), !.cbWrite[c] = k])
      PROVE  Step
  <2> DEFINE w == Issue(op, f.wr[c])
  <2>1. w \in WriteOps
    BY <1>0 DEF Issue
  <2>2. FlowBecomes(Chain(f, c, w, k))
    BY <1>1 DEF Chain
  <2> HIDE DEF w
  <2>3. NowBut(c, Chain(f, c, w, k)) /\ Chain(f, c, w, k).cbWrite[c] # 0
    BY <2>1, NowButChain
  <2> QED BY <1>1, <2>2, <2>3, ChainStep
<1>2. CASE ReadNextChunk(c, [f EXCEPT !.cbWrite[c] = 0])
  <2>1. [f EXCEPT !.cbWrite[c] = 0] = Chain(f, c, f.wr[c], 0)
    BY <1>0 DEF FlowType, Chain
  <2>2. /\ NowBut(c, Chain(f, c, f.wr[c], 0))
        /\ Chain(f, c, f.wr[c], 0).cbWrite[c] = 0
    BY <1>0, NowButChain
  <2> QED BY <1>2, <2>1, <2>2, ReadNextChunkStep
<1>3. CASE CloseClient(c, rd, f)
  BY <1>3, CloseClientStep DEF NowBut, Walked
<1>4. ASSUME NEW k \in 1..m, UNCHANGED list,
             FlowBecomes([f EXCEPT !.wr[c] = Issue("writenext", @), !.cbWrite[c] = k])
      PROVE  Step
  <2>1. k \in Nat \ {0} /\ "writenext" \in OutputChain
    OBVIOUS
  <2> HIDE DEF OutputChain
  <2> QED BY <1>1, <1>4, <2>1
<1>5. CASE /\ m > 0 /\ UNCHANGED list
           /\ FlowBecomes([f EXCEPT !.wr[c] = Issue("readnext", @), !.cbWrite[c] = m])
  <2>1. m \in Nat \ {0} /\ "readnext" \in OutputChain
    BY <1>5
  <2> HIDE DEF OutputChain
  <2> QED BY <1>1, <1>5, <2>1
<1> QED
  BY <1>2, <1>3, <1>4, <1>5 DEF StartWriteSessionOutput

LEMMA NowButDone ==
    ASSUME SessionInv, NEW c \in Clients
    PROVE  NowBut(c, WriteDone(c))
BY WriteDoneType DEF NowBut

LEMMA ReadTempFileCompletedStep ==
    ASSUME SessionInv, NEW c \in Clients, ReadTempFileCompleted(c)
    PROVE  Step
<1>1. wr[c] = "temp"
  BY DEF ReadTempFileCompleted
<1> DEFINE n == Lesser(cbWrite[c], eof - filePos[c])
           f == [WriteDone(c) EXCEPT !.filePos[c] = @ + n]
<1>2. n \in Nat
  BY <1>1, WriteDoneNormal DEF Lesser
<1>3. f = [srv |-> srv, wr |-> [wr EXCEPT ![c] = "none"], cbWrite |-> cbWrite,
           filePos |-> [filePos EXCEPT ![c] = @ + n], ptr |-> ptr, eof |-> eof]
  BY WriteDoneType
<1>4. NowBut(c, f)
  BY <1>2, <1>3, FlowNowType DEF NowBut, FlowType
<1>5. CASE StartWriteSessionOutput(c, f, n)
  <2> HIDE DEF f, n
  <2> QED BY <1>2, <1>4, <1>5, StartWriteSessionOutputStep
<1> QED
  BY <1>5, WriteErrorStep DEF ReadTempFileCompleted

(* A chain with a write pending has cbWrite to show for it: the ErrorExit in
   WriteSessionOutputCompletedCommon is not reached. *)
LEMMA OutputPending ==
    ASSUME SessionInv, NEW c \in Clients, Live(c), wr[c] \in OutputChain
    PROVE  cbWrite[c] # 0
BY LiveOK DEF SessionInv, FlowOK, FlowRule, OutputRule, FlowNow

LEMMA WriteSessionOutputCompletedWriteNextStep ==
    ASSUME SessionInv, NEW c \in Clients, WriteSessionOutputCompletedWriteNext(c)
    PROVE  Step
<1>1. cbWrite[c] # 0 /\ left[c] \in Nat
  BY OutputPending DEF WriteSessionOutputCompletedWriteNext, SessionInv, RestType
<1>2. CASE StartWriteSessionOutput(c, WriteDone(c), left[c])
  BY <1>1, <1>2, NowButDone, StartWriteSessionOutputStep
<1> QED
  BY <1>1, <1>2, WriteErrorStep
     DEF WriteSessionOutputCompletedWriteNext, OutputWritten

LEMMA WriteSessionOutputCompletedReadNextStep ==
    ASSUME SessionInv, NEW c \in Clients, WriteSessionOutputCompletedReadNext(c)
    PROVE  Step
<1>1. cbWrite[c] # 0
  BY OutputPending DEF WriteSessionOutputCompletedReadNext
<1> DEFINE d == WriteDone(c)
           f == [d EXCEPT !.cbWrite[c] = 0]
<1>2. f = Chain(d, c, d.wr[c], 0) /\ d.wr[c] \in WriteOps
  BY WriteDoneType DEF FlowType, Chain
<1>3. NowBut(c, f) /\ f.cbWrite[c] = 0
  <2>1. NowBut(c, d)
    BY NowButDone
  <2>2. NowBut(c, Chain(d, c, d.wr[c], 0)) /\ Chain(d, c, d.wr[c], 0).cbWrite[c] = 0
    <3> HIDE DEF d
    <3> QED BY <1>2, <2>1, NowButChain
  <2> HIDE DEF d
  <2> QED BY <1>2, <2>2
<1>4. CASE ReadNextChunk(c, f)
  BY <1>3, <1>4, ReadNextChunkStep
<1> QED
  BY <1>1, <1>4, WriteErrorStep
     DEF WriteSessionOutputCompletedReadNext, OutputWritten

-----------------------------------------------------------------------------
(* The child, clients on their way out, and the server's end. *)

LEMMA ReadChildOutputCompletedStep ==
    ASSUME SessionInv, ReadChildOutputCompleted
    PROVE  Step
BY IssueStep, ErrorExitStep DEF ReadChildOutputCompleted, flowVars

LEMMA WriteTempFileCompletedStep ==
    ASSUME SessionInv, WriteTempFileCompleted
    PROVE  Step
<1>1. ASSUME NEW g \in StartServerToClientFlow(list, AfterWrite(FlowNow, childOff)),
             FlowBecomes(g), UNCHANGED list
      PROVE  Step
  <2>1. childOff \in Nat
    BY DEF SessionInv, RestType
  <2> DEFINE f == AfterWrite(FlowNow, childOff)
  <2>2. f \in FlowType /\ Walked(srv, f.srv)
    BY <2>1, FlowNowType, AfterWriteType DEF Walked
  <2> HIDE DEF f
  <2>3. CaughtUp(list, g) /\ Walked(f.srv, g.srv)
    BY <1>1, <2>2, WalkCatchesUp DEF f
  <2> QED BY <1>1, <2>2, <2>3, FlowStep
<1>2. CASE UNCHANGED <<flowVars, list>>
  BY <1>2, IssueStep DEF flowVars
<1>3. CASE ErrorExit /\ (child = "writecancelled" \/ "fatal" \in Faults)
  BY <1>3, ErrorExitStep
<1> QED
  BY <1>1, <1>2, <1>3 DEF WriteTempFileCompleted

LEMMA CompletedFreedStep ==
    ASSUME SessionInv, NEW c \in Clients, CompletedFreed(c)
    PROVE  Step
<1>1. ~FreedNodesIdle
  BY DEF CompletedFreed, FreedNodesIdle
<1>2. ServerGoes
  BY <1>1 DEF CompletedFreed, ServerGoes, Walked
<1> QED
  BY <1>2, QuietStep DEF CompletedFreed

LEMMA WriteCompletedClosingStep ==
    ASSUME SessionInv, NEW c \in Clients, WriteCompletedClosing(c)
    PROVE  Step
<1>1. UNCHANGED <<srv, cbWrite, filePos, ptr, eof, list>>
  BY WriteDoneType DEF WriteCompletedClosing, FlowBecomes
<1> QED
  BY <1>1, IssueStep

LEMMA ServerStepStep ==
    ASSUME SessionInv, ServerStep
    PROVE  Step
<1>1. CASE ChildExits
  BY <1>1, IssueStep DEF ChildExits, flowVars
<1>2. CASE WaitTimedOut
  BY <1>2, QuietStep DEF WaitTimedOut, flowVars, ServerGoes, Walked
<1>3. CASE ShutDown
  BY <1>3, QuietStep DEF ShutDown, InMainLoop, ServerGoes
<1>4. CASE CloseTempFile
  BY <1>4, QuietStep DEF CloseTempFile, ServerGoes
<1> QED
  BY <1>1, <1>2, <1>3, <1>4, HandleInPipeConnectedStep, FilterKillReturnsStep
     DEF ServerStep

(* Every step of the server. *)
LEMMA NextStep ==
    ASSUME SessionInv, [Next]_vars
    PROVE  Step
<1>1. ASSUME NEW c \in Clients, InputCompletion(c) PROVE Step
  <2>1. CASE ReadCompletedClosing(c)
    BY <2>1, IssueStep DEF ReadCompletedClosing, flowVars
  <2> QED
    BY <1>1, <2>1, ReadClientNameCompletedStep, ReadClientStartupInfoSizeCompletedStep,
       ReadClientStartupInfoCompletedStep, ReadClientInputCompletedStep,
       WriteChildStdInCompletedStep DEF InputCompletion
<1>2. ASSUME NEW c \in Clients, OutputCompletion(c) PROVE Step
  BY <1>2, WriteServerReplyCompletedStep, ReadTempFileCompletedStep,
     WriteSessionOutputCompletedWriteNextStep, WriteSessionOutputCompletedReadNextStep,
     WriteCompletedClosingStep DEF OutputCompletion
<1>3. CASE Completion
  BY <1>1, <1>2, <1>3, CompletedFreedStep, ReadChildOutputCompletedStep,
     WriteTempFileCompletedStep DEF Completion, ClientCompletion, ChildCompletion
<1>4. CASE SleepAgain
  BY <1>4, IssueStep DEF SleepAgain, flowVars
<1>5. CASE Exit
  BY <1>5, QuietStep DEF Exit, ServerGoes
<1>6. CASE UNCHANGED vars
  BY <1>6, IssueStep DEF vars
<1> QED
  BY <1>3, <1>4, <1>5, <1>6, ServerStepStep DEF Next, Ended

(* Only the end of the wait for the child cancels the write of its output. *)
WriteHeld == srv = "running" => child # "writecancelled"

LEMMA WriteHeldNext ==
    ASSUME SessionInv, WriteHeld, [Next]_vars
    PROVE  WriteHeld'
<1>1. srv' = "running" => srv = "running"
  BY NextStep DEF Step, ServerGoes, Walked
<1>2. child' # "writecancelled" \/ child' = child \/ srv' = "flushing"
  <2>1. CASE ServerStep \/ ChildCompletion \/ SleepAgain \/ Exit
    BY <2>1 DEF ServerStep, ChildCompletion, ReadChildOutputCompleted,
         WriteTempFileCompleted, StopChildInput, ErrorExit, childVars,
         HandleInPipeConnected, FilterKillReturns, ChildExits, WaitTimedOut, ShutDown,
         CloseTempFile, SleepAgain, Exit
  <2>2. ASSUME NEW c \in Clients, ClientCompletion(c) PROVE UNCHANGED child
    <3>1. CASE InputCompletion(c)
      BY <3>1 DEF InputCompletion, ReadClientNameCompleted, SessionError, ErrorExit,
           CloseAndReturn, childVars, ReadClientStartupInfoSizeCompleted,
           ReadClientStartupInfoCompleted, ReadClientInputCompleted, FilterMessage,
           FilterLine, FilterKill, WriteChildStdInCompleted, ReadCompletedClosing
    <3>2. CASE OutputCompletion(c)
      BY <3>2 DEF OutputCompletion, WriteServerReplyCompleted, SessionError, ErrorExit,
           CloseAndReturn, childVars, ReadTempFileCompleted, OutputWritten,
           WriteSessionOutputCompletedWriteNext, WriteSessionOutputCompletedReadNext,
           WriteCompletedClosing
    <3> QED
      BY <2>2, <3>1, <3>2 DEF ClientCompletion, CompletedFreed, childVars
  <2> QED BY <2>1, <2>2 DEF Next, Completion, Ended, vars
<1> QED
  BY <1>1, <1>2 DEF WriteHeld

-----------------------------------------------------------------------------
(* The theorems. *)

LEMMA ServingInvariant == Spec => [](SessionInv /\ WriteHeld)
<1>1. Init => SessionInv /\ WriteHeld
  BY InitOK DEF Init, WriteHeld
<1>2. SessionInv /\ WriteHeld /\ [Next]_vars => (SessionInv /\ WriteHeld)'
  BY NextOK, WriteHeldNext
<1> QED
  BY <1>1, <1>2, PTL DEF Spec

(* No wakeup is lost: as long as announcements reach the temp file, a connected
   client of the running server whose output chain is at rest has been sent all
   the file holds, whatever walk, nested close, join or completion came last.
   A full disk is the one exception: a client that joins is started by the
   announcement of its own arrival. *)
THEOREM NoLostWakeup ==
    ASSUME "diskfull" \notin Faults
    PROVE  Spec => []IdleMeansCaughtUp
<1>1. Init => IdleMeansCaughtUp
  BY DEF Init, IdleMeansCaughtUp, Lesser
<1>2. SessionInv /\ IdleMeansCaughtUp /\ [Next]_vars => IdleMeansCaughtUp'
  BY NextStep DEF Step, NoneLeftBehind
<1> QED
  BY <1>1, <1>2, SessionInvariant, PTL DEF Spec

(* Whatever the faults, every step that takes the server out of its loop is a
   shutdown or has one of the causes ServerGoes names; none of the ErrorExits
   that assert the state of a client's chain is among them. *)
THEOREM FailuresHaveCauses == Spec => [][ServerGoes]_vars
<1>1. SessionInv /\ [Next]_vars => [ServerGoes]_vars
  BY NextStep DEF Step
<1> QED
  BY <1>1, SessionInvariant, PTL DEF Spec

(* A server whose I/O only breaks as connections do serves until it shuts down,
   unless a write to the child outlives its client's node. *)
THEOREM ServesUntilShutdown ==
    ASSUME {"fatal", "tempread"} \cap Faults = {}
    PROVE  Spec => ServingNeverFails
<1>1. SessionInv /\ WriteHeld /\ [Next]_vars
        => [srv = "running" /\ FreedNodesIdle => srv' \in {"running", "draining"}]_vars
  BY NextStep DEF Step, ServerGoes, Walked, WriteHeld, TempReadMayFail
<1> QED
  BY <1>1, ServingInvariant, PTL DEF Spec, ServingNeverFails

=============================================================================
