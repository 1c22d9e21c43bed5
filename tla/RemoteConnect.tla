--------------------------- MODULE RemoteConnect ---------------------------
(***************************************************************************)
(* How clients reach a remote.exe server: the named pipe instances servers *)
(* listen on, the connects of clients, and ReadClientNameCompleted, which  *)
(* decides what pipe a new session's output goes to.                       *)
(*                                                                         *)
(* A one-pipe client opens an IN pipe and uses it both ways.  A two-pipe   *)
(* client opens the OUT pipe and then an IN pipe; the server learns that   *)
(* the two are one client's only from there being a single OUT instance.   *)
(* Several servers may share a pipe name; then each listens on one IN      *)
(* pipe, and the instance that was created first is connected first.       *)
(*                                                                         *)
(* A step is one event of a server's main loop, one of its completion      *)
(* routines, or one step of a client.  Where clients may be so quick as to *)
(* connect between CreateNamedPipe and ConnectNamedPipe, a handler that    *)
(* creates an instance ends at the first call, and what the second does is *)
(* a step of its own, before any other of that server.  A handler that     *)
(* creates two instances leaves two such steps, in either order.           *)
(***************************************************************************)
EXTENDS Naturals, Sequences, FiniteSets

CONSTANTS
    Servers,        \* remote.exe servers on one pipe name of one machine
    OnePipe,        \* clients that open the IN pipe for reading and writing
    TwoPipe,        \* clients that open OUT, then IN
    NoClient,       \* nobody: no client at the other end of a pipe
    NoServer,       \* no server: the client has not opened an IN pipe
    CONNECT_COUNT,  \* IN pipes a server that is alone listens on
    May             \* what the environment may do

Clients == OnePipe \cup TwoPipe

Conditions ==
    { "die",    \* a client dies, or gives up, after it began to connect
      "slow",   \* a client that lives takes more than a minute from OUT to its name
      "oom",    \* HeapAlloc fails
      "rush",   \* a client connects before ConnectNamedPipe, and may be gone by then
      "crowd" } \* clients and servers start while another client is connecting

ASSUME KindsAssumption == OnePipe \cap TwoPipe = {} /\ NoClient \notin Clients
ASSUME ServersAssumption == NoServer \notin Servers
ASSUME CountAssumption == CONNECT_COUNT \in Nat /\ CONNECT_COUNT > 1
ASSUME MayAssumption == May \subseteq Conditions

VARIABLES
    inListen,           \* listening IN instances, by server, oldest first
    outListen,          \* listening OUT instances, by server, oldest first
    perPipeEvent,       \* the named event a later server sets
    cConnectIns,        \* IN pipes a server keeps listening, 0 before it starts
    hPipeOut,           \* the client connected to the server's OUT pipe
    bOutPipeConnected,  \* the server has seen that client
    outFresh,           \* ConnectNamedPipe is still to be called on hPipeOut
    inFresh,            \* and on the youngest of the server's IN pipes
    early,              \* the client connected to that IN pipe already
    timer,              \* hConnectOutTimer is set
    pos,                \* how far a client has come
    alive,              \* the client's process runs
    home,               \* the server whose IN pipe the client is connected to
    node,               \* what the server has made of that connection
    writeTo             \* the client at the other end of PipeWriteH

listenVars == <<inListen, outListen>>
outVars == <<hPipeOut, bOutPipeConnected, outFresh>>
freshVars == <<inFresh, early>>
clientVars == <<pos, alive>>
vars == <<inListen, outListen, perPipeEvent, cConnectIns, hPipeOut,
          bOutPipeConnected, outFresh, inFresh, early, timer, pos, alive, home,
          node, writeTo>>

\* "connecting": its event is signaled.  "naming": the name is being read.
\* "refused": a two-pipe client whose OUT pipe the server does not have.
\* "dropped": the server took its pipe down.
Nodes == {"none", "connecting", "naming", "open", "refused", "dropped", "closed"}
Positions == {"idle", "out", "in", "sent"}

TypeOK ==
    /\ inListen \in Seq(Servers)
    /\ outListen \in Seq(Servers)
    /\ perPipeEvent \in BOOLEAN
    /\ cConnectIns \in [Servers -> 0..CONNECT_COUNT]
    /\ hPipeOut \in [Servers -> TwoPipe \cup {NoClient}]
    /\ bOutPipeConnected \in [Servers -> BOOLEAN]
    /\ outFresh \in [Servers -> BOOLEAN]
    /\ inFresh \in [Servers -> BOOLEAN]
    /\ early \in [Servers -> Clients \cup {NoClient}]
    /\ timer \in [Servers -> BOOLEAN]
    /\ pos \in [Clients -> Positions]
    /\ alive \in [Clients -> BOOLEAN]
    /\ home \in [Clients -> Servers \cup {NoServer}]
    /\ node \in [Clients -> Nodes]
    /\ writeTo \in [Clients -> Clients \cup {NoClient}]

Init ==
    /\ inListen = <<>>
    /\ outListen = <<>>
    /\ perPipeEvent = FALSE
    /\ cConnectIns = [s \in Servers |-> 0]
    /\ hPipeOut = [s \in Servers |-> NoClient]
    /\ bOutPipeConnected = [s \in Servers |-> FALSE]
    /\ outFresh = [s \in Servers |-> FALSE]
    /\ inFresh = [s \in Servers |-> FALSE]
    /\ early = [s \in Servers |-> NoClient]
    /\ timer = [s \in Servers |-> FALSE]
    /\ pos = [c \in Clients |-> "idle"]
    /\ alive = [c \in Clients |-> TRUE]
    /\ home = [c \in Clients |-> NoServer]
    /\ node = [c \in Clients |-> "none"]
    /\ writeTo = [c \in Clients |-> NoClient]

Started(s) == cConnectIns[s] > 0

\* The thread of s is not about to call ConnectNamedPipe.
Ready(s) == ~ outFresh[s] /\ ~ inFresh[s]

\* The places of s in a queue of listening instances, and what is left of the
\* queue, in its order, when s closes the instances it has there.
Instances(q, s) == {i \in DOMAIN q : q[i] = s}
Rests(q, s) ==
    LET rest[i \in 0..Len(q)] ==
          IF i = 0 THEN <<>>
          ELSE IF q[i] = s THEN rest[i - 1] ELSE Append(rest[i - 1], q[i])
    IN rest
Rest(q, s) == Rests(q, s)[Len(q)]

\* Clients connected to an IN pipe of s that s has not handled yet.
Connecting(s) == {c \in Clients : home[c] = s /\ node[c] = "connecting"}

\* The main loop waits on the handles in this order and handles the first
\* that is signaled.
FallBackDue(s) == perPipeEvent /\ cConnectIns[s] > 1
OutDue(s) == hPipeOut[s] # NoClient /\ ~ bOutPipeConnected[s]

\* Nobody is between the first step to connect and being handled, and every
\* server has its pipes listening.
Quiet ==
    /\ \A c \in Clients : node[c] \notin {"connecting", "naming"}
    /\ \A c \in Clients : ~ (alive[c] /\ pos[c] = "out")
    /\ \A s \in Servers : hPipeOut[s] = NoClient /\ ~ FallBackDue(s)

MayBegin == "crowd" \in May \/ Quiet

-----------------------------------------------------------------------------
(* Clients: EstablishSession and SendMyInfo. *)

\* CreateFile opens the oldest listening instance; with none it fails with
\* ERROR_PIPE_BUSY, and the client waits and tries again.
ConnectOut(c) ==
    /\ c \in TwoPipe /\ alive[c] /\ pos[c] = "idle" /\ MayBegin
    /\ \E s \in Servers :
         /\ outListen # <<>> /\ Head(outListen) = s
         /\ outListen' = Tail(outListen)
         /\ hPipeOut' = [hPipeOut EXCEPT ![s] = c]
    /\ pos' = [pos EXCEPT ![c] = "out"]
    /\ UNCHANGED <<inListen, perPipeEvent, cConnectIns, bOutPipeConnected, outFresh,
                   freshVars, timer, alive, home, node, writeTo>>

ConnectIn(c) ==
    /\ alive[c]
    /\ IF c \in TwoPipe THEN pos[c] = "out" ELSE pos[c] = "idle" /\ MayBegin
    /\ \E s \in Servers :
         /\ inListen # <<>> /\ Head(inListen) = s
         /\ inListen' = Tail(inListen)
         /\ home' = [home EXCEPT ![c] = s]
         /\ early' = IF inFresh[s] /\ early[s] = NoClient
                     THEN [early EXCEPT ![s] = c] ELSE early
    /\ node' = [node EXCEPT ![c] = "connecting"]
    /\ pos' = [pos EXCEPT ![c] = "in"]
    /\ UNCHANGED <<outListen, perPipeEvent, cConnectIns, outVars, inFresh, timer,
                   alive, writeTo>>

\* The name goes into the pipe whether or not the server reads yet, unless
\* the server has taken the pipe down.
SendMyInfo(c) ==
    /\ alive[c] /\ pos[c] = "in" /\ node[c] \in {"connecting", "naming"}
    /\ pos' = [pos EXCEPT ![c] = "sent"]
    /\ UNCHANGED <<listenVars, perPipeEvent, cConnectIns, outVars, freshVars, timer,
                   alive, home, node, writeTo>>

\* The client's process ends, or its six tries to reach a busy pipe are over.
Dies(c) ==
    /\ "die" \in May
    /\ alive[c] /\ pos[c] # "idle"
    /\ alive' = [alive EXCEPT ![c] = FALSE]
    /\ UNCHANGED <<listenVars, perPipeEvent, cConnectIns, outVars, freshVars, timer,
                   pos, home, node, writeTo>>

-----------------------------------------------------------------------------
(* Servers. *)

\* An instance created behind these in its queue may have a client before
\* ConnectNamedPipe is called.  Behind others it has not: clients who meanwhile
\* connect to those might as well have done so before.
Gap(queue) == "rush" \in May /\ queue = <<>>

\* s creates an IN instance.
FreshIn(s, queue) == inFresh' = [inFresh EXCEPT ![s] = Gap(queue)]

\* The server's OUT instance goes, to a session or closed, listening or
\* connected, and another is created, the youngest of all that listen.
OtherOuts(s) == IF hPipeOut[s] = NoClient THEN Rest(outListen, s) ELSE outListen
ReplaceOut(s) ==
    /\ outListen' = Append(OtherOuts(s), s)
    /\ hPipeOut' = [hPipeOut EXCEPT ![s] = NoClient]
    /\ bOutPipeConnected' = [bOutPipeConnected EXCEPT ![s] = FALSE]
    /\ outFresh' = [outFresh EXCEPT ![s] = Gap(OtherOuts(s))]

KeepOut == UNCHANGED <<outListen, outVars>>

AnotherStarted_Alone == FALSE
AnotherStarted == \E t \in Servers : Started(t)

InsAtStart_OneMore == IF AnotherStarted THEN 1 ELSE CONNECT_COUNT + 1
InsAtStart == IF AnotherStarted THEN 1 ELSE CONNECT_COUNT

\* OverlappedServer, up to the main loop: a server that finds the event of
\* another signals it and listens on one IN pipe from the start.
Start(s) ==
    /\ cConnectIns[s] = 0 /\ MayBegin
    /\ perPipeEvent' = (perPipeEvent \/ AnotherStarted)
    /\ cConnectIns' = [cConnectIns EXCEPT ![s] = InsAtStart]
    /\ inListen' = inListen \o [i \in 1..InsAtStart |-> s]
    /\ outListen' = Append(outListen, s)
    /\ outFresh' = [outFresh EXCEPT ![s] = Gap(outListen)]
    /\ FreshIn(s, inListen)
    /\ UNCHANGED <<hPipeOut, bOutPipeConnected, early, timer, clientVars, home, node,
                   writeTo>>

\* The event of a later server: every IN instance but the first is taken
\* down, connected or not.  The first may be any of those that listen, or
\* one that a client is connected to.
FallBack(s) ==
    /\ Ready(s) /\ FallBackDue(s)
    /\ cConnectIns' = [cConnectIns EXCEPT ![s] = 1]
    /\ \/ \E i \in DOMAIN inListen :
            /\ inListen[i] = s
            /\ inListen' = Rest(SubSeq(inListen, 1, i - 1), s) \o <<s>>
                             \o Rest(SubSeq(inListen, i + 1, Len(inListen)), s)
            /\ node' = [c \in Clients |->
                          IF c \in Connecting(s) THEN "dropped" ELSE node[c]]
       \/ \E d \in Connecting(s) :
            /\ inListen' = Rest(inListen, s)
            /\ node' = [c \in Clients |->
                          IF c \in Connecting(s) \ {d} THEN "dropped" ELSE node[c]]
    /\ UNCHANGED <<outListen, perPipeEvent, outVars, freshVars, timer, clientVars,
                   home, writeTo>>

\* s takes note of the client on its OUT pipe.
OutConnected_NoTimer(s) ==
    /\ bOutPipeConnected' = [bOutPipeConnected EXCEPT ![s] = TRUE]
    /\ UNCHANGED timer
OutConnected(s) ==
    /\ bOutPipeConnected' = [bOutPipeConnected EXCEPT ![s] = TRUE]
    /\ timer' = [timer EXCEPT ![s] = TRUE]

HandleOutPipeConnected(s) ==
    /\ Ready(s) /\ OutDue(s) /\ ~ FallBackDue(s)
    /\ OutConnected(s)
    /\ UNCHANGED <<listenVars, perPipeEvent, cConnectIns, hPipeOut, outFresh, freshVars,
                   clientVars, home, node, writeTo>>

\* The IN events of s are looked at.
InsLookedAt_First(s) == ~ FallBackDue(s)
InsLookedAt(s) == ~ FallBackDue(s) /\ ~ OutDue(s)

\* A client's IN pipe is handed to a new node and another one listens in its
\* place; without memory for the node its caller is hung up on, and so is the
\* two-pipe caller on OUT, whoever that is.
InConnected(s, c) ==
    /\ inListen' = Append(inListen, s)
    /\ FreshIn(s, inListen)
    /\ \/ /\ node' = [node EXCEPT ![c] = "naming"]
          /\ KeepOut /\ UNCHANGED timer
       \/ /\ "oom" \in May
          /\ node' = [node EXCEPT ![c] = "dropped"]
          /\ IF bOutPipeConnected[s]
             THEN ReplaceOut(s) /\ timer' = [timer EXCEPT ![s] = FALSE]
             ELSE KeepOut /\ UNCHANGED timer
    /\ UNCHANGED <<perPipeEvent, cConnectIns, clientVars, home, writeTo>>

HandleInPipeConnected(c) ==
    \E s \in Servers :
        /\ home[c] = s /\ node[c] = "connecting"
        /\ Ready(s) /\ InsLookedAt(s)
        /\ InConnected(s, c)
        /\ UNCHANGED early

\* ConnectNamedPipe fails with what is not expected of it, as client c, connected
\* to the pipe, has gone (ERROR_NO_DATA).  This is an ErrorExit: the server's pipes
\* and sessions go with it, and the named event if no other server has it open.
\* It may be started again.
ServerEnds(s, c) ==
    /\ alive' = [alive EXCEPT ![c] = FALSE]
    /\ inListen' = Rest(inListen, s)
    /\ outListen' = Rest(outListen, s)
    /\ perPipeEvent' = (perPipeEvent /\ \E t \in Servers \ {s} : Started(t))
    /\ cConnectIns' = [cConnectIns EXCEPT ![s] = 0]
    /\ hPipeOut' = [hPipeOut EXCEPT ![s] = NoClient]
    /\ bOutPipeConnected' = [bOutPipeConnected EXCEPT ![s] = FALSE]
    /\ outFresh' = [outFresh EXCEPT ![s] = FALSE]
    /\ inFresh' = [inFresh EXCEPT ![s] = FALSE]
    /\ early' = [early EXCEPT ![s] = NoClient]
    /\ timer' = [timer EXCEPT ![s] = FALSE]
    /\ node' = [d \in Clients |->
                  IF home[d] = s /\ node[d] \in {"connecting", "naming", "open"}
                  THEN "dropped" ELSE node[d]]
    /\ UNCHANGED <<pos, home, writeTo>>

\* ConnectNamedPipe on the OUT instance.  It listens; or a client is connected
\* and handled at once; or that client has gone.
ConnectNamedPipeOut(s) ==
    /\ outFresh[s]
    /\ \/ /\ hPipeOut[s] = NoClient
          /\ outFresh' = [outFresh EXCEPT ![s] = FALSE]
          /\ UNCHANGED <<listenVars, perPipeEvent, cConnectIns, hPipeOut,
                         bOutPipeConnected, freshVars, timer, clientVars, home, node,
                         writeTo>>
       \/ \E c \in TwoPipe :
            /\ hPipeOut[s] = c /\ alive[c]
            /\ outFresh' = [outFresh EXCEPT ![s] = FALSE]
            /\ OutConnected(s)
            /\ UNCHANGED <<listenVars, perPipeEvent, cConnectIns, hPipeOut, freshVars,
                           clientVars, home, node, writeTo>>
       \/ \E c \in TwoPipe : hPipeOut[s] = c /\ ServerEnds(s, c)

\* ConnectNamedPipe on an IN instance.  A client that is connected is handled at
\* once, without a look at the OUT event.
ConnectNamedPipeIn(s) ==
    /\ inFresh[s]
    /\ \/ /\ early[s] = NoClient
          /\ inFresh' = [inFresh EXCEPT ![s] = FALSE]
          /\ UNCHANGED <<listenVars, perPipeEvent, cConnectIns, outVars, early, timer,
                         clientVars, home, node, writeTo>>
       \/ \E c \in Clients :
            /\ early[s] = c /\ alive[c]
            /\ InConnected(s, c)
            /\ early' = [early EXCEPT ![s] = NoClient]
       \/ \E c \in Clients : early[s] = c /\ ServerEnds(s, c)

\* The client is gone before its name, or what it sent is no name.
NameFails(c) ==
    /\ node[c] = "naming" /\ ~ alive[c] /\ pos[c] # "sent"
    /\ \A s \in Servers : home[c] = s => Ready(s)
    /\ node' = [node EXCEPT ![c] = "closed"]
    /\ UNCHANGED <<listenVars, perPipeEvent, cConnectIns, outVars, freshVars, timer,
                   clientVars, home, writeTo>>

\* What becomes of OUT when a one-pipe client is handled.
OutAfterOnePipe_Always(s) == ReplaceOut(s)
OutAfterOnePipe_Never(s) == KeepOut
OutAfterOnePipe(s) == IF cConnectIns[s] = 1 THEN ReplaceOut(s) ELSE KeepOut

NameOfOnePipe_AnyName(c) ==
    \E s \in Servers :
        /\ c \in OnePipe
        /\ home[c] = s /\ node[c] = "naming" /\ pos[c] = "sent"
        /\ node' = [node EXCEPT ![c] = "open"]
        /\ writeTo' = [writeTo EXCEPT ![c] = IF bOutPipeConnected[s] THEN hPipeOut[s]
                                                                   ELSE c]
        /\ IF bOutPipeConnected[s] THEN ReplaceOut(s) ELSE KeepOut
        /\ UNCHANGED <<inListen, perPipeEvent, cConnectIns, freshVars, timer, clientVars,
                       home>>

\* ReadClientNameCompleted for a name that starts with '?'.
NameOfOnePipe(c) ==
    \E s \in Servers :
        /\ c \in OnePipe
        /\ home[c] = s /\ node[c] = "naming" /\ pos[c] = "sent" /\ Ready(s)
        /\ node' = [node EXCEPT ![c] = "open"]
        /\ writeTo' = [writeTo EXCEPT ![c] = c]
        /\ OutAfterOnePipe(s)
        /\ UNCHANGED <<inListen, perPipeEvent, cConnectIns, freshVars, timer, clientVars,
                       home>>

\* ReadClientNameCompleted for any other name.
NameOfTwoPipe(c) ==
    \E s \in Servers :
        /\ c \in TwoPipe
        /\ home[c] = s /\ node[c] = "naming" /\ pos[c] = "sent" /\ Ready(s)
        /\ IF bOutPipeConnected[s]
           THEN /\ node' = [node EXCEPT ![c] = "open"]
                /\ writeTo' = [writeTo EXCEPT ![c] = hPipeOut[s]]
                /\ ReplaceOut(s)
                /\ timer' = [timer EXCEPT ![s] = FALSE]
           ELSE /\ node' = [node EXCEPT ![c] = "refused"]
                /\ KeepOut /\ UNCHANGED <<timer, writeTo>>
        /\ UNCHANGED <<inListen, perPipeEvent, cConnectIns, freshVars, clientVars, home>>

\* The client's name is in its pipe, or is still to come.
Awaited(c) ==
    \/ alive[c] /\ node[c] \in {"none", "connecting", "naming"}
    \/ pos[c] = "sent" /\ node[c] \in {"connecting", "naming"}

\* With clients that are never slow, the minute passes only if the client on
\* OUT is not going to be handled any more.
Overdue(s) ==
    "slow" \in May \/ \A c \in TwoPipe : hPipeOut[s] = c => ~ Awaited(c)

\* In single IN mode the IN pipe is replaced as well.
ReplaceIn_KeepsOld(s) ==
    /\ inListen' = Append(inListen, s)
    /\ FreshIn(s, inListen)
    /\ UNCHANGED node
ReplaceIn(s) ==
    /\ inListen' = Append(Rest(inListen, s), s)
    /\ FreshIn(s, Rest(inListen, s))
    /\ node' = [c \in Clients |-> IF c \in Connecting(s) THEN "dropped" ELSE node[c]]

ConnectOutTimerFired(s) ==
    /\ Ready(s) /\ timer[s]
    /\ timer' = [timer EXCEPT ![s] = FALSE]
    /\ IF ~ bOutPipeConnected[s]
       THEN KeepOut /\ UNCHANGED <<inListen, inFresh, node>>
       ELSE /\ Overdue(s)
            /\ ReplaceOut(s)
            /\ IF cConnectIns[s] = 1
               THEN ReplaceIn(s)
               ELSE UNCHANGED <<inListen, inFresh, node>>
    /\ UNCHANGED <<perPipeEvent, cConnectIns, early, clientVars, home, writeTo>>

-----------------------------------------------------------------------------
ClientNext(c) == ConnectOut(c) \/ ConnectIn(c) \/ SendMyInfo(c) \/ Dies(c)

ReadClientNameCompleted(c) == NameFails(c) \/ NameOfOnePipe(c) \/ NameOfTwoPipe(c)

ServerNext(s) ==
    \/ Start(s) \/ FallBack(s) \/ HandleOutPipeConnected(s) \/ ConnectOutTimerFired(s)
    \/ ConnectNamedPipeOut(s) \/ ConnectNamedPipeIn(s)

Next ==
    \/ \E c \in Clients :
         ClientNext(c) \/ HandleInPipeConnected(c) \/ ReadClientNameCompleted(c)
    \/ \E s \in Servers : ServerNext(s)

Spec == Init /\ [][Next]_vars

\* A server handles what is signaled, and its timer fires once it has run.
\* Nothing is asked of clients.
Fairness ==
    /\ \A s \in Servers :
         /\ WF_vars(FallBack(s))
         /\ WF_vars(HandleOutPipeConnected(s))
         /\ WF_vars(ConnectOutTimerFired(s))
         /\ WF_vars(ConnectNamedPipeOut(s))
         /\ WF_vars(ConnectNamedPipeIn(s))
    /\ \A c \in Clients :
         /\ WF_vars(HandleInPipeConnected(c))
         /\ WF_vars(ReadClientNameCompleted(c))

FairSpec == Spec /\ Fairness

-----------------------------------------------------------------------------
(* Properties. *)

\* A session's output goes to the client its input comes from
\* (ReadClientNameCompleted, srvhshak.c:166: whoever is connected to the single
\* OUT instance is taken for the client that sent the name on an IN pipe).
Paired == \A c \in Clients : node[c] = "open" => writeTo[c] = c

\* A client that lives is neither hung up on nor told that it is not connected
\* to OUT (srvhshak.c:153-157), whatever the clients around it do.
Welcomed == \A c \in Clients : alive[c] => node[c] \notin {"refused", "dropped"}

\* Each server that has started has one OUT instance, listening or connected,
\* and as many IN instances as it means to have, on every path that closes one
\* and creates its successor (srvmain.c:1034-1062, 1112-1148, 1160-1172;
\* srvhshak.c:142-148, 160-171).
InstancesKept ==
    \A s \in Servers : Started(s) =>
        /\ Cardinality(Instances(outListen, s))
             = (IF hPipeOut[s] = NoClient THEN 1 ELSE 0)
        /\ Cardinality(Instances(inListen, s)) + Cardinality(Connecting(s))
             = cConnectIns[s]

\* When nobody is connecting, the oldest listening OUT pipe is from the same
\* server as the oldest listening IN pipe (srvhshak.c:129-135,
\* srvmain.c:1043-1049), so that the next two-pipe client gets both from one.
OldestAlike ==
    Quiet /\ inListen # <<>> => Head(inListen) = Head(outListen)

\* A two-pipe client that lives keeps the OUT pipe it is connected to until a
\* session is made of it: nobody else gets in between (server.h:186-193).
OutKept ==
    [][\A s \in Servers, c \in TwoPipe :
         hPipeOut[s] = c /\ alive[c] /\ hPipeOut'[s] # c => node'[c] = "open"]_vars

\* The OUT instance does not stay with a client that never sends its name
\* (srvmain.c:1016-1023): of each server that runs one listens again and again,
\* whatever clients do.
OutComesBack ==
    \A s \in Servers :
        []<>(Started(s) => \E i \in DOMAIN outListen : outListen[i] = s)

=============================================================================
