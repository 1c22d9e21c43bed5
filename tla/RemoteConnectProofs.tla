------------------------- MODULE RemoteConnectProofs -------------------------
(***************************************************************************)
(* A server that is alone on its pipe name, whose clients do not take more *)
(* than a minute from OUT to their name, nor connect before it listens,    *)
(* and which does not run out of memory, pairs the two pipes of each of    *)
(* its two-pipe clients, however many clients there are, in whatever order *)
(* they connect, and whichever of them die on the way.  And whatever       *)
(* servers share a name, and whatever befalls them and their clients, no   *)
(* path loses or doubles an instance.  And servers that share a name serve *)
(* whole clients in turn as long as clients come one at a time.            *)
(***************************************************************************)
EXTENDS RemoteConnect, FiniteSetTheorems, SequenceTheorems, WellFoundedInduction, TLAPS

\* What the theorems assume of the environment: one server, neither of the two
\* ways in which it hangs up on a client that is still to be handled, and no
\* client so quick as to connect before ConnectNamedPipe.
Alone(srv) ==
    Servers = {srv} /\ "slow" \notin May /\ "oom" \notin May /\ "rush" \notin May

(***************************************************************************)
(* Without such clients the handlers that create an instance are whole.    *)
(***************************************************************************)
Unhurried ==
    /\ outFresh = [s \in Servers |-> FALSE]
    /\ inFresh = [s \in Servers |-> FALSE]

LEMMA StepUnhurried ==
    ASSUME "rush" \notin May, Unhurried, [Next]_vars
    PROVE  Unhurried'
<1>1. \A q : Gap(q) = FALSE
  BY DEF Gap
<1>2. ASSUME NEW s \in Servers PROVE ~ outFresh[s] /\ ~ inFresh[s]
  BY DEF Unhurried
<1>3. ASSUME NEW s \in Servers, NEW q, outFresh' = [outFresh EXCEPT ![s] = Gap(q)]
      PROVE  outFresh' = outFresh
  BY <1>1, <1>3 DEF Unhurried
<1>4. ASSUME NEW s \in Servers, NEW q, FreshIn(s, q)
      PROVE  inFresh' = inFresh
  BY <1>1, <1>4 DEF Unhurried, FreshIn
<1>5. ASSUME NEW s \in Servers, ReplaceOut(s) \/ KeepOut PROVE outFresh' = outFresh
  BY <1>3, <1>5 DEF ReplaceOut, KeepOut, outVars, OtherOuts
<1>6. ASSUME NEW c \in Clients, ClientNext(c) PROVE Unhurried'
  BY <1>6 DEF ClientNext, ConnectOut, ConnectIn, SendMyInfo, Dies, Unhurried, outVars,
              freshVars
<1>7. ASSUME NEW c \in Clients, HandleInPipeConnected(c) PROVE Unhurried'
  BY <1>4, <1>5, <1>7 DEF HandleInPipeConnected, InConnected, Unhurried
<1>8. ASSUME NEW c \in Clients, ReadClientNameCompleted(c) PROVE Unhurried'
  BY <1>5, <1>8 DEF ReadClientNameCompleted, NameFails, NameOfOnePipe, OutAfterOnePipe,
                    NameOfTwoPipe, Unhurried, outVars, freshVars
<1>9. ASSUME NEW s \in Servers, ServerNext(s) PROVE Unhurried'
  <2>1. CASE Start(s)
    BY <1>3, <1>4, <2>1 DEF Start, Unhurried
  <2>2. CASE FallBack(s) \/ HandleOutPipeConnected(s)
    BY <2>2 DEF FallBack, HandleOutPipeConnected, OutConnected, Unhurried, outVars,
                freshVars
  <2>3. CASE ConnectOutTimerFired(s)
    BY <1>4, <1>5, <2>3 DEF ConnectOutTimerFired, ReplaceIn, Unhurried
  <2>4. ~ ConnectNamedPipeOut(s) /\ ~ ConnectNamedPipeIn(s)
    BY <1>2 DEF ConnectNamedPipeOut, ConnectNamedPipeIn
  <2> QED BY <1>9, <2>1, <2>2, <2>3, <2>4 DEF ServerNext
<1>10. CASE UNCHANGED vars
  BY <1>10 DEF vars, Unhurried
<1> QED BY <1>6, <1>7, <1>8, <1>9, <1>10 DEF Next

LEMMA UnhurriedInvariant ==
    ASSUME "rush" \notin May
    PROVE  Spec => []Unhurried
<1>1. Init => Unhurried
  BY DEF Init, Unhurried
<1>2. Unhurried /\ [Next]_vars => Unhurried'
  BY StepUnhurried
<1> QED BY <1>1, <1>2, PTL DEF Spec

LEMMA UnhurriedCalls ==
    ASSUME Unhurried, NEW s \in Servers
    PROVE  ~ ConnectNamedPipeOut(s) /\ ~ ConnectNamedPipeIn(s)
BY DEF Unhurried, ConnectNamedPipeOut, ConnectNamedPipeIn

(***************************************************************************)
(* The inductive invariant.                                                *)
(***************************************************************************)

\* A server that is alone never sees the event of another.
OwnsName(srv) == perPipeEvent = FALSE /\ cConnectIns[srv] \in {0, CONNECT_COUNT}

\* There is one OUT instance: none listens while a client is connected to it.
OneOut(srv) ==
    /\ outListen = <<>> \/ outListen = <<srv>>
    /\ cConnectIns[srv] = 0 => outListen = <<>> /\ hPipeOut[srv] = NoClient
    /\ hPipeOut[srv] # NoClient => outListen = <<>>
    /\ bOutPipeConnected[srv] => hPipeOut[srv] # NoClient

\* A two-pipe client that is on its way is the one connected to OUT.
HoldsOut(srv, c) == pos[c] # "idle" /\ Awaited(c) => hPipeOut[srv] = c

\* The server sees it there before it reads its name.
SeenFirst(srv, c) == node[c] = "naming" /\ Awaited(c) => bOutPipeConnected[srv]

\* While a client that lives is connected to OUT no session has been made of it.
StillToCome(srv, c) ==
    hPipeOut[srv] = c /\ alive[c] => node[c] \in {"none", "connecting", "naming"}

\* A client the server has a pipe of has opened it.
InOrder(c) == pos[c] \in {"idle", "out"} => node[c] = "none"

ConnectTypes ==
    /\ cConnectIns \in [Servers -> Nat]
    /\ hPipeOut \in [Servers -> TwoPipe \cup {NoClient}]
    /\ bOutPipeConnected \in [Servers -> BOOLEAN]
    /\ pos \in [Clients -> Positions]
    /\ alive \in [Clients -> BOOLEAN]
    /\ node \in [Clients -> Nodes]
    /\ writeTo \in [Clients -> Clients \cup {NoClient}]

PairInv(srv) ==
    /\ ConnectTypes
    /\ OwnsName(srv)
    /\ OneOut(srv)
    /\ \A c \in TwoPipe : HoldsOut(srv, c)
    /\ \A c \in TwoPipe : SeenFirst(srv, c)
    /\ \A c \in TwoPipe : StillToCome(srv, c)
    /\ \A c \in Clients : InOrder(c)
    /\ \A c \in Clients : node[c] \notin {"refused", "dropped"}
    /\ Paired

-----------------------------------------------------------------------------
LEMMA InitPairs ==
    ASSUME NEW srv, Alone(srv), Init
    PROVE  PairInv(srv)
<1>1. ConnectTypes
  BY DEF Init, ConnectTypes, Positions, Nodes
<1>2. OwnsName(srv) /\ OneOut(srv)
  BY DEF Init, OwnsName, OneOut, Alone
<1>3. ASSUME NEW c \in TwoPipe
      PROVE  HoldsOut(srv, c) /\ SeenFirst(srv, c) /\ StillToCome(srv, c)
  BY DEF Init, HoldsOut, SeenFirst, StillToCome, Clients
<1>4. ASSUME NEW c \in Clients PROVE InOrder(c) /\ node[c] \notin {"refused", "dropped"}
  BY DEF Init, InOrder
<1>5. Paired
  BY DEF Init, Paired
<1> QED BY <1>1, <1>2, <1>3, <1>4, <1>5 DEF PairInv

\* A client that becomes connected to OUT is the only one: the instance was
\* listening, and it was the only instance.
LEMMA ConnectOutPairs ==
    ASSUME NEW srv, Alone(srv), PairInv(srv), NEW c \in Clients, ConnectOut(c)
    PROVE  PairInv(srv)'
<1> USE DEF PairInv
<1>1. /\ c \in TwoPipe /\ alive[c] /\ pos[c] = "idle" /\ node[c] = "none"
      /\ outListen = <<srv>> /\ outListen' = <<>> /\ hPipeOut[srv] = NoClient
      /\ cConnectIns[srv] # 0 /\ ~ bOutPipeConnected[srv]
  <2>1. c \in TwoPipe /\ alive[c] /\ pos[c] = "idle" /\ node[c] = "none"
    BY DEF ConnectOut, InOrder
  <2>2. outListen # <<>> /\ outListen' = Tail(outListen)
    BY DEF ConnectOut
  <2>3. outListen = <<srv>>
    BY <2>2 DEF OneOut
  <2>4. outListen' = <<>>
    BY <2>2, <2>3
  <2> QED BY <2>1, <2>2, <2>3, <2>4 DEF OneOut, ConnectTypes, Alone
<1>2. /\ hPipeOut' = [hPipeOut EXCEPT ![srv] = c]
      /\ pos' = [pos EXCEPT ![c] = "out"]
      /\ UNCHANGED <<perPipeEvent, cConnectIns, bOutPipeConnected, alive, node, writeTo>>
  BY DEF ConnectOut, Alone
<1>3. ConnectTypes' /\ hPipeOut'[srv] = c
  BY <1>1, <1>2 DEF ConnectTypes, Positions, Alone, Clients
<1>4. OwnsName(srv)'
  BY <1>2 DEF OwnsName
<1>5. OneOut(srv)'
  BY <1>1, <1>2, <1>3, KindsAssumption DEF OneOut, Clients
<1>6. ASSUME NEW d \in TwoPipe PROVE HoldsOut(srv, d)'
  <2>1. d = c \/ ~ (pos[d] # "idle" /\ Awaited(d))
    BY <1>1, KindsAssumption DEF HoldsOut, Clients
  <2>2. CASE d = c
    BY <2>2, <1>3 DEF HoldsOut
  <2>3. CASE d # c
    BY <2>1, <2>3, <1>2 DEF HoldsOut, Awaited, ConnectTypes, Clients
  <2> QED BY <2>2, <2>3
<1>7. ASSUME NEW d \in TwoPipe PROVE SeenFirst(srv, d)' /\ StillToCome(srv, d)'
  BY <1>1, <1>2, <1>3 DEF SeenFirst, StillToCome, Awaited, ConnectTypes, Clients
<1>8. ASSUME NEW d \in Clients
      PROVE  InOrder(d)' /\ node'[d] \notin {"refused", "dropped"}
  BY <1>1, <1>2 DEF InOrder, ConnectTypes
<1>9. Paired'
  BY <1>2 DEF Paired
<1> QED BY <1>3, <1>4, <1>5, <1>6, <1>7, <1>8, <1>9

LEMMA ConnectInPairs ==
    ASSUME NEW srv, Alone(srv), PairInv(srv), NEW c \in Clients, ConnectIn(c)
    PROVE  PairInv(srv)'
<1> USE DEF PairInv
<1>1. /\ alive[c] /\ node[c] = "none"
      /\ c \in TwoPipe => pos[c] = "out"
      /\ node' = [node EXCEPT ![c] = "connecting"]
      /\ pos' = [pos EXCEPT ![c] = "in"]
      /\ UNCHANGED <<outListen, perPipeEvent, cConnectIns, hPipeOut, bOutPipeConnected,
                     alive, writeTo>>
  BY DEF ConnectIn, InOrder, outVars
<1>2. ConnectTypes'
  BY <1>1 DEF ConnectTypes, Positions, Nodes
<1>3. OwnsName(srv)' /\ OneOut(srv)'
  BY <1>1 DEF OwnsName, OneOut
<1>4. ASSUME NEW d \in TwoPipe
      PROVE  HoldsOut(srv, d)' /\ SeenFirst(srv, d)' /\ StillToCome(srv, d)'
  BY <1>1 DEF HoldsOut, SeenFirst, StillToCome, Awaited, ConnectTypes, Clients
<1>5. ASSUME NEW d \in Clients
      PROVE  InOrder(d)' /\ node'[d] \notin {"refused", "dropped"}
  BY <1>1 DEF InOrder, ConnectTypes
<1>6. Paired'
  BY <1>1 DEF Paired, ConnectTypes
<1> QED BY <1>2, <1>3, <1>4, <1>5, <1>6

LEMMA SendMyInfoPairs ==
    ASSUME NEW srv, Alone(srv), PairInv(srv), NEW c \in Clients, SendMyInfo(c)
    PROVE  PairInv(srv)'
<1> USE DEF PairInv
<1>1. /\ alive[c] /\ pos[c] = "in" /\ node[c] \in {"connecting", "naming"}
      /\ pos' = [pos EXCEPT ![c] = "sent"]
      /\ UNCHANGED <<outListen, perPipeEvent, cConnectIns, hPipeOut, bOutPipeConnected,
                     alive, node, writeTo>>
  BY DEF SendMyInfo, outVars, listenVars
<1>2. ConnectTypes'
  BY <1>1 DEF ConnectTypes, Positions
<1>3. OwnsName(srv)' /\ OneOut(srv)' /\ Paired'
  BY <1>1 DEF OwnsName, OneOut, Paired
<1>4. ASSUME NEW d \in TwoPipe
      PROVE  HoldsOut(srv, d)' /\ SeenFirst(srv, d)' /\ StillToCome(srv, d)'
  BY <1>1 DEF HoldsOut, SeenFirst, StillToCome, Awaited, ConnectTypes, Clients
<1>5. ASSUME NEW d \in Clients
      PROVE  InOrder(d)' /\ node'[d] \notin {"refused", "dropped"}
  BY <1>1 DEF InOrder, ConnectTypes
<1> QED BY <1>2, <1>3, <1>4, <1>5

\* A death makes no client awaited that was not.
LEMMA DiesPairs ==
    ASSUME NEW srv, Alone(srv), PairInv(srv), NEW c \in Clients, Dies(c)
    PROVE  PairInv(srv)'
<1> USE DEF PairInv
<1>1. /\ alive' = [alive EXCEPT ![c] = FALSE]
      /\ UNCHANGED <<outListen, perPipeEvent, cConnectIns, hPipeOut, bOutPipeConnected,
                     pos, node, writeTo>>
  BY DEF Dies, outVars, listenVars
<1>2. ConnectTypes'
  BY <1>1 DEF ConnectTypes
<1>3. OwnsName(srv)' /\ OneOut(srv)' /\ Paired'
  BY <1>1 DEF OwnsName, OneOut, Paired
<1>4. ASSUME NEW d \in TwoPipe
      PROVE  HoldsOut(srv, d)' /\ SeenFirst(srv, d)' /\ StillToCome(srv, d)'
  <2>1. Awaited(d)' => Awaited(d)
    BY <1>1 DEF Awaited, ConnectTypes, Clients
  <2>2. alive'[d] => alive[d]
    BY <1>1 DEF ConnectTypes, Clients
  <2> QED BY <1>1, <2>1, <2>2 DEF HoldsOut, SeenFirst, StillToCome
<1>5. ASSUME NEW d \in Clients
      PROVE  InOrder(d)' /\ node'[d] \notin {"refused", "dropped"}
  BY <1>1 DEF InOrder
<1> QED BY <1>2, <1>3, <1>4, <1>5

-----------------------------------------------------------------------------
LEMMA StartPairs ==
    ASSUME NEW srv, Alone(srv), PairInv(srv), NEW s \in Servers, Start(s)
    PROVE  PairInv(srv)'
<1> USE DEF PairInv
<1>1. s = srv /\ cConnectIns[srv] = 0 /\ outListen = <<>> /\ hPipeOut[srv] = NoClient
  BY DEF Start, Alone, OneOut
<1>2. ~ \E t \in Servers : Started(t)
  BY <1>1 DEF Started, Alone, ConnectTypes
<1>3. /\ perPipeEvent' = FALSE
      /\ cConnectIns' = [cConnectIns EXCEPT ![srv] = CONNECT_COUNT]
      /\ outListen' = <<srv>>
      /\ UNCHANGED <<hPipeOut, bOutPipeConnected, pos, alive, node, writeTo>>
  <2>1. /\ perPipeEvent' = (perPipeEvent \/ FALSE)
        /\ cConnectIns' = [cConnectIns EXCEPT ![srv] = CONNECT_COUNT]
        /\ outListen' = Append(outListen, srv)
        /\ UNCHANGED <<hPipeOut, bOutPipeConnected, pos, alive, node, writeTo>>
    BY <1>1, <1>2, Zenon DEF Start, AnotherStarted, InsAtStart, outVars, clientVars
  <2>2. Append(<<>>, srv) = <<srv>>
    OBVIOUS
  <2> QED BY <1>1, <2>1, <2>2 DEF OwnsName
<1>4. ConnectTypes' /\ cConnectIns'[srv] = CONNECT_COUNT /\ CONNECT_COUNT # 0
  BY <1>1, <1>3, CountAssumption DEF ConnectTypes
<1>5. OwnsName(srv)' /\ OneOut(srv)' /\ Paired'
  BY <1>1, <1>3, <1>4 DEF OwnsName, OneOut, Paired
<1>6. ASSUME NEW d \in TwoPipe
      PROVE  HoldsOut(srv, d)' /\ SeenFirst(srv, d)' /\ StillToCome(srv, d)'
  BY <1>3 DEF HoldsOut, SeenFirst, StillToCome, Awaited
<1>7. ASSUME NEW d \in Clients
      PROVE  InOrder(d)' /\ node'[d] \notin {"refused", "dropped"}
  BY <1>3 DEF InOrder
<1> QED BY <1>4, <1>5, <1>6, <1>7

LEMMA FallBackPairs ==
    ASSUME NEW srv, Alone(srv), PairInv(srv), NEW s \in Servers, FallBack(s)
    PROVE  PairInv(srv)'
BY DEF FallBack, FallBackDue, PairInv, OwnsName

LEMMA OutConnectedPairs ==
    ASSUME NEW srv, Alone(srv), PairInv(srv), NEW s \in Servers,
           HandleOutPipeConnected(s)
    PROVE  PairInv(srv)'
<1> USE DEF PairInv
<1>1. /\ s = srv /\ hPipeOut[srv] # NoClient
      /\ bOutPipeConnected' = [bOutPipeConnected EXCEPT ![srv] = TRUE]
      /\ UNCHANGED <<outListen, perPipeEvent, cConnectIns, hPipeOut, pos, alive, node,
                     writeTo>>
  BY DEF HandleOutPipeConnected, OutDue, Alone, listenVars, clientVars, OutConnected
<1>2. ConnectTypes' /\ bOutPipeConnected'[srv]
  BY <1>1 DEF ConnectTypes
<1>3. OwnsName(srv)' /\ OneOut(srv)' /\ Paired'
  BY <1>1 DEF OwnsName, OneOut, Paired
<1>4. ASSUME NEW d \in TwoPipe
      PROVE  HoldsOut(srv, d)' /\ SeenFirst(srv, d)' /\ StillToCome(srv, d)'
  BY <1>1, <1>2 DEF HoldsOut, SeenFirst, StillToCome, Awaited
<1>5. ASSUME NEW d \in Clients
      PROVE  InOrder(d)' /\ node'[d] \notin {"refused", "dropped"}
  BY <1>1 DEF InOrder
<1> QED BY <1>2, <1>3, <1>4, <1>5

\* The OUT event has the lower index: when a client's IN pipe is handled, the
\* server has seen it on OUT.
LEMMA InConnectedPairs ==
    ASSUME NEW srv, Alone(srv), PairInv(srv), NEW c \in Clients,
           HandleInPipeConnected(c)
    PROVE  PairInv(srv)'
<1> USE DEF PairInv
<1>1. /\ node[c] = "connecting" /\ ~ OutDue(srv)
      /\ node' = [node EXCEPT ![c] = "naming"]
      /\ UNCHANGED <<outListen, perPipeEvent, cConnectIns, hPipeOut, bOutPipeConnected,
                     pos, alive, writeTo>>
  BY DEF HandleInPipeConnected, InConnected, InsLookedAt, Alone, KeepOut, clientVars,
         outVars
<1>2. ConnectTypes'
  BY <1>1 DEF ConnectTypes, Nodes
<1>3. OwnsName(srv)' /\ OneOut(srv)'
  BY <1>1 DEF OwnsName, OneOut
<1>4. ASSUME NEW d \in TwoPipe
      PROVE  HoldsOut(srv, d)' /\ StillToCome(srv, d)'
  BY <1>1 DEF HoldsOut, StillToCome, Awaited, ConnectTypes, Clients
<1>5. ASSUME NEW d \in TwoPipe PROVE SeenFirst(srv, d)'
  <2>1. CASE d = c
    <3>1. Awaited(c)' => Awaited(c) /\ pos[c] # "idle"
      BY <1>1, <2>1 DEF Awaited, InOrder, ConnectTypes, Clients
    <3>2. Awaited(c)' => hPipeOut[srv] # NoClient
      BY <3>1, <2>1, KindsAssumption DEF HoldsOut, Clients
    <3> QED BY <3>2, <1>1, <2>1 DEF SeenFirst, OutDue
  <2>2. CASE d # c
    BY <1>1, <2>2 DEF SeenFirst, Awaited, ConnectTypes, Clients
  <2> QED BY <2>1, <2>2
<1>6. ASSUME NEW d \in Clients
      PROVE  InOrder(d)' /\ node'[d] \notin {"refused", "dropped"}
  BY <1>1 DEF InOrder, ConnectTypes
<1>7. Paired'
  BY <1>1 DEF Paired, ConnectTypes
<1> QED BY <1>2, <1>3, <1>4, <1>5, <1>6, <1>7

-----------------------------------------------------------------------------
LEMMA NameFailsPairs ==
    ASSUME NEW srv, Alone(srv), PairInv(srv), NEW c \in Clients, NameFails(c)
    PROVE  PairInv(srv)'
<1> USE DEF PairInv
<1>1. /\ node[c] = "naming" /\ ~ alive[c]
      /\ node' = [node EXCEPT ![c] = "closed"]
      /\ UNCHANGED <<outListen, perPipeEvent, cConnectIns, hPipeOut, bOutPipeConnected,
                     pos, alive, writeTo>>
  BY DEF NameFails, listenVars, outVars, clientVars
<1>2. ConnectTypes'
  BY <1>1 DEF ConnectTypes, Nodes
<1>3. OwnsName(srv)' /\ OneOut(srv)'
  BY <1>1 DEF OwnsName, OneOut
<1>4. ASSUME NEW d \in TwoPipe
      PROVE  HoldsOut(srv, d)' /\ SeenFirst(srv, d)' /\ StillToCome(srv, d)'
  BY <1>1 DEF HoldsOut, SeenFirst, StillToCome, Awaited, ConnectTypes, Clients
<1>5. ASSUME NEW d \in Clients
      PROVE  InOrder(d)' /\ node'[d] \notin {"refused", "dropped"}
  BY <1>1 DEF InOrder, ConnectTypes
<1>6. Paired'
  BY <1>1 DEF Paired, ConnectTypes
<1> QED BY <1>2, <1>3, <1>4, <1>5, <1>6

\* A server that is alone leaves OUT as it is when a one-pipe client comes.
LEMMA OnePipePairs ==
    ASSUME NEW srv, Alone(srv), PairInv(srv), NEW c \in Clients, NameOfOnePipe(c)
    PROVE  PairInv(srv)'
<1> USE DEF PairInv
<1>1. cConnectIns[srv] # 1
  BY CountAssumption DEF OwnsName
<1>2. /\ c \in OnePipe /\ node[c] = "naming"
      /\ node' = [node EXCEPT ![c] = "open"]
      /\ writeTo' = [writeTo EXCEPT ![c] = c]
      /\ UNCHANGED <<outListen, perPipeEvent, cConnectIns, hPipeOut, bOutPipeConnected,
                     pos, alive>>
  BY <1>1 DEF NameOfOnePipe, OutAfterOnePipe, Alone, KeepOut, clientVars, outVars
<1>3. ConnectTypes'
  BY <1>2 DEF ConnectTypes, Nodes
<1>4. OwnsName(srv)' /\ OneOut(srv)'
  BY <1>2 DEF OwnsName, OneOut
<1>5. ASSUME NEW d \in TwoPipe
      PROVE  HoldsOut(srv, d)' /\ SeenFirst(srv, d)' /\ StillToCome(srv, d)'
  <2>1. d # c
    BY <1>2, KindsAssumption
  <2> QED BY <1>2, <2>1
          DEF HoldsOut, SeenFirst, StillToCome, Awaited, ConnectTypes, Clients
<1>6. ASSUME NEW d \in Clients
      PROVE  InOrder(d)' /\ node'[d] \notin {"refused", "dropped"}
  BY <1>2 DEF InOrder, ConnectTypes
<1>7. Paired'
  BY <1>2 DEF Paired, ConnectTypes
<1> QED BY <1>3, <1>4, <1>5, <1>6, <1>7

\* Whoever loses the OUT pipe and is not waited for any more, the invariant's
\* part about OUT survives its replacement.
LEMMA ReplaceKeepsOneOut ==
    ASSUME NEW srv, Alone(srv), PairInv(srv), ReplaceOut(srv),
           bOutPipeConnected[srv], UNCHANGED cConnectIns
    PROVE  /\ OneOut(srv)'
           /\ hPipeOut' = [hPipeOut EXCEPT ![srv] = NoClient]
           /\ hPipeOut' \in [Servers -> TwoPipe \cup {NoClient}]
           /\ bOutPipeConnected' \in [Servers -> BOOLEAN]
<1>1. hPipeOut[srv] # NoClient /\ outListen = <<>> /\ cConnectIns[srv] # 0
  BY DEF PairInv, OneOut
<1>2. outListen' = Append(<<>>, srv)
  BY <1>1 DEF ReplaceOut, OtherOuts
<1>3. outListen' = <<srv>>
  BY <1>2
<1>4. hPipeOut'[srv] = NoClient /\ bOutPipeConnected'[srv] = FALSE
  BY DEF ReplaceOut, PairInv, ConnectTypes, Alone, OtherOuts
<1>5. OneOut(srv)'
  BY <1>1, <1>3, <1>4 DEF OneOut
<1> QED BY <1>5 DEF ReplaceOut, PairInv, ConnectTypes, OtherOuts

\* The name that is read is that of the client connected to OUT.
LEMMA TwoPipePairs ==
    ASSUME NEW srv, Alone(srv), PairInv(srv), NEW c \in Clients, NameOfTwoPipe(c)
    PROVE  PairInv(srv)'
<1> USE DEF PairInv
<1>1. c \in TwoPipe /\ node[c] = "naming" /\ pos[c] = "sent"
  BY DEF NameOfTwoPipe
<1>2. hPipeOut[srv] = c /\ bOutPipeConnected[srv]
  BY <1>1 DEF HoldsOut, SeenFirst, Awaited
<1>3. /\ node' = [node EXCEPT ![c] = "open"]
      /\ writeTo' = [writeTo EXCEPT ![c] = c]
      /\ ReplaceOut(srv)
      /\ UNCHANGED <<perPipeEvent, cConnectIns, pos, alive>>
  BY <1>2 DEF NameOfTwoPipe, Alone, clientVars
<1>4. /\ OneOut(srv)'
      /\ hPipeOut' = [hPipeOut EXCEPT ![srv] = NoClient]
      /\ hPipeOut' \in [Servers -> TwoPipe \cup {NoClient}]
      /\ bOutPipeConnected' \in [Servers -> BOOLEAN]
  BY <1>2, <1>3, ReplaceKeepsOneOut
<1>5. ConnectTypes'
  BY <1>3, <1>4 DEF ConnectTypes, Nodes
<1>6. OwnsName(srv)'
  BY <1>3 DEF OwnsName
<1>7. hPipeOut'[srv] = NoClient /\ NoClient \notin TwoPipe
  BY <1>4, KindsAssumption DEF ConnectTypes, Alone, Clients
<1>8. ASSUME NEW d \in TwoPipe
      PROVE  HoldsOut(srv, d)' /\ SeenFirst(srv, d)' /\ StillToCome(srv, d)'
  <2>1. ~ (pos'[d] # "idle" /\ Awaited(d)')
    BY <1>2, <1>3 DEF HoldsOut, Awaited, ConnectTypes, Clients
  <2>2. ~ (node'[d] = "naming" /\ Awaited(d)')
    BY <2>1, <1>3 DEF InOrder, ConnectTypes, Clients
  <2> QED BY <2>1, <2>2, <1>7 DEF HoldsOut, SeenFirst, StillToCome
<1>9. ASSUME NEW d \in Clients
      PROVE  InOrder(d)' /\ node'[d] \notin {"refused", "dropped"}
  BY <1>1, <1>3 DEF InOrder, ConnectTypes
<1>10. Paired'
  BY <1>3 DEF Paired, ConnectTypes
<1> QED BY <1>4, <1>5, <1>6, <1>8, <1>9, <1>10

\* The timer takes OUT from a client that is not awaited only.
LEMMA TimerPairs ==
    ASSUME NEW srv, Alone(srv), PairInv(srv), NEW s \in Servers,
           ConnectOutTimerFired(s)
    PROVE  PairInv(srv)'
<1> USE DEF PairInv
<1>1. s = srv /\ UNCHANGED <<perPipeEvent, cConnectIns, pos, alive, writeTo>>
  BY DEF ConnectOutTimerFired, Alone, clientVars
<1>2. cConnectIns[srv] # 1
  BY CountAssumption DEF OwnsName
<1>3. node' = node
  BY <1>1, <1>2 DEF ConnectOutTimerFired
<1>4. CASE ~ bOutPipeConnected[srv]
  <2>1. UNCHANGED <<outListen, hPipeOut, bOutPipeConnected>>
    BY <1>1, <1>4 DEF ConnectOutTimerFired, KeepOut, outVars
  <2> QED BY <1>1, <1>3, <2>1
          DEF ConnectTypes, OwnsName, OneOut, HoldsOut, SeenFirst, StillToCome,
              InOrder, Paired, Awaited
<1>5. CASE bOutPipeConnected[srv]
  <2>1. ReplaceOut(srv) /\ Overdue(srv)
    BY <1>1, <1>5 DEF ConnectOutTimerFired
  <2>2. /\ OneOut(srv)'
        /\ hPipeOut' = [hPipeOut EXCEPT ![srv] = NoClient]
        /\ hPipeOut' \in [Servers -> TwoPipe \cup {NoClient}]
        /\ bOutPipeConnected' \in [Servers -> BOOLEAN]
    BY <1>1, <1>5, <2>1, ReplaceKeepsOneOut
  <2>3. hPipeOut'[srv] = NoClient /\ NoClient \notin TwoPipe
    BY <2>2, KindsAssumption DEF ConnectTypes, Alone, Clients
  <2>4. ConnectTypes'
    BY <1>1, <1>3, <2>2 DEF ConnectTypes
  <2>5. OwnsName(srv)' /\ Paired'
    BY <1>1, <1>3 DEF OwnsName, Paired
  <2>6. ASSUME NEW d \in TwoPipe
        PROVE  HoldsOut(srv, d)' /\ SeenFirst(srv, d)' /\ StillToCome(srv, d)'
    <3>1. ~ (pos[d] # "idle" /\ Awaited(d))
      BY <2>1 DEF Overdue, HoldsOut, Alone
    <3>2. ~ (node[d] = "naming" /\ Awaited(d))
      BY <3>1 DEF InOrder, Clients
    <3> QED BY <1>1, <1>3, <2>3, <3>1, <3>2
            DEF HoldsOut, SeenFirst, StillToCome, Awaited
  <2>7. ASSUME NEW d \in Clients
        PROVE  InOrder(d)' /\ node'[d] \notin {"refused", "dropped"}
    BY <1>1, <1>3 DEF InOrder
  <2> QED BY <2>2, <2>4, <2>5, <2>6, <2>7
<1> QED BY <1>4, <1>5

-----------------------------------------------------------------------------
LEMMA StepPairs ==
    ASSUME NEW srv, Alone(srv), PairInv(srv), Unhurried, [Next]_vars
    PROVE  PairInv(srv)'
<1>1. ASSUME NEW c \in Clients, ClientNext(c) PROVE PairInv(srv)'
  BY <1>1, ConnectOutPairs, ConnectInPairs, SendMyInfoPairs, DiesPairs DEF ClientNext
<1>2. ASSUME NEW c \in Clients, ReadClientNameCompleted(c) PROVE PairInv(srv)'
  BY <1>2, NameFailsPairs, OnePipePairs, TwoPipePairs DEF ReadClientNameCompleted
<1>3. ASSUME NEW s \in Servers, ServerNext(s) PROVE PairInv(srv)'
  BY <1>3, StartPairs, FallBackPairs, OutConnectedPairs, TimerPairs, UnhurriedCalls
     DEF ServerNext
<1>4. CASE UNCHANGED vars
  BY <1>4 DEF vars, PairInv, ConnectTypes, OwnsName, OneOut, HoldsOut, SeenFirst,
              StillToCome, InOrder, Paired, Awaited
<1> QED BY <1>1, <1>2, <1>3, <1>4, InConnectedPairs DEF Next

THEOREM PairInvariant ==
    ASSUME NEW srv, Alone(srv)
    PROVE  Spec => []PairInv(srv)
<1>1. Init => PairInv(srv)
  BY InitPairs
<1>2. PairInv(srv) /\ Unhurried /\ [Next]_vars => PairInv(srv)'
  BY StepPairs
<1>3. Spec => []Unhurried
  BY UnhurriedInvariant DEF Alone
<1> QED BY <1>1, <1>2, <1>3, PTL DEF Spec

\* A server that is alone on its pipe name never joins the input of one client
\* with the output of another (srvhshak.c:151-172).
THEOREM AlonePairs ==
    ASSUME NEW srv, Alone(srv)
    PROVE  Spec => []Paired
<1>1. PairInv(srv) => Paired
  BY DEF PairInv
<1> QED BY <1>1, PairInvariant, PTL

\* It hangs up on no client that lives, and finds each two-pipe client that
\* lives on its OUT pipe (srvhshak.c:153-157).
THEOREM AloneWelcomes ==
    ASSUME NEW srv, Alone(srv)
    PROVE  Spec => []Welcomed
<1>1. PairInv(srv) => Welcomed
  BY DEF PairInv, Welcomed
<1> QED BY <1>1, PairInvariant, PTL

\* There no client gets in between the OUT and the IN connect of a two-pipe
\* client and takes the OUT pipe from it (server.h:186-193).
THEOREM AloneKeepsOut ==
    ASSUME NEW srv, Alone(srv)
    PROVE  Spec => OutKept
<1>1. PairInv(srv) /\ Unhurried /\ [Next]_vars =>
        [\A s \in Servers, c \in TwoPipe :
           hPipeOut[s] = c /\ alive[c] /\ hPipeOut'[s] # c => node'[c] = "open"]_vars
  <2> SUFFICES ASSUME PairInv(srv), Unhurried, [Next]_vars, NEW c \in TwoPipe,
                      hPipeOut[srv] = c, alive[c], hPipeOut'[srv] # c
               PROVE  node'[c] = "open"
    BY DEF Alone
  <2>1. hPipeOut[srv] # NoClient /\ outListen = <<>> /\ c \in Clients
    BY KindsAssumption DEF Clients, PairInv, OneOut
  <2>2. Awaited(c)
    BY DEF PairInv, StillToCome, Awaited
  <2>3. ASSUME NEW d \in Clients, ClientNext(d) PROVE FALSE
    BY <2>1, <2>3 DEF ClientNext, ConnectOut, ConnectIn, SendMyInfo, Dies, outVars
  <2>4. ASSUME NEW d \in Clients, HandleInPipeConnected(d) PROVE FALSE
    BY <2>4 DEF HandleInPipeConnected, KeepOut, Alone, InConnected, outVars
  <2>5. ASSUME NEW d \in Clients, NameFails(d) \/ NameOfOnePipe(d) PROVE FALSE
    BY <2>5, CountAssumption
       DEF NameFails, NameOfOnePipe, OutAfterOnePipe, KeepOut, outVars, Alone, PairInv,
           OwnsName
  <2>6. ASSUME NEW d \in Clients, NameOfTwoPipe(d) PROVE node'[c] = "open"
    <3>1. d \in TwoPipe /\ node[d] = "naming" /\ pos[d] = "sent"
      BY <2>6 DEF NameOfTwoPipe
    <3>2. hPipeOut[srv] = d /\ bOutPipeConnected[srv]
      BY <3>1 DEF PairInv, HoldsOut, SeenFirst, Awaited
    <3> QED BY <3>2, <2>6, <2>1 DEF NameOfTwoPipe, Alone, PairInv, ConnectTypes
  <2>7. ASSUME NEW s \in Servers, ServerNext(s) PROVE FALSE
    <3>1. s = srv
      BY <2>7 DEF Alone
    <3>2. CASE ConnectOutTimerFired(s)
      BY <3>1, <3>2, <2>2 DEF ConnectOutTimerFired, KeepOut, Overdue, Alone, outVars
    <3>3. CASE Start(s) \/ FallBack(s) \/ HandleOutPipeConnected(s)
      BY <3>3 DEF Start, FallBack, HandleOutPipeConnected, outVars, OutConnected
    <3> QED BY <2>7, <3>2, <3>3, UnhurriedCalls DEF ServerNext
  <2>8. CASE UNCHANGED vars
    BY <2>8 DEF vars
  <2> QED BY <2>3, <2>4, <2>5, <2>6, <2>7, <2>8 DEF Next, ReadClientNameCompleted
<1>2. Spec => []Unhurried
  BY UnhurriedInvariant DEF Alone
<1> QED BY <1>1, <1>2, PairInvariant, PTL DEF Spec, OutKept

-----------------------------------------------------------------------------
(***************************************************************************)
(* No pipe instance is lost or doubled, with any servers on the name and   *)
(* whatever happens to them and to their clients.                          *)
(***************************************************************************)

\* A nonempty set of numbers has a least one.
LEMMA LeastExists ==
  ASSUME NEW T \in SUBSET Nat, T # {}
  PROVE  \E x \in T : \A y \in T : x <= y
<1>1. PICK x \in T : \A y \in T : <<y, x>> \notin OpToRel(<, Nat)
  BY NatLessThanWellFounded, WFMin
<1>2. SUFFICES ASSUME NEW y \in T, y < x PROVE FALSE
  OBVIOUS
<1>3. <<y, x>> \in OpToRel(<, Nat)
  BY <1>2 DEF OpToRel
<1> QED
  BY <1>1, <1>3

\* The recursion that defines Rests, up to n.
Filtered(q, s, g, n) ==
    g = [i \in 0..n |-> IF i = 0 THEN <<>>
                        ELSE IF q[i] = s THEN g[i - 1] ELSE Append(g[i - 1], q[i])]

LEMMA FilteredExists ==
    ASSUME NEW q, NEW s, NEW n \in Nat
    PROVE  \E g : Filtered(q, s, g, n)
<1> DEFINE Bad == {k \in Nat : ~ \E g : Filtered(q, s, g, k)}
<1>1. SUFFICES ASSUME Bad # {} PROVE FALSE
  OBVIOUS
<1>2. PICK k \in Bad : \A j \in Bad : k <= j
  BY <1>1, LeastExists
<1>3. CASE k = 0
  <2>1. Filtered(q, s, [i \in 0..0 |-> <<>>], 0)
    BY DEF Filtered
  <2> QED BY <1>3, <2>1
<1>4. CASE k # 0
  <2>1. k - 1 \in Nat /\ k - 1 \notin Bad
    BY <1>2, <1>4
  <2>2. PICK g : Filtered(q, s, g, k - 1)
    BY <2>1
  <2> DEFINE h == [i \in 0..k |->
                     IF i < k THEN g[i]
                     ELSE IF q[k] = s THEN g[k - 1] ELSE Append(g[k - 1], q[k])]
  <2>3. ASSUME NEW i \in 0..k
        PROVE  h[i] = IF i = 0 THEN <<>>
                      ELSE IF q[i] = s THEN h[i - 1] ELSE Append(h[i - 1], q[i])
    <3>1. CASE i = 0
      <4>1. g[0] = <<>> 
        BY <2>1, <2>2 DEF Filtered
      <4> QED BY <4>1, <3>1, <1>4
    <3>2. CASE i # 0 /\ i < k
      <4>0. i \in 0..(k - 1)
        BY <3>2
      <4>1. g[i] = IF i = 0 THEN <<>>
                   ELSE IF q[i] = s THEN g[i - 1] ELSE Append(g[i - 1], q[i])
        BY <2>2, <4>0, Zenon DEF Filtered
      <4>2. h[i] = g[i] /\ h[i - 1] = g[i - 1]
        BY <3>2
      <4> HIDE DEF h
      <4> QED BY <3>2, <4>1, <4>2, Zenon
    <3>3. CASE i = k
      <4>1. h[k - 1] = g[k - 1]
        BY <1>4
      <4>2. h[k] = IF q[k] = s THEN g[k - 1] ELSE Append(g[k - 1], q[k])
        OBVIOUS
      <4> HIDE DEF h
      <4> QED BY <3>3, <4>1, <4>2, <1>4
    <3> QED BY <3>1, <3>2, <3>3
  <2>4. h = [i \in 0..k |-> h[i]]
    OBVIOUS
  <2>5. Filtered(q, s, h, k)
    <3> HIDE DEF h
    <3> QED BY <2>3, <2>4 DEF Filtered
  <2> QED BY <2>5
<1> QED BY <1>3, <1>4

\* What Rests is, a place at a time.
LEMMA RestsStep ==
    ASSUME NEW S, NEW q \in Seq(S), NEW s
    PROVE  /\ Rests(q, s)[0] = <<>>
           /\ \A i \in 1..Len(q) :
                Rests(q, s)[i] = IF q[i] = s THEN Rests(q, s)[i - 1]
                                 ELSE Append(Rests(q, s)[i - 1], q[i])
<1>1. Len(q) \in Nat
  OBVIOUS
<1>2. PICK g : Filtered(q, s, g, Len(q))
  BY <1>1, FilteredExists
<1>3. Filtered(q, s, Rests(q, s), Len(q))
  BY <1>2, Zenon DEF Rests, Filtered
<1>4. \A i \in 0..Len(q) : 
         Rests(q, s)[i] = IF i = 0 THEN <<>>
                         ELSE IF q[i] = s THEN Rests(q, s)[i - 1]
                         ELSE Append(Rests(q, s)[i - 1], q[i])
  BY <1>3, Zenon DEF Filtered
<1>5. 0 \in 0..Len(q) /\ \A i \in 1..Len(q) : i \in 0..Len(q) /\ i # 0
  BY <1>1
<1> QED BY <1>4, <1>5, Zenon

\* How often a server is in a queue.
Count(q, s) == Cardinality(Instances(q, s))

LEMMA InstancesFinite ==
    ASSUME NEW S, NEW q \in Seq(S), NEW s
    PROVE  /\ Instances(q, s) \subseteq 1..Len(q) /\ IsFiniteSet(Instances(q, s))
           /\ Count(q, s) \in Nat
<1>1. Instances(q, s) \in SUBSET (1..Len(q)) /\ Len(q) \in Nat
  BY DEF Instances
<1>2. IsFiniteSet(1..Len(q))
  BY <1>1, FS_Interval
<1>3. IsFiniteSet(Instances(q, s))
  BY <1>1, <1>2, FS_Subset
<1> QED BY <1>1, <1>3, FS_CardinalityType DEF Count

LEMMA CountEmpty ==
    ASSUME NEW s
    PROVE  Count(<<>>, s) = 0
<1>1. Instances(<<>>, s) = {}
  BY DEF Instances
<1> QED BY <1>1, FS_EmptySet DEF Count

LEMMA CountAppend ==
    ASSUME NEW S, NEW q \in Seq(S), NEW x \in S, NEW s
    PROVE  Count(Append(q, x), s) = Count(q, s) + (IF x = s THEN 1 ELSE 0)
<1> DEFINE a == Append(q, x)
           n == Len(q) + 1
<1>1. Len(a) = n /\ a[n] = x /\ \A i \in 1..Len(q) : a[i] = q[i]
  OBVIOUS
<1>2. DOMAIN a = 1..n /\ DOMAIN q = 1..Len(q) /\ Len(q) \in Nat
  OBVIOUS
<1>3. Instances(q, s) \subseteq 1..Len(q) /\ IsFiniteSet(Instances(q, s)) /\ Count(q, s) \in Nat
  BY InstancesFinite
<1> HIDE DEF a
<1>4. CASE x = s
  <2>1. Instances(a, s) = Instances(q, s) \cup {n}
    BY <1>1, <1>2, <1>4 DEF Instances
  <2>2. n \notin Instances(q, s)
    BY <1>2, <1>3
  <2> HIDE DEF n
  <2>3. Cardinality(Instances(a, s)) = Cardinality(Instances(q, s)) + 1
    BY <1>3, <2>1, <2>2, FS_AddElement
  <2> QED BY <1>4, <2>3 DEF Count, a
<1>5. CASE x # s
  <2>1. Instances(a, s) = Instances(q, s)
    BY <1>1, <1>2, <1>5 DEF Instances
  <2> QED BY <1>3, <1>5, <2>1 DEF Count, a
<1> QED BY <1>4, <1>5

\* Moving a set of numbers along leaves its size.
LEMMA ShiftedSize ==
    ASSUME NEW I \in SUBSET Nat, IsFiniteSet(I), NEW n \in Nat
    PROVE  /\ IsFiniteSet({n + i : i \in I})
           /\ Cardinality({n + i : i \in I}) = Cardinality(I)
<1> DEFINE T == {n + i : i \in I}
           f == [i \in I |-> n + i]
<1>1. f \in [I -> T] /\ \A t \in T : \E i \in I : f[i] = t
  OBVIOUS
<1>2. \A i, j \in I : f[i] = f[j] => i = j
  OBVIOUS
<1>3. f \in Bijection(I, T)
  BY <1>1, <1>2 DEF Bijection, Injection, Surjection, IsInjective
<1>4. ExistsBijection(I, T)
  BY <1>3 DEF ExistsBijection
<1> HIDE DEF T
<1>5. IsFiniteSet(T) /\ Cardinality(T) = Cardinality(I)
  BY <1>4, FS_Bijection
<1> QED BY <1>5 DEF T

LEMMA CountConcat ==
    ASSUME NEW S, NEW p \in Seq(S), NEW q \in Seq(S), NEW s
    PROVE  Count(p \o q, s) = Count(p, s) + Count(q, s)
<1> DEFINE I == Instances(p, s)
           J == Instances(q, s)
           T == {Len(p) + j : j \in J}
<1>1. /\ I \subseteq 1..Len(p) /\ IsFiniteSet(I) /\ J \subseteq 1..Len(q) /\ IsFiniteSet(J)
      /\ Cardinality(I) \in Nat /\ Cardinality(J) \in Nat
  BY InstancesFinite DEF Count
<1>2. Len(p) \in Nat /\ Len(q) \in Nat
  OBVIOUS
<1>3. /\ DOMAIN (p \o q) = 1..(Len(p) + Len(q))
      /\ \A i \in 1..Len(p) : (p \o q)[i] = p[i]
      /\ \A j \in 1..Len(q) : (p \o q)[Len(p) + j] = q[j]
  OBVIOUS
<1>4. Instances(p \o q, s) = I \cup T
  <2>1. ASSUME NEW i \in Instances(p \o q, s) PROVE i \in I \cup T
    <3>1. i \in 1..(Len(p) + Len(q)) /\ (p \o q)[i] = s
      BY <1>3 DEF Instances
    <3>2. CASE i \in 1..Len(p)
      BY <1>3, <3>1, <3>2 DEF Instances
    <3>3. CASE i \notin 1..Len(p)
      <4>1. i - Len(p) \in 1..Len(q) /\ i = Len(p) + (i - Len(p))
        BY <1>2, <3>1, <3>3
      <4>2. q[i - Len(p)] = s
        BY <1>3, <3>1, <4>1
      <4>3. i - Len(p) \in J
        BY <4>1, <4>2 DEF Instances
      <4> QED BY <4>1, <4>3
    <3> QED BY <3>2, <3>3
  <2>2. ASSUME NEW i \in I PROVE i \in Instances(p \o q, s)
    <3>1. i \in 1..Len(p) /\ p[i] = s
      BY DEF Instances
    <3>2. i \in 1..(Len(p) + Len(q))
      BY <1>2, <3>1
    <3> QED BY <1>3, <3>1, <3>2 DEF Instances
  <2>3. ASSUME NEW j \in J PROVE Len(p) + j \in Instances(p \o q, s)
    <3>1. j \in 1..Len(q) /\ q[j] = s
      BY DEF Instances
    <3>2. Len(p) + j \in 1..(Len(p) + Len(q))
      BY <1>2, <3>1
    <3> QED BY <1>3, <3>1, <3>2 DEF Instances
  <2> QED BY <2>1, <2>2, <2>3
<1>5. J \in SUBSET Nat
  BY <1>1, <1>2
<1>6. IsFiniteSet(T) /\ Cardinality(T) = Cardinality(J)
  <2> HIDE DEF J
  <2> QED BY <1>1, <1>2, <1>5, ShiftedSize
<1>7. I \cap T = {}
  BY <1>1, <1>2
<1> HIDE DEF I, T, J
<1>8. Cardinality(I \cup T) = Cardinality(I) + Cardinality(T)
  <2>1. Cardinality(I \cup T) = Cardinality(I) + Cardinality(T) - Cardinality(I \cap T)
    BY <1>1, <1>6, FS_Union
  <2>2. Cardinality(I \cap T) = 0
    BY <1>7, FS_EmptySet
  <2>3. Cardinality(I) \in Nat /\ Cardinality(T) \in Nat
    BY <1>1, <1>6, FS_CardinalityType
  <2> QED BY <2>1, <2>2, <2>3
<1>9. Cardinality(Instances(p \o q, s)) = Cardinality(I) + Cardinality(J)
  BY <1>4, <1>6, <1>8
<1> QED BY <1>9 DEF Count, I, J

\* A queue without the server's instances holds everybody else's.
LEMMA RestCounts ==
    ASSUME NEW S, NEW q \in Seq(S), NEW s
    PROVE  /\ Rest(q, s) \in Seq(S)
           /\ Count(Rest(q, s), s) = 0
           /\ \A t : t # s => Count(Rest(q, s), t) = Count(q, t)
<1> DEFINE r(i) == Rests(q, s)[i]
           Upto(i, t) == {j \in 1..i : q[j] = t}
           Ok(i) == /\ r(i) \in Seq(S)
                    /\ Count(r(i), s) = 0
                    /\ \A t : t # s => Count(r(i), t) = Cardinality(Upto(i, t))
           Bad == {i \in 0..Len(q) : ~Ok(i)}
<1>1. Len(q) \in Nat /\ \A i \in 1..Len(q) : q[i] \in S
  OBVIOUS
<1>2. /\ r(0) = <<>>
      /\ \A i \in 1..Len(q) :
           r(i) = IF q[i] = s THEN r(i - 1) ELSE Append(r(i - 1), q[i])
  BY RestsStep
<1> HIDE DEF r
<1>3. Ok(0)
  <2>1. \A t : Upto(0, t) = {}
    OBVIOUS
  <2> HIDE DEF Upto
  <2>2. <<>> \in Seq(S)
    OBVIOUS
  <2> QED BY <1>2, <2>1, <2>2, CountEmpty, FS_EmptySet
<1>4. ASSUME NEW i \in 1..Len(q), Ok(i - 1) PROVE Ok(i)
  <2>1. \A t : /\ q[i] = t => Upto(i, t) = Upto(i - 1, t) \cup {i}
               /\ q[i] # t => Upto(i, t) = Upto(i - 1, t)
               /\ i \notin Upto(i - 1, t)
               /\ Upto(i - 1, t) \in SUBSET (1..(i - 1))
    BY <1>1
  <2>2. \A t : IsFiniteSet(Upto(i - 1, t))
    <3>1. IsFiniteSet(1..(i - 1))
      BY <1>1, FS_Interval
    <3> HIDE DEF Upto
    <3> QED BY <2>1, <3>1, FS_Subset
  <2>3. \A t : Cardinality(Upto(i, t))
                 = Cardinality(Upto(i - 1, t)) + (IF q[i] = t THEN 1 ELSE 0)
    <3> HIDE DEF Upto
    <3> SUFFICES ASSUME NEW t
                 PROVE Cardinality(Upto(i, t))
                         = Cardinality(Upto(i - 1, t)) + (IF q[i] = t THEN 1 ELSE 0)
      OBVIOUS
    <3>1. Cardinality(Upto(i - 1, t)) \in Nat
      BY <2>2, FS_CardinalityType
    <3>2. CASE q[i] = t
      BY <2>1, <2>2, <3>2, FS_AddElement
    <3>3. CASE q[i] # t
      BY <2>1, <3>1, <3>3
    <3> QED BY <3>2, <3>3
  <2> HIDE DEF Upto
  <2>4. CASE q[i] = s
    <3>1. r(i) = r(i - 1)
      BY <1>2, <2>4
    <3>2. \A t : t # s => Cardinality(Upto(i, t)) = Cardinality(Upto(i - 1, t))
      BY <2>1, <2>4
    <3> QED BY <1>4, <3>1, <3>2
  <2>5. CASE q[i] # s
    <3>1. r(i) = Append(r(i - 1), q[i]) /\ q[i] \in S /\ r(i - 1) \in Seq(S)
      BY <1>1, <1>2, <1>4, <2>5
    <3>2. \A t : Count(r(i), t) = Count(r(i - 1), t) + (IF q[i] = t THEN 1 ELSE 0)
      BY <3>1, CountAppend
    <3>3. r(i) \in Seq(S)
      BY <3>1
    <3>4. Count(r(i), s) = 0
      BY <1>4, <3>2, <2>5
    <3> QED BY <1>4, <2>3, <3>2, <3>3, <3>4
  <2> QED BY <2>4, <2>5
<1>5. Bad = {}
  <2> SUFFICES ASSUME Bad # {} PROVE FALSE
    OBVIOUS
  <2> HIDE DEF Ok
  <2>1. Bad \in SUBSET Nat
    BY <1>1
  <2>2. PICK i \in Bad : \A j \in Bad : i <= j
    BY <2>1, LeastExists
  <2>3. i # 0 /\ i \in 0..Len(q) /\ ~Ok(i)
    BY <1>3, <2>2
  <2>4. i \in 1..Len(q) /\ i - 1 \in 0..Len(q)
    BY <1>1, <2>3
  <2>5. Ok(i - 1)
    BY <2>2, <2>4
  <2> QED BY <1>4, <2>3, <2>4, <2>5
<1>6. Ok(Len(q))
  <2> HIDE DEF Ok
  <2> QED BY <1>1, <1>5
<1>7. \A t : Upto(Len(q), t) = Instances(q, t)
  BY DEF Instances
<1>8. Rest(q, s) = r(Len(q))
  BY DEF Rest, r
<1> HIDE DEF Upto
<1> QED BY <1>6, <1>7, <1>8 DEF Count

LEMMA SingleCount ==
    ASSUME NEW s, NEW t
    PROVE  Count(<<s>>, t) = IF t = s THEN 1 ELSE 0
<1>1. CASE t = s
  <2>1. Instances(<<s>>, t) = {1}
    BY <1>1 DEF Instances
  <2> QED BY <1>1, <2>1, FS_Singleton DEF Count
<1>2. CASE t # s
  <2>1. Instances(<<s>>, t) = {}
    BY <1>2 DEF Instances
  <2> QED BY <1>2, <2>1, FS_EmptySet DEF Count
<1> QED BY <1>1, <1>2

LEMMA PopCounts ==
    ASSUME NEW S, NEW q \in Seq(S), q # <<>>
    PROVE  /\ Head(q) \in S /\ Tail(q) \in Seq(S)
           /\ \A t : Count(q, t) = Count(Tail(q), t) + (IF t = Head(q) THEN 1 ELSE 0)
           /\ \A t : Count(Tail(q), t) \in Nat
<1>1. Head(q) \in S /\ Tail(q) \in Seq(S) /\ q = <<Head(q)>> \o Tail(q)
  OBVIOUS
<1>2. <<Head(q)>> \in Seq(S)
  BY <1>1
<1>3. ASSUME NEW t PROVE Count(<<Head(q)>>, t) = IF t = Head(q) THEN 1 ELSE 0
  BY SingleCount
<1>4. ASSUME NEW t
      PROVE  Count(q, t) = Count(Tail(q), t) + (IF t = Head(q) THEN 1 ELSE 0)
  <2>1. Count(q, t) = Count(<<Head(q)>>, t) + Count(Tail(q), t)
    <3> DEFINE h == <<Head(q)>>
               w == Tail(q)
    <3>1. h \in Seq(S) /\ w \in Seq(S) /\ q = h \o w
      BY <1>1, <1>2
    <3> HIDE DEF h, w
    <3>2. Count(h \o w, t) = Count(h, t) + Count(w, t)
      BY <3>1, CountConcat
    <3>3. Count(q, t) = Count(h, t) + Count(w, t)
      BY <3>1, <3>2
    <3> QED BY <3>3 DEF h, w
  <2>2. Count(Tail(q), t) \in Nat
    BY <1>1, InstancesFinite
  <2> QED BY <1>3, <2>1, <2>2
<1>5. ASSUME NEW t PROVE Count(Tail(q), t) \in Nat
  BY <1>1, InstancesFinite
<1> QED BY <1>1, <1>4, <1>5

\* A server's first instances.
LEMMA FirstCounts ==
    ASSUME NEW S, NEW s \in S, NEW n \in Nat
    PROVE  /\ [i \in 1..n |-> s] \in Seq(S)
           /\ \A t : Count([i \in 1..n |-> s], t) = IF t = s THEN n ELSE 0
<1> DEFINE q == [i \in 1..n |-> s]
<1>1. q \in Seq(S) /\ Len(q) = n
  OBVIOUS
<1>2. Instances(q, s) = 1..n /\ \A t : t # s => Instances(q, t) = {}
  BY DEF Instances
<1>3. Cardinality(1..n) = n
  BY FS_Interval
<1> HIDE DEF q
<1> QED BY <1>1, <1>2, <1>3, FS_EmptySet DEF Count, q

\* A queue in which the server keeps one place.
LEMMA OneLeftCounts ==
    ASSUME NEW S, NEW q \in Seq(S), NEW s, NEW i \in DOMAIN q, q[i] = s
    PROVE  LET p == Rest(SubSeq(q, 1, i - 1), s) \o <<s>>
                      \o Rest(SubSeq(q, i + 1, Len(q)), s)
           IN  /\ p \in Seq(S)
               /\ Count(p, s) = 1
               /\ \A t : t # s => Count(p, t) = Count(q, t)
<1> DEFINE a == SubSeq(q, 1, i - 1)
           z == SubSeq(q, i + 1, Len(q))
<1>1. Len(q) \in Nat /\ i \in 1..Len(q) /\ s \in S
  OBVIOUS
<1>2. a \in Seq(S) /\ z \in Seq(S) /\ <<s>> \in Seq(S)
  BY <1>1
<1>3. (a \o <<s>>) \o z = q
  <2> DEFINE m == a \o <<s>>
  <2>1. Len(a) = i - 1 /\ Len(z) = Len(q) - i
    BY <1>1
  <2>2. m \in Seq(S) /\ Len(m) = i
    BY <1>1, <1>2, <2>1
  <2>3. Len(m \o z) = Len(q) /\ m \o z \in Seq(S)
    BY <1>1, <1>2, <2>1, <2>2
  <2>4. ASSUME NEW j \in 1..Len(q) PROVE (m \o z)[j] = q[j]
    <3>1. CASE j \in 1..(i - 1)
      <4>1. m[j] = a[j] /\ a[j] = q[j]
        BY <1>1, <1>2, <2>1, <3>1
      <4> QED BY <4>1, <1>1, <1>2, <2>2, <3>1
    <3>2. CASE j = i
      <4>1. m[i] = s
        BY <1>1, <1>2, <2>1
      <4> QED BY <4>1, <1>1, <1>2, <2>2, <3>2
    <3>3. CASE j \in (i + 1)..Len(q)
      <4>1. j - i \in 1..Len(z) /\ j = i + (j - i) /\ i + 1 + (j - i) - 1 = j
        BY <1>1, <2>1, <3>3
      <4>2. \A k \in 1..Len(z) : z[k] = q[i + 1 + k - 1]
        <5> SUFFICES ASSUME NEW k \in 1..(Len(q) - i)
                     PROVE  SubSeq(q, i + 1, Len(q))[k] = q[i + 1 + k - 1]
          BY <2>1
        <5>1. k \in Int /\ 1 <= k /\ k <= Len(q) - (i + 1) + 1 /\ i + 1 \in Nat
              /\ 1 <= i + 1
          BY <1>1
        <5> QED BY <1>1, <5>1
      <4>3. z[j - i] = q[j]
        <5> HIDE DEF z
        <5> QED BY <4>1, <4>2
      <4> HIDE DEF m, z
      <4>4. \A k \in 1..Len(z) : (m \o z)[Len(m) + k] = z[k]
        BY <1>2, <2>2
      <4>5. (m \o z)[i + (j - i)] = z[j - i]
        BY <2>2, <4>1, <4>4
      <4> QED BY <4>1, <4>3, <4>5
    <3>4. j \in 1..(i - 1) \/ j = i \/ j \in (i + 1)..Len(q)
      BY <1>1
    <3> HIDE DEF m, z
    <3> QED BY <3>1, <3>2, <3>3, <3>4
  <2> HIDE DEF m, z
  <2> DEFINE w == m \o z
  <2>5. w \in Seq(S) /\ Len(w) = Len(q) /\ \A j \in 1..Len(q) : w[j] = q[j]
    BY <2>3, <2>4
  <2> HIDE DEF w
  <2>6. w = q
    BY <2>5
  <2> QED BY <2>6 DEF w, m, z
<1>4. \A t : Count(<<s>>, t) = IF t = s THEN 1 ELSE 0
  BY SingleCount
<1> HIDE DEF a, z
<1>5. \A t : /\ Count(a, t) \in Nat /\ Count(z, t) \in Nat
             /\ Count(q, t) = Count(a, t) + Count(<<s>>, t) + Count(z, t)
  <2> SUFFICES ASSUME NEW t
               PROVE  /\ Count(a, t) \in Nat /\ Count(z, t) \in Nat
                      /\ Count(q, t) = Count(a, t) + Count(<<s>>, t) + Count(z, t)
    OBVIOUS
  <2>1. a \o <<s>> \in Seq(S)
    BY <1>2
  <2>2. Count(q, t) = Count(a \o <<s>>, t) + Count(z, t)
    <3>1. Count((a \o <<s>>) \o z, t) = Count(a \o <<s>>, t) + Count(z, t)
      BY <1>2, <2>1, CountConcat
    <3> QED BY <1>3, <3>1
  <2>3. Count(a \o <<s>>, t) = Count(a, t) + Count(<<s>>, t)
    BY <1>2, CountConcat
  <2> QED BY <1>2, <2>2, <2>3, InstancesFinite
<1>6. /\ Rest(a, s) \in Seq(S) /\ Rest(z, s) \in Seq(S)
      /\ Count(Rest(a, s), s) = 0 /\ Count(Rest(z, s), s) = 0
      /\ \A t : t # s => /\ Count(Rest(a, s), t) = Count(a, t)
                         /\ Count(Rest(z, s), t) = Count(z, t)
  BY <1>2, RestCounts
<1> DEFINE ra == Rest(a, s)
           rz == Rest(z, s)
           p == ra \o <<s>> \o rz
<1>7. ra \in Seq(S) /\ rz \in Seq(S)
  BY <1>6
<1> HIDE DEF ra, rz
<1>8. p \in Seq(S) /\ ra \o <<s>> \in Seq(S)
  BY <1>2, <1>7
<1>9. \A t : Count(p, t) = Count(ra, t) + Count(<<s>>, t) + Count(rz, t)
  <2> SUFFICES ASSUME NEW t
               PROVE  Count(p, t) = Count(ra, t) + Count(<<s>>, t) + Count(rz, t)
    OBVIOUS
  <2>1. Count(p, t) = Count(ra \o <<s>>, t) + Count(rz, t)
    BY <1>7, <1>8, CountConcat
  <2>2. Count(ra \o <<s>>, t) = Count(ra, t) + Count(<<s>>, t)
    BY <1>2, <1>7, CountConcat
  <2> QED BY <2>1, <2>2
<1> HIDE DEF p
<1>10. Count(p, s) = 1
  BY <1>4, <1>6, <1>9 DEF ra, rz
<1>11. \A t : t # s => Count(p, t) = Count(q, t)
  BY <1>4, <1>5, <1>6, <1>9 DEF ra, rz
<1> QED BY <1>8, <1>10, <1>11 DEF p, ra, rz, a, z

-----------------------------------------------------------------------------
(***************************************************************************)
(* The inductive invariant.                                                *)
(***************************************************************************)

\* The clients connected to s that it has still to handle.
Waiting(h, n, s) == {c \in Clients : h[c] = s /\ n[c] = "connecting"}

\* As many IN instances as the server means to have, listening or connected.
InsAdd(q, h, n, k, s) ==
    /\ IsFiniteSet(Waiting(h, n, s))
    /\ Count(q, s) + Cardinality(Waiting(h, n, s)) = k[s]

\* One OUT instance, which listens when no client is connected to it.
OutsAdd(q, p, b, k, s) ==
    /\ Count(q, s) = (IF k[s] # 0 /\ p[s] = NoClient THEN 1 ELSE 0)
    /\ k[s] = 0 => p[s] = NoClient
    /\ b[s] => p[s] # NoClient

InsKept == \A s \in Servers : InsAdd(inListen, home, node, cConnectIns, s)
OutsKept ==
    \A s \in Servers :
        OutsAdd(outListen, hPipeOut, bOutPipeConnected, cConnectIns, s)

\* A client that came before ConnectNamedPipe is still to be handled.
EarlyKept ==
    \A s \in Servers, c \in Clients :
        early[s] = c => home[c] = s /\ node[c] = "connecting" /\ inFresh[s]

KeptInv ==
    /\ TypeOK
    /\ \A c \in Clients : InOrder(c)
    /\ InsKept
    /\ OutsKept
    /\ EarlyKept

-----------------------------------------------------------------------------
\* The server has started if a client is connected to one of its instances.
LEMMA ConnectedToStarted ==
    ASSUME KeptInv, NEW s \in Servers
    PROVE  /\ bOutPipeConnected[s] => cConnectIns[s] # 0
           /\ \A c \in Clients : home[c] = s /\ node[c] = "connecting" => cConnectIns[s] # 0
<1>1. bOutPipeConnected[s] => cConnectIns[s] # 0
  BY DEF KeptInv, OutsKept, OutsAdd
<1>2. ASSUME NEW c \in Clients, home[c] = s, node[c] = "connecting", cConnectIns[s] = 0
      PROVE  FALSE
  <2>1. c \in Waiting(home, node, s)
    BY <1>2 DEF Waiting
  <2>2. IsFiniteSet(Waiting(home, node, s)) /\ Count(inListen, s) \in Nat
    BY InstancesFinite DEF KeptInv, TypeOK, InsKept, InsAdd
  <2>3. Cardinality(Waiting(home, node, s)) \in Nat
    BY <2>2, FS_CardinalityType
  <2>4. Cardinality(Waiting(home, node, s)) = 0
    BY <1>2, <2>2, <2>3 DEF KeptInv, InsKept, InsAdd
  <2> QED BY <2>1, <2>2, <2>4, FS_EmptySet
<1> QED BY <1>1, <1>2

\* Early clients are safe from the handlers, which run when there is none...
LEMMA EarlyStays ==
    ASSUME KeptInv, NEW s \in Servers, ~ inFresh[s] \/ cConnectIns[s] = 0,
           UNCHANGED <<early, home>>,
           \A t \in Servers : t # s => inFresh'[t] = inFresh[t],
           \A d \in Clients : home[d] # s => node'[d] = node[d]
    PROVE  EarlyKept'
<1>1. ASSUME NEW c \in Clients PROVE early[s] # c
  BY ConnectedToStarted DEF KeptInv, EarlyKept
<1> QED BY <1>1 DEF KeptInv, EarlyKept

\* ... and from those that leave alone who is still to be handled.
LEMMA EarlyUntouched ==
    ASSUME KeptInv, UNCHANGED <<early, inFresh, home>>,
           \A d \in Clients : node[d] = "connecting" => node'[d] = "connecting"
    PROVE  EarlyKept'
BY DEF KeptInv, EarlyKept

LEMMA FreshInTypes ==
    ASSUME KeptInv, NEW s \in Servers, NEW q, FreshIn(s, q)
    PROVE  /\ inFresh' \in [Servers -> BOOLEAN]
           /\ \A t \in Servers : t # s => inFresh'[t] = inFresh[t]
<1>1. Gap(q) \in BOOLEAN
  BY DEF Gap
<1>2. inFresh \in [Servers -> BOOLEAN]
  BY DEF KeptInv, TypeOK
<1> QED BY <1>1, <1>2 DEF FreshIn

LEMMA InitKeeps == Init => KeptInv
<1> SUFFICES ASSUME Init PROVE KeptInv
  OBVIOUS
<1>1. TypeOK
  <2>1. <<>> \in Seq(Servers)
    OBVIOUS
  <2>2. cConnectIns \in [Servers -> 0..CONNECT_COUNT]
    BY CountAssumption DEF Init
  <2> QED BY <2>1, <2>2 DEF Init, TypeOK, Positions, Nodes
<1>2. ASSUME NEW c \in Clients PROVE InOrder(c)
  BY <1>2 DEF Init, InOrder
<1>3. ASSUME NEW s \in Servers PROVE InsAdd(inListen, home, node, cConnectIns, s)
  <2>1. Waiting(home, node, s) = {}
    BY DEF Init, Waiting
  <2>2. IsFiniteSet(Waiting(home, node, s)) /\ Cardinality(Waiting(home, node, s)) = 0
    BY <2>1, FS_EmptySet
  <2>3. Count(inListen, s) = 0 /\ cConnectIns[s] = 0
    BY CountEmpty DEF Init
  <2> QED BY <2>2, <2>3 DEF InsAdd
<1>4. ASSUME NEW s \in Servers
      PROVE  OutsAdd(outListen, hPipeOut, bOutPipeConnected, cConnectIns, s)
  BY CountEmpty DEF Init, OutsAdd
<1>5. EarlyKept
  BY KindsAssumption DEF Init, EarlyKept
<1> QED BY <1>1, <1>2, <1>3, <1>4, <1>5 DEF KeptInv, InsKept, OutsKept

\* A server that has an OUT instance listening has started, and no client is
\* connected to the instance.
LEMMA ConnectOutKeeps ==
    ASSUME KeptInv, NEW c \in Clients, ConnectOut(c)
    PROVE  KeptInv'
<1>0. TypeOK /\ c \in TwoPipe /\ c # NoClient /\ pos[c] = "idle" /\ outListen # <<>>
  BY KindsAssumption DEF KeptInv, ConnectOut, Clients
<1> DEFINE s == Head(outListen)
           q == Tail(outListen)
<1>1. /\ s \in Servers /\ q \in Seq(Servers)
      /\ \A t : Count(outListen, t) = Count(q, t) + (IF t = s THEN 1 ELSE 0)
      /\ \A t : Count(q, t) \in Nat
  BY <1>0, PopCounts DEF TypeOK
<1>2. /\ outListen' = q
      /\ hPipeOut' = [hPipeOut EXCEPT ![s] = c]
      /\ pos' = [pos EXCEPT ![c] = "out"]
      /\ UNCHANGED <<inListen, perPipeEvent, cConnectIns, bOutPipeConnected, outFresh,
                     inFresh, early, timer, alive, home, node, writeTo>>
  BY DEF ConnectOut, freshVars
<1> HIDE DEF s, q
<1>3. TypeOK'
  BY <1>0, <1>1, <1>2 DEF TypeOK, Positions
<1>4. ASSUME NEW d \in Clients PROVE InOrder(d)'
  BY <1>0, <1>2, <1>4 DEF KeptInv, InOrder, TypeOK
<1>5. InsKept'
  BY <1>2 DEF KeptInv, InsKept
<1>6. ASSUME NEW t \in Servers
      PROVE  OutsAdd(q, hPipeOut', bOutPipeConnected, cConnectIns, t)
  <2>1. OutsAdd(outListen, hPipeOut, bOutPipeConnected, cConnectIns, t)
    BY DEF KeptInv, OutsKept
  <2>2. CASE t = s
    <3>1. Count(q, t) = 0 /\ cConnectIns[t] # 0
      BY <1>1, <2>1, <2>2 DEF OutsAdd
    <3>2. hPipeOut'[t] = c
      BY <1>0, <1>2, <2>2 DEF TypeOK
    <3> QED BY <3>1, <3>2, <1>0 DEF OutsAdd
  <2>3. CASE t # s
    <3>1. Count(q, t) = Count(outListen, t)
      BY <1>1, <2>3
    <3>2. hPipeOut'[t] = hPipeOut[t]
      BY <1>0, <1>2, <2>3 DEF TypeOK
    <3> QED BY <3>1, <3>2, <2>1 DEF OutsAdd
  <2> QED BY <2>2, <2>3
<1>7. OutsKept'
  BY <1>2, <1>6 DEF OutsKept
<1>8. EarlyKept'
  BY <1>2, EarlyUntouched
<1> QED BY <1>3, <1>4, <1>5, <1>7, <1>8 DEF KeptInv

\* The instance moves from those that listen to those with a client.
LEMMA ConnectInKeeps ==
    ASSUME KeptInv, NEW c \in Clients, ConnectIn(c)
    PROVE  KeptInv'
<1>0. TypeOK /\ node[c] = "none" /\ inListen # <<>>
  BY DEF KeptInv, ConnectIn, InOrder
<1> DEFINE s == Head(inListen)
           q == Tail(inListen)
<1>1. /\ s \in Servers /\ q \in Seq(Servers)
      /\ \A t : Count(inListen, t) = Count(q, t) + (IF t = s THEN 1 ELSE 0)
      /\ \A t : Count(q, t) \in Nat
  BY <1>0, PopCounts DEF TypeOK
<1>2. /\ inListen' = q
      /\ home' = [home EXCEPT ![c] = s]
      /\ node' = [node EXCEPT ![c] = "connecting"]
      /\ pos' = [pos EXCEPT ![c] = "in"]
      /\ early' = IF inFresh[s] /\ early[s] = NoClient
                  THEN [early EXCEPT ![s] = c] ELSE early
      /\ UNCHANGED <<outListen, perPipeEvent, cConnectIns, hPipeOut, bOutPipeConnected,
                     outFresh, inFresh, timer, alive, writeTo>>
  BY DEF ConnectIn, outVars
<1> HIDE DEF s, q
<1>3. TypeOK'
  BY <1>0, <1>1, <1>2 DEF TypeOK, Positions, Nodes
<1>4. ASSUME NEW d \in Clients PROVE InOrder(d)'
  BY <1>0, <1>2, <1>4 DEF KeptInv, InOrder, TypeOK
<1>5. ASSUME NEW t \in Servers PROVE InsAdd(q, home', node', cConnectIns, t)
  <2>1. InsAdd(inListen, home, node, cConnectIns, t)
    BY DEF KeptInv, InsKept
  <2>2. CASE t = s
    <3>1. /\ Waiting(home', node', t) = Waiting(home, node, t) \cup {c}
          /\ c \notin Waiting(home, node, t)
      BY <1>0, <1>2, <2>2 DEF TypeOK, Waiting
    <3>2. /\ IsFiniteSet(Waiting(home', node', t))
          /\ Cardinality(Waiting(home', node', t)) = Cardinality(Waiting(home, node, t)) + 1
      BY <2>1, <3>1, FS_AddElement DEF InsAdd
    <3>3. Cardinality(Waiting(home, node, t)) \in Nat
      BY <2>1, FS_CardinalityType DEF InsAdd
    <3> QED BY <1>1, <2>1, <2>2, <3>2, <3>3 DEF InsAdd
  <2>3. CASE t # s
    <3>1. Waiting(home', node', t) = Waiting(home, node, t)
      BY <1>0, <1>2, <2>3 DEF TypeOK, Waiting
    <3>2. Count(q, t) = Count(inListen, t)
      BY <1>1, <2>3
    <3> QED BY <2>1, <3>1, <3>2 DEF InsAdd
  <2> QED BY <2>2, <2>3
<1>6. InsKept'
  BY <1>2, <1>5 DEF InsKept
<1>7. OutsKept'
  BY <1>2 DEF KeptInv, OutsKept
<1>8. EarlyKept'
  BY <1>0, <1>1, <1>2 DEF KeptInv, EarlyKept, TypeOK
<1> QED BY <1>3, <1>4, <1>6, <1>7, <1>8 DEF KeptInv

LEMMA ClientGoesOnKeeps ==
    ASSUME KeptInv, NEW c \in Clients, SendMyInfo(c) \/ Dies(c)
    PROVE  KeptInv'
<1>1. /\ \/ pos' = [pos EXCEPT ![c] = "sent"] /\ UNCHANGED alive
         \/ alive' = [alive EXCEPT ![c] = FALSE] /\ UNCHANGED pos
      /\ UNCHANGED <<inListen, outListen, perPipeEvent, cConnectIns, hPipeOut,
                     bOutPipeConnected, outFresh, inFresh, early, timer, home, node,
                     writeTo>>
  BY DEF SendMyInfo, Dies, listenVars, outVars, freshVars
<1>2. TypeOK'
  BY <1>1 DEF KeptInv, TypeOK, Positions
<1>3. ASSUME NEW d \in Clients PROVE InOrder(d)'
  BY <1>1, <1>3 DEF KeptInv, InOrder, TypeOK
<1>4. InsKept' /\ OutsKept'
  BY <1>1 DEF KeptInv, InsKept, OutsKept
<1>5. EarlyKept'
  BY <1>1, EarlyUntouched
<1> QED BY <1>2, <1>3, <1>4, <1>5 DEF KeptInv

\* A new OUT instance listens after the old one is gone, wherever that was.
LEMMA ReplaceOutKeeps ==
    ASSUME KeptInv, NEW s \in Servers, cConnectIns[s] # 0, ReplaceOut(s),
           UNCHANGED cConnectIns
    PROVE  /\ outListen' \in Seq(Servers)
           /\ hPipeOut' \in [Servers -> TwoPipe \cup {NoClient}]
           /\ bOutPipeConnected' \in [Servers -> BOOLEAN]
           /\ outFresh' \in [Servers -> BOOLEAN]
           /\ OutsKept'
<1> DEFINE q == IF hPipeOut[s] = NoClient THEN Rest(outListen, s) ELSE outListen
<1>1. TypeOK /\ OutsAdd(outListen, hPipeOut, bOutPipeConnected, cConnectIns, s)
  BY DEF KeptInv, OutsKept
<1>2. /\ q \in Seq(Servers) /\ Count(q, s) = 0
      /\ \A t : t # s => Count(q, t) = Count(outListen, t)
  <2>1. CASE hPipeOut[s] = NoClient
    BY <1>1, <2>1, RestCounts DEF TypeOK
  <2>2. CASE hPipeOut[s] # NoClient
    BY <1>1, <2>2 DEF TypeOK, OutsAdd
  <2> QED BY <2>1, <2>2
<1>3. /\ outListen' = Append(q, s)
      /\ hPipeOut' = [hPipeOut EXCEPT ![s] = NoClient]
      /\ bOutPipeConnected' = [bOutPipeConnected EXCEPT ![s] = FALSE]
  BY DEF ReplaceOut, OtherOuts
<1> HIDE DEF q
<1>4. /\ outListen' \in Seq(Servers)
      /\ hPipeOut' \in [Servers -> TwoPipe \cup {NoClient}]
      /\ bOutPipeConnected' \in [Servers -> BOOLEAN]
  BY <1>1, <1>2, <1>3 DEF TypeOK
<1>5. ASSUME NEW t \in Servers
      PROVE  OutsAdd(Append(q, s), hPipeOut', bOutPipeConnected', cConnectIns, t)
  <2>1. Count(Append(q, s), t) = Count(q, t) + (IF s = t THEN 1 ELSE 0)
    BY <1>2, CountAppend
  <2>2. CASE t = s
    <3>1. hPipeOut'[t] = NoClient /\ bOutPipeConnected'[t] = FALSE
      BY <1>1, <1>3, <2>2 DEF TypeOK
    <3>2. Count(Append(q, s), t) = 1
      BY <1>2, <2>1, <2>2
    <3> QED BY <3>1, <3>2, <2>2 DEF OutsAdd
  <2>3. CASE t # s
    <3>1. OutsAdd(outListen, hPipeOut, bOutPipeConnected, cConnectIns, t)
      BY DEF KeptInv, OutsKept
    <3>2. hPipeOut'[t] = hPipeOut[t] /\ bOutPipeConnected'[t] = bOutPipeConnected[t]
      BY <1>1, <1>3, <2>3 DEF TypeOK
    <3>3. Count(q, t) \in Nat
      BY <1>2, InstancesFinite
    <3>4. Count(Append(q, s), t) = Count(outListen, t)
      BY <1>2, <2>1, <2>3, <3>3
    <3> QED BY <3>1, <3>2, <3>4 DEF OutsAdd
  <2> QED BY <2>2, <2>3
<1>6. OutsKept'
  BY <1>3, <1>5 DEF OutsKept
<1>7. outFresh' \in [Servers -> BOOLEAN]
  <2>1. Gap(OtherOuts(s)) \in BOOLEAN
    BY DEF Gap
  <2> QED BY <1>1, <2>1 DEF ReplaceOut, TypeOK
<1> QED BY <1>4, <1>6, <1>7

\* A server that starts has nothing listening and nobody connected.
LEMMA StartKeeps ==
    ASSUME KeptInv, NEW s \in Servers, Start(s)
    PROVE  KeptInv'
<1> DEFINE n == InsAtStart
           new == [i \in 1..n |-> s]
           q == inListen \o new
           p == Append(outListen, s)
<1>1. /\ cConnectIns[s] = 0
      /\ perPipeEvent' = (perPipeEvent \/ AnotherStarted)
      /\ cConnectIns' = [cConnectIns EXCEPT ![s] = n]
      /\ inListen' = q /\ outListen' = p
      /\ outFresh' = [outFresh EXCEPT ![s] = Gap(outListen)] /\ FreshIn(s, inListen)
      /\ UNCHANGED <<hPipeOut, bOutPipeConnected, early, timer, pos, alive, home, node,
                     writeTo>>
  BY DEF Start, outVars, clientVars
<1>2. n \in Nat /\ n # 0 /\ n \in 0..CONNECT_COUNT
  BY CountAssumption DEF InsAtStart
<1>3. AnotherStarted \in BOOLEAN
  BY DEF AnotherStarted
<1> HIDE DEF n
<1>4. new \in Seq(Servers) /\ \A t : Count(new, t) = IF t = s THEN n ELSE 0
  BY <1>2, FirstCounts
<1> HIDE DEF new
<1>5. TypeOK
  BY DEF KeptInv
<1>6. q \in Seq(Servers) /\ p \in Seq(Servers)
  BY <1>4, <1>5 DEF TypeOK
<1>7. \A t : /\ Count(q, t) = Count(inListen, t) + (IF t = s THEN n ELSE 0)
             /\ Count(p, t) = Count(outListen, t) + (IF s = t THEN 1 ELSE 0)
  <2> SUFFICES ASSUME NEW t
               PROVE  /\ Count(q, t) = Count(inListen, t) + (IF t = s THEN n ELSE 0)
                      /\ Count(p, t) = Count(outListen, t) + (IF s = t THEN 1 ELSE 0)
    OBVIOUS
  <2>1. Count(q, t) = Count(inListen, t) + Count(new, t)
    BY <1>4, <1>5, CountConcat DEF TypeOK
  <2>2. Count(p, t) = Count(outListen, t) + (IF s = t THEN 1 ELSE 0)
    BY <1>5, CountAppend DEF TypeOK
  <2> QED BY <1>4, <2>1, <2>2
<1> HIDE DEF q, p
<1>8. TypeOK'
  <2>1. Gap(outListen) \in BOOLEAN
    BY DEF Gap
  <2>2. outFresh' \in [Servers -> BOOLEAN] /\ inFresh' \in [Servers -> BOOLEAN]
    BY <1>1, <1>5, <2>1, FreshInTypes DEF TypeOK
  <2> QED BY <1>1, <1>2, <1>3, <1>5, <1>6, <2>2 DEF TypeOK
<1>9. ASSUME NEW d \in Clients PROVE InOrder(d)'
  BY <1>1, <1>9 DEF KeptInv, InOrder
<1>10. \A t \in Servers : cConnectIns'[t] = IF t = s THEN n ELSE cConnectIns[t]
  BY <1>1, <1>5 DEF TypeOK
<1>11. ASSUME NEW t \in Servers
       PROVE  /\ InsAdd(q, home, node, cConnectIns', t)
              /\ OutsAdd(p, hPipeOut, bOutPipeConnected, cConnectIns', t)
  <2>1. /\ InsAdd(inListen, home, node, cConnectIns, t)
        /\ OutsAdd(outListen, hPipeOut, bOutPipeConnected, cConnectIns, t)
    BY DEF KeptInv, InsKept, OutsKept
  <2>2. /\ Count(inListen, t) \in Nat /\ Count(outListen, t) \in Nat
        /\ Cardinality(Waiting(home, node, t)) \in Nat
    BY <1>5, <2>1, InstancesFinite, FS_CardinalityType DEF TypeOK, InsAdd
  <2>3. CASE t = s
    <3>1. /\ Count(inListen, t) = 0 /\ Cardinality(Waiting(home, node, t)) = 0
          /\ Count(outListen, t) = 0 /\ hPipeOut[t] = NoClient
      BY <1>1, <2>1, <2>2, <2>3 DEF InsAdd, OutsAdd
    <3>2. Count(q, t) = n /\ Count(p, t) = 1 /\ cConnectIns'[t] = n
      BY <1>2, <1>7, <1>10, <2>3, <3>1
    <3>3. Count(q, t) + Cardinality(Waiting(home, node, t)) = cConnectIns'[t]
      BY <1>2, <3>1, <3>2
    <3> QED BY <1>2, <2>1, <3>1, <3>2, <3>3 DEF InsAdd, OutsAdd
  <2>4. CASE t # s
    <3>1. /\ Count(q, t) = Count(inListen, t) /\ Count(p, t) = Count(outListen, t)
          /\ cConnectIns'[t] = cConnectIns[t]
      BY <1>7, <1>10, <2>2, <2>4
    <3> QED BY <2>1, <3>1 DEF InsAdd, OutsAdd
  <2> QED BY <2>3, <2>4
<1>12. InsKept' /\ OutsKept'
  BY <1>1, <1>11 DEF InsKept, OutsKept
<1>13. EarlyKept'
  BY <1>1, FreshInTypes, EarlyStays
<1> QED BY <1>8, <1>9, <1>12, <1>13 DEF KeptInv

\* The server is left with one IN instance and nobody to handle there, or with
\* the one client it keeps and no instance that listens.
LEMMA FallBackKeeps ==
    ASSUME KeptInv, NEW s \in Servers, FallBack(s)
    PROVE  KeptInv'
<1>1. /\ cConnectIns[s] # 0 /\ cConnectIns' = [cConnectIns EXCEPT ![s] = 1]
      /\ UNCHANGED <<outListen, perPipeEvent, hPipeOut, bOutPipeConnected, outFresh,
                     inFresh, early, timer, pos, alive, home, writeTo>>
      /\ ~ inFresh[s]
  <2>1. cConnectIns[s] > 1
    BY DEF FallBack, FallBackDue
  <2>2. cConnectIns[s] # 0
    BY <2>1
  <2> QED BY <2>2 DEF FallBack, Ready, outVars, freshVars, clientVars
<1>2. TypeOK /\ 1 \in 0..CONNECT_COUNT
  BY CountAssumption DEF KeptInv
<1>3. PICK D \in SUBSET Connecting(s) :
         /\ node' = [c \in Clients |->
                       IF c \in Connecting(s) \ D THEN "dropped" ELSE node[c]]
         /\ inListen' \in Seq(Servers)
         /\ IsFiniteSet(D) /\ Cardinality(D) \in Nat
         /\ Count(inListen', s) + Cardinality(D) = 1
         /\ \A t : t # s => Count(inListen', t) = Count(inListen, t)
  <2>1. CASE \E i \in DOMAIN inListen :
               /\ inListen[i] = s
               /\ inListen' = Rest(SubSeq(inListen, 1, i - 1), s) \o <<s>>
                                \o Rest(SubSeq(inListen, i + 1, Len(inListen)), s)
               /\ node' = [c \in Clients |->
                             IF c \in Connecting(s) THEN "dropped" ELSE node[c]]
    <3>1. PICK i \in DOMAIN inListen :
               /\ inListen[i] = s
               /\ inListen' = Rest(SubSeq(inListen, 1, i - 1), s) \o <<s>>
                                \o Rest(SubSeq(inListen, i + 1, Len(inListen)), s)
               /\ node' = [c \in Clients |->
                             IF c \in Connecting(s) THEN "dropped" ELSE node[c]]
      BY <2>1
    <3>2. inListen \in Seq(Servers)
      BY <1>2 DEF TypeOK
    <3> DEFINE p == Rest(SubSeq(inListen, 1, i - 1), s) \o <<s>>
                      \o Rest(SubSeq(inListen, i + 1, Len(inListen)), s)
    <3>3. /\ p \in Seq(Servers) /\ Count(p, s) = 1
          /\ \A t : t # s => Count(p, t) = Count(inListen, t)
      BY <3>1, <3>2, OneLeftCounts
    <3>4. inListen' = p
      BY <3>1
    <3>5. IsFiniteSet({}) /\ Cardinality({}) = 0
      BY FS_EmptySet
    <3> HIDE DEF p
    <3>6. {} \in SUBSET Connecting(s) /\ Connecting(s) \ {} = Connecting(s)
      OBVIOUS
    <3>7. Count(inListen', s) + Cardinality({}) = 1
      BY <3>3, <3>4, <3>5
    <3>8. \A t : t # s => Count(inListen', t) = Count(inListen, t)
      BY <3>3, <3>4
    <3>9. node' = [c \in Clients |->
                     IF c \in Connecting(s) \ {} THEN "dropped" ELSE node[c]]
      BY <3>1, <3>6
    <3>10. inListen' \in Seq(Servers) /\ Cardinality({}) \in Nat
      BY <3>3, <3>4, <3>5
    <3>11. WITNESS {} \in SUBSET Connecting(s)
    <3> QED BY <3>5, <3>7, <3>8, <3>9, <3>10
  <2>2. CASE \E d \in Connecting(s) :
               /\ inListen' = Rest(inListen, s)
               /\ node' = [c \in Clients |->
                             IF c \in Connecting(s) \ {d} THEN "dropped" ELSE node[c]]
    <3>1. PICK d \in Connecting(s) :
               /\ inListen' = Rest(inListen, s)
               /\ node' = [c \in Clients |->
                             IF c \in Connecting(s) \ {d} THEN "dropped" ELSE node[c]]
      BY <2>2
    <3> DEFINE p == Rest(inListen, s)
    <3>2. /\ p \in Seq(Servers) /\ Count(p, s) = 0
          /\ \A t : t # s => Count(p, t) = Count(inListen, t)
      BY <1>2, RestCounts DEF TypeOK
    <3>3. inListen' = p
      BY <3>1
    <3>4. IsFiniteSet({d}) /\ Cardinality({d}) = 1
      BY FS_Singleton
    <3> HIDE DEF p
    <3>5. Count(inListen', s) + Cardinality({d}) = 1
      BY <3>2, <3>3, <3>4
    <3>6. \A t : t # s => Count(inListen', t) = Count(inListen, t)
      BY <3>2, <3>3
    <3> QED BY <3>1, <3>2, <3>3, <3>4, <3>5, <3>6
  <2> QED BY <2>1, <2>2 DEF FallBack
<1>4. TypeOK'
  BY <1>1, <1>2, <1>3 DEF TypeOK, Nodes
<1>5. ASSUME NEW c \in Clients PROVE InOrder(c)'
  BY <1>1, <1>3, <1>5 DEF KeptInv, InOrder, Connecting
<1>6. \A t \in Servers : cConnectIns'[t] = IF t = s THEN 1 ELSE cConnectIns[t]
  BY <1>1, <1>2 DEF TypeOK
<1>7. ASSUME NEW t \in Servers PROVE InsAdd(inListen', home, node', cConnectIns', t)
  <2>1. CASE t = s
    <3>1. Waiting(home, node', t) = D
      BY <1>3, <2>1 DEF Waiting, Connecting
    <3> QED BY <1>3, <1>6, <2>1, <3>1 DEF InsAdd
  <2>2. CASE t # s
    <3>1. Waiting(home, node', t) = Waiting(home, node, t)
      BY <1>3, <2>2 DEF Waiting, Connecting
    <3>2. InsAdd(inListen, home, node, cConnectIns, t)
      BY DEF KeptInv, InsKept
    <3>3. Count(inListen', t) = Count(inListen, t) /\ cConnectIns'[t] = cConnectIns[t]
      BY <1>3, <1>6, <2>2
    <3> QED BY <3>1, <3>2, <3>3 DEF InsAdd
  <2> QED BY <2>1, <2>2
<1>8. InsKept'
  BY <1>1, <1>7 DEF InsKept
<1>9. ASSUME NEW t \in Servers
      PROVE  OutsAdd(outListen, hPipeOut, bOutPipeConnected, cConnectIns', t)
  <2>1. OutsAdd(outListen, hPipeOut, bOutPipeConnected, cConnectIns, t)
    BY DEF KeptInv, OutsKept
  <2>2. cConnectIns'[t] # 0 <=> cConnectIns[t] # 0
    BY <1>1, <1>6
  <2> QED BY <2>1, <2>2 DEF OutsAdd
<1>10. OutsKept'
  BY <1>1, <1>9 DEF OutsKept
<1>11. EarlyKept'
  BY <1>1, <1>3, EarlyStays DEF Connecting
<1> QED BY <1>4, <1>5, <1>8, <1>10, <1>11 DEF KeptInv

LEMMA OutSeenKeeps ==
    ASSUME KeptInv, NEW s \in Servers, hPipeOut[s] # NoClient, OutConnected(s),
           outFresh' \in [Servers -> BOOLEAN],
           UNCHANGED <<inListen, outListen, perPipeEvent, cConnectIns, hPipeOut, inFresh,
                       early, pos, alive, home, node, writeTo>>
    PROVE  KeptInv'
<1>1. /\ bOutPipeConnected' = [bOutPipeConnected EXCEPT ![s] = TRUE]
      /\ timer' = [timer EXCEPT ![s] = TRUE]
  BY DEF OutConnected
<1>2. TypeOK'
  BY <1>1 DEF KeptInv, TypeOK
<1>3. ASSUME NEW c \in Clients PROVE InOrder(c)'
  BY <1>3 DEF KeptInv, InOrder
<1>4. InsKept'
  BY DEF KeptInv, InsKept
<1>5. ASSUME NEW t \in Servers
      PROVE  OutsAdd(outListen, hPipeOut, bOutPipeConnected', cConnectIns, t)
  <2>1. bOutPipeConnected'[t] = IF t = s THEN TRUE ELSE bOutPipeConnected[t]
    BY <1>1 DEF KeptInv, TypeOK
  <2> QED BY <2>1 DEF KeptInv, OutsKept, OutsAdd
<1>6. OutsKept'
  BY <1>5 DEF OutsKept
<1>7. EarlyKept'
  BY EarlyUntouched
<1> QED BY <1>2, <1>3, <1>4, <1>6, <1>7 DEF KeptInv

LEMMA OutConnectedKeeps ==
    ASSUME KeptInv, NEW s \in Servers, HandleOutPipeConnected(s)
    PROVE  KeptInv'
<1>1. outFresh' \in [Servers -> BOOLEAN]
  BY DEF HandleOutPipeConnected, KeptInv, TypeOK
<1> QED BY <1>1, OutSeenKeeps
        DEF HandleOutPipeConnected, OutDue, listenVars, freshVars, clientVars

\* The client moves on and another instance listens in its place.
LEMMA InHandledKeeps ==
    ASSUME KeptInv, NEW c \in Clients, NEW s \in Servers, home[c] = s,
           node[c] = "connecting", InConnected(s, c),
           early' \in [Servers -> Clients \cup {NoClient}], EarlyKept'
    PROVE  KeptInv'
<1>1. /\ home[c] = s /\ node[c] = "connecting"
      /\ inListen' = Append(inListen, s)
      /\ \/ /\ node' = [node EXCEPT ![c] = "naming"]
            /\ KeepOut /\ UNCHANGED timer
         \/ /\ node' = [node EXCEPT ![c] = "dropped"]
            /\ IF bOutPipeConnected[s]
               THEN ReplaceOut(s) /\ timer' = [timer EXCEPT ![s] = FALSE]
               ELSE KeepOut /\ UNCHANGED timer
      /\ UNCHANGED <<perPipeEvent, cConnectIns, clientVars, home, writeTo>>
      /\ inFresh' \in [Servers -> BOOLEAN]
  BY FreshInTypes DEF InConnected
<1>2. TypeOK /\ cConnectIns[s] # 0
  BY <1>1, ConnectedToStarted DEF KeptInv
<1>3. PICK n \in {"naming", "dropped"} : node' = [node EXCEPT ![c] = n]
  BY <1>1
<1>4. ReplaceOut(s) \/ KeepOut
  BY <1>1
<1>5. /\ outListen' \in Seq(Servers)
      /\ hPipeOut' \in [Servers -> TwoPipe \cup {NoClient}]
      /\ bOutPipeConnected' \in [Servers -> BOOLEAN]
      /\ outFresh' \in [Servers -> BOOLEAN]
      /\ OutsKept'
  <2>1. CASE ReplaceOut(s)
    BY <1>1, <1>2, <2>1, ReplaceOutKeeps
  <2>2. CASE KeepOut
    BY <1>1, <1>2, <2>2 DEF KeepOut, KeptInv, OutsKept, TypeOK, outVars
  <2> QED BY <1>4, <2>1, <2>2
<1>6. TypeOK'
  <2>1. inListen' \in Seq(Servers)
    BY <1>1, <1>2 DEF TypeOK
  <2>2. node' \in [Clients -> Nodes]
    BY <1>2, <1>3 DEF TypeOK, Nodes
  <2>3. timer' \in [Servers -> BOOLEAN]
    BY <1>1, <1>2 DEF TypeOK
  <2> QED BY <1>1, <1>2, <1>5, <2>1, <2>2, <2>3 DEF TypeOK, clientVars
<1>7. ASSUME NEW d \in Clients PROVE InOrder(d)'
  BY <1>1, <1>2, <1>3, <1>7 DEF KeptInv, InOrder, TypeOK, clientVars
<1> DEFINE q == Append(inListen, s)
<1>8. ASSUME NEW t \in Servers PROVE InsAdd(q, home, node', cConnectIns, t)
  <2>1. InsAdd(inListen, home, node, cConnectIns, t)
    BY DEF KeptInv, InsKept
  <2>2. Count(q, t) = Count(inListen, t) + (IF s = t THEN 1 ELSE 0)
    BY <1>2, CountAppend DEF TypeOK
  <2>3. Count(inListen, t) \in Nat
    BY <1>2, InstancesFinite DEF TypeOK
  <2> HIDE DEF q
  <2>4. CASE t = s
    <3>1. /\ Waiting(home, node', t) = Waiting(home, node, t) \ {c}
          /\ c \in Waiting(home, node, t)
      BY <1>1, <1>2, <1>3, <2>4 DEF TypeOK, Waiting
    <3>2. /\ IsFiniteSet(Waiting(home, node', t))
          /\ Cardinality(Waiting(home, node', t)) = Cardinality(Waiting(home, node, t)) - 1
      BY <2>1, <3>1, FS_RemoveElement DEF InsAdd
    <3>3. Cardinality(Waiting(home, node, t)) \in Nat
      BY <2>1, FS_CardinalityType DEF InsAdd
    <3>4. Count(q, t) = Count(inListen, t) + 1
      BY <2>2, <2>4
    <3>5. Count(q, t) + Cardinality(Waiting(home, node', t))
             = Count(inListen, t) + Cardinality(Waiting(home, node, t))
      BY <2>3, <3>2, <3>3, <3>4
    <3> QED BY <2>1, <3>2, <3>5 DEF InsAdd
  <2>5. CASE t # s
    <3>1. Waiting(home, node', t) = Waiting(home, node, t)
      BY <1>1, <1>2, <1>3, <2>5 DEF TypeOK, Waiting
    <3>2. Count(q, t) = Count(inListen, t)
      BY <2>2, <2>3, <2>5
    <3> QED BY <2>1, <3>1, <3>2 DEF InsAdd
  <2> QED BY <2>4, <2>5
<1>9. InsKept'
  BY <1>1, <1>8 DEF InsKept
<1> QED BY <1>5, <1>6, <1>7, <1>9 DEF KeptInv

LEMMA InConnectedKeeps ==
    ASSUME KeptInv, NEW c \in Clients, HandleInPipeConnected(c)
    PROVE  KeptInv'
<1>1. PICK s \in Servers :
        /\ home[c] = s /\ node[c] = "connecting" /\ ~ inFresh[s]
        /\ InConnected(s, c) /\ UNCHANGED early
  BY DEF HandleInPipeConnected, Ready
<1>2. \A d \in Clients : home[d] # s => node'[d] = node[d]
  BY <1>1 DEF InConnected, KeptInv, TypeOK
<1>3. EarlyKept'
  BY <1>1, <1>2, FreshInTypes, EarlyStays DEF InConnected
<1> QED BY <1>1, <1>3, InHandledKeeps DEF KeptInv, TypeOK

\* A step that is about clients' nodes and the OUT pipe: those that are waiting
\* to be handled stay where they are.
LEMMA NodeAndOutKeep ==
    ASSUME KeptInv, NEW c \in Clients, node[c] = "naming",
           NEW n \in {"open", "closed", "refused"}, node' = [node EXCEPT ![c] = n],
           UNCHANGED <<inListen, perPipeEvent, cConnectIns, inFresh, early, pos, alive,
                       home>>,
           outListen' \in Seq(Servers),
           hPipeOut' \in [Servers -> TwoPipe \cup {NoClient}],
           bOutPipeConnected' \in [Servers -> BOOLEAN],
           outFresh' \in [Servers -> BOOLEAN],
           timer' \in [Servers -> BOOLEAN],
           writeTo' \in [Clients -> Clients \cup {NoClient}],
           OutsKept'
    PROVE  KeptInv'
<1>1. TypeOK'
  BY DEF KeptInv, TypeOK, Nodes
<1>2. ASSUME NEW d \in Clients PROVE InOrder(d)'
  BY <1>2 DEF KeptInv, InOrder, TypeOK
<1>3. ASSUME NEW t \in Servers PROVE InsAdd(inListen, home, node', cConnectIns, t)
  <2>1. Waiting(home, node', t) = Waiting(home, node, t)
    BY DEF Waiting, KeptInv, TypeOK
  <2> QED BY <2>1 DEF KeptInv, InsKept, InsAdd
<1>4. InsKept'
  BY <1>3 DEF InsKept
<1>5. EarlyKept'
  <2>1. \A d \in Clients : node[d] = "connecting" => node'[d] = "connecting"
    BY DEF KeptInv, TypeOK
  <2> QED BY <2>1, EarlyUntouched
<1> QED BY <1>1, <1>2, <1>4, <1>5 DEF KeptInv

LEMMA OutLeftAlone ==
    ASSUME KeptInv, KeepOut, UNCHANGED cConnectIns
    PROVE  /\ outListen' \in Seq(Servers)
           /\ hPipeOut' \in [Servers -> TwoPipe \cup {NoClient}]
           /\ bOutPipeConnected' \in [Servers -> BOOLEAN]
           /\ outFresh' \in [Servers -> BOOLEAN]
           /\ OutsKept'
BY DEF KeptInv, KeepOut, TypeOK, OutsKept, outVars

LEMMA NameFailsKeeps ==
    ASSUME KeptInv, NEW c \in Clients, NameFails(c)
    PROVE  KeptInv'
<1>1. KeepOut /\ UNCHANGED cConnectIns
  BY DEF NameFails, KeepOut, listenVars, outVars
<1>2. /\ outListen' \in Seq(Servers)
      /\ hPipeOut' \in [Servers -> TwoPipe \cup {NoClient}]
      /\ bOutPipeConnected' \in [Servers -> BOOLEAN]
      /\ outFresh' \in [Servers -> BOOLEAN]
      /\ OutsKept'
  BY <1>1, OutLeftAlone
<1>3. /\ node[c] = "naming" /\ node' = [node EXCEPT ![c] = "closed"]
      /\ UNCHANGED <<inListen, perPipeEvent, cConnectIns, inFresh, early, pos, alive,
                     home>>
  BY DEF NameFails, listenVars, freshVars, clientVars
<1>4. /\ timer' \in [Servers -> BOOLEAN]
      /\ writeTo' \in [Clients -> Clients \cup {NoClient}]
  BY DEF NameFails, KeptInv, TypeOK
<1> QED BY <1>2, <1>3, <1>4, NodeAndOutKeep

LEMMA OnePipeKeeps ==
    ASSUME KeptInv, NEW c \in Clients, NameOfOnePipe(c)
    PROVE  KeptInv'
<1>1. PICK s \in Servers :
        /\ node[c] = "naming" /\ node' = [node EXCEPT ![c] = "open"]
        /\ writeTo' = [writeTo EXCEPT ![c] = c]
        /\ OutAfterOnePipe(s)
        /\ UNCHANGED <<inListen, perPipeEvent, cConnectIns, inFresh, early, timer,
                       clientVars, home>>
  BY DEF NameOfOnePipe, freshVars
<1>2. /\ outListen' \in Seq(Servers)
      /\ hPipeOut' \in [Servers -> TwoPipe \cup {NoClient}]
      /\ bOutPipeConnected' \in [Servers -> BOOLEAN]
      /\ outFresh' \in [Servers -> BOOLEAN]
      /\ OutsKept'
  BY <1>1, ReplaceOutKeeps, OutLeftAlone DEF OutAfterOnePipe
<1>3. UNCHANGED <<inListen, perPipeEvent, cConnectIns, inFresh, early, pos, alive,
                     home>>
  BY <1>1 DEF clientVars
<1>4. /\ timer' \in [Servers -> BOOLEAN]
      /\ writeTo' \in [Clients -> Clients \cup {NoClient}]
  BY <1>1 DEF KeptInv, TypeOK
<1> QED BY <1>1, <1>2, <1>3, <1>4, NodeAndOutKeep

LEMMA TwoPipeKeeps ==
    ASSUME KeptInv, NEW c \in Clients, NameOfTwoPipe(c)
    PROVE  KeptInv'
<1>1. PICK s \in Servers :
        /\ node[c] = "naming"
        /\ IF bOutPipeConnected[s]
           THEN /\ node' = [node EXCEPT ![c] = "open"]
                /\ writeTo' = [writeTo EXCEPT ![c] = hPipeOut[s]]
                /\ ReplaceOut(s)
                /\ timer' = [timer EXCEPT ![s] = FALSE]
           ELSE /\ node' = [node EXCEPT ![c] = "refused"]
                /\ KeepOut /\ UNCHANGED <<timer, writeTo>>
        /\ UNCHANGED <<inListen, perPipeEvent, cConnectIns, inFresh, early, clientVars, home>>
  BY DEF NameOfTwoPipe, freshVars
<1>2. UNCHANGED <<inListen, perPipeEvent, cConnectIns, inFresh, early, pos, alive,
                     home>>
  BY <1>1 DEF clientVars
<1>3. CASE bOutPipeConnected[s]
  <2>1. /\ outListen' \in Seq(Servers)
        /\ hPipeOut' \in [Servers -> TwoPipe \cup {NoClient}]
        /\ bOutPipeConnected' \in [Servers -> BOOLEAN]
        /\ outFresh' \in [Servers -> BOOLEAN]
        /\ OutsKept'
    BY <1>1, <1>3, ConnectedToStarted, ReplaceOutKeeps
  <2>2. /\ timer' \in [Servers -> BOOLEAN]
        /\ writeTo' \in [Clients -> Clients \cup {NoClient}]
    BY <1>1, <1>3 DEF KeptInv, TypeOK, Clients
  <2> QED BY <1>1, <1>2, <1>3, <2>1, <2>2, NodeAndOutKeep
<1>4. CASE ~ bOutPipeConnected[s]
  <2>1. /\ outListen' \in Seq(Servers)
        /\ hPipeOut' \in [Servers -> TwoPipe \cup {NoClient}]
        /\ bOutPipeConnected' \in [Servers -> BOOLEAN]
        /\ outFresh' \in [Servers -> BOOLEAN]
        /\ OutsKept'
    BY <1>1, <1>4, OutLeftAlone
  <2>2. /\ timer' \in [Servers -> BOOLEAN]
        /\ writeTo' \in [Clients -> Clients \cup {NoClient}]
    BY <1>1, <1>4 DEF KeptInv, TypeOK
  <2> QED BY <1>1, <1>2, <1>4, <2>1, <2>2, NodeAndOutKeep
<1> QED BY <1>3, <1>4

\* In single IN mode the clients that are still to be handled go with the IN
\* instance, and the one that listens then is the only one.
LEMMA TimerKeeps ==
    ASSUME KeptInv, NEW s \in Servers, ConnectOutTimerFired(s)
    PROVE  KeptInv'
<1>1. /\ UNCHANGED <<perPipeEvent, cConnectIns, early, pos, alive, home, writeTo>>
      /\ timer' = [timer EXCEPT ![s] = FALSE] /\ ~ inFresh[s]
      /\ \/ KeepOut /\ UNCHANGED <<inListen, inFresh, node>>
         \/ /\ bOutPipeConnected[s] /\ ReplaceOut(s)
            /\ IF cConnectIns[s] = 1 THEN ReplaceIn(s)
                                     ELSE UNCHANGED <<inListen, inFresh, node>>
  BY DEF ConnectOutTimerFired, Ready, clientVars
<1>2. TypeOK
  BY DEF KeptInv
<1>3. /\ outListen' \in Seq(Servers)
      /\ hPipeOut' \in [Servers -> TwoPipe \cup {NoClient}]
      /\ bOutPipeConnected' \in [Servers -> BOOLEAN]
      /\ outFresh' \in [Servers -> BOOLEAN]
      /\ OutsKept'
  BY <1>1, ConnectedToStarted, ReplaceOutKeeps, OutLeftAlone
<1>4. CASE UNCHANGED <<inListen, inFresh, node>>
  <2>1. TypeOK'
    BY <1>1, <1>2, <1>3, <1>4 DEF TypeOK
  <2>2. \A d \in Clients : InOrder(d)'
    BY <1>1, <1>4 DEF KeptInv, InOrder
  <2>3. InsKept'
    BY <1>1, <1>4 DEF KeptInv, InsKept
  <2>4. EarlyKept'
    BY <1>1, <1>4, EarlyUntouched
  <2> QED BY <1>3, <2>1, <2>2, <2>3, <2>4 DEF KeptInv
<1>5. CASE cConnectIns[s] = 1 /\ ReplaceIn(s)
  <2> DEFINE r == Rest(inListen, s)
             q == Append(r, s)
  <2>1. /\ inListen' = q
        /\ node' = [c \in Clients |-> IF c \in Connecting(s) THEN "dropped" ELSE node[c]]
    BY <1>5 DEF ReplaceIn
  <2>2. /\ r \in Seq(Servers) /\ Count(r, s) = 0
        /\ \A t : t # s => Count(r, t) = Count(inListen, t)
    BY <1>2, RestCounts DEF TypeOK
  <2> HIDE DEF r
  <2>3. q \in Seq(Servers) /\ \A t : Count(q, t) = Count(r, t) + (IF s = t THEN 1 ELSE 0)
    BY <2>2, CountAppend
  <2> HIDE DEF q
  <2>4. TypeOK'
    <3>1. node' \in [Clients -> Nodes] /\ inListen' \in Seq(Servers)
      BY <1>2, <2>1, <2>3 DEF TypeOK, Nodes
    <3>2. timer' \in [Servers -> BOOLEAN] /\ inFresh' \in [Servers -> BOOLEAN]
      BY <1>1, <1>2, <1>5, FreshInTypes DEF TypeOK, ReplaceIn
    <3> QED BY <1>1, <1>2, <1>3, <3>1, <3>2 DEF TypeOK
  <2>5. ASSUME NEW d \in Clients PROVE InOrder(d)'
    BY <1>1, <2>1, <2>5 DEF KeptInv, InOrder, Connecting
  <2>6. ASSUME NEW t \in Servers PROVE InsAdd(q, home, node', cConnectIns, t)
    <3>1. CASE t = s
      <4>1. Waiting(home, node', t) = {}
        BY <2>1, <3>1 DEF Waiting, Connecting
      <4>2. /\ IsFiniteSet(Waiting(home, node', t))
            /\ Cardinality(Waiting(home, node', t)) = 0
        BY <4>1, FS_EmptySet
      <4>3. Count(q, t) = 1
        BY <2>2, <2>3, <3>1
      <4> QED BY <1>5, <3>1, <4>2, <4>3 DEF InsAdd
    <3>2. CASE t # s
      <4>1. Waiting(home, node', t) = Waiting(home, node, t)
        BY <2>1, <3>2 DEF Waiting, Connecting
      <4>2. InsAdd(inListen, home, node, cConnectIns, t)
        BY DEF KeptInv, InsKept
      <4>3. Count(inListen, t) \in Nat
        BY <1>2, InstancesFinite DEF TypeOK
      <4>4. Count(q, t) = Count(inListen, t)
        BY <2>2, <2>3, <3>2, <4>3
      <4> QED BY <4>1, <4>2, <4>4 DEF InsAdd
    <3> QED BY <3>1, <3>2
  <2>7. InsKept'
    BY <1>1, <2>1, <2>6 DEF InsKept
  <2>8. EarlyKept'
    <3>1. \A t \in Servers : t # s => inFresh'[t] = inFresh[t]
      BY <1>5, FreshInTypes DEF ReplaceIn
    <3>2. \A d \in Clients : home[d] # s => node'[d] = node[d]
      BY <2>1 DEF Connecting
    <3> QED BY <1>1, <3>1, <3>2, EarlyStays
  <2> QED BY <1>3, <2>4, <2>5, <2>7, <2>8 DEF KeptInv
<1> QED BY <1>1, <1>4, <1>5

-----------------------------------------------------------------------------
\* The server that ends takes its instances with it, and the clients on them.
LEMMA ServerEndsKeeps ==
    ASSUME KeptInv, NEW s \in Servers, NEW c \in Clients, ServerEnds(s, c)
    PROVE  KeptInv'
<1> DEFINE q == Rest(inListen, s)
           p == Rest(outListen, s)
<1>1. /\ inListen' = q /\ outListen' = p
      /\ cConnectIns' = [cConnectIns EXCEPT ![s] = 0]
      /\ hPipeOut' = [hPipeOut EXCEPT ![s] = NoClient]
      /\ bOutPipeConnected' = [bOutPipeConnected EXCEPT ![s] = FALSE]
      /\ inFresh' = [inFresh EXCEPT ![s] = FALSE]
      /\ early' = [early EXCEPT ![s] = NoClient]
      /\ node' = [d \in Clients |->
                    IF home[d] = s /\ node[d] \in {"connecting", "naming", "open"}
                    THEN "dropped" ELSE node[d]]
      /\ UNCHANGED <<pos, home, writeTo>>
  BY DEF ServerEnds
<1>2. TypeOK
  BY DEF KeptInv
<1>3. /\ q \in Seq(Servers) /\ Count(q, s) = 0
      /\ \A t : t # s => Count(q, t) = Count(inListen, t)
  BY <1>2, RestCounts DEF TypeOK
<1>4. /\ p \in Seq(Servers) /\ Count(p, s) = 0
      /\ \A t : t # s => Count(p, t) = Count(outListen, t)
  BY <1>2, RestCounts DEF TypeOK
<1> HIDE DEF q, p
<1>5. TypeOK'
  <2>1. inListen' \in Seq(Servers) /\ outListen' \in Seq(Servers)
    BY <1>1, <1>3, <1>4
  <2>2. perPipeEvent' \in BOOLEAN /\ alive' \in [Clients -> BOOLEAN]
    BY <1>2 DEF ServerEnds, TypeOK
  <2>3. 0 \in 0..CONNECT_COUNT
    BY CountAssumption
  <2>4. cConnectIns' \in [Servers -> 0..CONNECT_COUNT]
    BY <1>1, <1>2, <2>3 DEF TypeOK
  <2>5. /\ bOutPipeConnected' \in [Servers -> BOOLEAN]
        /\ outFresh' \in [Servers -> BOOLEAN]
        /\ inFresh' \in [Servers -> BOOLEAN]
        /\ timer' \in [Servers -> BOOLEAN]
    BY <1>2 DEF ServerEnds, TypeOK
  <2>6. /\ hPipeOut' \in [Servers -> TwoPipe \cup {NoClient}]
        /\ early' \in [Servers -> Clients \cup {NoClient}]
        /\ node' \in [Clients -> Nodes]
    BY <1>1, <1>2 DEF TypeOK, Nodes
  <2> QED BY <1>1, <1>2, <2>1, <2>2, <2>4, <2>5, <2>6 DEF TypeOK
<1>6. ASSUME NEW d \in Clients PROVE InOrder(d)'
  BY <1>1, <1>6 DEF KeptInv, InOrder
<1>7. ASSUME NEW t \in Servers
      PROVE  /\ InsAdd(q, home, node', cConnectIns', t)
             /\ OutsAdd(p, hPipeOut', bOutPipeConnected', cConnectIns', t)
  <2>1. CASE t = s
    <3>1. Waiting(home, node', t) = {}
      BY <1>1, <2>1 DEF Waiting
    <3>2. IsFiniteSet(Waiting(home, node', t)) /\ Cardinality(Waiting(home, node', t)) = 0
      BY <3>1, FS_EmptySet
    <3>3. cConnectIns'[t] = 0 /\ hPipeOut'[t] = NoClient /\ bOutPipeConnected'[t] = FALSE
      BY <1>1, <1>2, <2>1 DEF TypeOK
    <3> QED BY <1>3, <1>4, <2>1, <3>2, <3>3 DEF InsAdd, OutsAdd
  <2>2. CASE t # s
    <3>1. Waiting(home, node', t) = Waiting(home, node, t)
      BY <1>1, <2>2 DEF Waiting
    <3>2. /\ InsAdd(inListen, home, node, cConnectIns, t)
          /\ OutsAdd(outListen, hPipeOut, bOutPipeConnected, cConnectIns, t)
      BY DEF KeptInv, InsKept, OutsKept
    <3>3. /\ cConnectIns'[t] = cConnectIns[t] /\ hPipeOut'[t] = hPipeOut[t]
          /\ bOutPipeConnected'[t] = bOutPipeConnected[t]
      BY <1>1, <1>2, <2>2 DEF TypeOK
    <3> QED BY <1>3, <1>4, <2>2, <3>1, <3>2, <3>3 DEF InsAdd, OutsAdd
  <2> QED BY <2>1, <2>2
<1>8. InsKept' /\ OutsKept'
  BY <1>1, <1>7 DEF InsKept, OutsKept
<1>9. EarlyKept'
  <2> SUFFICES ASSUME NEW t \in Servers, NEW d \in Clients, early'[t] = d
               PROVE  home[d] = t /\ node'[d] = "connecting" /\ inFresh'[t]
    BY <1>1 DEF EarlyKept
  <2>1. t # s /\ early[t] = d /\ inFresh'[t] = inFresh[t]
    BY <1>1, <1>2, KindsAssumption DEF TypeOK
  <2> QED BY <1>1, <2>1 DEF KeptInv, EarlyKept
<1> QED BY <1>5, <1>6, <1>8, <1>9 DEF KeptInv

LEMMA ListenOutKeeps ==
    ASSUME KeptInv, NEW s \in Servers, ConnectNamedPipeOut(s)
    PROVE  KeptInv'
<1>1. CASE /\ outFresh' = [outFresh EXCEPT ![s] = FALSE]
           /\ UNCHANGED <<listenVars, perPipeEvent, cConnectIns, hPipeOut,
                          bOutPipeConnected, freshVars, timer, clientVars, home, node,
                          writeTo>>
  <2>1. TypeOK'
    BY <1>1 DEF KeptInv, TypeOK, listenVars, freshVars, clientVars
  <2>2. \A d \in Clients : InOrder(d)'
    BY <1>1 DEF KeptInv, InOrder, clientVars
  <2>3. InsKept' /\ OutsKept' /\ EarlyKept'
    BY <1>1 DEF KeptInv, InsKept, OutsKept, EarlyKept, listenVars, freshVars
  <2> QED BY <2>1, <2>2, <2>3 DEF KeptInv
<1>2. ASSUME NEW c \in TwoPipe, hPipeOut[s] = c, OutConnected(s),
             outFresh' = [outFresh EXCEPT ![s] = FALSE],
             UNCHANGED <<listenVars, perPipeEvent, cConnectIns, hPipeOut, freshVars,
                         clientVars, home, node, writeTo>>
      PROVE  KeptInv'
  <2>1. hPipeOut[s] # NoClient
    BY <1>2, KindsAssumption DEF Clients
  <2>2. outFresh' \in [Servers -> BOOLEAN]
    BY <1>2 DEF KeptInv, TypeOK
  <2> QED BY <1>2, <2>1, <2>2, OutSeenKeeps DEF listenVars, freshVars, clientVars
<1> QED BY <1>1, <1>2, ServerEndsKeeps DEF ConnectNamedPipeOut, Clients

LEMMA ListenInKeeps ==
    ASSUME KeptInv, NEW s \in Servers, ConnectNamedPipeIn(s)
    PROVE  KeptInv'
<1>1. CASE /\ early[s] = NoClient
           /\ inFresh' = [inFresh EXCEPT ![s] = FALSE]
           /\ UNCHANGED <<listenVars, perPipeEvent, cConnectIns, outVars, early, timer,
                          clientVars, home, node, writeTo>>
  <2>1. TypeOK'
    BY <1>1 DEF KeptInv, TypeOK, listenVars, outVars, clientVars
  <2>2. \A d \in Clients : InOrder(d)'
    BY <1>1 DEF KeptInv, InOrder, clientVars
  <2>3. InsKept' /\ OutsKept'
    BY <1>1 DEF KeptInv, InsKept, OutsKept, listenVars, outVars
  <2>4. EarlyKept'
    BY <1>1, KindsAssumption DEF KeptInv, EarlyKept, TypeOK
  <2> QED BY <2>1, <2>2, <2>3, <2>4 DEF KeptInv
<1>2. ASSUME NEW c \in Clients, early[s] = c, InConnected(s, c),
             early' = [early EXCEPT ![s] = NoClient]
      PROVE  KeptInv'
  <2>1. home[c] = s /\ node[c] = "connecting" /\ TypeOK
    BY <1>2 DEF KeptInv, EarlyKept
  <2>2. early' \in [Servers -> Clients \cup {NoClient}]
    BY <1>2, <2>1 DEF TypeOK
  <2>3. EarlyKept'
    <3> SUFFICES ASSUME NEW t \in Servers, NEW d \in Clients, early'[t] = d
                 PROVE  home'[d] = t /\ node'[d] = "connecting" /\ inFresh'[t]
      BY DEF EarlyKept
    <3>1. t # s /\ early[t] = d
      BY <1>2, <2>1, KindsAssumption DEF TypeOK
    <3>2. inFresh'[t] = inFresh[t]
      BY <1>2, <3>1, FreshInTypes DEF InConnected
    <3>3. home[d] = t /\ node[d] = "connecting" /\ inFresh[t]
      BY <3>1 DEF KeptInv, EarlyKept
    <3>4. d # c
      BY <2>1, <3>1, <3>3
    <3> QED BY <1>2, <2>1, <3>2, <3>3, <3>4 DEF InConnected, TypeOK
  <2> QED BY <1>2, <2>1, <2>2, <2>3, InHandledKeeps
<1> QED BY <1>1, <1>2, ServerEndsKeeps DEF ConnectNamedPipeIn

LEMMA StepKeeps ==
    ASSUME KeptInv, [Next]_vars
    PROVE  KeptInv'
<1>1. ASSUME NEW c \in Clients, ClientNext(c) PROVE KeptInv'
  BY <1>1, ConnectOutKeeps, ConnectInKeeps, ClientGoesOnKeeps DEF ClientNext
<1>2. ASSUME NEW c \in Clients, ReadClientNameCompleted(c) PROVE KeptInv'
  BY <1>2, NameFailsKeeps, OnePipeKeeps, TwoPipeKeeps DEF ReadClientNameCompleted
<1>3. ASSUME NEW s \in Servers, ServerNext(s) PROVE KeptInv'
  BY <1>3, StartKeeps, FallBackKeeps, OutConnectedKeeps, TimerKeeps, ListenOutKeeps,
     ListenInKeeps
     DEF ServerNext
<1>4. CASE UNCHANGED vars
  BY <1>4 DEF vars, KeptInv, TypeOK, InOrder, InsKept, OutsKept, EarlyKept
<1> QED BY <1>1, <1>2, <1>3, <1>4, InConnectedKeeps DEF Next

THEOREM KeptInvariant == Spec => []KeptInv
<1>1. KeptInv /\ [Next]_vars => KeptInv'
  BY StepKeeps
<1> QED BY <1>1, InitKeeps, PTL DEF Spec

\* The tables of the servers and of their clients hold what they are meant to,
\* whatever servers and clients there are and whatever befalls them.
THEOREM ConnectTypesHold == Spec => []TypeOK
<1>1. KeptInv => TypeOK
  BY DEF KeptInv
<1> QED BY <1>1, KeptInvariant, PTL

\* No path through the server loses or doubles a pipe instance: each that is
\* closed or handed to a session has one successor (srvmain.c:1034-1062,
\* 1112-1148, 1160-1172; srvhshak.c:142-148, 160-171), with any number of
\* servers on the name, any clients, quick or slow, deaths, failed allocations, and
\* servers that end.
THEOREM InstancesAreKept == Spec => []InstancesKept
<1>1. KeptInv => InstancesKept
  <2> SUFFICES ASSUME KeptInv, NEW s \in Servers, Started(s)
               PROVE  /\ Count(outListen, s) = (IF hPipeOut[s] = NoClient THEN 1 ELSE 0)
                      /\ Count(inListen, s) + Cardinality(Connecting(s)) = cConnectIns[s]
    BY DEF InstancesKept, Count
  <2>1. cConnectIns[s] # 0
    BY DEF Started
  <2>2. Connecting(s) = Waiting(home, node, s)
    BY DEF Connecting, Waiting
  <2> QED BY <2>1, <2>2 DEF KeptInv, InsKept, InsAdd, OutsKept, OutsAdd
<1> QED BY <1>1, KeptInvariant, PTL

-----------------------------------------------------------------------------
(***************************************************************************)
(* Clients that connect one after the other find the pipes of one server,  *)
(* however many servers share the name.                                    *)
(***************************************************************************)

\* What follows the recursion of Rests is its value.
LEMMA RestFollows ==
    ASSUME NEW S, NEW q \in Seq(S), NEW s, NEW g,
           g[0] = <<>>,
           \A i \in 1..Len(q) :
             g[i] = IF q[i] = s THEN g[i - 1] ELSE Append(g[i - 1], q[i])
    PROVE  Rest(q, s) = g[Len(q)]
<1> DEFINE r(i) == Rests(q, s)[i]
           Bad == {i \in 0..Len(q) : r(i) # g[i]}
<1>1. Len(q) \in Nat
  OBVIOUS
<1>2. /\ r(0) = <<>>
      /\ \A i \in 1..Len(q) :
           r(i) = IF q[i] = s THEN r(i - 1) ELSE Append(r(i - 1), q[i])
  BY RestsStep
<1>3. Rest(q, s) = r(Len(q))
  BY DEF Rest
<1> HIDE DEF r
<1>4. Bad = {}
  <2> SUFFICES ASSUME Bad # {} PROVE FALSE
    OBVIOUS
  <2>1. Bad \in SUBSET Nat
    BY <1>1
  <2>2. PICK i \in Bad : \A j \in Bad : i <= j
    BY <2>1, LeastExists
  <2>3. i # 0 /\ i \in 0..Len(q) /\ r(i) # g[i]
    BY <1>2, <2>2
  <2>4. i \in 1..Len(q) /\ i - 1 \in 0..Len(q) /\ ~ (i <= i - 1)
    BY <1>1, <2>3
  <2>5. r(i - 1) = g[i - 1]
    BY <2>2, <2>4
  <2>6. r(i) = IF q[i] = s THEN r(i - 1) ELSE Append(r(i - 1), q[i])
    BY <1>2, <2>4
  <2>7. g[i] = IF q[i] = s THEN g[i - 1] ELSE Append(g[i - 1], q[i])
    BY <2>4
  <2> QED BY <2>3, <2>5, <2>6, <2>7, Zenon
<1>5. Len(q) \in 0..Len(q)
  BY <1>1
<1> QED BY <1>3, <1>4, <1>5

LEMMA RestOfOwn ==
    ASSUME NEW S, NEW q \in Seq(S), NEW s, \A i \in 1..Len(q) : q[i] = s
    PROVE  Rest(q, s) = <<>>
<1> DEFINE g == [i \in 0..Len(q) |-> <<>>]
<1>1. Len(q) \in Nat
  OBVIOUS
<1>2. /\ g[0] = <<>> /\ g[Len(q)] = <<>>
      /\ \A i \in 1..Len(q) : g[i] = g[i - 1]
  BY <1>1
<1> HIDE DEF g
<1>3. \A i \in 1..Len(q) :
        g[i] = IF q[i] = s THEN g[i - 1] ELSE Append(g[i - 1], q[i])
  BY <1>2
<1> QED BY <1>2, <1>3, RestFollows

LEMMA RestOfOwnAndAnother ==
    ASSUME NEW S, NEW q \in Seq(S), NEW s, NEW t, s # t, q # <<>>, q[Len(q)] = t,
           \A i \in 1..(Len(q) - 1) : q[i] = s
    PROVE  Rest(q, s) = <<t>>
<1> DEFINE n == Len(q)
           g == [i \in 0..n |-> IF i = n THEN <<t>> ELSE <<>>]
<1>1. n \in Nat /\ n # 0
  OBVIOUS
<1>2. g[0] = <<>> /\ g[n] = <<t>> /\ \A i \in 1..(n - 1) : g[i] = <<>>
  BY <1>1
<1> HIDE DEF g
<1>3. ASSUME NEW i \in 1..n
      PROVE  g[i] = IF q[i] = s THEN g[i - 1] ELSE Append(g[i - 1], q[i])
  <2>1. i - 1 = 0 \/ i - 1 \in 1..(n - 1)
    BY <1>1
  <2>2. g[i - 1] = <<>>
    BY <1>2, <2>1
  <2>3. CASE i = n
    <3>1. q[i] = t /\ Append(<<>>, t) = <<t>>
      BY <2>3
    <3> QED BY <1>2, <2>2, <2>3, <3>1
  <2>4. CASE i # n
    <3>1. i \in 1..(n - 1)
      BY <1>1, <2>4
    <3> QED BY <1>2, <2>2, <3>1
  <2> QED BY <2>3, <2>4
<1> QED BY <1>2, <1>3, RestFollows

\* The queue of a server that is at its head and nowhere else.
LEMMA RestOfHead ==
    ASSUME NEW S, NEW q \in Seq(S), NEW s, q # <<>>, Head(q) = s, Count(Tail(q), s) = 0
    PROVE  Rest(q, s) = Tail(q)
<1> DEFINE w == Tail(q)
           g == [i \in 0..Len(q) |-> IF i = 0 THEN <<>> ELSE SubSeq(w, 1, i - 1)]
<1>1. Len(q) \in Nat /\ Len(q) # 0 /\ q[1] = s
  OBVIOUS
<1>2. w \in Seq(S) /\ Len(w) = Len(q) - 1 /\ \A i \in 1..Len(w) : w[i] = q[i + 1]
  BY <1>1
<1> HIDE DEF w
<1>3. \A i \in 1..Len(w) : w[i] # s
  <2>1. IsFiniteSet(Instances(w, s)) /\ Cardinality(Instances(w, s)) = 0
    BY <1>2, InstancesFinite DEF Count, w
  <2>2. Instances(w, s) = {}
    BY <2>1, FS_EmptySet
  <2> QED BY <1>2, <2>2 DEF Instances
<1>4. g[0] = <<>> /\ \A i \in 1..Len(q) : g[i] = SubSeq(w, 1, i - 1)
  BY <1>1
<1>5. SubSeq(w, 1, 0) = <<>> /\ SubSeq(w, 1, Len(w)) = w
  BY <1>2
<1> HIDE DEF g
<1>6. ASSUME NEW i \in 1..Len(q)
      PROVE  g[i] = IF q[i] = s THEN g[i - 1] ELSE Append(g[i - 1], q[i])
  <2>1. CASE i = 1
    BY <1>1, <1>4, <1>5, <2>1
  <2>2. CASE i # 1
    <3>1. i - 1 \in 1..Len(w) /\ i - 1 \in 1..Len(q) /\ i = (i - 1) + 1
      BY <1>1, <1>2, <2>2
    <3>2. q[i] = w[i - 1] /\ q[i] # s
      BY <1>2, <1>3, <3>1
    <3>3. g[i] = SubSeq(w, 1, i - 1) /\ g[i - 1] = SubSeq(w, 1, (i - 1) - 1)
      BY <1>4, <3>1
    <3>4. SubSeq(w, 1, i - 1) = Append(SubSeq(w, 1, (i - 1) - 1), w[i - 1])
      <4> SUFFICES ASSUME NEW k \in 1..Len(w)
                   PROVE  SubSeq(w, 1, k) = Append(SubSeq(w, 1, k - 1), w[k])
        BY <3>1
      <4> DEFINE a == SubSeq(w, 1, k)
                 b == SubSeq(w, 1, k - 1)
                 e == Append(b, w[k])
      <4>1. Len(w) \in Nat /\ k \in Nat /\ k # 0 /\ k <= Len(w) /\ w[k] \in S
        BY <1>2
      <4>2. a \in Seq(S) /\ Len(a) = k /\ \A j \in 1..k : a[j] = w[j]
        BY <1>2, <4>1
      <4>3. b \in Seq(S) /\ Len(b) = k - 1 /\ \A j \in 1..(k - 1) : b[j] = w[j]
        BY <1>2, <4>1
      <4> HIDE DEF a, b
      <4>4. e \in Seq(S) /\ Len(e) = k /\ \A j \in 1..k : e[j] = w[j]
        BY <4>1, <4>3
      <4> HIDE DEF e
      <4>5. a = e
        BY <4>2, <4>4
      <4> QED BY <4>5 DEF a, b, e
    <3> QED BY <3>2, <3>3, <3>4
  <2> QED BY <2>1, <2>2
<1>7. Rest(q, s) = g[Len(q)]
  BY <1>4, <1>6, RestFollows
<1>8. g[Len(q)] = w
  BY <1>1, <1>2, <1>4, <1>5
<1> QED BY <1>7, <1>8 DEF w

-----------------------------------------------------------------------------
(***************************************************************************)
(* The inductive invariant: the two queues, for each stage of a turn.      *)
(***************************************************************************)

\* What the theorems assume of the environment: nobody begins while another is
\* connecting, clients neither die nor are slow, nor so quick as to connect before
\* ConnectNamedPipe, and there is memory.
InTurn == May = {}

Busy(d) == pos[d] = "out" \/ node[d] \in {"connecting", "naming"}

Nobody ==
    /\ \A d \in Clients : ~ Busy(d)
    /\ \A t \in Servers : hPipeOut[t] = NoClient

\* One server at most has started, and it has not heard of another.
Lone ==
    /\ perPipeEvent = FALSE
    /\ \A s \in Servers : cConnectIns[s] \in {0, CONNECT_COUNT}
    /\ \A s, t \in Servers : cConnectIns[s] # 0 /\ cConnectIns[t] # 0 => s = t

\* Servers share the name, and each listens on one IN pipe.
Shared ==
    /\ perPipeEvent = TRUE
    /\ \A s \in Servers : cConnectIns[s] \in {0, 1}
    /\ \E s \in Servers : cConnectIns[s] # 0

\* The second server has started, and the first has still to give up all its
\* IN instances but one.
Changing ==
    \E s, t \in Servers :
        /\ s # t /\ perPipeEvent = TRUE /\ cConnectIns[s] # 0
        /\ \A u \in Servers : u # s => cConnectIns[u] \in {0, 1}
        /\ cConnectIns[s] > 1
        /\ outListen = <<s, t>>
        /\ inListen # <<>> /\ inListen[Len(inListen)] = t
        /\ \A i \in 1..(Len(inListen) - 1) : inListen[i] = s

Between == Nobody /\ (Lone \/ (Shared /\ inListen = outListen) \/ Changing)

\* A client is on its way to a session with s, and it is the only one.
Turn(c, s) ==
    /\ cConnectIns[s] # 0
    /\ \A d \in Clients : d # c => ~ Busy(d)
    /\ \A t \in Servers : t # s => hPipeOut[t] = NoClient
    /\ hPipeOut[s] = (IF c \in TwoPipe THEN c ELSE NoClient)
    /\ \/ c \in TwoPipe /\ pos[c] = "out"
       \/ home[c] = s /\ pos[c] \in {"in", "sent"} /\ node[c] = "connecting"
       \/ /\ home[c] = s /\ pos[c] \in {"in", "sent"} /\ node[c] = "naming"
          /\ c \in TwoPipe => bOutPipeConnected[s]

\* The two queues differ by the instances of s that its client has taken, and
\* by those that have already been replaced.
Queues(c, s) ==
    \/ pos[c] = "out" /\ inListen = <<s>> \o outListen
    \/ node[c] = "connecting" /\ c \in TwoPipe /\ inListen = outListen
    \/ node[c] = "connecting" /\ c \notin TwoPipe /\ outListen = <<s>> \o inListen
    \/ node[c] = "naming" /\ c \in TwoPipe /\ inListen = Append(outListen, s)
    \/ /\ node[c] = "naming" /\ c \notin TwoPipe
       /\ outListen # <<>> /\ Head(outListen) = s
       /\ inListen = Append(Tail(outListen), s)

During(c, s) == Turn(c, s) /\ (Lone \/ (Shared /\ Queues(c, s)))

TurnInv ==
    /\ \A c \in Clients : alive[c] /\ node[c] \notin {"refused", "dropped"}
    /\ Between \/ \E c \in Clients, s \in Servers : During(c, s)

-----------------------------------------------------------------------------
LEMMA InitTurn ==
    ASSUME Init
    PROVE  TurnInv
<1>1. \A c \in Clients : alive[c] /\ node[c] \notin {"refused", "dropped"}
  BY DEF Init
<1>2. Nobody
  BY DEF Init, Nobody, Busy
<1>3. Lone
  BY DEF Init, Lone
<1> QED BY <1>1, <1>2, <1>3 DEF TurnInv, Between

\* A server that is in a queue has started, and its OUT instance listens there
\* only while no client is connected to it.
LEMMA ListedStarted ==
    ASSUME KeptInv
    PROVE  /\ \A i \in 1..Len(inListen) : cConnectIns[inListen[i]] # 0
           /\ \A i \in 1..Len(outListen) : cConnectIns[outListen[i]] # 0
<1>1. inListen \in Seq(Servers) /\ outListen \in Seq(Servers)
  BY DEF KeptInv, TypeOK
<1>2. ASSUME NEW q \in Seq(Servers), NEW i \in 1..Len(q)
      PROVE  q[i] \in Servers /\ Count(q, q[i]) \in Nat /\ Count(q, q[i]) # 0
  <2>1. IsFiniteSet(Instances(q, q[i])) /\ Count(q, q[i]) \in Nat
    BY InstancesFinite
  <2>2. i \in Instances(q, q[i])
    BY DEF Instances
  <2>3. Count(q, q[i]) # 0
    BY <2>1, <2>2, FS_EmptySet DEF Count
  <2> QED BY <2>1, <2>3
<1>3. ASSUME NEW i \in 1..Len(inListen) PROVE cConnectIns[inListen[i]] # 0
  <2> DEFINE s == inListen[i]
             n == Count(inListen, s)
  <2>1. s \in Servers /\ n \in Nat /\ n # 0
    BY <1>1, <1>2
  <2> HIDE DEF s, n
  <2>2. InsAdd(inListen, home, node, cConnectIns, s)
    BY <2>1 DEF KeptInv, InsKept
  <2>3. Cardinality(Waiting(home, node, s)) \in Nat
    BY <2>2, FS_CardinalityType DEF InsAdd
  <2>4. n + Cardinality(Waiting(home, node, s)) = cConnectIns[s]
    BY <2>2 DEF InsAdd, n
  <2>5. cConnectIns[s] # 0
    BY <2>1, <2>3, <2>4
  <2> QED BY <2>5 DEF s
<1>4. ASSUME NEW i \in 1..Len(outListen) PROVE cConnectIns[outListen[i]] # 0
  BY <1>1, <1>2 DEF KeptInv, OutsKept, OutsAdd
<1> QED BY <1>3, <1>4

LEMMA QuietIsBetween ==
    ASSUME KeptInv, TurnInv, Quiet
    PROVE  Nobody /\ (Lone \/ (Shared /\ inListen = outListen))
<1>1. ASSUME NEW c \in Clients, NEW s \in Servers, During(c, s) PROVE FALSE
  BY <1>1 DEF TurnInv, Quiet, During, Turn
<1>2. ~ Changing
  BY DEF Changing, Quiet, FallBackDue
<1> QED BY <1>1, <1>2 DEF TurnInv, Between

\* The client that is busy is the one whose turn it is, and the server that
\* has a client on OUT, or that the client is connected to, is its server.
LEMMA BusyHasTurn ==
    ASSUME KeptInv, TurnInv
    PROVE  /\ \A c \in Clients : Busy(c) => \E s \in Servers : During(c, s)
           /\ \A s \in Servers : hPipeOut[s] # NoClient =>
                \E c \in TwoPipe : During(c, s) /\ hPipeOut[s] = c
<1>1. ASSUME NEW c \in Clients, Busy(c) PROVE \E s \in Servers : During(c, s)
  BY <1>1 DEF TurnInv, Between, Nobody, During, Turn
<1>2. ASSUME NEW s \in Servers, hPipeOut[s] # NoClient
      PROVE  \E c \in TwoPipe : During(c, s) /\ hPipeOut[s] = c
  BY <1>2 DEF TurnInv, Between, Nobody, During, Turn
<1> QED BY <1>1, <1>2

-----------------------------------------------------------------------------
LEMMA ConnectOutTurn ==
    ASSUME InTurn, KeptInv, TurnInv, NEW c \in Clients, ConnectOut(c)
    PROVE  TurnInv'
<1>1. c \in TwoPipe /\ pos[c] = "idle" /\ Quiet /\ outListen # <<>> /\ TypeOK
  BY DEF ConnectOut, MayBegin, InTurn, KeptInv
<1>0. PICK s, q : s = Head(outListen) /\ q = Tail(outListen)
  OBVIOUS
<1>2. outListen \in Seq(Servers)
  BY <1>1 DEF TypeOK
<1>3. s \in Servers /\ q \in Seq(Servers) /\ outListen = <<s>> \o q /\ cConnectIns[s] # 0
  <2>1. s \in Servers /\ q \in Seq(Servers) /\ outListen = <<s>> \o q
        /\ 1 \in 1..Len(outListen) /\ s = outListen[1]
    BY <1>0, <1>1, <1>2
  <2>2. cConnectIns[outListen[1]] # 0
    BY <2>1, ListedStarted
  <2> QED BY <2>1, <2>2
<1>4. /\ outListen' = q
      /\ hPipeOut' = [hPipeOut EXCEPT ![s] = c]
      /\ pos' = [pos EXCEPT ![c] = "out"]
      /\ UNCHANGED <<inListen, perPipeEvent, cConnectIns, alive, node>>
  BY <1>0 DEF ConnectOut
<1>5. Nobody /\ (Lone \/ (Shared /\ inListen = outListen))
  BY <1>1, QuietIsBetween
<1>6. Turn(c, s)'
  BY <1>1, <1>3, <1>4, <1>5 DEF Turn, Nobody, Busy, TypeOK
<1>7. Lone' \/ (Shared' /\ Queues(c, s)')
  <2>1. CASE Lone
    BY <1>4, <2>1 DEF Lone
  <2>2. CASE Shared /\ inListen = outListen
    <3>1. Shared'
      BY <1>4, <2>2 DEF Shared
    <3>2. pos'[c] = "out" /\ inListen' = <<s>> \o outListen'
      BY <1>1, <1>3, <1>4, <2>2 DEF TypeOK
    <3> QED BY <3>1, <3>2 DEF Queues
  <2> QED BY <1>5, <2>1, <2>2
<1>8. During(c, s)'
  BY <1>6, <1>7 DEF During
<1>9. \A d \in Clients : alive'[d] /\ node'[d] \notin {"refused", "dropped"}
  BY <1>4 DEF TurnInv
<1> QED BY <1>3, <1>8, <1>9 DEF TurnInv

\* The IN pipe that is oldest is that of the server whose OUT pipe the client
\* has.
LEMMA ConnectInTurn ==
    ASSUME InTurn, KeptInv, TurnInv, NEW c \in Clients, ConnectIn(c)
    PROVE  TurnInv'
<1>1. /\ inListen # <<>> /\ TypeOK /\ inListen \in Seq(Servers) /\ node[c] = "none"
      /\ IF c \in TwoPipe THEN pos[c] = "out" ELSE pos[c] = "idle" /\ Quiet
  BY DEF ConnectIn, MayBegin, InTurn, KeptInv, TypeOK, InOrder
<1>0. PICK s, q : s = Head(inListen) /\ q = Tail(inListen)
  OBVIOUS
<1>2. s \in Servers /\ q \in Seq(Servers) /\ inListen = <<s>> \o q /\ cConnectIns[s] # 0
  <2>1. s \in Servers /\ q \in Seq(Servers) /\ inListen = <<s>> \o q
        /\ 1 \in 1..Len(inListen) /\ s = inListen[1]
    BY <1>0, <1>1
  <2>2. cConnectIns[inListen[1]] # 0
    BY <2>1, ListedStarted
  <2> QED BY <2>1, <2>2
<1>3. /\ inListen' = q
      /\ home' = [home EXCEPT ![c] = s]
      /\ node' = [node EXCEPT ![c] = "connecting"]
      /\ pos' = [pos EXCEPT ![c] = "in"]
      /\ UNCHANGED <<outListen, perPipeEvent, cConnectIns, hPipeOut, alive>>
  BY <1>0 DEF ConnectIn, outVars
<1>4. /\ home'[c] = s /\ node'[c] = "connecting" /\ pos'[c] = "in"
      /\ \A d \in Clients : d # c => pos'[d] = pos[d] /\ node'[d] = node[d]
  BY <1>1, <1>3 DEF TypeOK
<1>5. \A d \in Clients : alive'[d] /\ node'[d] \notin {"refused", "dropped"}
  BY <1>3, <1>4 DEF TurnInv
<1>6. CASE c \in TwoPipe
  <2>1. PICK t \in Servers : During(c, t)
    BY <1>1, <1>6, BusyHasTurn DEF Busy
  <2>2. t = s /\ (Shared => q = outListen)
    <3>1. CASE Lone
      BY <1>2, <2>1, <3>1 DEF Lone, Shared, During, Turn
    <3>2. CASE Shared /\ Queues(c, t)
      <4>1. inListen = <<t>> \o outListen /\ outListen \in Seq(Servers)
        BY <1>1, <3>2 DEF Queues, TypeOK
      <4>2. Head(inListen) = t /\ Tail(inListen) = outListen
        BY <4>1
      <4> QED BY <1>0, <4>2
    <3> QED BY <2>1, <3>1, <3>2 DEF During
  <2>3. Turn(c, s)'
    BY <1>2, <1>3, <1>4, <2>1, <2>2 DEF During, Turn, Busy
  <2>4. Lone' \/ (Shared' /\ Queues(c, s)')
    BY <1>3, <1>4, <1>6, <2>1, <2>2 DEF During, Lone, Shared, Queues
  <2> QED BY <1>2, <1>5, <2>3, <2>4 DEF TurnInv, During
<1>7. CASE c \notin TwoPipe
  <2>1. Nobody /\ (Lone \/ (Shared /\ inListen = outListen))
    BY <1>1, <1>7, QuietIsBetween
  <2>2. Turn(c, s)'
    BY <1>2, <1>3, <1>4, <1>7, <2>1 DEF Nobody, Turn, Busy
  <2>3. Lone' \/ (Shared' /\ Queues(c, s)')
    BY <1>2, <1>3, <1>4, <1>7, <2>1 DEF Lone, Shared, Queues
  <2> QED BY <1>2, <1>5, <2>2, <2>3 DEF TurnInv, During
<1> QED BY <1>6, <1>7

LEMMA SendMyInfoTurn ==
    ASSUME InTurn, KeptInv, TurnInv, NEW c \in Clients, SendMyInfo(c)
    PROVE  TurnInv'
<1>1. /\ pos[c] = "in" /\ node[c] \in {"connecting", "naming"} /\ TypeOK
      /\ pos' = [pos EXCEPT ![c] = "sent"]
      /\ UNCHANGED <<inListen, outListen, perPipeEvent, cConnectIns, hPipeOut,
                     bOutPipeConnected, alive, home, node>>
  BY DEF SendMyInfo, listenVars, outVars, KeptInv
<1>2. PICK s \in Servers : During(c, s)
  BY <1>1, BusyHasTurn DEF Busy
<1>3. pos'[c] = "sent" /\ \A d \in Clients : d # c => pos'[d] = pos[d]
  BY <1>1 DEF TypeOK
<1>4. Turn(c, s)'
  BY <1>1, <1>2, <1>3 DEF During, Turn, Busy
<1>5. Lone' \/ (Shared' /\ Queues(c, s)')
  BY <1>1, <1>2 DEF During, Lone, Shared, Queues
<1>6. \A d \in Clients : alive'[d] /\ node'[d] \notin {"refused", "dropped"}
  BY <1>1 DEF TurnInv
<1> QED BY <1>4, <1>5, <1>6 DEF TurnInv, During

LEMMA TwoInTurn ==
    ASSUME NEW S, NEW s \in S, NEW t \in S
    PROVE  Append(<<s>>, t) = <<s, t>> /\ (<<>> \o <<s>>) \o <<t>> = <<s, t>>
<1> DEFINE a == Append(<<s>>, t)
           b == <<>> \o <<s>>
           d == b \o <<t>>
           e == <<s, t>>
<1>1. a \in Seq(S) /\ Len(a) = 2 /\ a[1] = s /\ a[2] = t
  OBVIOUS
<1>2. b = <<s>>
  OBVIOUS
<1>3. d \in Seq(S) /\ Len(d) = 2 /\ d[1] = s /\ d[2] = t
  <2> HIDE DEF b
  <2> QED BY <1>2
<1>4. e \in Seq(S) /\ Len(e) = 2 /\ e[1] = s /\ e[2] = t
  OBVIOUS
<1> HIDE DEF a, d, e
<1>5. a = e /\ d = e
  BY <1>1, <1>3, <1>4
<1> QED BY <1>5 DEF a, b, d, e

\* A queue of one server that is in it once.
LEMMA OnceAlone ==
    ASSUME NEW S, NEW q \in Seq(S), NEW s, Count(q, s) = 1, \A i \in 1..Len(q) : q[i] = s
    PROVE  q = <<s>>
<1>1. Len(q) \in Nat /\ DOMAIN q = 1..Len(q)
  OBVIOUS
<1>2. Instances(q, s) = 1..Len(q)
  BY <1>1 DEF Instances
<1>3. Cardinality(1..Len(q)) = Len(q)
  BY <1>1, FS_Interval
<1>4. Len(q) = 1
  BY <1>2, <1>3 DEF Count
<1> QED BY <1>4

\* The first server has the name to itself; the second finds its event.
LEMMA StartTurn ==
    ASSUME InTurn, KeptInv, TurnInv, NEW s \in Servers, Start(s)
    PROVE  TurnInv'
<1>1. /\ TypeOK /\ Quiet /\ cConnectIns[s] = 0
      /\ inListen \in Seq(Servers) /\ outListen \in Seq(Servers)
  BY DEF Start, MayBegin, InTurn, KeptInv, TypeOK
<1>2. Nobody /\ (Lone \/ (Shared /\ inListen = outListen))
  BY <1>1, QuietIsBetween
<1>3. UNCHANGED <<hPipeOut, bOutPipeConnected, pos, alive, home, node>>
  BY DEF Start, outVars, clientVars
<1>4. Nobody'
  BY <1>2, <1>3 DEF Nobody, Busy
<1>5. \A d \in Clients : alive'[d] /\ node'[d] \notin {"refused", "dropped"}
  BY <1>3 DEF TurnInv
<1>6. AnotherStarted <=> \E t \in Servers : cConnectIns[t] # 0
  BY <1>1, CountAssumption DEF AnotherStarted, Started, TypeOK
<1>7. CASE ~ AnotherStarted
  <2>1. /\ perPipeEvent' = (perPipeEvent \/ FALSE)
        /\ cConnectIns' = [cConnectIns EXCEPT ![s] = CONNECT_COUNT]
    BY <1>7, Zenon DEF Start, InsAtStart
  <2>2. \A t \in Servers : cConnectIns[t] = 0
    BY <1>6, <1>7
  <2>3. perPipeEvent = FALSE
    BY <1>2, <2>2 DEF Lone, Shared
  <2>4. Lone'
    BY <1>1, <2>1, <2>2, <2>3 DEF Lone, TypeOK
  <2> QED BY <1>4, <1>5, <2>4 DEF TurnInv, Between
<1>8. CASE AnotherStarted
  <2> DEFINE new == [i \in 1..1 |-> s]
  <2>1. /\ perPipeEvent' = TRUE
        /\ cConnectIns' = [cConnectIns EXCEPT ![s] = 1]
        /\ inListen' = inListen \o new
        /\ outListen' = Append(outListen, s)
    BY <1>8, <1>1 DEF Start, InsAtStart, TypeOK
  <2>2. new \in Seq(Servers) /\ Len(new) = 1 /\ new[1] = s
    OBVIOUS
  <2>3. new = <<s>>
    BY <2>2
  <2> HIDE DEF new
  <2>4. /\ inListen' = Append(inListen, s) /\ inListen' # <<>>
        /\ Len(inListen') = Len(inListen) + 1 /\ inListen'[Len(inListen')] = s
        /\ \A i \in 1..Len(inListen) : inListen'[i] = inListen[i]
    <3>1. inListen \o <<s>> = Append(inListen, s)
      BY <1>1
    <3>2. inListen' = Append(inListen, s)
      BY <2>1, <2>3, <3>1
    <3> QED BY <1>1, <3>2
  <2>5. \A t \in Servers : cConnectIns'[t] = IF t = s THEN 1 ELSE cConnectIns[t]
    BY <1>1, <2>1 DEF TypeOK
  <2>6. PICK u \in Servers : cConnectIns[u] # 0
    BY <1>6, <1>8
  <2>7. CASE Lone
    <3>1. /\ \A t \in Servers : t # u => cConnectIns[t] = 0
          /\ cConnectIns[u] = CONNECT_COUNT /\ u # s
      BY <1>1, <2>6, <2>7 DEF Lone
    <3>2. /\ \A i \in 1..Len(inListen) : inListen[i] = u
          /\ \A i \in 1..Len(outListen) : outListen[i] = u
      BY <1>1, <3>1, ListedStarted
    <3>3. Count(outListen, u) = 1
      BY <1>2, <2>6 DEF KeptInv, OutsKept, OutsAdd, Nobody
    <3>4. outListen = <<u>>
      BY <1>1, <3>2, <3>3, OnceAlone
    <3>5. outListen' = <<u, s>>
      <4>1. Append(<<u>>, s) = <<u, s>>
        BY TwoInTurn
      <4> QED BY <2>1, <3>4, <4>1
    <3>6. \A i \in 1..(Len(inListen') - 1) : inListen'[i] = u
      BY <1>1, <2>4, <3>2
    <3>7. cConnectIns'[u] # 0 /\ cConnectIns'[u] > 1
      BY <2>5, <3>1, CountAssumption
    <3>8. \A t \in Servers : t # u => cConnectIns'[t] \in {0, 1}
      BY <2>5, <3>1
    <3>9. Changing'
      BY <2>1, <2>4, <3>1, <3>5, <3>6, <3>7, <3>8 DEF Changing
    <3> QED BY <1>4, <1>5, <3>9 DEF TurnInv, Between
  <2>8. CASE Shared /\ inListen = outListen
    <3>1. inListen' = outListen'
      BY <2>1, <2>4, <2>8
    <3>2. Shared'
      BY <2>1, <2>5, <2>8 DEF Shared
    <3> QED BY <1>4, <1>5, <3>1, <3>2 DEF TurnInv, Between
  <2> QED BY <1>2, <2>7, <2>8
<1> QED BY <1>7, <1>8

\* The first server is left with one IN instance, older than the second's.
LEMMA FallBackTurn ==
    ASSUME InTurn, KeptInv, TurnInv, NEW s \in Servers, FallBack(s)
    PROVE  TurnInv'
<1>1. /\ perPipeEvent = TRUE /\ cConnectIns[s] > 1 /\ TypeOK /\ inListen \in Seq(Servers)
      /\ perPipeEvent' = perPipeEvent /\ cConnectIns' = [cConnectIns EXCEPT ![s] = 1]
      /\ UNCHANGED <<outListen, hPipeOut, pos, alive>>
  BY DEF FallBack, FallBackDue, outVars, clientVars, KeptInv, TypeOK
<1>2. cConnectIns[s] \notin {0, 1}
  BY <1>1
<1>3. Nobody /\ Changing
  BY <1>1, <1>2 DEF TurnInv, Between, During, Lone, Shared
<1>4. PICK t \in Servers :
        /\ s # t
        /\ \A u \in Servers : u # s => cConnectIns[u] \in {0, 1}
        /\ outListen = <<s, t>>
        /\ inListen # <<>> /\ inListen[Len(inListen)] = t
        /\ \A i \in 1..(Len(inListen) - 1) : inListen[i] = s
  BY <1>2, <1>3 DEF Changing
<1>5. Connecting(s) = {}
  BY <1>3 DEF Nobody, Busy, Connecting
<1>6. PICK i \in DOMAIN inListen :
        /\ inListen[i] = s
        /\ inListen' = Rest(SubSeq(inListen, 1, i - 1), s) \o <<s>>
                         \o Rest(SubSeq(inListen, i + 1, Len(inListen)), s)
        /\ node' = [c \in Clients |-> IF c \in Connecting(s) THEN "dropped" ELSE node[c]]
  BY <1>5 DEF FallBack
<1>7. node' = node
  BY <1>1, <1>5, <1>6 DEF TypeOK
<1> DEFINE n == Len(inListen)
           a == SubSeq(inListen, 1, i - 1)
           z == SubSeq(inListen, i + 1, n)
<1>8. n \in Nat /\ i \in 1..n /\ i # n
  BY <1>1, <1>4, <1>6
<1>9. Rest(a, s) = <<>>
  <2>1. a \in Seq(Servers) /\ Len(a) = i - 1 /\ \A j \in 1..(i - 1) : a[j] = inListen[j]
    BY <1>1, <1>8, SubSeqProperties
  <2>2. \A j \in 1..Len(a) : a[j] = s
    BY <1>4, <1>8, <2>1
  <2> HIDE DEF a
  <2> QED BY <2>1, <2>2, RestOfOwn
<1>10. Rest(z, s) = <<t>>
  <2>1. i + 1 \in 1..(n + 1) /\ n \in (i + 1) - 1..n /\ n - (i + 1) + 1 = n - i /\ i + 1 <= n
    BY <1>8
  <2>2. /\ z \in Seq(Servers) /\ Len(z) = n - i
        /\ \A j \in 1..(n - i) : z[j] = inListen[i + 1 + j - 1]
    BY <1>1, <2>1, SubSeqProperties
  <2> HIDE DEF z
  <2>3. z # <<>> /\ n - i \in 1..(n - i) /\ i + 1 + (n - i) - 1 = n
    <3>1. Len(z) # 0
      BY <1>8, <2>2
    <3>2. z # <<>>
      BY <3>1
    <3> HIDE DEF n
    <3>3. n - i \in 1..(n - i) /\ i + 1 + (n - i) - 1 = n
      BY <1>8
    <3> QED BY <3>2, <3>3
  <2>4. z[Len(z)] = t
    BY <1>4, <2>2, <2>3
  <2>5. ASSUME NEW j \in 1..(Len(z) - 1) PROVE z[j] = s
    <3>1. j \in 1..(n - i) /\ i + 1 + j - 1 \in 1..(n - 1)
      BY <1>8, <2>2
    <3> QED BY <1>4, <2>2, <3>1
  <2> QED BY <1>4, <2>2, <2>3, <2>4, <2>5, RestOfOwnAndAnother
<1>11. inListen' = (<<>> \o <<s>>) \o <<t>>
  BY <1>6, <1>9, <1>10
<1>12. inListen' = outListen'
  <2>1. (<<>> \o <<s>>) \o <<t>> = <<s, t>>
    BY TwoInTurn
  <2> QED BY <1>1, <1>4, <1>11, <2>1
<1>13. \A u \in Servers : cConnectIns'[u] = IF u = s THEN 1 ELSE cConnectIns[u]
  BY <1>1 DEF TypeOK
<1>14. Shared'
  <2>1. cConnectIns'[s] # 0
    BY <1>13
  <2> QED BY <1>1, <1>4, <1>13, <2>1 DEF Shared
<1>15. Nobody'
  BY <1>1, <1>3, <1>7 DEF Nobody, Busy
<1>16. \A d \in Clients : alive'[d] /\ node'[d] \notin {"refused", "dropped"}
  BY <1>1, <1>7 DEF TurnInv
<1> QED BY <1>12, <1>14, <1>15, <1>16 DEF TurnInv, Between

LEMMA OutConnectedTurn ==
    ASSUME InTurn, KeptInv, TurnInv, NEW s \in Servers, HandleOutPipeConnected(s)
    PROVE  TurnInv'
<1>1. /\ hPipeOut[s] # NoClient /\ TypeOK
      /\ bOutPipeConnected' = [bOutPipeConnected EXCEPT ![s] = TRUE]
      /\ UNCHANGED <<inListen, outListen, perPipeEvent, cConnectIns, hPipeOut, pos,
                     alive, home, node>>
  BY DEF HandleOutPipeConnected, OutDue, listenVars, clientVars, KeptInv, OutConnected
<1>2. PICK c \in TwoPipe : During(c, s)
  BY <1>1, BusyHasTurn
<1>3. bOutPipeConnected'[s] /\ c \in Clients
  BY <1>1 DEF TypeOK, Clients
<1>4. Turn(c, s)'
  BY <1>1, <1>2, <1>3 DEF During, Turn, Busy
<1>5. Lone' \/ (Shared' /\ Queues(c, s)')
  BY <1>1, <1>2 DEF During, Lone, Shared, Queues
<1>6. \A d \in Clients : alive'[d] /\ node'[d] \notin {"refused", "dropped"}
  BY <1>1 DEF TurnInv
<1> QED BY <1>3, <1>4, <1>5, <1>6 DEF TurnInv, During

\* The OUT event has the lower index: the server has seen the client on OUT.
LEMMA InConnectedTurn ==
    ASSUME InTurn, KeptInv, TurnInv, NEW c \in Clients, HandleInPipeConnected(c)
    PROVE  TurnInv'
<1>1. PICK s \in Servers :
        /\ home[c] = s /\ node[c] = "connecting" /\ ~ OutDue(s)
        /\ inListen' = Append(inListen, s)
        /\ node' = [node EXCEPT ![c] = "naming"]
        /\ UNCHANGED <<outListen, perPipeEvent, cConnectIns, hPipeOut, bOutPipeConnected,
                       pos, alive, home>>
  BY DEF HandleInPipeConnected, InsLookedAt, InTurn, KeepOut, clientVars, InConnected, outVars
<1>2. PICK t \in Servers : During(c, t)
  BY <1>1, BusyHasTurn DEF Busy
<1>3. TypeOK /\ pos[c] # "out" /\ outListen \in Seq(Servers) /\ inListen \in Seq(Servers)
  BY <1>1 DEF KeptInv, InOrder, TypeOK
<1>4. t = s
  BY <1>1, <1>2, <1>3 DEF During, Turn
<1>5. node'[c] = "naming" /\ \A d \in Clients : d # c => node'[d] = node[d]
  BY <1>1, <1>3 DEF TypeOK
<1>6. c \in TwoPipe => bOutPipeConnected[s]
  BY <1>1, <1>2, <1>4, KindsAssumption DEF During, Turn, OutDue, Clients
<1>7. Turn(c, s)'
  BY <1>1, <1>2, <1>3, <1>4, <1>5, <1>6 DEF During, Turn, Busy
<1>8. CASE Lone
  <2>1. Lone'
    BY <1>1, <1>8 DEF Lone
  <2>2. \A d \in Clients : alive'[d] /\ node'[d] \notin {"refused", "dropped"}
    BY <1>1, <1>5 DEF TurnInv
  <2> QED BY <1>7, <2>1, <2>2 DEF TurnInv, During
<1>9. CASE Shared /\ Queues(c, s)
  <2>1. Shared'
    BY <1>1, <1>9 DEF Shared
  <2>2. Queues(c, s)'
    <3>1. CASE c \in TwoPipe
      BY <1>1, <1>3, <1>5, <1>9, <3>1 DEF Queues
    <3>2. CASE c \notin TwoPipe
      <4>1. outListen = <<s>> \o inListen
        BY <1>1, <1>3, <1>9, <3>2 DEF Queues
      <4>2. outListen # <<>> /\ Head(outListen) = s /\ Tail(outListen) = inListen
        BY <1>3, <4>1
      <4> QED BY <1>1, <1>5, <3>2, <4>2 DEF Queues
    <3> QED BY <3>1, <3>2
  <2>3. \A d \in Clients : alive'[d] /\ node'[d] \notin {"refused", "dropped"}
    BY <1>1, <1>5 DEF TurnInv
  <2> QED BY <1>7, <2>1, <2>2, <2>3 DEF TurnInv, During
<1> QED BY <1>2, <1>4, <1>8, <1>9 DEF During

\* What a session that has begun leaves behind: nobody is connecting, and in
\* both queues its server is the youngest.
LEMMA SessionBegun ==
    ASSUME TurnInv, TypeOK, NEW c \in Clients, NEW s \in Servers, Turn(c, s),
           node' = [node EXCEPT ![c] = "open"],
           hPipeOut' = [hPipeOut EXCEPT ![s] = NoClient],
           pos[c] # "out",
           UNCHANGED <<inListen, perPipeEvent, cConnectIns, pos, alive>>,
           Lone \/ (Shared /\ inListen = outListen')
    PROVE  TurnInv'
<1>1. node'[c] = "open" /\ \A d \in Clients : d # c => node'[d] = node[d]
  BY DEF TypeOK
<1>2. Nobody'
  BY <1>1 DEF Nobody, Busy, Turn, TypeOK
<1>3. Lone' \/ (Shared' /\ inListen' = outListen')
  BY DEF Lone, Shared
<1>4. \A d \in Clients : alive'[d] /\ node'[d] \notin {"refused", "dropped"}
  BY <1>1 DEF TurnInv
<1> QED BY <1>2, <1>3, <1>4 DEF TurnInv, Between

LEMMA OnePipeTurn ==
    ASSUME InTurn, KeptInv, TurnInv, NEW c \in Clients, NameOfOnePipe(c)
    PROVE  TurnInv'
<1>1. PICK s \in Servers :
        /\ c \in OnePipe /\ home[c] = s /\ node[c] = "naming" /\ pos[c] = "sent"
        /\ node' = [node EXCEPT ![c] = "open"]
        /\ OutAfterOnePipe(s)
        /\ UNCHANGED <<inListen, perPipeEvent, cConnectIns, pos, alive>>
  BY DEF NameOfOnePipe, clientVars
<1>2. TypeOK /\ c \notin TwoPipe /\ pos[c] # "out" /\ outListen \in Seq(Servers)
  BY <1>1, KindsAssumption DEF KeptInv, TypeOK
<1>3. During(c, s) /\ hPipeOut[s] = NoClient
  <2>1. PICK t \in Servers : During(c, t)
    BY <1>1, BusyHasTurn DEF Busy
  <2>2. t = s
    BY <1>1, <1>2, <2>1 DEF During, Turn
  <2> QED BY <1>2, <2>1, <2>2 DEF During, Turn
<1>4. hPipeOut' = [hPipeOut EXCEPT ![s] = NoClient]
  BY <1>1, <1>2, <1>3 DEF OutAfterOnePipe, ReplaceOut, KeepOut, TypeOK, OtherOuts, outVars
<1>5. CASE Lone
  BY <1>1, <1>2, <1>3, <1>4, <1>5, SessionBegun DEF During
<1>6. CASE Shared /\ Queues(c, s)
  <2>1. /\ outListen # <<>> /\ Head(outListen) = s
        /\ inListen = Append(Tail(outListen), s)
    BY <1>1, <1>2, <1>6 DEF Queues
  <2>2. Count(outListen, s) = 1 /\ cConnectIns[s] = 1
    BY <1>3, <1>6 DEF KeptInv, OutsKept, OutsAdd, Shared, During, Turn
  <2>3. Count(Tail(outListen), s) \in Nat
        /\ Count(outListen, s) = Count(Tail(outListen), s) + 1
    BY <1>2, <2>1, PopCounts
  <2>4. Count(Tail(outListen), s) = 0
    BY <2>2, <2>3
  <2>5. Rest(outListen, s) = Tail(outListen)
    BY <1>2, <2>1, <2>4, RestOfHead
  <2>6. outListen' = Append(Rest(outListen, s), s)
    BY <1>1, <1>3, <2>2 DEF OutAfterOnePipe, ReplaceOut, OtherOuts
  <2>7. Shared /\ inListen = outListen'
    BY <1>6, <2>1, <2>5, <2>6
  <2> QED BY <1>1, <1>2, <1>3, <1>4, <2>7, SessionBegun DEF During
<1> QED BY <1>3, <1>5, <1>6 DEF During

LEMMA TwoPipeTurn ==
    ASSUME InTurn, KeptInv, TurnInv, NEW c \in Clients, NameOfTwoPipe(c)
    PROVE  TurnInv'
<1>1. PICK s \in Servers :
        /\ c \in TwoPipe /\ home[c] = s /\ node[c] = "naming" /\ pos[c] = "sent"
        /\ bOutPipeConnected[s] =>
             node' = [node EXCEPT ![c] = "open"] /\ ReplaceOut(s)
        /\ UNCHANGED <<inListen, perPipeEvent, cConnectIns, pos, alive>>
  BY DEF NameOfTwoPipe, clientVars
<1>2. TypeOK /\ pos[c] # "out" /\ c # NoClient
  BY <1>1, KindsAssumption DEF KeptInv, Clients
<1>3. During(c, s) /\ hPipeOut[s] = c /\ bOutPipeConnected[s]
  <2>1. PICK t \in Servers : During(c, t)
    BY <1>1, BusyHasTurn DEF Busy
  <2>2. t = s
    BY <1>1, <1>2, <2>1 DEF During, Turn
  <2> QED BY <1>1, <1>2, <2>1, <2>2 DEF During, Turn
<1>4. /\ node' = [node EXCEPT ![c] = "open"]
      /\ hPipeOut' = [hPipeOut EXCEPT ![s] = NoClient]
      /\ outListen' = Append(outListen, s)
  BY <1>1, <1>2, <1>3 DEF ReplaceOut, OtherOuts
<1>5. Lone \/ (Shared /\ inListen = outListen')
  BY <1>1, <1>2, <1>3, <1>4 DEF During, Queues
<1> QED BY <1>1, <1>2, <1>3, <1>4, <1>5, SessionBegun DEF During

LEMMA NothingTurns ==
    ASSUME TurnInv,
           UNCHANGED <<inListen, outListen, perPipeEvent, cConnectIns, hPipeOut,
                       bOutPipeConnected, pos, alive, home, node>>
    PROVE  TurnInv'
<1>1. \A d \in Clients : alive'[d] /\ node'[d] \notin {"refused", "dropped"}
  BY DEF TurnInv
<1>2. (Nobody => Nobody') /\ (Lone => Lone') /\ (Shared => Shared')
  BY DEF Nobody, Busy, Lone, Shared
<1>3. Changing => Changing'
  BY DEF Changing
<1>4. ASSUME NEW c \in Clients, NEW s \in Servers, During(c, s) PROVE During(c, s)'
  <2>1. Turn(c, s)'
    BY <1>4 DEF During, Turn, Busy
  <2>2. Queues(c, s) => Queues(c, s)'
    BY DEF Queues
  <2> QED BY <1>2, <1>4, <2>1, <2>2 DEF During
<1> QED BY <1>1, <1>2, <1>3, <1>4 DEF TurnInv, Between

\* The client on OUT is awaited: the minute does not pass before its session.
LEMMA TimerTurn ==
    ASSUME InTurn, KeptInv, TurnInv, NEW s \in Servers, ConnectOutTimerFired(s)
    PROVE  TurnInv'
<1>1. CASE bOutPipeConnected[s]
  <2>1. hPipeOut[s] # NoClient /\ Overdue(s)
    BY <1>1 DEF KeptInv, OutsKept, OutsAdd, ConnectOutTimerFired
  <2>2. PICK c \in TwoPipe : During(c, s) /\ hPipeOut[s] = c
    BY <2>1, BusyHasTurn
  <2>3. c \in Clients /\ alive[c] /\ (pos[c] = "out" => node[c] = "none")
    BY DEF Clients, TurnInv, KeptInv, InOrder
  <2>4. Awaited(c)
    BY <2>2, <2>3 DEF Awaited, During, Turn
  <2> QED BY <2>1, <2>2, <2>4 DEF Overdue, InTurn
<1>2. CASE ~ bOutPipeConnected[s]
  <2>1. UNCHANGED <<inListen, outListen, perPipeEvent, cConnectIns, hPipeOut,
                    bOutPipeConnected, pos, alive, home, node>>
    BY <1>2 DEF ConnectOutTimerFired, KeepOut, clientVars, outVars
  <2> QED BY <2>1, NothingTurns
<1> QED BY <1>1, <1>2

-----------------------------------------------------------------------------
LEMMA StepTurn ==
    ASSUME InTurn, KeptInv, TurnInv, Unhurried, [Next]_vars
    PROVE  TurnInv'
<1>1. ASSUME NEW c \in Clients, ClientNext(c) PROVE TurnInv'
  <2>1. ~ Dies(c)
    BY DEF Dies, InTurn
  <2> QED BY <1>1, <2>1, ConnectOutTurn, ConnectInTurn, SendMyInfoTurn DEF ClientNext
<1>2. ASSUME NEW c \in Clients, ReadClientNameCompleted(c) PROVE TurnInv'
  <2>1. ~ NameFails(c)
    BY DEF NameFails, TurnInv
  <2> QED BY <1>2, <2>1, OnePipeTurn, TwoPipeTurn DEF ReadClientNameCompleted
<1>3. ASSUME NEW s \in Servers, ServerNext(s) PROVE TurnInv'
  BY <1>3, StartTurn, FallBackTurn, OutConnectedTurn, TimerTurn, UnhurriedCalls
     DEF ServerNext
<1>4. CASE UNCHANGED vars
  BY <1>4, NothingTurns DEF vars
<1> QED BY <1>1, <1>2, <1>3, <1>4, InConnectedTurn DEF Next

THEOREM TurnInvariant ==
    ASSUME InTurn
    PROVE  Spec => [](KeptInv /\ TurnInv)
<1>1. Init => TurnInv
  BY InitTurn
<1>2. KeptInv /\ TurnInv /\ Unhurried /\ [Next]_vars => TurnInv'
  BY StepTurn
<1>3. Spec => []Unhurried
  BY UnhurriedInvariant DEF InTurn
<1> QED BY <1>1, <1>2, <1>3, KeptInvariant, PTL DEF Spec

\* Servers that share a name serve whole clients in turn: when nobody is
\* connecting, the oldest OUT pipe and the oldest IN pipe are one server's, so
\* that the next two-pipe client gets both from it (srvhshak.c:129-135,
\* srvmain.c:1043-1049), with any number of servers and of both kinds of client.
THEOREM TurnsStayAlike ==
    ASSUME InTurn
    PROVE  Spec => []OldestAlike
<1>1. KeptInv /\ TurnInv => OldestAlike
  <2> SUFFICES ASSUME KeptInv, TurnInv, Quiet, inListen # <<>>
               PROVE  Head(inListen) = Head(outListen)
    BY DEF OldestAlike
  <2>1. Nobody /\ (Lone \/ (Shared /\ inListen = outListen))
    BY QuietIsBetween
  <2>2. inListen \in Seq(Servers) /\ outListen \in Seq(Servers)
    BY DEF KeptInv, TypeOK
  <2>3. CASE Lone
    <3>1. 1 \in 1..Len(inListen) /\ Head(inListen) = inListen[1] /\ inListen[1] \in Servers
      BY <2>2
    <3>2. cConnectIns[inListen[1]] # 0
      BY <3>1, ListedStarted
    <3>3. Count(outListen, inListen[1]) = 1
      BY <2>1, <3>1, <3>2 DEF KeptInv, OutsKept, OutsAdd, Nobody
    <3>4. outListen # <<>>
      BY <3>3, CountEmpty
    <3>5. 1 \in 1..Len(outListen) /\ Head(outListen) = outListen[1] /\ outListen[1] \in Servers
      BY <2>2, <3>4
    <3>6. cConnectIns[outListen[1]] # 0
      BY <3>5, ListedStarted
    <3> QED BY <2>3, <3>1, <3>2, <3>5, <3>6 DEF Lone
  <2> QED BY <2>1, <2>3
<1> QED BY <1>1, TurnInvariant, PTL

\* And none of them hangs up on a client, or looks for its OUT pipe in vain.
THEOREM TurnsWelcome ==
    ASSUME InTurn
    PROVE  Spec => []Welcomed
<1>1. KeptInv /\ TurnInv => Welcomed
  BY DEF TurnInv, Welcomed
<1> QED BY <1>1, TurnInvariant, PTL

=============================================================================
