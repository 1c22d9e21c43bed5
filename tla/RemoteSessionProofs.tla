------------------------ MODULE RemoteSessionProofs ------------------------
(***************************************************************************)
(* Proofs about RemoteSession, for any set of clients, any bounds and any  *)
(* faults: an inductive invariant SessionInv, one rule per list a node can *)
(* be on, and the safety properties it implies.  Steps that nest calls are *)
(* handled by lemmas about flows: what StartServerToClientFlow, Announce   *)
(* and CloseFlows preserve.                                                *)
(***************************************************************************)
EXTENDS RemoteSession, TLAPS

FlowType ==
    [srv : SrvStates, wr : [Clients -> WriteOps], cbWrite : [Clients -> Nat],
     filePos : [Clients -> Nat], ptr : Nat, eof : Nat]

(* What a node's list says of its output chain. *)
OutputRule(l, w, cb) ==
    /\ l = "none" => w = "none" /\ cb = 0
    /\ l = "handshaking" => w \in {"none", "reply"} /\ cb = 0
    /\ l = "normal" => w \in OutputChain \cup {"none"} /\ (cb # 0 <=> w # "none")
    /\ l = "closing" => w \in {"cancelled", "none"}
    /\ l = "freed" => w = "none"

FlowRule(l, f, c) ==
    /\ OutputRule(l, f.wr[c], f.cbWrite[c])
    /\ f.wr[c] = "temp" => f.filePos[c] < f.eof

FlowOK(lst, f) ==
    /\ f \in FlowType
    /\ \A c \in Clients : FlowRule(lst[c], f, c)

(* The same, but for one client, which is about to be closed. *)
FlowOKBut(lst, f, c) ==
    /\ f \in FlowType
    /\ \A d \in Clients \ {c} : FlowRule(lst[d], f, d)

(* Of nodes not on the normal list a walk changes nothing. *)
SameOthers(lst, f, g) ==
    \A d \in Clients : lst[d] # "normal" => g.wr[d] = f.wr[d]

(* What a node's list says of its flags and of its input chain. *)
FlagRule(l, fl) ==
    /\ l = "handshaking" <=> fl = {"HANDSHAKING"}
    /\ l \in {"closing", "freed"} <=> "CLOSING" \in fl

InputRule(l, r, w, killing) ==
    /\ l = "none" => r = "none"
    /\ l = "handshaking" => \/ r \in {"name", "size", "info"} /\ w = "none"
                            \/ r = "none" /\ w = "reply"
    /\ l = "normal" => r \in {"cmd", "child", "cancelled", "none"}
    /\ l \in {"closing", "freed"} => r \in {"child", "cancelled", "none"}
    /\ killing => r = "none" /\ l \in {"normal", "closing"}

RestType ==
    /\ childAlive \in BOOLEAN
    /\ childIn \in {"open", "closed"}
    /\ child \in ChildOps
    /\ childOff \in Nat
    /\ list \in [Clients -> Lists]
    /\ flags \in [Clients -> SUBSET Flags]
    /\ rd \in [Clients -> ReadOps]
    /\ killers \subseteq Clients
    /\ left \in [Clients -> Nat]

SessionInv ==
    /\ RestType
    /\ FlowOK(list, FlowNow)
    /\ \A c \in Clients : FlagRule(list[c], flags[c])
    /\ \A c \in Clients : InputRule(list[c], rd[c], wr[c], c \in killers)

-----------------------------------------------------------------------------
USE DEF FinalStates, SrvStates, Lists, Flags, OwnReads, ReadOps, OutputChain,
        WriteOps, ChildOps

(* A walk of the client list keeps every node's rule, whatever list it walks. *)
LEMMA WalkOK ==
    ASSUME NEW lst \in [Clients -> Lists], NEW f, FlowOK(lst, f),
           NEW g \in StartServerToClientFlow(lst, f)
    PROVE  FlowOK(lst, g) /\ SameOthers(lst, f, g)
<1> DEFINE idle == {c \in Clients : lst[c] = "normal" /\ Behind(f, c)}
           woken == {c \in idle : f.filePos[c] < f.eof}
           w == [f EXCEPT
                   !.wr = [c \in Clients |-> IF c \in woken THEN Issue("temp", f.wr[c])
                                             ELSE f.wr[c]],
                   !.cbWrite = [c \in Clients |->
                                  IF c \in woken
                                  THEN Lesser(BUFFSIZE, f.ptr - f.filePos[c])
                                  ELSE f.cbWrite[c]]]
<1>0. f \in FlowType
  BY DEF FlowOK
<1>a. \A c \in Clients : /\ f.wr[c] \in WriteOps /\ f.cbWrite[c] \in Nat
                         /\ f.filePos[c] \in Nat /\ f.ptr \in Nat /\ f.eof \in Nat
  BY <1>0 DEF FlowType
<1>1. \A c \in woken : /\ Issue("temp", f.wr[c]) = "temp"
                       /\ Lesser(BUFFSIZE, f.ptr - f.filePos[c]) \in Nat \ {0}
                       /\ lst[c] = "normal" /\ f.filePos[c] < f.eof
  <2>1. SUFFICES ASSUME NEW c \in woken
                 PROVE  /\ Issue("temp", f.wr[c]) = "temp"
                        /\ Lesser(BUFFSIZE, f.ptr - f.filePos[c]) \in Nat \ {0}
                        /\ lst[c] = "normal" /\ f.filePos[c] < f.eof
    OBVIOUS
  <2>2. /\ c \in Clients /\ lst[c] = "normal" /\ f.cbWrite[c] = 0
        /\ f.ptr > f.filePos[c] /\ f.filePos[c] < f.eof
    BY DEF Behind
  <2>3. f.wr[c] = "none"
    BY <2>2 DEF FlowOK, FlowRule, OutputRule
  <2>4. Issue("temp", f.wr[c]) = "temp"
    BY <2>3 DEF Issue
  <2>5. Lesser(BUFFSIZE, f.ptr - f.filePos[c]) \in Nat \ {0}
    BY <2>2, <1>a, BuffsizeAssumption DEF Lesser
  <2> QED
    BY <2>2, <2>4, <2>5
<1>2. FlowOK(lst, w) /\ SameOthers(lst, f, w)
  <2>1. /\ w.srv = f.srv /\ w.filePos = f.filePos /\ w.ptr = f.ptr /\ w.eof = f.eof
        /\ w.wr = [c \in Clients |-> IF c \in woken THEN Issue("temp", f.wr[c])
                                     ELSE f.wr[c]]
        /\ w.cbWrite = [c \in Clients |->
                          IF c \in woken THEN Lesser(BUFFSIZE, f.ptr - f.filePos[c])
                          ELSE f.cbWrite[c]]
    BY <1>0 DEF FlowType
  <2>2. w.wr \in [Clients -> WriteOps] /\ w.cbWrite \in [Clients -> Nat]
    BY <2>1, <1>1, <1>a
  <2>3. w \in FlowType
    BY <2>2, <1>0 DEF FlowType
  <2>4. ASSUME NEW c \in Clients PROVE FlowRule(lst[c], w, c)
    <3>1. CASE c \in woken
      BY <3>1, <2>1, <1>1 DEF FlowRule, OutputRule
    <3>2. CASE c \notin woken
      BY <3>2, <2>1 DEF FlowRule, FlowOK
    <3> QED BY <3>1, <3>2
  <2>5. SameOthers(lst, f, w)
    BY <2>1, <1>1 DEF SameOthers
  <2> QED BY <2>3, <2>4, <2>5 DEF FlowOK
<1>3. LET l == [f EXCEPT !.srv = "lost"] IN FlowOK(lst, l) /\ SameOthers(lst, f, l)
  BY <1>0 DEF FlowOK, FlowType, FlowRule, SameOthers
<1>4. g = w \/ g = [f EXCEPT !.srv = "lost"]
  BY DEF StartServerToClientFlow
<1> QED
  BY <1>2, <1>3, <1>4

(* A write to the temp file only advances the pointer and the end of file. *)
LEMMA AfterWriteOK ==
    ASSUME NEW lst, NEW f, FlowOK(lst, f), NEW off \in Nat
    PROVE  FlowOK(lst, AfterWrite(f, off)) /\ SameOthers(lst, f, AfterWrite(f, off))
<1> DEFINE g == AfterWrite(f, off)
<1>1. /\ f \in FlowType
      /\ g.srv = f.srv /\ g.wr = f.wr /\ g.cbWrite = f.cbWrite /\ g.filePos = f.filePos
      /\ g.ptr = f.ptr + 1 /\ g.eof = Greater(f.eof, off + 1)
  BY DEF FlowOK, FlowType, AfterWrite
<1>2. f.eof \in Nat /\ f.ptr \in Nat /\ f.filePos \in [Clients -> Nat]
  BY <1>1 DEF FlowType
<1>3. g.eof \in Nat /\ g.eof >= f.eof /\ g.ptr \in Nat
  BY <1>1, <1>2 DEF Greater
<1>4. g \in FlowType
  BY <1>1, <1>3 DEF FlowType, AfterWrite
<1>5. ASSUME NEW c \in Clients PROVE FlowRule(lst[c], g, c)
  <2>1. FlowRule(lst[c], f, c)
    BY DEF FlowOK
  <2>2. f.wr[c] = "temp" => f.filePos[c] < g.eof
    BY <2>1, <1>2, <1>3 DEF FlowRule
  <2> QED BY <2>1, <2>2, <1>1 DEF FlowRule
<1> QED
  BY <1>1, <1>4, <1>5 DEF FlowOK, SameOthers

LEMMA AnnounceOK ==
    ASSUME NEW lst \in [Clients -> Lists], NEW f, FlowOK(lst, f),
           NEW g \in Announce(lst, f)
    PROVE  FlowOK(lst, g) /\ SameOthers(lst, f, g)
<1>1. f.ptr \in Nat
  BY DEF FlowOK, FlowType
<1>2. CASE g = f
  BY <1>2 DEF SameOthers
<1>3. CASE g \in StartServerToClientFlow(lst, AfterWrite(f, f.ptr))
  <2>1. FlowOK(lst, AfterWrite(f, f.ptr)) /\ SameOthers(lst, f, AfterWrite(f, f.ptr))
    BY <1>1, AfterWriteOK
  <2>2. FlowOK(lst, g) /\ SameOthers(lst, AfterWrite(f, f.ptr), g)
    BY <2>1, <1>3, WalkOK
  <2> QED BY <2>1, <2>2 DEF SameOthers
<1> QED
  BY <1>2, <1>3 DEF Announce

(* Closing a client leaves it with no output but what was cancelled, and every
   other node's rule holds of the flow its announcement leads to. *)
LEMMA CloseFlowsOK ==
    ASSUME NEW c \in Clients, NEW f, FlowOKBut(list, f, c),
           list \in [Clients -> Lists], NEW g \in CloseFlows(c, f)
    PROVE  FlowOK(Closed(list, c), g)
           /\ SameOthers(Closed(list, c), CancelOutput(f, c), g)
<1> DEFINE h == CancelOutput(f, c)
<1>1. Closed(list, c) \in [Clients -> Lists]
  BY DEF Closed
<1>2. /\ f \in FlowType
      /\ h.srv = f.srv /\ h.cbWrite = f.cbWrite /\ h.filePos = f.filePos
      /\ h.ptr = f.ptr /\ h.eof = f.eof
      /\ h.wr = [f.wr EXCEPT ![c] = IF @ = "none" THEN "none" ELSE "cancelled"]
  BY DEF FlowOKBut, FlowType, CancelOutput
<1>3. h.wr \in [Clients -> WriteOps] /\ h.wr[c] \in {"cancelled", "none"}
  BY <1>2 DEF FlowType
<1>4. h \in FlowType
  BY <1>2, <1>3 DEF FlowType, CancelOutput
<1>5. ASSUME NEW d \in Clients PROVE FlowRule(Closed(list, c)[d], h, d)
  <2>1. CASE d = c
    BY <2>1, <1>3 DEF FlowRule, OutputRule, Closed
  <2>2. CASE d # c
    <3>1. FlowRule(list[d], f, d)
      BY <2>2 DEF FlowOKBut
    <3>2. h.wr[d] = f.wr[d] /\ Closed(list, c)[d] = list[d]
      BY <2>2, <1>2 DEF FlowType, Closed
    <3> QED BY <3>1, <3>2, <1>2 DEF FlowRule
  <2> QED BY <2>1, <2>2
<1>6. FlowOK(Closed(list, c), h)
  BY <1>4, <1>5 DEF FlowOK
<1>7. CASE g = h
  BY <1>6, <1>7 DEF SameOthers
<1>8. CASE g \in Announce(Closed(list, c), h)
  BY <1>1, <1>6, <1>8, AnnounceOK
<1> QED
  BY <1>7, <1>8 DEF CloseFlows

(* The state a step leaves its flow variables in obeys the flow's rules. *)
LEMMA FlowBecomesOK ==
    ASSUME NEW lst, NEW g, FlowOK(lst, g), FlowBecomes(g)
    PROVE  FlowOK(lst, FlowNow') /\ wr' = g.wr
<1>1. g \in FlowType
  BY DEF FlowOK
<1>2. /\ FlowNow'.srv = g.srv /\ FlowNow'.wr = g.wr /\ FlowNow'.cbWrite = g.cbWrite
      /\ FlowNow'.filePos = g.filePos /\ FlowNow'.ptr = g.ptr /\ FlowNow'.eof = g.eof
  BY DEF FlowBecomes, FlowNow
<1>3. FlowNow' \in FlowType
  BY <1>1 DEF FlowBecomes, FlowNow, FlowType
<1> QED
  BY <1>2, <1>3 DEF FlowOK, FlowRule, FlowBecomes

(* A flow that starts from the current state, c's chain aside. *)
FlowFor(c, f) ==
    /\ FlowOKBut(list, f, c)
    /\ \A d \in Clients \ {c} : list[d] # "normal" => f.wr[d] = wr[d]

(* CloseClient, from any handler, on a node with nothing issued twice. *)
LEMMA CloseClientOK ==
    ASSUME SessionInv, NEW c \in Clients, NEW f, FlowFor(c, f),
           NEW r \in [Clients -> ReadOps], \A d \in Clients \ {c} : r[d] = rd[d],
           r[c] # "overlap", c \in killers' => r[c] = "none",
           CloseClient(c, r, f), UNCHANGED childVars, killers' \subseteq killers,
           left' \in [Clients -> Nat]
    PROVE  SessionInv'
<1>1. PICK g \in CloseFlows(c, f) : FlowBecomes(g)
  BY DEF CloseClient
<1>2. /\ list' = [list EXCEPT ![c] = "closing"]
      /\ flags' = [flags EXCEPT ![c] = @ \cup {"CLOSING"}]
      /\ rd' = [r EXCEPT ![c] = IF @ \in OwnReads THEN "cancelled" ELSE @]
      /\ list' = Closed(list, c)
  BY DEF CloseClient, CloseNode, Closed
<1>3. list \in [Clients -> Lists] /\ FlowOKBut(list, f, c)
  BY DEF SessionInv, RestType, FlowFor
<1>4. FlowOK(list', g) /\ SameOthers(list', CancelOutput(f, c), g)
  <2>1. /\ FlowOK(Closed(list, c), g)
        /\ SameOthers(Closed(list, c), CancelOutput(f, c), g)
    BY <1>1, <1>3, CloseFlowsOK
  <2>2. list' = Closed(list, c)
    BY <1>2
  <2> QED BY <2>1, <2>2
<1>5. FlowOK(list', FlowNow') /\ wr' = g.wr
  BY <1>1, <1>4, FlowBecomesOK
<1>6. RestType'
  BY <1>2 DEF SessionInv, RestType, childVars
<1>7. ASSUME NEW d \in Clients PROVE FlagRule(list'[d], flags'[d])
  BY <1>2 DEF SessionInv, RestType, FlagRule
<1>8. ASSUME NEW d \in Clients
      PROVE  InputRule(list'[d], rd'[d], wr'[d], d \in killers')
  <2>1. CASE d = c
    BY <2>1, <1>2 DEF SessionInv, RestType, InputRule
  <2>2. CASE d # c
    <3>1. list'[d] = list[d] /\ rd'[d] = rd[d] /\ (d \in killers' => d \in killers)
      BY <2>2, <1>2 DEF SessionInv, RestType
    <3>2. list[d] # "normal" => wr'[d] = wr[d]
      <4>1. CancelOutput(f, c).wr[d] = f.wr[d]
        BY <2>2, <1>3 DEF CancelOutput, FlowOKBut, FlowType
      <4>2. list[d] # "normal" => g.wr[d] = CancelOutput(f, c).wr[d]
        BY <1>4, <3>1 DEF SameOthers
      <4> QED BY <2>2, <4>1, <4>2, <1>5 DEF FlowFor
    <3>3. InputRule(list[d], rd[d], wr[d], d \in killers)
      BY DEF SessionInv
    <3> QED BY <3>1, <3>2, <3>3 DEF InputRule
  <2> QED BY <2>1, <2>2
<1> QED
  BY <1>5, <1>6, <1>7, <1>8 DEF SessionInv

(* The flows handlers start from. *)
LEMMA FlowNowFor ==
    ASSUME SessionInv, NEW c \in Clients
    PROVE  FlowFor(c, FlowNow) /\ FlowNow.wr = wr
BY DEF SessionInv, FlowOK, FlowOKBut, FlowFor, FlowNow

LEMMA WriteDoneFor ==
    ASSUME SessionInv, NEW c \in Clients
    PROVE  /\ FlowFor(c, WriteDone(c))
           /\ WriteDone(c) = [srv |-> srv, wr |-> [wr EXCEPT ![c] = "none"],
                              cbWrite |-> cbWrite, filePos |-> filePos,
                              ptr |-> ptr, eof |-> eof]
<1> DEFINE f == WriteDone(c)
<1>1. f = [srv |-> srv, wr |-> [wr EXCEPT ![c] = "none"], cbWrite |-> cbWrite,
           filePos |-> filePos, ptr |-> ptr, eof |-> eof]
  BY DEF WriteDone, FlowNow
<1>2. /\ srv \in SrvStates /\ wr \in [Clients -> WriteOps]
      /\ cbWrite \in [Clients -> Nat] /\ filePos \in [Clients -> Nat]
      /\ ptr \in Nat /\ eof \in Nat
  BY DEF SessionInv, FlowOK, FlowType, FlowNow
<1>3. f \in FlowType
  BY <1>1, <1>2 DEF FlowType
<1>4. ASSUME NEW d \in Clients \ {c}
      PROVE  FlowRule(list[d], f, d) /\ f.wr[d] = wr[d]
  BY <1>1, <1>2 DEF SessionInv, FlowOK, FlowRule, FlowNow
<1> QED
  BY <1>1, <1>3, <1>4 DEF FlowFor, FlowOKBut

-----------------------------------------------------------------------------
(* The endings handlers share. *)

LEMMA ErrorExitOK ==
    ASSUME SessionInv, ErrorExit
    PROVE  SessionInv'
<1>1. FlowNow' = [srv |-> "errorexit", wr |-> wr, cbWrite |-> cbWrite,
                  filePos |-> filePos, ptr |-> ptr, eof |-> eof]
  BY DEF ErrorExit, FlowNow
<1>2. FlowNow' \in FlowType
  BY <1>1 DEF SessionInv, FlowOK, FlowType, FlowNow
<1>3. FlowOK(list', FlowNow')
  BY <1>1, <1>2 DEF ErrorExit, SessionInv, FlowOK, FlowRule, FlowNow
<1>4. /\ RestType'
      /\ \A c \in Clients : FlagRule(list'[c], flags'[c])
      /\ \A c \in Clients : InputRule(list'[c], rd'[c], wr'[c], c \in killers')
  BY DEF ErrorExit, SessionInv, RestType, childVars
<1> QED
  BY <1>3, <1>4 DEF SessionInv

LEMMA CloseAfterReadOK ==
    ASSUME SessionInv, NEW c \in Clients, CloseAndReturn(c, ReadDone(c), FlowNow)
    PROVE  SessionInv'
<1>1. /\ ReadDone(c) \in [Clients -> ReadOps] /\ ReadDone(c)[c] = "none"
      /\ \A d \in Clients \ {c} : ReadDone(c)[d] = rd[d]
  BY DEF SessionInv, RestType, ReadDone
<1>2. FlowFor(c, FlowNow)
  BY FlowNowFor
<1>3. /\ CloseClient(c, ReadDone(c), FlowNow)
      /\ UNCHANGED <<childVars, killers>> /\ left' \in [Clients -> Nat]
  BY DEF CloseAndReturn, SessionInv, RestType
<1> QED
  BY <1>1, <1>2, <1>3, CloseClientOK

LEMMA CloseAfterWriteOK ==
    ASSUME SessionInv, NEW c \in Clients, NEW f, FlowFor(c, f),
           CloseClient(c, rd, f), UNCHANGED childVars, killers' \subseteq killers,
           left' \in [Clients -> Nat]
    PROVE  SessionInv'
<1>1. InputRule(list[c], rd[c], wr[c], c \in killers) /\ list[c] \in Lists
      /\ rd \in [Clients -> ReadOps]
  BY DEF SessionInv, RestType
<1>2. rd[c] # "overlap" /\ (c \in killers => rd[c] = "none")
  BY <1>1 DEF InputRule
<1> QED
  BY <1>1, <1>2, CloseClientOK

LEMMA ReadErrorOK ==
    ASSUME SessionInv, NEW c \in Clients, SessionError(c, ReadDone(c), FlowNow)
    PROVE  SessionInv'
BY CloseAfterReadOK, ErrorExitOK DEF SessionError

LEMMA WriteErrorOK ==
    ASSUME SessionInv, NEW c \in Clients, SessionError(c, rd, WriteDone(c))
    PROVE  SessionInv'
<1>1. CASE CloseAndReturn(c, rd, WriteDone(c))
  <2>1. /\ CloseClient(c, rd, WriteDone(c))
        /\ UNCHANGED <<childVars, killers>> /\ left' \in [Clients -> Nat]
    BY <1>1 DEF CloseAndReturn, SessionInv, RestType
  <2>2. FlowFor(c, WriteDone(c))
    BY WriteDoneFor
  <2> QED BY <2>1, <2>2, CloseAfterWriteOK
<1> QED
  BY <1>1, ErrorExitOK DEF SessionError

(* The rules that hold after a step that leaves lists and flags alone and
   touches at most c's input chain. *)
LEMMA SameListOK ==
    ASSUME SessionInv, NEW c \in Clients, NEW g, FlowOK(list, g), FlowBecomes(g),
           \A d \in Clients \ {c} : list[d] # "normal" => g.wr[d] = wr[d],
           UNCHANGED <<list, flags>>, RestType',
           \A d \in Clients \ {c} : rd'[d] = rd[d] /\ (d \in killers' => d \in killers),
           InputRule(list[c], rd'[c], g.wr[c], c \in killers')
    PROVE  SessionInv'
<1>1. FlowOK(list', FlowNow') /\ wr' = g.wr
  BY FlowBecomesOK
<1>2. ASSUME NEW d \in Clients
      PROVE  InputRule(list'[d], rd'[d], wr'[d], d \in killers')
  <2>1. CASE d = c
    BY <2>1, <1>1
  <2>2. CASE d # c
    <3>1. /\ rd'[d] = rd[d] /\ (d \in killers' => d \in killers)
          /\ list[d] # "normal" => wr'[d] = wr[d]
          /\ InputRule(list[d], rd[d], wr[d], d \in killers)
      BY <2>2, <1>1 DEF SessionInv
    <3> QED BY <3>1 DEF InputRule
  <2> QED BY <2>1, <2>2
<1> QED
  BY <1>1, <1>2 DEF SessionInv

-----------------------------------------------------------------------------
(* The handshake. *)

LEMMA HandleInPipeConnectedOK ==
    ASSUME SessionInv, NEW c \in Clients, HandleInPipeConnected(c)
    PROVE  SessionInv'
<1>1. /\ list[c] = "none" /\ rd[c] = "none" /\ wr[c] = "none" /\ cbWrite[c] = 0
      /\ c \notin killers
  BY DEF HandleInPipeConnected, SessionInv, InputRule, FlowOK, FlowRule, OutputRule, FlowNow
<1>2. UNCHANGED <<childVars, killers, left>>
  BY DEF HandleInPipeConnected
<1>3. CASE /\ list' = [list EXCEPT ![c] = "handshaking"]
           /\ flags' = [flags EXCEPT ![c] = {"HANDSHAKING"}]
           /\ rd' = [rd EXCEPT ![c] = Issue("name", @)]
           /\ UNCHANGED flowVars
  <2>1. rd' = [rd EXCEPT ![c] = "name"]
    BY <1>1, <1>3 DEF Issue
  <2>2. FlowNow' = FlowNow
    BY <1>3 DEF FlowNow, flowVars
  <2>3. FlowOK(list', FlowNow')
    <3>1. ASSUME NEW d \in Clients PROVE FlowRule(list'[d], FlowNow, d)
      BY <1>1, <1>3 DEF SessionInv, RestType, FlowOK, FlowRule, OutputRule, FlowNow
    <3> QED BY <2>2, <3>1 DEF SessionInv, FlowOK
  <2>4. RestType'
    BY <1>2, <1>3, <2>1 DEF SessionInv, RestType, childVars
  <2>5. \A d \in Clients : FlagRule(list'[d], flags'[d])
    BY <1>3 DEF SessionInv, RestType, FlagRule
  <2>6. \A d \in Clients : InputRule(list'[d], rd'[d], wr'[d], d \in killers')
    BY <1>1, <1>2, <1>3, <2>1 DEF SessionInv, RestType, InputRule, flowVars
  <2> QED BY <2>3, <2>4, <2>5, <2>6 DEF SessionInv
<1>4. CASE /\ list' = Closed(list, c)
           /\ flags' = [flags EXCEPT ![c] = {"HANDSHAKING", "CLOSING"}]
           /\ \E g \in CloseFlows(c, FlowNow) : FlowBecomes(g)
           /\ UNCHANGED rd
  <2>1. PICK g \in CloseFlows(c, FlowNow) : FlowBecomes(g)
    BY <1>4
  <2>2. FlowOKBut(list, FlowNow, c) /\ FlowNow.wr = wr /\ list \in [Clients -> Lists]
    BY FlowNowFor DEF FlowFor, SessionInv, RestType
  <2>3. /\ FlowOK(Closed(list, c), g)
        /\ SameOthers(Closed(list, c), CancelOutput(FlowNow, c), g)
    BY <2>1, <2>2, CloseFlowsOK
  <2>4. FlowOK(list', FlowNow') /\ wr' = g.wr
    BY <1>4, <2>1, <2>3, FlowBecomesOK
  <2>5. list' = [list EXCEPT ![c] = "closing"]
    BY <1>4 DEF Closed
  <2>6. RestType'
    BY <1>2, <1>4, <2>5 DEF SessionInv, RestType, childVars
  <2>7. \A d \in Clients : FlagRule(list'[d], flags'[d])
    BY <1>4, <2>5 DEF SessionInv, RestType, FlagRule
  <2>8. ASSUME NEW d \in Clients
        PROVE  InputRule(list'[d], rd'[d], wr'[d], d \in killers')
    <3>1. CASE d = c
      BY <3>1, <1>1, <1>2, <1>4, <2>5 DEF SessionInv, RestType, InputRule
    <3>2. CASE d # c
      <4>1. list'[d] = list[d] /\ rd'[d] = rd[d] /\ killers' = killers
        BY <3>2, <1>2, <1>4, <2>5 DEF SessionInv, RestType
      <4>2. CancelOutput(FlowNow, c).wr[d] = wr[d]
        BY <3>2, <2>2 DEF CancelOutput, FlowOKBut, FlowType
      <4>3. list[d] # "normal" => wr'[d] = wr[d]
        BY <2>3, <2>4, <4>1, <4>2, <1>4 DEF SameOthers
      <4>4. InputRule(list[d], rd[d], wr[d], d \in killers)
        BY DEF SessionInv
      <4> QED BY <4>1, <4>3, <4>4 DEF InputRule
    <3> QED BY <3>1, <3>2
  <2> QED BY <2>4, <2>6, <2>7, <2>8 DEF SessionInv
<1> QED
  BY <1>3, <1>4 DEF HandleInPipeConnected

(* What Live and a pending operation say of the node. *)
LEMMA LiveOK ==
    ASSUME SessionInv, NEW c \in Clients, Live(c)
    PROVE  /\ list[c] \in {"handshaking", "normal"}
           /\ rd[c] \in {"name", "size", "info"} => list[c] = "handshaking" /\ wr[c] = "none"
           /\ rd[c] \in {"cmd", "child", "cancelled"} => list[c] = "normal"
           /\ wr[c] = "reply" => list[c] = "handshaking" /\ rd[c] = "none"
           /\ wr[c] \in OutputChain => list[c] = "normal"
           /\ list[c] = "handshaking" => cbWrite[c] = 0 /\ c \notin killers
           /\ rd[c] # "none" => c \notin killers
BY DEF SessionInv, Live, InputRule, FlowOK, FlowRule, OutputRule, FlowNow

LEMMA ReadClientNameCompletedOK ==
    ASSUME SessionInv, NEW c \in Clients, ReadClientNameCompleted(c)
    PROVE  SessionInv'
<1>1. /\ list[c] = "handshaking" /\ rd[c] = "name" /\ wr[c] = "none"
      /\ cbWrite[c] = 0 /\ c \notin killers
  BY LiveOK DEF ReadClientNameCompleted
<1>2. CASE /\ rd' = ReadDone(c)
           /\ FlowBecomes([FlowNow EXCEPT !.wr[c] = Issue("reply", @)])
           /\ UNCHANGED <<childVars, list, flags, killers, left>>
  <2> DEFINE g == [FlowNow EXCEPT !.wr[c] = Issue("reply", @)]
  <2>1. g = [srv |-> srv, wr |-> [wr EXCEPT ![c] = "reply"], cbWrite |-> cbWrite,
             filePos |-> filePos, ptr |-> ptr, eof |-> eof]
    BY <1>1 DEF FlowNow, Issue, SessionInv, FlowOK, FlowType
  <2>2. g \in FlowType
    BY <2>1 DEF SessionInv, FlowOK, FlowType, FlowNow
  <2>3. FlowOK(list, g)
    <3>1. ASSUME NEW d \in Clients PROVE FlowRule(list[d], g, d)
      BY <1>1, <2>1 DEF SessionInv, FlowOK, FlowType, FlowRule, OutputRule, FlowNow
    <3> QED BY <2>2, <3>1 DEF FlowOK
  <2>4. RestType' /\ rd' = [rd EXCEPT ![c] = "none"]
    BY <1>2 DEF SessionInv, RestType, childVars, ReadDone
  <2>5. \A d \in Clients \ {c} : g.wr[d] = wr[d]
    BY <2>1 DEF SessionInv, FlowOK, FlowType, FlowNow
  <2>6. InputRule(list[c], rd'[c], g.wr[c], c \in killers')
    BY <1>1, <1>2, <2>1, <2>4 DEF SessionInv, RestType, FlowOK, FlowType, FlowNow, InputRule
  <2>7. \A d \in Clients \ {c} : rd'[d] = rd[d] /\ (d \in killers' => d \in killers)
    BY <1>2, <2>4 DEF SessionInv, RestType
  <2> QED BY <1>2, <2>3, <2>4, <2>5, <2>6, <2>7, SameListOK
<1> QED
  BY <1>2, CloseAfterReadOK DEF ReadClientNameCompleted

LEMMA WriteServerReplyCompletedOK ==
    ASSUME SessionInv, NEW c \in Clients, WriteServerReplyCompleted(c)
    PROVE  SessionInv'
<1>1. /\ list[c] = "handshaking" /\ rd[c] = "none" /\ wr[c] = "reply"
      /\ cbWrite[c] = 0 /\ c \notin killers
  BY LiveOK DEF WriteServerReplyCompleted
<1>2. CASE /\ rd' = [rd EXCEPT ![c] = Issue("size", @)]
           /\ FlowBecomes(WriteDone(c))
           /\ UNCHANGED <<childVars, list, flags, killers, left>>
  <2> DEFINE g == WriteDone(c)
  <2>1. /\ FlowFor(c, g)
        /\ g = [srv |-> srv, wr |-> [wr EXCEPT ![c] = "none"], cbWrite |-> cbWrite,
                filePos |-> filePos, ptr |-> ptr, eof |-> eof]
    BY WriteDoneFor
  <2>2. g.wr[c] = "none" /\ g.cbWrite[c] = 0
    BY <1>1, <2>1 DEF SessionInv, FlowOK, FlowType, FlowNow
  <2>3. FlowOK(list, g)
    BY <1>1, <2>1, <2>2 DEF FlowFor, FlowOKBut, FlowOK, FlowRule, OutputRule
  <2>4. rd' = [rd EXCEPT ![c] = "size"]
    BY <1>1, <1>2 DEF Issue
  <2>5. RestType'
    BY <1>2, <2>4 DEF SessionInv, RestType, childVars
  <2>6. InputRule(list[c], rd'[c], g.wr[c], c \in killers')
    BY <1>1, <1>2, <2>2, <2>4 DEF SessionInv, RestType, InputRule
  <2>7. \A d \in Clients \ {c} : rd'[d] = rd[d] /\ (d \in killers' => d \in killers)
    BY <1>2, <2>4 DEF SessionInv, RestType
  <2>8. \A d \in Clients \ {c} : list[d] # "normal" => g.wr[d] = wr[d]
    BY <2>1 DEF FlowFor
  <2> QED BY <1>2, <2>3, <2>5, <2>6, <2>7, <2>8, SameListOK
<1> QED
  BY <1>2, WriteErrorOK DEF WriteServerReplyCompleted

(* A step that only moves c's input chain on. *)
LEMMA OnlyInputOK ==
    ASSUME SessionInv, NEW c \in Clients, UNCHANGED <<flowVars, list, flags>>,
           RestType',
           \A d \in Clients \ {c} : rd'[d] = rd[d] /\ (d \in killers' => d \in killers),
           InputRule(list[c], rd'[c], wr[c], c \in killers')
    PROVE  SessionInv'
<1>1. FlowBecomes(FlowNow) /\ FlowNow.wr = wr
  BY DEF FlowBecomes, FlowNow, flowVars
<1>2. FlowOK(list, FlowNow) /\ UNCHANGED <<list, flags>>
  BY DEF SessionInv
<1> QED
  BY <1>1, <1>2, SameListOK

LEMMA ReadClientStartupInfoSizeCompletedOK ==
    ASSUME SessionInv, NEW c \in Clients, ReadClientStartupInfoSizeCompleted(c)
    PROVE  SessionInv'
<1>1. /\ list[c] = "handshaking" /\ rd[c] = "size" /\ wr[c] = "none"
      /\ cbWrite[c] = 0 /\ c \notin killers
  BY LiveOK DEF ReadClientStartupInfoSizeCompleted
<1>2. CASE /\ rd' = [ReadDone(c) EXCEPT ![c] = Issue("info", @)]
           /\ UNCHANGED <<childVars, flowVars, list, flags, killers, left>>
  <2>1. rd' = [rd EXCEPT ![c] = "info"]
    BY <1>2 DEF Issue, ReadDone, SessionInv, RestType
  <2>2. RestType'
    BY <1>2, <2>1 DEF SessionInv, RestType, childVars
  <2>3. InputRule(list[c], rd'[c], wr[c], c \in killers')
    BY <1>1, <1>2, <2>1 DEF SessionInv, RestType, InputRule
  <2>4. \A d \in Clients \ {c} : rd'[d] = rd[d] /\ (d \in killers' => d \in killers)
    BY <1>2, <2>1 DEF SessionInv, RestType
  <2> QED BY <1>2, <2>2, <2>3, <2>4, OnlyInputOK
<1> QED
  BY <1>2, ReadErrorOK DEF ReadClientStartupInfoSizeCompleted

(* The client leaves the handshake, connected or closed; either way the
   announcement follows. *)
LEMMA ReadClientStartupInfoCompletedOK ==
    ASSUME SessionInv, NEW c \in Clients, ReadClientStartupInfoCompleted(c)
    PROVE  SessionInv'
<1>1. /\ list[c] = "handshaking" /\ rd[c] = "info" /\ wr[c] = "none"
      /\ cbWrite[c] = 0 /\ c \notin killers
  BY LiveOK DEF ReadClientStartupInfoCompleted
<1>2. CASE SessionError(c, ReadDone(c), FlowNow)
  BY <1>2, ReadErrorOK
<1> DEFINE f(back) == [FlowNow EXCEPT !.filePos[c] = FirstRead(back)]
<1>3. ASSUME NEW back \in 0..(ptr + 1)
      PROVE  /\ f(back) \in FlowType /\ f(back).wr = wr
             /\ \A d \in Clients \ {c} : FlowRule(list[d], f(back), d)
             /\ FlowRule("normal", f(back), c)
  <2>1. FlowNow \in FlowType /\ ptr \in Nat
    BY DEF SessionInv, FlowOK, FlowType, FlowNow
  <2>2. FirstRead(back) \in Nat
    BY <2>1 DEF FirstRead
  <2>3. f(back) = [srv |-> srv, wr |-> wr, cbWrite |-> cbWrite,
                   filePos |-> [filePos EXCEPT ![c] = FirstRead(back)],
                   ptr |-> ptr, eof |-> eof]
    BY DEF FlowNow
  <2>4. f(back) \in FlowType
    BY <2>1, <2>2, <2>3 DEF FlowType, FlowNow
  <2> QED
    BY <1>1, <2>3, <2>4 DEF SessionInv, FlowOK, FlowType, FlowRule, OutputRule, FlowNow
<1>4. ASSUME NEW back \in 0..(ptr + 1),
             UNCHANGED <<childVars, killers, left>>,
             list' = [list EXCEPT ![c] = "normal"],
             flags' = [flags EXCEPT ![c] = @ \ {"HANDSHAKING"}],
             rd' = [ReadDone(c) EXCEPT ![c] = Issue("cmd", @)],
             NEW g \in Announce(list', f(back)), FlowBecomes(g)
      PROVE  SessionInv'
  <2>1. rd' = [rd EXCEPT ![c] = "cmd"]
    BY <1>4 DEF Issue, ReadDone, SessionInv, RestType
  <2>2. RestType'
    BY <1>4, <2>1 DEF SessionInv, RestType, childVars
  <2>3. FlowOK(list', f(back))
    BY <1>3, <1>4 DEF FlowOK, SessionInv, RestType
  <2>4. list' \in [Clients -> Lists]
    BY <2>2 DEF RestType
  <2>5. FlowOK(list', g) /\ SameOthers(list', f(back), g)
    BY <1>4, <2>3, <2>4, AnnounceOK
  <2>6. FlowOK(list', FlowNow') /\ wr' = g.wr
    BY <1>4, <2>5, FlowBecomesOK
  <2>7. \A d \in Clients : FlagRule(list'[d], flags'[d])
    BY <1>1, <1>4 DEF SessionInv, RestType, FlagRule
  <2>8. ASSUME NEW d \in Clients
        PROVE  InputRule(list'[d], rd'[d], wr'[d], d \in killers')
    <3>1. list'[d] # "normal" => wr'[d] = wr[d]
      BY <1>3, <2>5, <2>6 DEF SameOthers
    <3>2. InputRule(list[d], rd[d], wr[d], d \in killers)
      BY DEF SessionInv
    <3> QED BY <1>1, <1>4, <2>1, <3>1, <3>2 DEF SessionInv, RestType, InputRule
  <2> QED BY <2>2, <2>6, <2>7, <2>8 DEF SessionInv
<1>5. ASSUME NEW back \in 0..(ptr + 1),
             UNCHANGED <<childVars, killers, left>>,
             list' = Closed(list, c),
             flags' = [flags EXCEPT ![c] = {"CLOSING"}],
             rd' = ReadDone(c),
             NEW g \in CloseFlows(c, f(back)),
             NEW h \in Announce(list', g), FlowBecomes(h)
      PROVE  SessionInv'
  <2>1. rd' = [rd EXCEPT ![c] = "none"] /\ list' = [list EXCEPT ![c] = "closing"]
    BY <1>5 DEF ReadDone, Closed
  <2>2. RestType'
    BY <1>5, <2>1 DEF SessionInv, RestType, childVars
  <2>3. FlowOKBut(list, f(back), c) /\ list \in [Clients -> Lists]
    BY <1>3 DEF FlowOKBut, SessionInv, RestType
  <2>4. /\ FlowOK(Closed(list, c), g)
        /\ SameOthers(Closed(list, c), CancelOutput(f(back), c), g)
    BY <1>5, <2>3, CloseFlowsOK
  <2>5. list' \in [Clients -> Lists] /\ FlowOK(list', g)
    BY <1>5, <2>2, <2>4 DEF RestType
  <2>6. FlowOK(list', h) /\ SameOthers(list', g, h)
    BY <1>5, <2>5, AnnounceOK
  <2>7. FlowOK(list', FlowNow') /\ wr' = h.wr
    BY <1>5, <2>6, FlowBecomesOK
  <2>8. \A d \in Clients : FlagRule(list'[d], flags'[d])
    BY <1>5, <2>1 DEF SessionInv, RestType, FlagRule
  <2>9. ASSUME NEW d \in Clients
        PROVE  InputRule(list'[d], rd'[d], wr'[d], d \in killers')
    <3>1. CASE d = c
      BY <3>1, <1>1, <1>5, <2>1 DEF SessionInv, RestType, InputRule
    <3>2. CASE d # c
      <4>1. CancelOutput(f(back), c).wr[d] = wr[d]
        BY <3>2, <1>3 DEF CancelOutput, FlowType
      <4>2. list'[d] # "normal" => wr'[d] = wr[d]
        BY <1>5, <2>4, <2>6, <2>7, <4>1 DEF SameOthers
      <4>3. InputRule(list[d], rd[d], wr[d], d \in killers)
        BY DEF SessionInv
      <4> QED BY <3>2, <1>5, <2>1, <4>2, <4>3 DEF SessionInv, RestType, InputRule
    <3> QED BY <3>1, <3>2
  <2> QED BY <2>2, <2>7, <2>8, <2>9 DEF SessionInv
<1> QED
  BY <1>2, <1>4, <1>5 DEF ReadClientStartupInfoCompleted

-----------------------------------------------------------------------------
(* A client's input. *)

LEMMA FilterMessageOK ==
    ASSUME SessionInv, NEW c \in Clients, rd[c] = "cmd", list[c] = "normal",
           c \notin killers, FilterMessage(c)
    PROVE  SessionInv'
<1>1. UNCHANGED <<childVars, killers, left>>
  BY DEF FilterMessage
<1>2. FlowOK(list, FlowNow) /\ FlowNow.wr = wr /\ list \in [Clients -> Lists]
  BY FlowNowFor DEF SessionInv, RestType
<1>3. PICK g : /\ g \in Announce(list, FlowNow) \/ g \in StartServerToClientFlow(list, FlowNow)
               /\ \/ FlowBecomes(g) /\ UNCHANGED <<list, flags, rd>>
                  \/ CloseClient(c, ReadDone(c), g)
  BY DEF FilterMessage
<1>4. FlowOK(list, g) /\ SameOthers(list, FlowNow, g)
  BY <1>2, <1>3, AnnounceOK, WalkOK
<1>5. CASE FlowBecomes(g) /\ UNCHANGED <<list, flags, rd>>
  <2>1. RestType'
    BY <1>1, <1>5 DEF SessionInv, RestType, childVars
  <2>2. \A d \in Clients \ {c} : list[d] # "normal" => g.wr[d] = wr[d]
    BY <1>2, <1>4 DEF SameOthers
  <2>3. InputRule(list[c], rd'[c], g.wr[c], c \in killers')
    BY <1>1, <1>5 DEF InputRule
  <2> QED BY <1>1, <1>4, <1>5, <2>1, <2>2, <2>3, SameListOK
<1>6. CASE CloseClient(c, ReadDone(c), g)
  <2>1. FlowFor(c, g)
    BY <1>2, <1>4 DEF FlowFor, FlowOK, FlowOKBut, SameOthers
  <2>2. /\ ReadDone(c) \in [Clients -> ReadOps] /\ ReadDone(c)[c] = "none"
        /\ \A d \in Clients \ {c} : ReadDone(c)[d] = rd[d]
        /\ left' \in [Clients -> Nat]
    BY <1>1 DEF SessionInv, RestType, ReadDone
  <2> QED BY <1>1, <1>6, <2>1, <2>2, CloseClientOK
<1> QED
  BY <1>3, <1>5, <1>6

LEMMA FilterLineOK ==
    ASSUME SessionInv, NEW c \in Clients, rd[c] = "cmd", list[c] = "normal",
           c \notin killers, FilterLine(c)
    PROVE  SessionInv'
<1>1. UNCHANGED <<childVars, list, flags, killers, left>>
  BY DEF FilterLine
<1>2. FlowOK(list, FlowNow) /\ FlowNow.wr = wr /\ list \in [Clients -> Lists]
  BY FlowNowFor DEF SessionInv, RestType
<1>3. PICK g \in Announce(list, FlowNow) : FlowBecomes(g)
  BY DEF FilterLine
<1>4. FlowOK(list, g) /\ SameOthers(list, FlowNow, g)
  BY <1>2, <1>3, AnnounceOK
<1>5. PICK op \in {"none", "child"} : rd' = [ReadDone(c) EXCEPT ![c] = Issue(op, @)]
  BY DEF FilterLine
<1>6. rd' = [rd EXCEPT ![c] = op]
  BY <1>5 DEF ReadDone, Issue, SessionInv, RestType
<1>7. RestType'
  BY <1>1, <1>6 DEF SessionInv, RestType, childVars
<1>8. \A d \in Clients \ {c} : list[d] # "normal" => g.wr[d] = wr[d]
  BY <1>2, <1>4 DEF SameOthers
<1>9. /\ InputRule(list[c], rd'[c], g.wr[c], c \in killers')
      /\ \A d \in Clients \ {c} : rd'[d] = rd[d] /\ (d \in killers' => d \in killers)
  BY <1>1, <1>6 DEF InputRule, SessionInv, RestType
<1> QED
  BY <1>1, <1>3, <1>4, <1>7, <1>8, <1>9, SameListOK

(* Every pending write to the child turns cancelled: no rule tells the two
   apart. *)
LEMMA CancelChildWritesOK ==
    ASSUME NEW r \in [Clients -> ReadOps]
    PROVE  CancelChildWrites(r) \in [Clients -> ReadOps]
BY DEF CancelChildWrites

LEMMA CancelledInputOK ==
    ASSUME NEW r \in [Clients -> ReadOps], NEW d \in Clients, NEW l, NEW w, NEW k,
           InputRule(l, r[d], w, k)
    PROVE  InputRule(l, CancelChildWrites(r)[d], w, k)
BY DEF CancelChildWrites, InputRule

LEMMA FilterKillOK ==
    ASSUME SessionInv, NEW c \in Clients, rd[c] = "cmd", list[c] = "normal",
           FilterKill(c)
    PROVE  SessionInv'
<1>1. CASE /\ childIn' = "closed"
           /\ rd' = CancelChildWrites(ReadDone(c))
           /\ killers' = killers \cup {c}
           /\ UNCHANGED <<flowVars, childAlive, child, childOff, list, flags, left>>
  <2>1. ReadDone(c) \in [Clients -> ReadOps] /\ ReadDone(c) = [rd EXCEPT ![c] = "none"]
    BY DEF SessionInv, RestType, ReadDone
  <2>2. RestType'
    BY <1>1, <2>1, CancelChildWritesOK DEF SessionInv, RestType
  <2>3. FlowOK(list', FlowNow') /\ wr' = wr
    BY <1>1 DEF SessionInv, FlowNow, flowVars
  <2>4. \A d \in Clients : FlagRule(list'[d], flags'[d])
    BY <1>1 DEF SessionInv
  <2>5. ASSUME NEW d \in Clients
        PROVE  InputRule(list'[d], rd'[d], wr'[d], d \in killers')
    <3>1. InputRule(list[d], ReadDone(c)[d], wr[d], d \in killers')
      <4>1. CASE d = c
        BY <4>1, <2>1 DEF InputRule, SessionInv, RestType
      <4>2. CASE d # c
        <5>1. InputRule(list[d], rd[d], wr[d], d \in killers)
          BY DEF SessionInv
        <5>2. ReadDone(c)[d] = rd[d] /\ (d \in killers' => d \in killers)
          BY <4>2, <2>1, <1>1 DEF SessionInv, RestType
        <5> QED BY <5>1, <5>2 DEF InputRule
      <4> QED BY <4>1, <4>2
    <3>2. InputRule(list[d], CancelChildWrites(ReadDone(c))[d], wr[d], d \in killers')
      BY <2>1, <3>1, CancelledInputOK
    <3> QED BY <1>1, <2>3, <3>2
  <2> QED BY <2>2, <2>3, <2>4, <2>5 DEF SessionInv
<1>2. CASE /\ childAlive' = FALSE
           /\ UNCHANGED <<flowVars, childIn, child, childOff, list, flags, rd, killers, left>>
  <2>1. RestType'
    BY <1>2 DEF SessionInv, RestType
  <2> QED BY <1>2, <2>1 DEF SessionInv, FlowNow, flowVars
<1> QED
  BY <1>1, <1>2 DEF FilterKill

LEMMA ReadClientInputCompletedOK ==
    ASSUME SessionInv, NEW c \in Clients, ReadClientInputCompleted(c)
    PROVE  SessionInv'
<1>1. list[c] = "normal" /\ rd[c] = "cmd" /\ c \notin killers
  BY LiveOK DEF ReadClientInputCompleted
<1>2. CASE /\ rd' = ReadDone(c)
           /\ UNCHANGED <<childVars, flowVars, list, flags, killers, left>>
  <2>1. rd' = [rd EXCEPT ![c] = "none"]
    BY <1>2 DEF ReadDone
  <2>2. RestType'
    BY <1>2, <2>1 DEF SessionInv, RestType, childVars
  <2>3. /\ InputRule(list[c], rd'[c], wr[c], c \in killers')
        /\ \A d \in Clients \ {c} : rd'[d] = rd[d] /\ (d \in killers' => d \in killers)
    BY <1>1, <1>2, <2>1 DEF SessionInv, RestType, InputRule
  <2> QED BY <1>2, <2>2, <2>3, OnlyInputOK
<1> QED
  BY <1>1, <1>2, ReadErrorOK, FilterMessageOK, FilterLineOK, FilterKillOK
     DEF ReadClientInputCompleted

LEMMA FilterKillReturnsOK ==
    ASSUME SessionInv, NEW c \in Clients, FilterKillReturns(c)
    PROVE  SessionInv'
<1>1. c \in killers /\ rd[c] = "none" /\ list[c] \in {"normal", "closing"}
      /\ killers' = killers \ {c} /\ UNCHANGED <<childVars, left>>
  BY DEF FilterKillReturns, SessionInv, InputRule
<1>2. CASE Live(c) /\ rd' = [rd EXCEPT ![c] = Issue("cmd", @)] /\ UNCHANGED <<flowVars, list, flags>>
  <2>1. rd' = [rd EXCEPT ![c] = "cmd"] /\ list[c] = "normal"
    BY <1>1, <1>2 DEF Issue, Live
  <2>2. RestType'
    BY <1>1, <1>2, <2>1 DEF SessionInv, RestType, childVars
  <2>3. /\ InputRule(list[c], rd'[c], wr[c], c \in killers')
        /\ \A d \in Clients \ {c} : rd'[d] = rd[d] /\ (d \in killers' => d \in killers)
    BY <1>1, <2>1 DEF SessionInv, RestType, InputRule
  <2> QED BY <1>2, <2>2, <2>3, OnlyInputOK
<1>3. CASE UNCHANGED <<flowVars, list, flags, rd>>
  <2>1. RestType'
    BY <1>1, <1>3 DEF SessionInv, RestType, childVars
  <2>2. /\ InputRule(list[c], rd'[c], wr[c], c \in killers')
        /\ \A d \in Clients \ {c} : rd'[d] = rd[d] /\ (d \in killers' => d \in killers)
    BY <1>1, <1>3 DEF SessionInv, InputRule
  <2> QED BY <1>3, <2>1, <2>2, OnlyInputOK
<1>4. CASE CloseClient(c, rd, FlowNow)
  <2>1. /\ FlowFor(c, FlowNow) /\ UNCHANGED childVars /\ killers' \subseteq killers
        /\ left' \in [Clients -> Nat]
    BY <1>1, FlowNowFor DEF SessionInv, RestType
  <2> QED BY <1>4, <2>1, CloseAfterWriteOK
<1> QED
  BY <1>2, <1>3, <1>4 DEF FilterKillReturns

LEMMA WriteChildStdInCompletedOK ==
    ASSUME SessionInv, NEW c \in Clients, WriteChildStdInCompleted(c)
    PROVE  SessionInv'
<1>1. list[c] = "normal" /\ rd[c] # "none" /\ c \notin killers
  BY LiveOK DEF WriteChildStdInCompleted
<1>2. CASE /\ rd' = [ReadDone(c) EXCEPT ![c] = Issue("cmd", @)]
           /\ UNCHANGED <<childVars, flowVars, list, flags, killers, left>>
  <2>1. rd' = [rd EXCEPT ![c] = "cmd"]
    BY <1>2 DEF Issue, ReadDone, SessionInv, RestType
  <2>2. RestType'
    BY <1>2, <2>1 DEF SessionInv, RestType, childVars
  <2>3. /\ InputRule(list[c], rd'[c], wr[c], c \in killers')
        /\ \A d \in Clients \ {c} : rd'[d] = rd[d] /\ (d \in killers' => d \in killers)
    BY <1>1, <1>2, <2>1 DEF SessionInv, RestType, InputRule
  <2> QED BY <1>2, <2>2, <2>3, OnlyInputOK
<1> QED
  BY <1>2, ReadErrorOK DEF WriteChildStdInCompleted

-----------------------------------------------------------------------------
(* A client's output. *)

(* A step that only moves a connected client's output chain on. *)
LEMMA OutputStepOK ==
    ASSUME SessionInv, NEW c \in Clients, list[c] = "normal",
           NEW g, FlowFor(c, g), FlowRule("normal", g, c), FlowBecomes(g),
           UNCHANGED <<childVars, list, flags, rd, killers>>,
           left' \in [Clients -> Nat]
    PROVE  SessionInv'
<1>1. FlowOK(list, g)
  BY DEF FlowFor, FlowOKBut, FlowOK
<1>2. \A d \in Clients \ {c} : list[d] # "normal" => g.wr[d] = wr[d]
  BY DEF FlowFor
<1>3. RestType'
  BY DEF SessionInv, RestType, childVars
<1>4. InputRule(list[c], rd'[c], g.wr[c], c \in killers')
  <2>1. InputRule(list[c], rd[c], wr[c], c \in killers)
    BY DEF SessionInv
  <2> QED BY <2>1 DEF InputRule
<1> QED
  BY <1>1, <1>2, <1>3, <1>4, SameListOK

(* A flow that differs from one only in c's chain. *)
Chain(f, c, w, k) == [f EXCEPT !.wr[c] = w, !.cbWrite[c] = k]

LEMMA FlowForChain ==
    ASSUME NEW c \in Clients, NEW f, FlowFor(c, f),
           NEW w \in WriteOps, NEW k \in Nat
    PROVE  /\ FlowFor(c, Chain(f, c, w, k))
           /\ Chain(f, c, w, k).wr[c] = w /\ Chain(f, c, w, k).cbWrite[c] = k
           /\ Chain(f, c, w, k).filePos = f.filePos
           /\ Chain(f, c, w, k).eof = f.eof
<1> DEFINE g == Chain(f, c, w, k)
<1>1. f \in FlowType
  BY DEF FlowFor, FlowOKBut
<1>2. /\ g.srv = f.srv /\ g.filePos = f.filePos /\ g.ptr = f.ptr /\ g.eof = f.eof
      /\ g.wr = [f.wr EXCEPT ![c] = w] /\ g.cbWrite = [f.cbWrite EXCEPT ![c] = k]
  BY <1>1 DEF FlowType, Chain
<1>3. g \in FlowType
  BY <1>1, <1>2 DEF FlowType, Chain
<1>4. ASSUME NEW d \in Clients \ {c}
      PROVE  FlowRule(list[d], g, d) /\ g.wr[d] = f.wr[d]
  <2>1. FlowRule(list[d], f, d)
    BY DEF FlowFor, FlowOKBut
  <2>2. /\ g.wr[d] = f.wr[d] /\ g.cbWrite[d] = f.cbWrite[d]
        /\ g.filePos = f.filePos /\ g.eof = f.eof
    BY <1>1, <1>2 DEF FlowType
  <2> QED BY <2>1, <2>2 DEF FlowRule
<1>5. g.wr[c] = w /\ g.cbWrite[c] = k
  BY <1>1, <1>2 DEF FlowType
<1>6. FlowFor(c, g)
  BY <1>3, <1>4 DEF FlowFor, FlowOKBut
<1> QED
  BY <1>2, <1>5, <1>6

LEMMA ReadNextChunkOK ==
    ASSUME SessionInv, NEW c \in Clients, list[c] = "normal",
           NEW f, FlowFor(c, f), f.wr[c] = "none", f.cbWrite[c] = 0,
           ReadNextChunk(c, f), UNCHANGED <<childVars, killers>>,
           left' \in [Clients -> Nat]
    PROVE  SessionInv'
<1>1. f \in FlowType /\ f.filePos[c] \in Nat /\ f.ptr \in Nat /\ f.eof \in Nat
  BY DEF FlowFor, FlowOKBut, FlowType
<1>2. CASE FlowBecomes(StartReadTempFile(f, c)) /\ UNCHANGED <<list, flags, rd>>
  <2> DEFINE k == Lesser(BUFFSIZE, f.ptr - f.filePos[c])
             g == Chain(f, c, "temp", k)
  <2>1. CASE Behind(f, c) /\ f.filePos[c] < f.eof
    <3>1. k \in Nat \ {0}
      BY <1>1, <2>1, BuffsizeAssumption DEF Behind, Lesser
    <3>2. StartReadTempFile(f, c) = g
      BY <2>1 DEF StartReadTempFile, Issue, Chain
    <3>3. /\ FlowFor(c, g) /\ g.wr[c] = "temp" /\ g.cbWrite[c] = k
          /\ g.filePos = f.filePos /\ g.eof = f.eof
      <4> HIDE DEF k
      <4>1. FlowFor(c, g)
        BY <3>1, FlowForChain
      <4>2. g.wr[c] = "temp"
        BY <3>1, FlowForChain
      <4>3. g.cbWrite[c] = k
        BY <3>1, FlowForChain
      <4>4. g.filePos = f.filePos
        BY <3>1, FlowForChain
      <4>5. g.eof = f.eof
        BY <3>1, FlowForChain
      <4> QED BY <4>1, <4>2, <4>3, <4>4, <4>5
    <3>4. FlowRule("normal", g, c)
      BY <2>1, <3>1, <3>3 DEF FlowRule, OutputRule
    <3>5. FlowBecomes(g)
      BY <1>2, <3>2
    <3> QED BY <1>2, <3>3, <3>4, <3>5, OutputStepOK
  <2>2. CASE ~(Behind(f, c) /\ f.filePos[c] < f.eof)
    <3>1. StartReadTempFile(f, c) = f
      BY <2>2 DEF StartReadTempFile
    <3>2. FlowRule("normal", f, c)
      BY DEF FlowRule, OutputRule
    <3>3. FlowBecomes(f)
      BY <1>2, <3>1
    <3> QED BY <1>2, <3>2, <3>3, OutputStepOK
  <2> QED BY <2>1, <2>2
<1>3. CASE CloseClient(c, rd, f)
  BY <1>3, CloseAfterWriteOK
<1> QED
  BY <1>2, <1>3 DEF ReadNextChunk

(* Whatever the filter makes of m units, the chain goes on or the client is
   closed. *)
LEMMA StartWriteSessionOutputOK ==
    ASSUME SessionInv, NEW c \in Clients, list[c] = "normal",
           NEW f, FlowFor(c, f), f.wr[c] = "none", NEW m \in Nat,
           StartWriteSessionOutput(c, f, m), UNCHANGED <<childVars, killers>>
    PROVE  SessionInv'
<1>0. left \in [Clients -> Nat] /\ f \in FlowType
  BY DEF SessionInv, RestType, FlowFor, FlowOKBut
<1>1. ASSUME NEW k \in 1..m,
             left' = [left EXCEPT ![c] = m - k],
             FlowBecomes([f EXCEPT !.wr[c] = Issue("writenext", @), !.cbWrite[c] = k]),
             UNCHANGED <<list, flags, rd>>
      PROVE  SessionInv'
  <2> DEFINE g == Chain(f, c, "writenext", k)
  <2>1. FlowBecomes(g)
    BY <1>1 DEF Issue, Chain
  <2>2. FlowFor(c, g) /\ g.wr[c] = "writenext" /\ g.cbWrite[c] = k
    <3>1. FlowFor(c, g)
      BY FlowForChain
    <3>2. g.wr[c] = "writenext"
      BY FlowForChain
    <3>3. g.cbWrite[c] = k
      BY FlowForChain
    <3> QED BY <3>1, <3>2, <3>3
  <2>3. FlowRule("normal", g, c)
    BY <2>2 DEF FlowRule, OutputRule
  <2>4. left' \in [Clients -> Nat]
    BY <1>0, <1>1
  <2> QED BY <1>1, <2>1, <2>2, <2>3, <2>4, OutputStepOK
<1>2. CASE /\ m > 0
           /\ left' = [left EXCEPT ![c] = 0]
           /\ FlowBecomes([f EXCEPT !.wr[c] = Issue("readnext", @), !.cbWrite[c] = m])
           /\ UNCHANGED <<list, flags, rd>>
  <2> DEFINE g == Chain(f, c, "readnext", m)
  <2>1. FlowBecomes(g)
    BY <1>2 DEF Issue, Chain
  <2>2. FlowFor(c, g) /\ g.wr[c] = "readnext" /\ g.cbWrite[c] = m
    <3>1. FlowFor(c, g)
      BY FlowForChain
    <3>2. g.wr[c] = "readnext"
      BY FlowForChain
    <3>3. g.cbWrite[c] = m
      BY FlowForChain
    <3> QED BY <3>1, <3>2, <3>3
  <2>3. FlowRule("normal", g, c)
    BY <1>2, <2>2 DEF FlowRule, OutputRule
  <2>4. left' \in [Clients -> Nat]
    BY <1>0, <1>2
  <2> QED BY <1>2, <2>1, <2>2, <2>3, <2>4, OutputStepOK
<1>3. CASE /\ left' = [left EXCEPT ![c] = 0]
           /\ ReadNextChunk(c, [f EXCEPT !.cbWrite[c] = 0])
  <2> DEFINE g == Chain(f, c, "none", 0)
  <2>1. g = [f EXCEPT !.cbWrite[c] = 0]
    BY <1>0 DEF FlowType, Chain
  <2>2. FlowFor(c, g) /\ g.wr[c] = "none" /\ g.cbWrite[c] = 0
    <3>1. FlowFor(c, g)
      BY FlowForChain
    <3>2. g.wr[c] = "none"
      BY FlowForChain
    <3>3. g.cbWrite[c] = 0
      BY FlowForChain
    <3> QED BY <3>1, <3>2, <3>3
  <2>3. left' \in [Clients -> Nat] /\ ReadNextChunk(c, g)
    BY <1>0, <1>3, <2>1
  <2> QED BY <2>2, <2>3, ReadNextChunkOK
<1>4. CASE left' = [left EXCEPT ![c] = 0] /\ CloseClient(c, rd, f)
  <2>1. left' \in [Clients -> Nat]
    BY <1>0, <1>4
  <2> QED BY <1>4, <2>1, CloseAfterWriteOK
<1> QED
  BY <1>1, <1>2, <1>3, <1>4 DEF StartWriteSessionOutput

(* The flow after c's write or temp file read has completed. *)
LEMMA WriteDoneNormal ==
    ASSUME SessionInv, NEW c \in Clients
    PROVE  /\ FlowFor(c, WriteDone(c)) /\ WriteDone(c).wr[c] = "none"
           /\ filePos[c] \in Nat /\ eof \in Nat /\ cbWrite[c] \in Nat
           /\ wr[c] = "temp" => filePos[c] < eof
BY WriteDoneFor DEF SessionInv, FlowOK, FlowType, FlowRule, FlowNow

LEMMA ReadTempFileCompletedOK ==
    ASSUME SessionInv, NEW c \in Clients, ReadTempFileCompleted(c)
    PROVE  SessionInv'
<1>1. list[c] = "normal" /\ wr[c] = "temp"
  BY LiveOK DEF ReadTempFileCompleted
<1> DEFINE n == Lesser(cbWrite[c], eof - filePos[c])
           f == [WriteDone(c) EXCEPT !.filePos[c] = @ + n]
<1>2. n \in Nat
  BY <1>1, WriteDoneNormal DEF Lesser
<1>3. /\ FlowFor(c, WriteDone(c)) /\ WriteDone(c) \in FlowType
      /\ WriteDone(c) = [srv |-> srv, wr |-> [wr EXCEPT ![c] = "none"],
                         cbWrite |-> cbWrite, filePos |-> filePos,
                         ptr |-> ptr, eof |-> eof]
  BY WriteDoneFor DEF FlowFor, FlowOKBut
<1>4. f = [srv |-> srv, wr |-> [wr EXCEPT ![c] = "none"], cbWrite |-> cbWrite,
           filePos |-> [filePos EXCEPT ![c] = @ + n], ptr |-> ptr, eof |-> eof]
  BY <1>3
<1>5. f \in FlowType /\ f.wr[c] = "none"
  BY <1>2, <1>3, <1>4 DEF FlowType
<1>6. ASSUME NEW d \in Clients \ {c}
      PROVE  FlowRule(list[d], f, d) /\ f.wr[d] = WriteDone(c).wr[d]
  BY <1>3, <1>4 DEF FlowType, FlowFor, FlowOKBut, FlowRule
<1>7. FlowFor(c, f)
  BY <1>3, <1>5, <1>6 DEF FlowFor, FlowOKBut
<1>8. CASE /\ StartWriteSessionOutput(c, f, n)
           /\ UNCHANGED <<childVars, killers>>
  BY <1>1, <1>2, <1>5, <1>7, <1>8, StartWriteSessionOutputOK
<1> QED
  BY <1>8, WriteErrorOK DEF ReadTempFileCompleted

LEMMA WriteSessionOutputCompletedWriteNextOK ==
    ASSUME SessionInv, NEW c \in Clients, WriteSessionOutputCompletedWriteNext(c)
    PROVE  SessionInv'
<1>1. list[c] = "normal" /\ wr[c] = "writenext"
  BY LiveOK DEF WriteSessionOutputCompletedWriteNext
<1>2. left[c] \in Nat /\ FlowFor(c, WriteDone(c)) /\ WriteDone(c).wr[c] = "none"
  BY WriteDoneNormal DEF SessionInv, RestType
<1>3. CASE /\ StartWriteSessionOutput(c, WriteDone(c), left[c])
           /\ UNCHANGED <<childVars, killers>>
  BY <1>1, <1>2, <1>3, StartWriteSessionOutputOK
<1> QED
  BY <1>3, WriteErrorOK, ErrorExitOK
     DEF WriteSessionOutputCompletedWriteNext, OutputWritten

LEMMA WriteSessionOutputCompletedReadNextOK ==
    ASSUME SessionInv, NEW c \in Clients, WriteSessionOutputCompletedReadNext(c)
    PROVE  SessionInv'
<1>1. list[c] = "normal"
  BY LiveOK DEF WriteSessionOutputCompletedReadNext
<1>2. FlowFor(c, WriteDone(c)) /\ WriteDone(c).wr[c] = "none" /\ WriteDone(c) \in FlowType
  BY WriteDoneNormal DEF FlowFor, FlowOKBut
<1> DEFINE d == WriteDone(c)
           f == [d EXCEPT !.cbWrite[c] = 0]
<1>3. f = Chain(d, c, "none", 0)
  BY <1>2 DEF FlowType, Chain
<1>4. FlowFor(c, f) /\ f.wr[c] = "none" /\ f.cbWrite[c] = 0
  <2>0. FlowFor(c, d)
    BY <1>2
  <2> HIDE DEF d
  <2>1. FlowFor(c, Chain(d, c, "none", 0))
    BY <2>0, FlowForChain
  <2>2. Chain(d, c, "none", 0).wr[c] = "none"
    BY <2>0, FlowForChain
  <2>3. Chain(d, c, "none", 0).cbWrite[c] = 0
    BY <2>0, FlowForChain
  <2> QED BY <1>3, <2>1, <2>2, <2>3
<1>5. CASE /\ ReadNextChunk(c, f)
           /\ UNCHANGED <<childVars, killers, left>>
  <2>1. left' \in [Clients -> Nat]
    BY <1>5 DEF SessionInv, RestType
  <2> QED BY <1>1, <1>4, <1>5, <2>1, ReadNextChunkOK
<1> QED
  BY <1>5, WriteErrorOK, ErrorExitOK
     DEF WriteSessionOutputCompletedReadNext, OutputWritten

-----------------------------------------------------------------------------
(* The child's output. *)

(* A step of the child's chain: it may walk the clients, and may close the
   child's input. *)
LEMMA ChildStepOK ==
    ASSUME SessionInv, NEW g, FlowOK(list, g), SameOthers(list, FlowNow, g),
           FlowBecomes(g), UNCHANGED <<list, flags, killers>>, RestType',
           rd' = rd \/ rd' = CancelChildWrites(rd)
    PROVE  SessionInv'
<1>1. FlowOK(list', FlowNow') /\ wr' = g.wr
  BY FlowBecomesOK
<1>2. ASSUME NEW d \in Clients
      PROVE  InputRule(list'[d], rd'[d], wr'[d], d \in killers')
  <2>1. InputRule(list[d], rd[d], wr[d], d \in killers)
    BY DEF SessionInv
  <2>2. list[d] # "normal" => g.wr[d] = wr[d]
    BY DEF SameOthers, FlowNow
  <2>3. InputRule(list[d], rd[d], g.wr[d], d \in killers)
    BY <2>1, <2>2 DEF InputRule
  <2>4. rd \in [Clients -> ReadOps]
    BY DEF SessionInv, RestType
  <2>5. InputRule(list[d], CancelChildWrites(rd)[d], g.wr[d], d \in killers)
    BY <2>3, <2>4, CancelledInputOK
  <2> QED BY <1>1, <2>3, <2>5
<1> QED
  BY <1>1, <1>2 DEF SessionInv

LEMMA FlowNowStays ==
    ASSUME SessionInv, UNCHANGED flowVars
    PROVE  /\ FlowOK(list, FlowNow) /\ SameOthers(list, FlowNow, FlowNow)
           /\ FlowBecomes(FlowNow) /\ FlowNow' = FlowNow
BY DEF SessionInv, SameOthers, FlowBecomes, FlowNow, flowVars

LEMMA ReadChildOutputCompletedOK ==
    ASSUME SessionInv, ReadChildOutputCompleted
    PROVE  SessionInv'
<1>1. CASE /\ child' \in ChildOps /\ childOff' \in Nat
           /\ UNCHANGED <<childIn, flowVars, rd>>
  <2>1. RestType' /\ UNCHANGED <<list, flags, killers>>
    BY <1>1 DEF ReadChildOutputCompleted, SessionInv, RestType
  <2> QED BY <1>1, <2>1, FlowNowStays, ChildStepOK
<1>2. CASE StopChildInput /\ UNCHANGED <<childOff, flowVars>>
  <2>1. CancelChildWrites(rd) \in [Clients -> ReadOps]
    BY CancelChildWritesOK DEF SessionInv, RestType
  <2>2. RestType' /\ UNCHANGED <<list, flags, killers>>
    BY <1>2, <2>1 DEF ReadChildOutputCompleted, StopChildInput, SessionInv, RestType
  <2>3. rd' = CancelChildWrites(rd)
    BY <1>2 DEF StopChildInput
  <2> QED BY <1>2, <2>2, <2>3, FlowNowStays, ChildStepOK
<1>3. ptr \in Nat /\ childOff \in Nat
  BY DEF SessionInv, RestType, FlowOK, FlowType, FlowNow
<1> QED
  BY <1>1, <1>2, <1>3, ErrorExitOK DEF ReadChildOutputCompleted

LEMMA WriteTempFileCompletedOK ==
    ASSUME SessionInv, WriteTempFileCompleted
    PROVE  SessionInv'
<1>0. /\ CancelChildWrites(rd) \in [Clients -> ReadOps] /\ childOff \in Nat
      /\ list \in [Clients -> Lists]
  BY CancelChildWritesOK DEF SessionInv, RestType
<1>1. CASE /\ \E g \in StartServerToClientFlow(list, AfterWrite(FlowNow, childOff)) :
                FlowBecomes(g)
           /\ \/ child' = "read" /\ UNCHANGED <<childIn, rd>>
              \/ StopChildInput
           /\ UNCHANGED childOff
  <2>1. PICK g \in StartServerToClientFlow(list, AfterWrite(FlowNow, childOff)) :
               FlowBecomes(g)
    BY <1>1
  <2>2. /\ FlowOK(list, AfterWrite(FlowNow, childOff))
        /\ SameOthers(list, FlowNow, AfterWrite(FlowNow, childOff))
    BY <1>0, AfterWriteOK DEF SessionInv
  <2>3. FlowOK(list, g) /\ SameOthers(list, AfterWrite(FlowNow, childOff), g)
    BY <1>0, <2>1, <2>2, WalkOK
  <2>4. SameOthers(list, FlowNow, g)
    BY <2>2, <2>3 DEF SameOthers
  <2>5. /\ RestType' /\ UNCHANGED <<list, flags, killers>>
        /\ rd' = rd \/ rd' = CancelChildWrites(rd)
    BY <1>0, <1>1 DEF WriteTempFileCompleted, StopChildInput, SessionInv, RestType
  <2> QED BY <2>1, <2>3, <2>4, <2>5, ChildStepOK
<1>2. CASE StopChildInput /\ UNCHANGED <<childOff, flowVars>>
  <2>1. /\ RestType' /\ UNCHANGED <<list, flags, killers>>
        /\ rd' = CancelChildWrites(rd)
    BY <1>0, <1>2 DEF WriteTempFileCompleted, StopChildInput, SessionInv, RestType
  <2> QED BY <1>2, <2>1, FlowNowStays, ChildStepOK
<1> QED
  BY <1>1, <1>2, ErrorExitOK DEF WriteTempFileCompleted

-----------------------------------------------------------------------------
(* Clients on their way out. *)

LEMMA ReadCompletedClosingOK ==
    ASSUME SessionInv, NEW c \in Clients, ReadCompletedClosing(c)
    PROVE  SessionInv'
<1>1. /\ list[c] = "closing" /\ rd' = [rd EXCEPT ![c] = "none"]
      /\ UNCHANGED <<childVars, flowVars, list, flags, killers, left>>
  BY DEF ReadCompletedClosing, ReadDone
<1>2. RestType'
  BY <1>1 DEF SessionInv, RestType, childVars
<1>3. /\ InputRule(list[c], rd'[c], wr[c], c \in killers')
      /\ \A d \in Clients \ {c} : rd'[d] = rd[d] /\ (d \in killers' => d \in killers)
  BY <1>1 DEF SessionInv, RestType, InputRule
<1> QED
  BY <1>1, <1>2, <1>3, OnlyInputOK

LEMMA WriteCompletedClosingOK ==
    ASSUME SessionInv, NEW c \in Clients, WriteCompletedClosing(c)
    PROVE  SessionInv'
<1>1. /\ list[c] = "closing" /\ FlowBecomes(WriteDone(c))
      /\ UNCHANGED <<childVars, list, flags, rd, killers, left>>
  BY DEF WriteCompletedClosing
<1>2. FlowFor(c, WriteDone(c)) /\ WriteDone(c).wr[c] = "none"
  BY WriteDoneNormal
<1>3. FlowRule(list[c], WriteDone(c), c)
  BY <1>1, <1>2 DEF FlowRule, OutputRule
<1>4. FlowOK(list, WriteDone(c))
  BY <1>2, <1>3 DEF FlowFor, FlowOKBut, FlowOK
<1>5. RestType'
  BY <1>1 DEF SessionInv, RestType, childVars
<1>6. /\ InputRule(list[c], rd'[c], WriteDone(c).wr[c], c \in killers')
      /\ \A d \in Clients \ {c} : rd'[d] = rd[d] /\ (d \in killers' => d \in killers)
      /\ \A d \in Clients \ {c} : list[d] # "normal" => WriteDone(c).wr[d] = wr[d]
  BY <1>1, <1>2 DEF SessionInv, InputRule, FlowFor
<1> QED
  BY <1>1, <1>4, <1>5, <1>6, SameListOK

LEMMA CompletedFreedOK ==
    ASSUME SessionInv, NEW c \in Clients, CompletedFreed(c)
    PROVE  SessionInv'
<1>1. list[c] = "freed" /\ wr[c] = "none"
  BY DEF CompletedFreed, SessionInv, FlowOK, FlowRule, OutputRule, FlowNow
<1>2. /\ rd' = [rd EXCEPT ![c] = "none"] /\ wr' = wr /\ srv' \in {srv, "wild"}
      /\ UNCHANGED <<childVars, cbWrite, filePos, ptr, eof, list, flags, killers, left>>
  BY <1>1 DEF CompletedFreed, ReadDone
<1> DEFINE g == [srv |-> srv', wr |-> wr, cbWrite |-> cbWrite, filePos |-> filePos,
                 ptr |-> ptr, eof |-> eof]
<1>3. FlowBecomes(g)
  BY <1>2 DEF FlowBecomes
<1>4. FlowOK(list, g)
  <2>1. g \in FlowType
    BY <1>2 DEF SessionInv, FlowOK, FlowType, FlowNow
  <2> QED BY <2>1 DEF SessionInv, FlowOK, FlowRule, FlowNow
<1>5. RestType'
  BY <1>2 DEF SessionInv, RestType, childVars
<1>6. /\ InputRule(list[c], rd'[c], g.wr[c], c \in killers')
      /\ \A d \in Clients \ {c} : rd'[d] = rd[d] /\ (d \in killers' => d \in killers)
  BY <1>1, <1>2 DEF SessionInv, RestType, InputRule
<1> QED
  BY <1>2, <1>3, <1>4, <1>5, <1>6, SameListOK

(* The sweep: no completion is queued, so what was cancelled has completed. *)
LEMMA WaitTimedOutOK ==
    ASSUME SessionInv, WaitTimedOut
    PROVE  SessionInv'
<1>1. /\ killers = {} /\ UNCHANGED <<childVars, flowVars, flags, rd, killers, left>>
      /\ \A c \in Clients : rd[c] # "cancelled" /\ wr[c] # "cancelled"
      /\ list' = [c \in Clients |-> IF list[c] = "closing" THEN "freed" ELSE list[c]]
  BY DEF WaitTimedOut, InMainLoop, NothingQueued
<1>2. RestType'
  BY <1>1 DEF SessionInv, RestType, childVars
<1>3. FlowNow' = FlowNow /\ wr' = wr
  BY <1>1 DEF FlowNow, flowVars
<1>4. ASSUME NEW c \in Clients PROVE FlowRule(list'[c], FlowNow, c)
  <2>1. FlowRule(list[c], FlowNow, c) /\ FlowNow.wr = wr
    BY DEF SessionInv, FlowOK, FlowNow
  <2> QED BY <1>1, <2>1 DEF FlowRule, OutputRule
<1>5. \A c \in Clients : FlagRule(list'[c], flags'[c])
  BY <1>1 DEF SessionInv, FlagRule
<1>6. \A c \in Clients : InputRule(list'[c], rd'[c], wr'[c], c \in killers')
  BY <1>1, <1>3 DEF SessionInv, InputRule
<1> QED
  BY <1>2, <1>3, <1>4, <1>5, <1>6 DEF SessionInv, FlowOK

LEMMA ShutDownOK ==
    ASSUME SessionInv, ShutDown
    PROVE  SessionInv'
<1> DEFINE r == CancelChildWrites(rd)
<1>1. /\ killers = {} /\ srv' = "draining" /\ childIn' = "closed"
      /\ child' = IF child = "read" THEN "readcancelled" ELSE child
      /\ list' = [c \in Clients |-> IF list[c] = "normal" THEN "closing" ELSE list[c]]
      /\ flags' = [c \in Clients |-> IF list[c] = "normal" THEN flags[c] \cup {"CLOSING"}
                                     ELSE flags[c]]
      /\ rd' = [c \in Clients |-> IF list[c] = "normal" /\ r[c] \in OwnReads
                                  THEN "cancelled" ELSE r[c]]
      /\ wr' = [c \in Clients |-> IF list[c] = "normal" /\ wr[c] # "none"
                                  THEN "cancelled" ELSE wr[c]]
      /\ UNCHANGED <<childAlive, childOff, killers, left, cbWrite, filePos, ptr, eof>>
  BY DEF ShutDown, InMainLoop
<1>2. r \in [Clients -> ReadOps] /\ rd \in [Clients -> ReadOps]
  BY CancelChildWritesOK DEF SessionInv, RestType
<1> HIDE DEF r
<1>3. RestType'
  BY <1>1, <1>2 DEF SessionInv, RestType
<1>4. FlowNow' = [srv |-> "draining", wr |-> wr', cbWrite |-> cbWrite,
                  filePos |-> filePos, ptr |-> ptr, eof |-> eof]
  BY <1>1 DEF FlowNow
<1>5. /\ wr \in [Clients -> WriteOps] /\ cbWrite \in [Clients -> Nat]
      /\ filePos \in [Clients -> Nat] /\ ptr \in Nat /\ eof \in Nat
      /\ \A c \in Clients : /\ OutputRule(list[c], wr[c], cbWrite[c])
                            /\ wr[c] = "temp" => filePos[c] < eof
  BY DEF SessionInv, FlowOK, FlowType, FlowRule, FlowNow
<1>6. FlowNow' \in FlowType
  <2>1. wr' \in [Clients -> WriteOps]
    BY <1>1, <1>5
  <2> QED BY <1>4, <1>5, <2>1 DEF FlowType
<1>7. ASSUME NEW c \in Clients PROVE FlowRule(list'[c], FlowNow', c)
  BY <1>1, <1>4, <1>5 DEF FlowRule, OutputRule
<1>8. \A c \in Clients : FlagRule(list'[c], flags'[c])
  BY <1>1 DEF SessionInv, FlagRule
<1>9. ASSUME NEW c \in Clients
      PROVE  InputRule(list'[c], rd'[c], wr'[c], c \in killers')
  <2>1. InputRule(list[c], rd[c], wr[c], c \in killers)
    BY DEF SessionInv
  <2>2. InputRule(list[c], r[c], wr[c], c \in killers)
    BY <1>2, <2>1, CancelledInputOK DEF r
  <2> QED BY <1>1, <2>2 DEF InputRule
<1> QED
  BY <1>3, <1>6, <1>7, <1>8, <1>9 DEF SessionInv, FlowOK

(* Steps that change only where the server is. *)
LEMMA OnlyServerOK ==
    ASSUME SessionInv, srv' \in SrvStates, child' \in ChildOps, childAlive' \in BOOLEAN,
           UNCHANGED <<childIn, childOff, list, flags, rd, killers, left, wr, cbWrite,
                       filePos, ptr, eof>>
    PROVE  SessionInv'
<1> DEFINE g == [srv |-> srv', wr |-> wr, cbWrite |-> cbWrite, filePos |-> filePos,
                 ptr |-> ptr, eof |-> eof]
<1>1. FlowBecomes(g) /\ g.wr = wr
  BY DEF FlowBecomes
<1>2. g \in FlowType
  BY DEF SessionInv, FlowOK, FlowType, FlowNow
<1>3. FlowOK(list, g) /\ SameOthers(list, FlowNow, g)
  BY <1>2 DEF SessionInv, FlowOK, FlowRule, FlowNow, SameOthers
<1>4. RestType'
  BY DEF SessionInv, RestType
<1> QED
  BY <1>1, <1>3, <1>4, ChildStepOK

-----------------------------------------------------------------------------
(* The invariant. *)

LEMMA InitOK == Init => SessionInv
<1> SUFFICES ASSUME Init PROVE SessionInv
  OBVIOUS
<1>1. RestType
  BY ClientsAssumption DEF Init, RestType
<1>2. FlowNow \in FlowType
  BY DEF Init, FlowNow, FlowType
<1>3. ASSUME NEW c \in Clients
      PROVE  /\ FlowRule(list[c], FlowNow, c)
             /\ FlagRule(list[c], flags[c])
             /\ InputRule(list[c], rd[c], wr[c], c \in killers)
  BY DEF Init, FlowRule, OutputRule, FlagRule, InputRule, FlowNow
<1> QED
  BY <1>1, <1>2, <1>3 DEF SessionInv, FlowOK

LEMMA NextOK == SessionInv /\ [Next]_vars => SessionInv'
<1> SUFFICES ASSUME SessionInv, [Next]_vars PROVE SessionInv'
  OBVIOUS
<1>1. ASSUME NEW c \in Clients, InputCompletion(c) PROVE SessionInv'
  BY <1>1, ReadClientNameCompletedOK, ReadClientStartupInfoSizeCompletedOK,
     ReadClientStartupInfoCompletedOK, ReadClientInputCompletedOK,
     WriteChildStdInCompletedOK, ReadCompletedClosingOK DEF InputCompletion
<1>2. ASSUME NEW c \in Clients, OutputCompletion(c) PROVE SessionInv'
  BY <1>2, WriteServerReplyCompletedOK, ReadTempFileCompletedOK,
     WriteSessionOutputCompletedWriteNextOK, WriteSessionOutputCompletedReadNextOK,
     WriteCompletedClosingOK DEF OutputCompletion
<1>3. CASE Completion
  BY <1>1, <1>2, <1>3, CompletedFreedOK, ReadChildOutputCompletedOK,
     WriteTempFileCompletedOK DEF Completion, ClientCompletion, ChildCompletion
<1>4. CASE ServerStep \/ SleepAgain \/ Exit
  <2>1. CASE ChildExits \/ CloseTempFile \/ SleepAgain \/ Exit
    <3>1. /\ srv' \in SrvStates /\ child' \in ChildOps /\ childAlive' \in BOOLEAN
          /\ UNCHANGED <<childIn, childOff, list, flags, rd, killers, left, wr, cbWrite,
                         filePos, ptr, eof>>
      BY <2>1 DEF ChildExits, CloseTempFile, SleepAgain, Exit, childVars, flowVars,
                  SessionInv, RestType, FlowOK, FlowType, FlowNow
    <3> QED BY <3>1, OnlyServerOK
  <2> QED
    BY <1>4, <2>1, HandleInPipeConnectedOK, FilterKillReturnsOK, WaitTimedOutOK,
       ShutDownOK DEF ServerStep
<1>5. CASE UNCHANGED vars
  <2>1. /\ srv' \in SrvStates /\ child' \in ChildOps /\ childAlive' \in BOOLEAN
        /\ UNCHANGED <<childIn, childOff, list, flags, rd, killers, left, wr, cbWrite,
                       filePos, ptr, eof>>
    BY <1>5 DEF vars, SessionInv, RestType, FlowOK, FlowType, FlowNow
  <2> QED BY <2>1, OnlyServerOK
<1> QED
  BY <1>3, <1>4, <1>5 DEF Next, Ended

(* Whatever completes, fails, joins or leaves, in whatever order, every node's
   list, flags, input chain and output chain obey the rules above. *)
THEOREM SessionInvariant == Spec => []SessionInv
<1>1. Init => SessionInv
  BY InitOK
<1>2. SessionInv /\ [Next]_vars => SessionInv'
  BY NextOK
<1> QED
  BY <1>1, <1>2, PTL DEF Spec

(* Every step says whether a completion routine ran. *)
LEMMA RanType == Spec => [](ran \in BOOLEAN)
<1>1. Init => ran \in BOOLEAN
  BY DEF Init
<1>2. ran \in BOOLEAN /\ [Next]_vars => (ran \in BOOLEAN)'
  BY DEF Next, Noted, SleepAgain, Exit, Ended, vars
<1> QED
  BY <1>1, <1>2, PTL DEF Spec

(* The types of the sessions' variables hold throughout. *)
THEOREM TypesHold == Spec => []TypeOK
<1>1. SessionInv /\ ran \in BOOLEAN => TypeOK
  BY DEF SessionInv, RestType, TypeOK, FlowOK, FlowType, FlowNow
<1> QED
  BY <1>1, SessionInvariant, RanType, PTL

(* No OVERLAPPED ever carries two operations: not when a walk of the client
   list meets a chain in progress, and not when the write to the child, the
   next command's read and a nested completion share ReadOverlapped. *)
THEOREM NoOverlap == Spec => []OverlappedExclusive
<1>1. SessionInv => OverlappedExclusive
  <2> SUFFICES ASSUME SessionInv, NEW c \in Clients
               PROVE  rd[c] # "overlap" /\ wr[c] # "overlap"
    BY DEF OverlappedExclusive
  <2>1. list[c] \in Lists
    BY DEF SessionInv, RestType
  <2>2. InputRule(list[c], rd[c], wr[c], c \in killers)
    BY DEF SessionInv
  <2>3. OutputRule(list[c], wr[c], cbWrite[c])
    BY DEF SessionInv, FlowOK, FlowRule, FlowNow
  <2> QED BY <2>1, <2>2, <2>3 DEF InputRule, OutputRule
<1> QED
  BY <1>1, SessionInvariant, PTL

(* The handshake reads and writes in turn, as ReadClientStartupInfoCompleted,
   which finds the size it asked for in WriteBuffer, relies on. *)
THEOREM HandshakeInTurn == Spec => []HandshakeHalfDuplex
<1>1. SessionInv => HandshakeHalfDuplex
  BY DEF SessionInv, InputRule, HandshakeHalfDuplex
<1> QED
  BY <1>1, SessionInvariant, PTL

(* cbWrite tells StartServerToClientFlow the truth about a connected client's
   output chain. *)
THEOREM ChainFlag == Spec => []ChainFlagAgrees
<1>1. SessionInv => ChainFlagAgrees
  BY DEF SessionInv, FlowOK, FlowRule, OutputRule, FlowNow, ChainFlagAgrees
<1> QED
  BY <1>1, SessionInvariant, PTL

(* A node's flags name the list it is on, so CloseClient unlinks it under the
   critical section of the list it is linked in. *)
THEOREM FlagsNameList == Spec => []FlagsMatchList
<1>1. SessionInv => FlagsMatchList
  BY DEF SessionInv, FlagRule, FlagsMatchList
<1> QED
  BY <1>1, SessionInvariant, PTL

(* The sweep frees no node whose own pipes or temp file handle have I/O
   pending; a write to the child is all that can outlive a node. *)
THEOREM FreedIdleButChild == Spec => []FreedOnlyChildWrite
<1>1. SessionInv => FreedOnlyChildWrite
  BY DEF SessionInv, FlowOK, FlowRule, OutputRule, InputRule, FlowNow,
         FreedOnlyChildWrite
<1> QED
  BY <1>1, SessionInvariant, PTL

=============================================================================
