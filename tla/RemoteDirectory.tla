--------------------------- MODULE RemoteDirectory ---------------------------
(***************************************************************************)
(* How remote.exe servers make themselves known (src/remote/srvad.c) and   *)
(* how the directory service remoteds keeps a table of them                *)
(* (src/remote/remoteds.c).                                                *)
(*                                                                         *)
(* A server sends the same message again and again while it runs and       *)
(* another when it ends.  The mailslot, external, broadcasts a message on  *)
(* several transports: copies are lost, doubled and overtake each other.   *)
(***************************************************************************)
EXTENDS Integers, Sequences, Bags

CONSTANTS
  Servers,
  NoServer,     \* a slot whose nPID is zero
  Transports,   \* how many copies of a message may arrive
  AgeLimit,     \* the 12 hours of CleanupThread, in ticks
  MaxOnAir,     \* bound: copies on their way
  MaxWrites,    \* bound: writes of one server that overlap
  MaxFailures   \* bound: calls that fail

ASSUME NoServerAssumption == NoServer \notin Servers
ASSUME LimitsAssumption ==
  {Transports, AgeLimit, MaxWrites, MaxFailures} \subseteq Nat

VARIABLES
  life,         \* each server: "up" since InitAd, or "gone"
  open,         \* hMailslot # INVALID_HANDLE_VALUE
  writes,       \* writes on olMailslot that are not completed
  sending,      \* bSendingToMailslot
  onAir,        \* copies of messages on their way
  last,         \* the last message remoteds took, in the one of rgBuf not read into
  table,        \* Table[0] .. Table[nTableSize - 1], each [s: server, age: of its time]
  hiWater,      \* nTableHiWater
  liNow,        \* ticks since CleanupThread took liNow, or Asleep
  silent,       \* history: ticks since remoteds read a message of a server it lists,
                \* or Dropped: it passed one over as a duplicate since it last took one
  failures

server == <<life, open, writes, sending>>
dir    == <<last, table, hiWater>>
vars   == <<server, onAir, dir, liNow, silent, failures>>

Asleep == -1
Old == AgeLimit + 2        \* ages are not counted further
Dropped == -1

Ad(s)  == [s |-> s, bye |-> FALSE]
Bye(s) == [s |-> s, bye |-> TRUE]
NoMessage == Ad(NoServer)
Messages == {Ad(s) : s \in Servers} \cup {Bye(s) : s \in Servers}

Listed(s) == \E k \in DOMAIN table : table[k].s = s
Empty == [s |-> NoServer, age |-> 0]
Slots == 0 .. hiWater
Entry(i) == table[i + 1]

Init ==
  /\ life = [s \in Servers |-> "up"]
  /\ open = [s \in Servers |-> FALSE]
  /\ writes = [s \in Servers |-> 0]
  /\ sending = [s \in Servers |-> FALSE]
  /\ onAir = EmptyBag
  /\ last = NoMessage
  /\ table = <<Empty>> /\ hiWater = 0      \* TABLE_INITIAL_ALLOC
  /\ liNow = Asleep
  /\ silent = [s \in Servers |-> 0]
  /\ failures = 0

-----------------------------------------------------------------------------
(* The mailslot, external: what is sent arrives as up to so many copies.     *)

Copies(m, n) == IF n = 0 THEN EmptyBag ELSE [x \in {m} |-> n]

Broadcast(m) ==
  \E n \in 0 .. Transports :
    /\ onAir' = onAir (+) Copies(m, n)
    /\ BagCardinality(onAir') <= MaxOnAir

-----------------------------------------------------------------------------
(* A server: the timer and its writes run on its main thread.                *)

DirSame == UNCHANGED <<dir, liNow, silent>>

Fails == failures < MaxFailures /\ failures' = failures + 1

\* The mailslot is opened if need be and a write started, though one may be pending.
AdvertiseTimerFired(s) ==
  /\ life[s] = "up" /\ writes[s] < MaxWrites
  /\ open' = [open EXCEPT ![s] = TRUE]
  /\ writes' = [writes EXCEPT ![s] = @ + 1]
  /\ sending' = [sending EXCEPT ![s] = TRUE]
  /\ DirSame /\ UNCHANGED <<life, onAir, failures>>

\* CreateFile fails, or WriteFileEx, after which the mailslot is closed.
AdvertiseTimerFails_StillSending(s) ==
  /\ life[s] = "up" /\ Fails
  /\ open' = [open EXCEPT ![s] = FALSE] /\ sending' = [sending EXCEPT ![s] = TRUE]
  /\ DirSame /\ UNCHANGED <<life, writes, onAir>>
AdvertiseTimerFails(s) ==
  /\ life[s] = "up" /\ Fails
  /\ \/ ~open[s] /\ UNCHANGED <<open, sending>>
     \/ open' = [open EXCEPT ![s] = FALSE] /\ sending' = [sending EXCEPT ![s] = FALSE]
  /\ DirSame /\ UNCHANGED <<life, writes, onAir>>

WriteMailslotCompleted(s) ==
  /\ writes[s] > 0 /\ life[s] = "up"
  /\ writes' = [writes EXCEPT ![s] = @ - 1]
  /\ sending' = [sending EXCEPT ![s] = FALSE]
  /\ \/ Broadcast(Ad(s)) /\ UNCHANGED failures
     \/ Fails /\ UNCHANGED onAir
  /\ DirSame /\ UNCHANGED <<life, open>>

\* The process ends, its handle closed and its writes cancelled with it.
Exits(s) ==
  /\ life[s] = "up"
  /\ life' = [life EXCEPT ![s] = "gone"]
  /\ open' = [open EXCEPT ![s] = FALSE]
  /\ writes' = [writes EXCEPT ![s] = 0]
  /\ sending' = [sending EXCEPT ![s] = FALSE]
  /\ DirSame /\ UNCHANGED failures

\* The end is told only over a mailslot that is open and not being sent to.
ShutAd(s) ==
  /\ Exits(s)
  /\ IF open[s] /\ ~sending[s] THEN Broadcast(Bye(s)) ELSE UNCHANGED onAir

\* The process is killed, or its machine goes down.
ServerDies(s) == Exits(s) /\ UNCHANGED onAir

-----------------------------------------------------------------------------
(* remoteds.                                                                 *)

\* Room at the first free slot up to the high-water mark, or one above it.
FreeSlots == {i \in Slots : Entry(i).s = NoServer}
FirstAvailable == CHOOSE i \in FreeSlots : \A j \in FreeSlots : i <= j
NewSlot == IF FreeSlots = {} THEN hiWater + 1 ELSE FirstAvailable
Grown == IF NewSlot < Len(table) THEN table ELSE Append(table, Empty)
Found(s) == {i \in Slots : Entry(i).s = s}

Forget_LowersMark(i) ==
  /\ table' = [table EXCEPT ![i + 1] = Empty]
  /\ hiWater' = hiWater - 1
Forget(i) ==
  /\ table' = [table EXCEPT ![i + 1] = Empty]
  /\ hiWater' = IF hiWater = i THEN hiWater - 1 ELSE hiWater

\* Its strings may find no memory, which leaves the slot empty.
Insert_RaisesMark(s) ==
  /\ hiWater' = hiWater + 1
  /\ \/ table' = [Grown EXCEPT ![NewSlot + 1] = [s |-> s, age |-> 0]] /\ UNCHANGED failures
     \/ table' = Grown /\ Fails
Insert(s) ==
  /\ hiWater' = IF FreeSlots = {} THEN hiWater + 1 ELSE hiWater
  /\ \/ table' = [Grown EXCEPT ![NewSlot + 1] = [s |-> s, age |-> 0]] /\ UNCHANGED failures
     \/ table' = Grown /\ Fails

\* The loop of main, from the lock of the table to its release.
TakeMessage_NoTimeStamp(m) ==
  /\ last' = m
  /\ silent' = [silent EXCEPT ![m.s] = 0]
  /\ \/ \E i \in Found(m.s) :
          IF m.bye THEN Forget(i) /\ UNCHANGED failures
                   ELSE UNCHANGED <<table, hiWater, failures>>
     \/ Found(m.s) = {} /\ ~m.bye /\ Insert(m.s)
     \/ Found(m.s) = {} /\ m.bye /\ UNCHANGED <<table, hiWater, failures>>
TakeMessage(m) ==
  /\ last' = m
  /\ silent' = [silent EXCEPT ![m.s] = 0]
  /\ \/ \E i \in Found(m.s) :
          /\ UNCHANGED failures
          /\ IF m.bye THEN Forget(i)
             ELSE table' = [table EXCEPT ![i + 1].age = 0] /\ UNCHANGED hiWater
     \/ Found(m.s) = {} /\ ~m.bye /\ Insert(m.s)
     \/ Found(m.s) = {} /\ m.bye /\ UNCHANGED <<table, hiWater, failures>>

ReadMailslot ==
  \E m \in BagToSet(onAir) :
    /\ onAir' = onAir (-) Copies(m, 1)
    /\ IF m = last
       THEN /\ silent' = IF Listed(m.s) THEN [silent EXCEPT ![m.s] = Dropped] ELSE silent
            /\ UNCHANGED <<last, table, hiWater, failures>>
       ELSE TakeMessage(m)
    /\ UNCHANGED <<server, liNow>>

\* CleanupThread takes the time, and then waits for the table.
CleanupWakes ==
  /\ liNow = Asleep /\ liNow' = 0
  /\ UNCHANGED <<server, onAir, dir, silent, failures>>

AgedOut_Never(i) == Entry(i).s # NoServer /\ Entry(i).age - liNow > Old
AgedOut(i) == Entry(i).s # NoServer /\ Entry(i).age - liNow > AgeLimit
Keeps == {i \in Slots : ~AgedOut(i)} \cup {-1}

\* From the high-water mark down, which follows the entries that go.
CleanupScans ==
  /\ liNow # Asleep /\ liNow' = Asleep
  /\ table' = [k \in DOMAIN table |->
                 IF k - 1 \in Slots /\ AgedOut(k - 1) THEN Empty ELSE table[k]]
  /\ silent' = [s \in Servers |-> IF \E i \in Found(s) : AgedOut(i) THEN 0 ELSE silent[s]]
  /\ hiWater' = CHOOSE i \in Keeps : \A j \in Keeps : j <= i
  /\ UNCHANGED <<server, onAir, last, failures>>

Older(age) == IF age < Old THEN age + 1 ELSE age

Tick ==
  /\ liNow < 1
  /\ liNow' = IF liNow = Asleep THEN Asleep ELSE liNow + 1
  /\ silent' = [s \in Servers |-> IF Listed(s) /\ silent[s] # Dropped
                                   THEN Older(silent[s]) ELSE silent[s]]
  /\ table' = [k \in DOMAIN table |->
                 IF table[k].s = NoServer THEN table[k]
                 ELSE [table[k] EXCEPT !.age = Older(@)]]
  /\ UNCHANGED <<server, onAir, last, hiWater, failures>>

Advertise(s) ==
  \/ AdvertiseTimerFired(s) \/ AdvertiseTimerFails(s)
  \/ WriteMailslotCompleted(s) \/ ShutAd(s) \/ ServerDies(s)

Next ==
  \/ \E s \in Servers : Advertise(s)
  \/ ReadMailslot
  \/ CleanupWakes \/ CleanupScans
  \/ Tick

Spec == Init /\ [][Next]_vars

\* The programs read what arrives, the cleanup thread wakes up and time goes on.
FairSpec ==
  /\ Spec
  /\ WF_vars(ReadMailslot)
  /\ WF_vars(CleanupWakes) /\ WF_vars(CleanupScans) /\ WF_vars(Tick)

-----------------------------------------------------------------------------
(* Properties. *)

TypeOK ==
  /\ life \in [Servers -> {"up", "gone"}]
  /\ open \in [Servers -> BOOLEAN] /\ sending \in [Servers -> BOOLEAN]
  /\ writes \in [Servers -> 0 .. MaxWrites]
  /\ IsABag(onAir) /\ BagToSet(onAir) \subseteq Messages
  /\ last \in Messages \cup {NoMessage}
  /\ table \in Seq([s : Servers \cup {NoServer}, age : 0 .. Old])
  /\ hiWater \in -1 .. Len(table) - 1
  /\ liNow \in -1 .. 1
  /\ silent \in [Servers -> -1 .. Old]
  /\ failures \in 0 .. MaxFailures

\* A server is in the table once, and at or below the high-water mark, above which no
\* search, listing or cleanup looks; slots are freed and taken in any order meanwhile.
FoundOnce ==
  \A k, l \in DOMAIN table :
    table[k].s # NoServer =>
      /\ k - 1 <= hiWater
      /\ table[l].s = table[k].s => l = k

\* "Age out entries after 12 hours": who is forgotten without a word of its own has not
\* been heard for that long, or what was heard of it was the very message remoteds had
\* last taken, and passed over with the copies of other transports.
ForgottenWasSilent ==
  [][CleanupScans =>
       \A s \in Servers :
         Listed(s) /\ ~Listed(s)' => silent[s] > AgeLimit \/ silent[s] = Dropped]_vars

\* bSendingToMailslot, for which ShutAd leaves out its message, means that a write is
\* pending; it is one flag for what may be two writes, the failure of one included.
SendingIsPending == \A s \in Servers : sending[s] => writes[s] > 0

\* Servers that are gone leave the table for good, with or without a message of theirs,
\* and however late a copy of one of their advertisements puts them back.
GoneIsForgotten == \A s \in Servers : life[s] = "gone" ~> [](~Listed(s))
=============================================================================
