------------------------ MODULE RemoteDirectoryProofs ------------------------
(***************************************************************************)
(* The table of remoteds holds every server once, at or below its          *)
(* high-water mark, and forgets of its own accord only servers it has not  *)
(* heard of for the age limit, for any number of servers, copies of their  *)
(* messages, ages and failures.                                            *)
(***************************************************************************)
EXTENDS RemoteDirectory, TLAPS, WellFoundedInduction

(***************************************************************************)
(* The least and the greatest of a set, for what a CHOOSE picks.           *)
(***************************************************************************)

\* A set of natural numbers has a least element.
LEMMA LeastExists ==
  ASSUME NEW T \in SUBSET Nat, T # {}
  PROVE  \E x \in T : \A y \in T : x <= y
<1>1. PICK x \in T : \A y \in T : <<y, x>> \notin OpToRel(<, Nat)
  BY NatLessThanWellFounded, WFMin
<1>2. SUFFICES ASSUME NEW y \in T, y < x PROVE FALSE
  OBVIOUS
<1>3. <<y, x>> \in OpToRel(<, Nat)
  BY <1>2 DEF OpToRel
<1> QED
  BY <1>1, <1>3

\* A set of integers none of which is above a bound has a greatest element.
LEMMA GreatestExists ==
  ASSUME NEW T \in SUBSET Int, T # {}, NEW n \in Int, \A x \in T : x <= n
  PROVE  \E x \in T : \A y \in T : y <= x
<1> DEFINE D == {n - x : x \in T}
<1>1. D # {}
  OBVIOUS
<1>2. \A x \in T : n - x \in Nat
  OBVIOUS
<1>3. D \in SUBSET Nat
  BY <1>2
<1>4. PICK d \in D : \A e \in D : d <= e
  BY <1>1, <1>3, LeastExists
<1>5. PICK x \in T : d = n - x
  OBVIOUS
<1>6. ASSUME NEW y \in T PROVE y <= x
  <2>1. d <= n - y
    BY <1>4
  <2> QED
    BY <1>5, <2>1
<1> QED
  BY <1>6

(***************************************************************************)
(* What the handlers compute.                                              *)
(***************************************************************************)

AirOK == IsABag(onAir) /\ BagToSet(onAir) \subseteq Messages

\* Only messages of servers are ever on the air.
LEMMA BroadcastTypes ==
  ASSUME AirOK, NEW m \in Messages, Broadcast(m)
  PROVE  AirOK'
<1>1. PICK n \in 0 .. Transports : onAir' = onAir (+) Copies(m, n)
  BY DEF Broadcast
<1>2. n \in Nat
  BY LimitsAssumption
<1>3. CASE n = 0
  BY <1>1, <1>3 DEF AirOK, Copies, IsABag, BagToSet, EmptyBag, SetToBag, (+)
<1>4. CASE n # 0
  BY <1>1, <1>2, <1>4 DEF AirOK, Copies, IsABag, BagToSet, (+)
<1> QED
  BY <1>3, <1>4

\* A message is read off the air.
LEMMA ReadTypes ==
  ASSUME AirOK, NEW m, onAir' = onAir (-) Copies(m, 1)
  PROVE  AirOK'
BY DEF AirOK, Copies, IsABag, BagToSet, (-)

Entries == [s : Servers \cup {NoServer}, age : 0 .. Old]
TableOK == table \in Seq(Entries) /\ hiWater \in -1 .. Len(table) - 1

LEMMA OldIsAbove == Old \in Nat /\ Old > AgeLimit /\ 0 \in 0 .. Old
BY LimitsAssumption DEF Old

LEMMA EmptyIsEntry == Empty \in Entries /\ Empty.s = NoServer
BY OldIsAbove DEF Empty, Entries

LEMMA EntryOfServer ==
  ASSUME TableOK, NEW k \in DOMAIN table, table[k].s # NoServer
  PROVE  table[k].s \in Servers
<1>1. table[k] \in Entries
  BY DEF TableOK
<1> QED
  BY <1>1 DEF Entries

\* The slot that is taken is free, and is the one above the high-water mark only when
\* none up to the mark is.
LEMMA NewSlotIsFree ==
  ASSUME TableOK
  PROVE  /\ NewSlot \in 0 .. hiWater + 1
         /\ FreeSlots = {} => NewSlot = hiWater + 1
         /\ FreeSlots # {} => NewSlot <= hiWater /\ Entry(NewSlot).s = NoServer
<1>1. CASE FreeSlots = {}
  BY <1>1 DEF NewSlot, TableOK
<1>2. CASE FreeSlots # {}
  <2>1. FreeSlots \in SUBSET Nat
    BY DEF FreeSlots, Slots, TableOK
  <2>2. \E i \in FreeSlots : \A j \in FreeSlots : i <= j
    BY <1>2, <2>1, LeastExists
  <2>3. FirstAvailable \in FreeSlots
    BY <2>2 DEF FirstAvailable
  <2> QED
    BY <1>2, <2>3 DEF NewSlot, FreeSlots, Slots, TableOK
<1> QED
  BY <1>1, <1>2

\* The table grows, when it does, by an empty slot at its end.
LEMMA GrownTable ==
  ASSUME TableOK
  PROVE  /\ Grown \in Seq(Entries)
         /\ Len(Grown) >= Len(table) /\ NewSlot + 1 \in 1 .. Len(Grown)
         /\ \A k \in 1 .. Len(table) : Grown[k] = table[k]
         /\ \A k \in 1 .. Len(Grown) : k > Len(table) => Grown[k] = Empty
<1>1. NewSlot \in 0 .. hiWater + 1 /\ hiWater + 1 \in 0 .. Len(table)
  BY NewSlotIsFree DEF TableOK
<1>2. CASE NewSlot < Len(table)
  <2>1. Grown = table
    BY <1>2 DEF Grown
  <2> QED
    BY <1>1, <1>2, <2>1 DEF TableOK
<1>3. CASE ~ (NewSlot < Len(table))
  <2>1. Grown = Append(table, Empty)
    BY <1>3 DEF Grown
  <2>2. NewSlot = Len(table)
    BY <1>1, <1>3 DEF TableOK
  <2> QED
    BY <1>1, <2>1, <2>2, EmptyIsEntry DEF TableOK
<1> QED
  BY <1>2, <1>3

(***************************************************************************)
(* The inductive invariant.                                                *)
(***************************************************************************)

\* An entry is as old as its server has been silent, or younger.
AgeIsSilence ==
  \A k \in DOMAIN table :
    table[k].s # NoServer =>
      silent[table[k].s] = Dropped \/ table[k].age <= silent[table[k].s]

\* The parts of the invariant the servers' and the directory's steps change.
ServersOK ==
  /\ life \in [Servers -> {"up", "gone"}]
  /\ open \in [Servers -> BOOLEAN] /\ sending \in [Servers -> BOOLEAN]
  /\ writes \in [Servers -> 0 .. MaxWrites]
  /\ failures \in 0 .. MaxFailures
  /\ SendingIsPending
TableInv ==
  /\ TableOK
  /\ last \in Messages \cup {NoMessage}
  /\ silent \in [Servers -> -1 .. Old]
  /\ FoundOnce
  /\ AgeIsSilence

DirInv == ServersOK /\ TableInv /\ AirOK /\ liNow \in -1 .. 1

LEMMA InitDirInv == Init => DirInv
<1> SUFFICES ASSUME Init PROVE DirInv
  OBVIOUS
<1>1. ServersOK
  BY LimitsAssumption DEF Init, ServersOK, SendingIsPending
<1>2. TableInv
  <2>1. table = <<Empty>> /\ hiWater = 0 /\ table[1] = Empty /\ Len(table) = 1
    BY DEF Init
  <2>2. TableOK
    BY <2>1, EmptyIsEntry DEF TableOK
  <2>3. FoundOnce /\ AgeIsSilence
    BY <2>1, EmptyIsEntry DEF FoundOnce, AgeIsSilence
  <2> QED
    BY <2>2, <2>3, OldIsAbove DEF Init, TableInv
<1>3. AirOK
  BY DEF Init, AirOK, IsABag, BagToSet, EmptyBag, SetToBag
<1> QED
  BY <1>1, <1>2, <1>3 DEF Init, DirInv, Asleep

(***************************************************************************)
(* The steps of servers.                                                   *)
(***************************************************************************)

\* They leave the directory alone.
LEMMA ServersStep ==
  ASSUME DirInv, NEW s \in Servers, Advertise(s)
  PROVE  DirInv'
<1>1. TableInv' /\ liNow' \in -1 .. 1
  <2>1. UNCHANGED <<last, table, hiWater, silent, liNow>>
    BY DEF Advertise, AdvertiseTimerFired, AdvertiseTimerFails, WriteMailslotCompleted,
           ShutAd, ServerDies, Exits, DirSame, dir
  <2> QED
    BY <2>1 DEF DirInv, TableInv, TableOK, FoundOnce, AgeIsSilence
<1>2. AirOK'
  <2>1. Ad(s) \in Messages /\ Bye(s) \in Messages
    BY DEF Messages
  <2>2. Broadcast(Ad(s)) \/ Broadcast(Bye(s)) \/ UNCHANGED onAir
    BY DEF Advertise, AdvertiseTimerFired, AdvertiseTimerFails, WriteMailslotCompleted,
           ShutAd, ServerDies
  <2>3. CASE UNCHANGED onAir
    BY <2>3 DEF DirInv, AirOK, IsABag, BagToSet
  <2> QED
    BY <2>1, <2>2, <2>3, BroadcastTypes DEF DirInv
<1>3. ServersOK'
  <2>1. MaxWrites \in Nat /\ MaxFailures \in Nat
    BY LimitsAssumption
  <2>2. CASE AdvertiseTimerFired(s)
    BY <2>1, <2>2 DEF AdvertiseTimerFired, DirInv, ServersOK, SendingIsPending
  <2>3. CASE AdvertiseTimerFails(s)
    <3>1. failures' \in 0 .. MaxFailures /\ UNCHANGED <<life, writes>>
      BY <2>1, <2>3 DEF AdvertiseTimerFails, Fails, DirInv, ServersOK
    <3>2. \/ UNCHANGED <<open, sending>>
          \/ /\ open' = [open EXCEPT ![s] = FALSE]
             /\ sending' = [sending EXCEPT ![s] = FALSE]
      BY <2>3 DEF AdvertiseTimerFails
    <3> QED
      BY <3>1, <3>2 DEF DirInv, ServersOK, SendingIsPending
  <2>4. CASE WriteMailslotCompleted(s)
    BY <2>1, <2>4 DEF WriteMailslotCompleted, Fails, DirInv, ServersOK, SendingIsPending
  <2>5. CASE ShutAd(s) \/ ServerDies(s)
    <3>1. Exits(s)
      BY <2>5 DEF ShutAd, ServerDies
    <3> QED
      BY <2>1, <3>1 DEF Exits, DirInv, ServersOK, SendingIsPending
  <2> QED
    BY <2>2, <2>3, <2>4, <2>5 DEF Advertise
<1> QED
  BY <1>1, <1>2, <1>3 DEF DirInv

(***************************************************************************)
(* The steps of the directory.                                             *)
(***************************************************************************)

\* A message that is taken for the table's.
LEMMA TakeStep ==
  ASSUME TableInv, NEW m \in Messages, TakeMessage(m)
  PROVE  TableInv'
<1>1. m.s \in Servers /\ m.s # NoServer
  BY NoServerAssumption DEF Messages, Ad, Bye
<1>2. last' = m /\ silent' = [silent EXCEPT ![m.s] = 0]
  BY DEF TakeMessage
<1>3. last' \in Messages \cup {NoMessage} /\ silent' \in [Servers -> -1 .. Old]
  BY <1>1, <1>2, OldIsAbove DEF TableInv
<1>4. Found(m.s) = {} => ~Listed(m.s)
  <2> SUFFICES ASSUME NEW k \in DOMAIN table, table[k].s = m.s PROVE Found(m.s) # {}
    BY DEF Listed
  <2>1. k - 1 \in Slots /\ k - 1 + 1 = k
    BY <1>1 DEF Slots, TableInv, TableOK, FoundOnce
  <2> QED
    BY <2>1 DEF Found, Entry
<1>5. ASSUME NEW i \in Found(m.s), m.bye, Forget(i)
      PROVE  TableOK' /\ FoundOnce' /\ AgeIsSilence'
  <2>1. i \in 0 .. hiWater /\ table[i + 1].s = m.s /\ i + 1 \in 1 .. Len(table)
    BY DEF Found, Entry, Slots, TableInv, TableOK
  <2>2. table' \in Seq(Entries) /\ Len(table') = Len(table)
    BY <1>5, <2>1, EmptyIsEntry DEF Forget, TableInv, TableOK
  <2>3. \A k \in 1 .. Len(table) : table'[k] = IF k = i + 1 THEN Empty ELSE table[k]
    BY <1>5, <2>1 DEF Forget, TableInv, TableOK
  <2>4. hiWater' = IF hiWater = i THEN hiWater - 1 ELSE hiWater
    BY <1>5 DEF Forget
  <2>5. TableOK'
    BY <2>1, <2>2, <2>4 DEF TableInv, TableOK
  <2>6. DOMAIN table' = 1 .. Len(table) /\ DOMAIN table = 1 .. Len(table)
    BY <2>2 DEF TableInv, TableOK
  <2>7. FoundOnce'
    BY <2>1, <2>3, <2>4, <2>6, EmptyIsEntry DEF FoundOnce, TableInv, TableOK
  <2>8. AgeIsSilence'
    <3> SUFFICES ASSUME NEW k \in 1 .. Len(table), table'[k].s # NoServer
                 PROVE  silent'[table'[k].s] = Dropped \/ table'[k].age <= silent'[table'[k].s]
      BY <2>6 DEF AgeIsSilence, Dropped
    <3>1. k # i + 1 /\ table'[k] = table[k]
      BY <2>3, EmptyIsEntry
    <3>2. table[k].s # m.s
      BY <3>1, <2>1, <2>6, <1>1 DEF TableInv, FoundOnce
    <3> QED
      BY <3>1, <3>2, <2>6, <1>2 DEF TableInv, AgeIsSilence, TableOK
  <2> QED
    BY <2>5, <2>7, <2>8
<1>6. ASSUME NEW i \in Found(m.s), table' = [table EXCEPT ![i + 1].age = 0],
             UNCHANGED hiWater
      PROVE  TableOK' /\ FoundOnce' /\ AgeIsSilence'
  <2>1. i + 1 \in 1 .. Len(table) /\ table[i + 1].s = m.s
    BY DEF Found, Entry, Slots, TableInv, TableOK
  <2> DEFINE young == [table[i + 1] EXCEPT !.age = 0]
  <2>2. young \in Entries /\ young.s = table[i + 1].s /\ young.age = 0
    <3>1. table[i + 1] \in Entries
      BY <2>1 DEF TableInv, TableOK
    <3> QED
      BY <3>1, OldIsAbove DEF Entries
  <2>3. table' = [table EXCEPT ![i + 1] = young]
    BY <1>6
  <2> HIDE DEF young
  <2>4. table' \in Seq(Entries) /\ Len(table') = Len(table)
    BY <2>1, <2>2, <2>3 DEF TableInv, TableOK
  <2>5. \A k \in 1 .. Len(table) : table'[k] = IF k = i + 1 THEN young ELSE table[k]
    BY <2>1, <2>3 DEF TableInv, TableOK
  <2>6. DOMAIN table' = 1 .. Len(table) /\ DOMAIN table = 1 .. Len(table)
    BY <2>4 DEF TableInv, TableOK
  <2>7. TableOK'
    BY <1>6, <2>4 DEF TableInv, TableOK
  <2>8. \A k \in 1 .. Len(table) : table'[k].s = table[k].s
    BY <2>2, <2>5
  <2>9. FoundOnce'
    BY <2>6, <2>8, <1>6 DEF FoundOnce, TableInv
  <2>10. AgeIsSilence'
    <3> SUFFICES ASSUME NEW k \in 1 .. Len(table), table'[k].s # NoServer
                 PROVE  silent'[table'[k].s] = Dropped \/ table'[k].age <= silent'[table'[k].s]
      BY <2>6 DEF AgeIsSilence, Dropped
    <3>1. CASE k = i + 1
      BY <3>1, <2>1, <2>2, <2>5, <1>1, <1>2 DEF TableInv
    <3>2. CASE k # i + 1
      <4>1. table'[k] = table[k] /\ table[k].s # m.s
        BY <3>2, <2>1, <2>5, <2>6, <1>1 DEF TableInv, FoundOnce
      <4> QED
        BY <4>1, <2>6, <1>2 DEF TableInv, AgeIsSilence
    <3> QED
      BY <3>1, <3>2
  <2> QED
    BY <2>7, <2>9, <2>10
<1>7. ASSUME ~Listed(m.s), Insert(m.s)
      PROVE  TableOK' /\ FoundOnce' /\ AgeIsSilence'
  <2> DEFINE new == [s |-> m.s, age |-> 0]
             here == NewSlot + 1
  <2>1. new \in Entries /\ new.s = m.s /\ new.age = 0
    BY <1>1, OldIsAbove DEF Entries
  <2>2. /\ hiWater' = IF FreeSlots = {} THEN hiWater + 1 ELSE hiWater
        /\ table' = [Grown EXCEPT ![here] = new] \/ table' = Grown
    BY <1>7 DEF Insert
  <2>3. /\ Grown \in Seq(Entries)
        /\ Len(Grown) >= Len(table) /\ here \in 1 .. Len(Grown)
        /\ \A k \in 1 .. Len(table) : Grown[k] = table[k]
        /\ \A k \in 1 .. Len(Grown) : k > Len(table) => Grown[k] = Empty
    BY GrownTable DEF TableInv
  <2>4. /\ NewSlot \in 0 .. hiWater + 1 /\ NewSlot <= hiWater'
        /\ hiWater' >= hiWater /\ hiWater' \in -1 .. Len(Grown) - 1
    BY NewSlotIsFree, <2>2, <2>3 DEF TableInv, TableOK
  <2> HIDE DEF new, here
  <2>5. /\ table' \in Seq(Entries) /\ Len(table') = Len(Grown)
        /\ \A k \in 1 .. Len(Grown) :
             table'[k] = Grown[k] \/ (k = here /\ table'[k] = new)
    BY <2>1, <2>2, <2>3
  <2>6. TableOK'
    BY <2>4, <2>5 DEF TableOK
  <2>7. DOMAIN table' = 1 .. Len(Grown) /\ DOMAIN table = 1 .. Len(table)
    BY <2>5 DEF TableInv, TableOK
  <2>8. ASSUME NEW k \in 1 .. Len(Grown), table'[k].s # NoServer
        PROVE  \/ k = here /\ table'[k] = new
               \/ k \in 1 .. Len(table) /\ table'[k] = table[k] /\ table'[k].s # m.s
    <3>1. CASE table'[k] = Grown[k]
      <4>1. k \in 1 .. Len(table) /\ Grown[k] = table[k]
        BY <2>8, <3>1, <2>3, EmptyIsEntry DEF TableInv, TableOK
      <4> QED
        BY <4>1, <3>1, <2>7, <1>7 DEF Listed
    <3> QED
      BY <3>1, <2>5
  <2>9. FoundOnce'
    <3> SUFFICES ASSUME NEW k \in 1 .. Len(Grown), NEW l \in 1 .. Len(Grown),
                        table'[k].s # NoServer
                 PROVE  k - 1 <= hiWater' /\ (table'[l].s = table'[k].s => l = k)
      BY <2>7 DEF FoundOnce
    <3>1. k - 1 <= hiWater'
      BY <2>4, <2>7, <2>8 DEF TableInv, TableOK, FoundOnce, here
    <3>2. table'[l].s = table'[k].s => l = k
      BY <2>1, <2>7, <2>8 DEF TableInv, FoundOnce
    <3> QED
      BY <3>1, <3>2
  <2>10. AgeIsSilence'
    <3> SUFFICES ASSUME NEW k \in 1 .. Len(Grown), table'[k].s # NoServer
                 PROVE  silent'[table'[k].s] = Dropped \/ table'[k].age <= silent'[table'[k].s]
      BY <2>7 DEF AgeIsSilence, Dropped
    <3>1. CASE table'[k] = new
      BY <3>1, <2>1, <1>1, <1>2 DEF TableInv
    <3>2. CASE k \in 1 .. Len(table) /\ table'[k] = table[k] /\ table'[k].s # m.s
      BY <3>2, <2>7, <1>2 DEF TableInv, AgeIsSilence
    <3> QED
      BY <3>1, <3>2, <2>8
  <2> QED
    BY <2>6, <2>9, <2>10
<1>8. ASSUME Found(m.s) = {}, UNCHANGED <<table, hiWater>>
      PROVE  TableOK' /\ FoundOnce' /\ AgeIsSilence'
  BY <1>1, <1>2, <1>4, <1>8 DEF TableInv, TableOK, FoundOnce, AgeIsSilence, Listed
<1>9. TableOK' /\ FoundOnce' /\ AgeIsSilence'
  BY <1>4, <1>5, <1>6, <1>7, <1>8 DEF TakeMessage
<1> QED
  BY <1>3, <1>9 DEF TableInv

\* One that is passed over as a duplicate leaves the table as it is.
LEMMA DropStep ==
  ASSUME TableInv, NEW m \in Messages, UNCHANGED <<last, table, hiWater>>,
         silent' = IF Listed(m.s) THEN [silent EXCEPT ![m.s] = Dropped] ELSE silent
  PROVE  TableInv'
<1>1. silent' \in [Servers -> -1 .. Old]
  <2>1. Dropped \in -1 .. Old /\ silent \in [Servers -> -1 .. Old]
    BY OldIsAbove DEF TableInv, Dropped
  <2> QED
    BY <2>1
<1>2. \A s \in Servers : silent'[s] = silent[s] \/ silent'[s] = Dropped
  BY DEF TableInv
<1>3. \A k \in DOMAIN table : table[k].s # NoServer => table[k].s \in Servers
  BY EntryOfServer DEF TableInv
<1> QED
  BY <1>1, <1>2, <1>3 DEF TableInv, TableOK, FoundOnce, AgeIsSilence, Dropped

LEMMA ReadStep ==
  ASSUME DirInv, ReadMailslot
  PROVE  DirInv'
<1>1. PICK m \in BagToSet(onAir) :
        /\ onAir' = onAir (-) Copies(m, 1)
        /\ IF m = last
           THEN /\ silent' = IF Listed(m.s) THEN [silent EXCEPT ![m.s] = Dropped] ELSE silent
                /\ UNCHANGED <<last, table, hiWater, failures>>
           ELSE TakeMessage(m)
        /\ UNCHANGED <<server, liNow>>
  BY DEF ReadMailslot
<1>2. m \in Messages
  BY DEF DirInv, AirOK
<1>3. AirOK'
  BY <1>1, ReadTypes DEF DirInv
<1>4. TableInv'
  BY <1>1, <1>2, TakeStep, DropStep DEF DirInv
<1>5. failures' \in 0 .. MaxFailures
  <2>1. UNCHANGED failures \/ Fails
    BY <1>1 DEF TakeMessage, Insert
  <2> QED
    BY <2>1, LimitsAssumption DEF Fails, DirInv, ServersOK
<1> QED
  BY <1>1, <1>3, <1>4, <1>5 DEF DirInv, ServersOK, SendingIsPending, server

\* The cleanup thread frees the slots of old entries, and sets the high-water mark to
\* the last slot it did not.
LEMMA ScanStep ==
  ASSUME TableInv, liNow \in -1 .. 1, CleanupScans
  PROVE  TableInv'
<1>1. /\ liNow \in 0 .. 1
      /\ table' = [k \in DOMAIN table |->
                     IF k - 1 \in Slots /\ AgedOut(k - 1) THEN Empty ELSE table[k]]
      /\ silent' = [s \in Servers |-> IF \E i \in Found(s) : AgedOut(i) THEN 0 ELSE silent[s]]
      /\ hiWater' = CHOOSE i \in Keeps : \A j \in Keeps : j <= i
      /\ UNCHANGED last
  BY DEF CleanupScans, Asleep
<1>2. DOMAIN table = 1 .. Len(table) /\ Len(table) \in Nat /\ hiWater \in -1 .. Len(table) - 1
  BY DEF TableInv, TableOK
<1>3. hiWater' \in Keeps /\ \A j \in Keeps : j <= hiWater'
  <2>1. Keeps \in SUBSET Int /\ Keeps # {} /\ \A j \in Keeps : j <= hiWater
    BY <1>2 DEF Keeps, Slots
  <2>2. \E i \in Keeps : \A j \in Keeps : j <= i
    <3>1. hiWater \in Int
      BY <1>2
    <3> QED
      BY <2>1, <3>1, GreatestExists
  <2> QED
    BY <1>1, <2>2
<1>4. hiWater' \in -1 .. Len(table) - 1
  BY <1>2, <1>3 DEF Keeps, Slots
<1>5. table' \in Seq(Entries) /\ Len(table') = Len(table)
  <2>1. \A k \in 1 .. Len(table) : table'[k] \in Entries
    BY <1>1, <1>2, EmptyIsEntry DEF TableInv, TableOK
  <2> QED
    BY <1>1, <1>2, <2>1
<1>6. ASSUME NEW k \in 1 .. Len(table), table'[k].s # NoServer
      PROVE  table'[k] = table[k] /\ k - 1 \in Slots /\ ~AgedOut(k - 1)
  <2>1. table'[k] = table[k] /\ ~ (k - 1 \in Slots /\ AgedOut(k - 1))
    BY <1>1, <1>2, <1>6, EmptyIsEntry
  <2>2. k - 1 \in Slots
    BY <1>2, <1>6, <2>1 DEF TableInv, FoundOnce, Slots
  <2> QED
    BY <2>1, <2>2
<1>7. FoundOnce'
  <2> SUFFICES ASSUME NEW k \in 1 .. Len(table), NEW l \in 1 .. Len(table),
                      table'[k].s # NoServer
               PROVE  k - 1 <= hiWater' /\ (table'[l].s = table'[k].s => l = k)
    BY <1>5 DEF FoundOnce, TableOK
  <2>1. k - 1 \in Keeps
    BY <1>6 DEF Keeps
  <2>2. table'[l].s = table'[k].s => l = k
    BY <1>2, <1>6 DEF TableInv, FoundOnce
  <2> QED
    BY <1>3, <2>1, <2>2
<1>8. AgeIsSilence'
  <2> SUFFICES ASSUME NEW k \in 1 .. Len(table), table'[k].s # NoServer
               PROVE  silent'[table'[k].s] = Dropped \/ table'[k].age <= silent'[table'[k].s]
    BY <1>5 DEF AgeIsSilence, Dropped, TableOK
  <2>1. table'[k] = table[k] /\ k - 1 \in Slots /\ ~AgedOut(k - 1)
    BY <1>6
  <2>2. table[k].s \in Servers
    BY <1>2, <1>6, <2>1, EntryOfServer DEF TableInv
  <2>3. \A i \in Found(table[k].s) : i = k - 1
    <3> SUFFICES ASSUME NEW i \in Found(table[k].s) PROVE i = k - 1
      OBVIOUS
    <3>1. i + 1 \in DOMAIN table /\ table[i + 1].s = table[k].s
      BY <1>2 DEF Found, Slots, Entry
    <3>2. i + 1 = k
      BY <1>2, <2>1, <3>1 DEF TableInv, FoundOnce
    <3> QED
      BY <3>2 DEF Found, Slots
  <2>4. silent'[table[k].s] = silent[table[k].s]
    BY <1>1, <2>1, <2>2, <2>3
  <2> QED
    BY <1>2, <2>1, <2>4 DEF TableInv, AgeIsSilence
<1>9. silent' \in [Servers -> -1 .. Old]
  BY <1>1, OldIsAbove DEF TableInv
<1> QED
  BY <1>1, <1>4, <1>5, <1>7, <1>8, <1>9 DEF TableInv, TableOK

\* Time goes on for entries and for silence alike.
LEMMA TickStep ==
  ASSUME TableInv, Tick
  PROVE  TableInv'
<1>1. /\ silent' = [s \in Servers |-> IF Listed(s) /\ silent[s] # Dropped
                                      THEN Older(silent[s]) ELSE silent[s]]
      /\ table' = [k \in DOMAIN table |->
                     IF table[k].s = NoServer THEN table[k]
                     ELSE [table[k] EXCEPT !.age = Older(@)]]
      /\ UNCHANGED <<last, hiWater>>
  BY DEF Tick
<1>2. DOMAIN table = 1 .. Len(table) /\ Len(table) \in Nat
  BY DEF TableInv, TableOK
<1>3. \A x \in -1 .. Old : Older(x) \in 0 .. Old /\ x <= Older(x)
  BY OldIsAbove DEF Older
<1>4. \A x, y \in -1 .. Old : x <= y => Older(x) <= Older(y)
  BY OldIsAbove DEF Older
<1>5. silent' \in [Servers -> -1 .. Old]
  BY <1>1, <1>3, OldIsAbove DEF TableInv
<1>6. ASSUME NEW k \in 1 .. Len(table)
      PROVE  /\ table'[k] \in Entries /\ table'[k].s = table[k].s
             /\ table[k].s # NoServer => table'[k].age = Older(table[k].age)
  <2>1. table[k] \in Entries
    BY <1>2 DEF TableInv, TableOK
  <2>2. Older(table[k].age) \in 0 .. Old
    BY <1>3, <2>1, OldIsAbove DEF Entries
  <2>3. table'[k] = IF table[k].s = NoServer THEN table[k]
                    ELSE [table[k] EXCEPT !.age = Older(table[k].age)]
    BY <1>1, <1>2
  <2> QED
    BY <2>1, <2>2, <2>3 DEF Entries
<1>7. table' \in Seq(Entries) /\ Len(table') = Len(table)
  BY <1>1, <1>2, <1>6
<1>8. FoundOnce'
  <2>1. DOMAIN table' = DOMAIN table /\ UNCHANGED hiWater
    BY <1>1
  <2>2. \A k \in DOMAIN table : table'[k].s = table[k].s
    BY <1>2, <1>6
  <2> QED
    BY <2>1, <2>2 DEF TableInv, FoundOnce
<1>9. AgeIsSilence'
  <2> SUFFICES ASSUME NEW k \in 1 .. Len(table), table'[k].s # NoServer
               PROVE  silent'[table'[k].s] = Dropped \/ table'[k].age <= silent'[table'[k].s]
    BY <1>7 DEF AgeIsSilence, Dropped
  <2>1. /\ table'[k].s = table[k].s /\ table[k].s # NoServer
        /\ table'[k].age = Older(table[k].age)
    BY <1>6
  <2>2. table[k].s \in Servers /\ Listed(table[k].s)
    BY <1>2, <2>1, EntryOfServer DEF TableInv, Listed
  <2>3. silent[table[k].s] = Dropped \/ table[k].age <= silent[table[k].s]
    BY <1>2, <2>1 DEF TableInv, AgeIsSilence
  <2>4. silent[table[k].s] \in -1 .. Old /\ table[k].age \in -1 .. Old
    <3>1. table[k] \in Entries
      BY <1>2 DEF TableInv, TableOK
    <3> QED
      BY <2>2, <3>1, OldIsAbove DEF TableInv, Entries
  <2> QED
    BY <1>1, <1>4, <2>1, <2>2, <2>3, <2>4
<1> QED
  BY <1>1, <1>5, <1>7, <1>8, <1>9 DEF TableInv, TableOK

LEMMA StepDirInv == DirInv /\ [Next]_vars => DirInv'
<1> SUFFICES ASSUME DirInv, [Next]_vars PROVE DirInv'
  OBVIOUS
<1>1. CASE \E s \in Servers : Advertise(s)
  BY <1>1, ServersStep
<1>2. CASE ReadMailslot
  BY <1>2, ReadStep
<1>3. CASE CleanupWakes
  BY <1>3 DEF CleanupWakes, DirInv, ServersOK, SendingIsPending, TableInv, TableOK, FoundOnce,
              AgeIsSilence, AirOK, IsABag, BagToSet, server, dir
<1>4. CASE CleanupScans
  <2>1. TableInv'
    BY <1>4, ScanStep DEF DirInv
  <2> QED
    BY <1>4, <2>1 DEF CleanupScans, DirInv, ServersOK, SendingIsPending, AirOK, IsABag,
                      BagToSet, server, Asleep
<1>5. CASE Tick
  <2>1. TableInv'
    BY <1>5, TickStep DEF DirInv
  <2>2. liNow' \in -1 .. 1
    BY <1>5 DEF Tick, DirInv, Asleep
  <2> QED
    BY <1>5, <2>1, <2>2 DEF Tick, DirInv, ServersOK, SendingIsPending, AirOK, IsABag,
                            BagToSet, server
<1>6. CASE UNCHANGED vars
  BY <1>6 DEF vars, DirInv, ServersOK, SendingIsPending, TableInv, TableOK, FoundOnce,
              AgeIsSilence, AirOK, IsABag, BagToSet, server, dir
<1> QED
  BY <1>1, <1>2, <1>3, <1>4, <1>5, <1>6 DEF Next

(***************************************************************************)
(* The theorems.                                                           *)
(***************************************************************************)

\* What a server's flags say of its writes, and the table of its slots and of the
\* silence of their servers, holds after every step of any of them (srvad.c:162-358,
\* remoteds.c:280-382, 472-509).
THEOREM DirectoryInvariant == Spec => []DirInv
<1> QED
  BY InitDirInv, StepDirInv, PTL DEF Spec

\* The variables of the directory and its servers have their types.
THEOREM DirectoryTypes == Spec => []TypeOK
<1>1. DirInv => TypeOK
  BY DEF DirInv, ServersOK, TableInv, TableOK, AirOK, TypeOK, Entries
<1> QED
  BY <1>1, DirectoryInvariant, PTL

\* A server is in the table once, at or below the high-water mark (remoteds.c:280-382).
THEOREM ServersFoundOnce == Spec => []FoundOnce
<1>1. DirInv => FoundOnce
  BY DEF DirInv, TableInv
<1> QED
  BY <1>1, DirectoryInvariant, PTL

\* While bSendingToMailslot is set a write is pending (srvad.c:231-358).
THEOREM SendingMeansPending == Spec => []SendingIsPending
<1>1. DirInv => SendingIsPending
  BY DEF DirInv, ServersOK
<1> QED
  BY <1>1, DirectoryInvariant, PTL

\* The cleanup thread drops no server that it heard of within the age limit, unless what
\* it heard was passed over as a duplicate (remoteds.c:472-509).
THEOREM OnlySilentForgotten == Spec => ForgottenWasSilent
<1>1. DirInv /\ [Next]_vars =>
        [CleanupScans =>
           \A s \in Servers :
             Listed(s) /\ ~Listed(s)' => silent[s] > AgeLimit \/ silent[s] = Dropped]_vars
  <2> SUFFICES ASSUME DirInv, CleanupScans, NEW s \in Servers, Listed(s), ~Listed(s)'
               PROVE  silent[s] > AgeLimit \/ silent[s] = Dropped
    OBVIOUS
  <2>1. PICK k \in DOMAIN table : table[k].s = s
    BY DEF Listed
  <2>2. DOMAIN table = 1 .. Len(table) /\ s # NoServer
    BY NoServerAssumption DEF DirInv, TableInv, TableOK
  <2>3. DOMAIN table' = DOMAIN table
        /\ table'[k] = IF k - 1 \in Slots /\ AgedOut(k - 1) THEN Empty ELSE table[k]
    BY DEF CleanupScans
  <2>4. AgedOut(k - 1)
    BY <2>1, <2>3 DEF Listed
  <2>5. table[k].age - liNow > AgeLimit /\ liNow \in 0 .. 1
    BY <2>2, <2>4 DEF AgedOut, Entry, CleanupScans, Asleep, DirInv
  <2>6. table[k] \in Entries /\ silent[s] \in -1 .. Old
    BY <2>2 DEF DirInv, TableInv, TableOK
  <2>7. silent[s] = Dropped \/ table[k].age <= silent[s]
    BY <2>1, <2>2 DEF DirInv, TableInv, AgeIsSilence
  <2> QED
    BY <2>5, <2>6, <2>7, OldIsAbove, LimitsAssumption DEF Entries, Dropped
<1> QED
  BY <1>1, DirectoryInvariant, PTL DEF Spec, ForgottenWasSilent
=============================================================================
