---------------------- MODULE RemoteTempFileReadProofs ----------------------
(***************************************************************************)
(* What clients read of the temp file.  While no two writes overlap, the   *)
(* pointer and the end of the file move in step, and a client that has     *)
(* read past a message was sent that message, for any number of messages   *)
(* of any length and whether or not the disk fills up.                     *)
(***************************************************************************)
EXTENDS RemoteTempFileProofs

NoneFailed == \A m \in Messages : status[m] # "failed"

(***************************************************************************)
(* The inductive invariant.                                                *)
(***************************************************************************)

\* The Ctrl-C handler has advanced the pointer past its message; the others do so when
\* theirs is written.
Passed(a) == by[a] = "ctrlc" /\ status[a] # "claimed"

\* Where the one message stands that is being written.
WriterRule(a) ==
    a \in Active =>
        /\ ptr = IF Passed(a) THEN End(a) ELSE off[a]
        /\ status[a] = "written" => eof = End(a)
        /\ status[a] # "written" => eof <= off[a] /\ (NoneFailed => eof = off[a])

\* Nobody is writing, and the next message goes behind what was written.
RestRule == Active = {} => eof <= ptr /\ (NoneFailed => eof = ptr)

LoadedRule ==
    /\ main.at = "adds" => mainReg = ptr
    /\ ctrlc.at = "adds" => ctrlcReg = ptr

\* What is in the file was sent as it is there, once it is there.
SeenRule(m) ==
    m \in Undisturbed \/ status[m] = "written" =>
        \A i \in Span(m) : i < filePos => seen[i] = m

NoHole == NoneFailed => \A i \in 0..(eof - 1) : file[i] # Hole

Serial ==
    /\ filePos <= eof /\ filePos <= ptr
    /\ \A a \in Messages : WriterRule(a)
    /\ RestRule
    /\ LoadedRule
    /\ \A m \in Messages : SeenRule(m)
    /\ NoHole

SerialInv == overlapped = {} => Serial

(***************************************************************************)
(* The steps, while no writes have overlapped.                             *)
(***************************************************************************)

Alone(m) == m \in Active /\ \A k \in Active : k = m

LEMMA OneWriter ==
    ASSUME LogInv, overlapped = {}, NEW m \in Active
    PROVE  m \in Messages /\ Alone(m)
<1>1. m \in Messages
  BY DEF Active
<1>2. AloneRule(m)
  BY <1>1 DEF LogInv
<1> QED
  BY <1>1, <1>2 DEF AloneRule, Alone

\* Facts about the types every step needs.
LEMMA Numbers ==
    ASSUME LogInv
    PROVE  /\ eof \in Nat /\ ptr \in Nat /\ filePos \in Nat
           /\ mainReg \in Nat /\ ctrlcReg \in Nat
           /\ \A m \in Messages : off[m] \in Nat /\ len[m] \in Nat /\ End(m) \in Nat
BY DEF LogInv, TypeOK, End

\* A write begins: there is no other, so it begins where the file ends.
LEMMA BeginSerial ==
    ASSUME LogInv, Serial, overlapped = {}, overlapped' = {},
           NEW m \in Messages, NEW w, NEW st \in {"claimed", "issued"}, Begin(m, w, st),
           w = "ctrlc" <=> st = "claimed",
           UNCHANGED <<file, eof, ptr, mainReg, ctrlcReg, filePos, seen>>,
           main'.at = "adds" => main.at = "adds",
           ctrlc'.at = "adds" => ctrlc.at = "adds"
    PROVE  Serial'
<1>1. /\ status[m] = "new" /\ status'[m] = st /\ by'[m] = w /\ off'[m] = ptr
      /\ \A k \in Messages \ {m} : /\ status'[k] = status[k] /\ by'[k] = by[k]
                                   /\ off'[k] = off[k] /\ len'[k] = len[k]
  BY DEF Begin, LogInv, TypeOK
<1>2. Active = {}
  BY DEF Begin
<1>3. Active' = {m}
  BY <1>1, <1>2 DEF Active
<1>4. NoneFailed' => NoneFailed
  BY <1>1 DEF NoneFailed
<1>5. eof <= ptr /\ (NoneFailed => eof = ptr)
  BY <1>2 DEF Serial, RestRule
<1>6. ASSUME NEW a \in Messages PROVE WriterRule(a)'
  BY <1>1, <1>3, <1>4, <1>5 DEF WriterRule, Passed
<1>7. RestRule'
  BY <1>3 DEF RestRule
<1>8. LoadedRule'
  BY DEF Serial, LoadedRule
<1>9. ASSUME NEW k \in Messages PROVE SeenRule(k)'
  <2>1. SeenRule(k)
    BY DEF Serial
  <2>2. CASE k = m
    BY <1>1, <2>2 DEF SeenRule, Undisturbed
  <2>3. CASE k # m
    BY <1>1, <2>1, <2>3 DEF SeenRule, Undisturbed, Span
  <2> QED
    BY <2>2, <2>3
<1>10. NoHole'
  BY <1>4 DEF Serial, NoHole
<1> QED
  BY <1>6, <1>7, <1>8, <1>9, <1>10 DEF Serial

\* The file system writes the message at the end of the file, or cannot.
LEMMA TransferSerial ==
    ASSUME LogInv, Serial, overlapped = {}, NEW m \in Messages, Transfer(m)
    PROVE  Serial'
<1>1. /\ UNCHANGED <<ptr, by, off, len, main, mainReg, ctrlc, ctrlcReg, filePos, seen>>
      /\ status[m] = "issued" /\ status'[m] \in {"written", "failed"}
      /\ \A k \in Messages \ {m} : status'[k] = status[k]
  BY DEF Transfer, Became, LogInv, TypeOK, KeepMessages, mainVars, ctrlcVars, readerVars
<1>2. m \in Active
  BY <1>1 DEF Active
<1>3. Alone(m)
  BY <1>2, OneWriter
<1>4. /\ ptr = IF Passed(m) THEN End(m) ELSE off[m]
      /\ eof <= off[m] /\ (NoneFailed => eof = off[m])
  BY <1>1, <1>2 DEF Serial, WriterRule
<1>5. End(m) = off[m] + len[m] /\ off[m] <= ptr /\ eof <= End(m)
  BY <1>4, Numbers DEF End
<1>6. \A k \in Messages : End(k)' = End(k) /\ Span(k)' = Span(k)
  BY <1>1 DEF End, Span
<1>7. LoadedRule'
  BY <1>1 DEF Serial, LoadedRule
<1>8. CASE status'[m] = "written"
  <2>1. /\ eof' = End(m)
        /\ file' = [i \in 0..(eof' - 1) |-> IF i \in Span(m) THEN m
                                            ELSE IF i < eof THEN file[i] ELSE Hole]
    <3>1. ~ Became(m, "failed")
      BY <1>1, <1>8 DEF Became, LogInv, TypeOK
    <3>2. /\ eof' = IF off[m] + len[m] > eof THEN off[m] + len[m] ELSE eof
          /\ file' = [i \in 0..(eof' - 1) |-> IF i \in Span(m) THEN m
                                              ELSE IF i < eof THEN file[i] ELSE Hole]
      BY <3>1 DEF Transfer
    <3> QED
      BY <1>5, <3>2, Numbers
  <2>2. Active' = Active /\ Undisturbed' = Undisturbed
    BY <1>1, <1>8 DEF Active, Undisturbed, Transfer, KeepMessages
  <2>3. NoneFailed' => NoneFailed
    BY <1>1 DEF NoneFailed
  <2>4. ASSUME NEW a \in Messages PROVE WriterRule(a)'
    BY <1>1, <1>3, <1>4, <1>6, <1>8, <2>1, <2>2 DEF WriterRule, Passed, Alone
  <2>5. RestRule'
    BY <1>2, <2>2 DEF RestRule
  <2>6. filePos' <= eof' /\ filePos' <= ptr'
    BY <1>1, <1>5, <2>1, Numbers DEF Serial
  <2>7. ASSUME NEW k \in Messages PROVE SeenRule(k)'
    <3>1. CASE k = m
      <4>1. \A i \in Span(m) : ~ (i < filePos)
        BY <1>4, Numbers DEF Serial, Span
      <4> QED
        BY <1>1, <1>6, <3>1, <4>1 DEF SeenRule
    <3>2. CASE k # m
      BY <1>1, <1>6, <2>2, <3>2 DEF Serial, SeenRule
    <3> QED
      BY <3>1, <3>2
  <2>8. NoHole'
    <3> SUFFICES ASSUME NoneFailed', NEW i \in 0..(eof' - 1) PROVE file'[i] # Hole
      BY DEF NoHole
    <3>1. NoneFailed /\ eof = off[m]
      BY <1>4, <2>3
    <3>2. i \in Span(m) \/ i \in 0..(eof - 1)
      BY <1>5, <2>1, <3>1, Numbers DEF Span
    <3>3. i \in 0..(eof - 1) => file[i] # Hole /\ i < eof
      BY <3>1, Numbers DEF Serial, NoHole
    <3> QED
      BY <2>1, <3>2, <3>3, HoleAssumption
  <2> QED
    BY <1>7, <2>4, <2>5, <2>6, <2>7, <2>8 DEF Serial
<1>9. CASE status'[m] = "failed"
  <2>1. UNCHANGED <<file, eof>>
    BY <1>1, <1>9 DEF Transfer, Became, LogInv, TypeOK, fileVars
  <2>2. Active' = {} /\ Undisturbed' = Undisturbed /\ ~NoneFailed'
    BY <1>1, <1>3, <1>9 DEF Active, Undisturbed, Transfer, KeepMessages, NoneFailed, Alone
  <2>3. RestRule'
    BY <1>1, <1>4, <1>5, <2>1, <2>2, Numbers DEF RestRule
  <2>4. \A a \in Messages : WriterRule(a)'
    BY <2>2 DEF WriterRule
  <2>5. ASSUME NEW k \in Messages PROVE SeenRule(k)'
    BY <1>1, <1>6, <1>9, <2>2 DEF Serial, SeenRule
  <2> QED
    BY <1>1, <1>7, <2>1, <2>2, <2>3, <2>4, <2>5 DEF Serial, NoHole
<1> QED
  BY <1>1, <1>8, <1>9

\* A thread loads the pointer, or waits no longer.
LEMMA LoadSerial ==
    ASSUME LogInv, Serial,
           UNCHANGED <<file, eof, ptr, status, by, off, len, overlapped, filePos, seen>>,
           (main' = main /\ mainReg' = mainReg) \/ mainReg' = ptr \/ main'.at # "adds",
           (ctrlc' = ctrlc /\ ctrlcReg' = ctrlcReg) \/ ctrlcReg' = ptr \/ ctrlc'.at # "adds"
    PROVE  Serial'
<1>1. Active' = Active /\ Undisturbed' = Undisturbed /\ (NoneFailed' <=> NoneFailed)
  BY DEF Active, Undisturbed, NoneFailed
<1>2. \A k \in Messages : End(k)' = End(k) /\ Span(k)' = Span(k)
  BY DEF End, Span
<1>3. \A a \in Messages : WriterRule(a)'
  BY <1>1, <1>2 DEF Serial, WriterRule, Passed
<1>4. \A m \in Messages : SeenRule(m)'
  BY <1>1, <1>2 DEF Serial, SeenRule
<1>5. LoadedRule'
  BY DEF Serial, LoadedRule
<1> QED
  BY <1>1, <1>3, <1>4, <1>5 DEF Serial, RestRule, NoHole

\* The one message that is being written is done, and the pointer is behind it.
LEMMA DoneSerial ==
    ASSUME LogInv, Serial, overlapped = {}, NEW m \in Active, status[m] = "written",
           Became(m, "done"), ptr' = End(m), main'.at # "adds", ctrlc'.at # "adds",
           UNCHANGED <<file, eof, by, off, len, overlapped, filePos, seen>>
    PROVE  Serial'
<1>1. m \in Messages /\ Alone(m)
  BY OneWriter
<1>2. status'[m] = "done" /\ \A k \in Messages \ {m} : status'[k] = status[k]
  BY <1>1 DEF Became, LogInv, TypeOK
<1>3. Active' = {} /\ (NoneFailed' => NoneFailed)
  BY <1>1, <1>2 DEF Active, Alone, NoneFailed
<1>4. \A k \in Messages : Span(k)' = Span(k)
  BY DEF Span
<1>5. eof' = ptr' /\ filePos' <= eof'
  BY <1>1 DEF Serial, WriterRule
<1>6. \A a \in Messages : WriterRule(a)'
  BY <1>3 DEF WriterRule
<1>7. ASSUME NEW k \in Messages PROVE SeenRule(k)'
  <2>1. SeenRule(k)
    BY DEF Serial
  <2> QED
    BY <1>2, <1>4, <2>1 DEF SeenRule, Undisturbed
<1>8. RestRule'
  BY <1>5, Numbers DEF RestRule
<1> QED
  BY <1>3, <1>5, <1>6, <1>7, <1>8 DEF Serial, LoadedRule, NoHole

LEMMA MainAddsSerial ==
    ASSUME LogInv, Serial, overlapped = {}, MainAdds
    PROVE  Serial'
<1> DEFINE m == main.msg
<1>1. /\ m \in Messages /\ m \in Active /\ status[m] = "written" /\ by[m] # "ctrlc"
      /\ main.at = "adds"
  BY DEF MainAdds, LogInv, MainRule, Active
<1>2. /\ ptr' = mainReg + len[m] /\ Became(m, "done") /\ main' = Idle
      /\ UNCHANGED <<file, eof, ctrlc, by, off, len, overlapped, filePos, seen>>
  BY DEF MainAdds, Advance, KeepMessages, fileVars, ctrlcVars, readerVars
<1>3. mainReg = off[m]
  BY <1>1 DEF Serial, LoadedRule, WriterRule, Passed
<1>4. ptr' = End(m) /\ main'.at # "adds"
  BY <1>2, <1>3 DEF End, Idle
<1>5. ctrlc.at # "adds"
  <2>1. \A k \in Active : k = m
    BY <1>1, OneWriter DEF Alone
  <2> QED
    BY <1>1, <2>1, ThreadsActive
<1> HIDE DEF m
<1> QED
  BY <1>1, <1>2, <1>4, <1>5, DoneSerial

LEMMA CtrlcAddsSerial ==
    ASSUME LogInv, Serial, overlapped = {}, CtrlcAdds
    PROVE  Serial'
<1> DEFINE m == ctrlc.msg
<1>1. /\ m \in Messages /\ m \in Active /\ status[m] = "claimed" /\ ctrlc.at = "adds"
      /\ by[m] = "ctrlc"
  BY DEF CtrlcAdds, LogInv, CtrlcRule, Active
<1>2. /\ ptr' = ctrlcReg + len[m] /\ Became(m, "issued") /\ ctrlc'.at = "waits"
      /\ UNCHANGED <<file, eof, main, mainReg, by, off, len, overlapped, filePos, seen>>
  BY DEF CtrlcAdds, Advance, KeepMessages, fileVars, mainVars, readerVars, LogInv, TypeOK, Doing
<1>3. Alone(m)
  BY <1>1, OneWriter
<1> HIDE DEF m
<1>4. status'[m] = "issued" /\ \A k \in Messages \ {m} : status'[k] = status[k]
  BY <1>1, <1>2 DEF Became, LogInv, TypeOK
<1>5. Active' = Active /\ Undisturbed' = Undisturbed /\ (NoneFailed' => NoneFailed)
  BY <1>1, <1>2, <1>4 DEF Active, Undisturbed, NoneFailed
<1>6. \A k \in Messages : End(k)' = End(k) /\ Span(k)' = Span(k)
  BY <1>2 DEF End, Span
<1>7. /\ ptr = off[m] /\ ctrlcReg = ptr
      /\ eof <= off[m] /\ (NoneFailed => eof = off[m])
  BY <1>1 DEF Serial, LoadedRule, WriterRule, Passed
<1>8. ptr' = End(m) /\ filePos <= ptr'
  BY <1>1, <1>2, <1>7, Numbers DEF End, Serial
<1>9. ASSUME NEW a \in Messages PROVE WriterRule(a)'
  BY <1>1, <1>2, <1>3, <1>4, <1>5, <1>6, <1>7, <1>8 DEF WriterRule, Passed, Alone
<1>10. ASSUME NEW k \in Messages PROVE SeenRule(k)'
  BY <1>2, <1>4, <1>5, <1>6 DEF Serial, SeenRule
<1>11. main.at # "adds"
  <2>1. main.at = "adds" => main.msg \in Active /\ by[main.msg] # "ctrlc"
    BY ThreadsActive DEF LogInv, MainRule
  <2> QED
    BY <1>1, <1>3, <2>1 DEF Alone
<1> QED
  BY <1>1, <1>2, <1>5, <1>8, <1>9, <1>10, <1>11 DEF Serial, RestRule, LoadedRule, NoHole

LEMMA CtrlcWrittenSerial ==
    ASSUME LogInv, Serial, overlapped = {}, CtrlcWritten
    PROVE  Serial'
<1> DEFINE m == ctrlc.msg
<1>1. /\ m \in Messages /\ by[m] = "ctrlc" /\ ctrlc'.at # "adds"
      /\ UNCHANGED <<file, eof, ptr, main, mainReg, ctrlcReg, by, off, len, overlapped,
                     filePos, seen>>
  BY DEF CtrlcWritten, LogInv, CtrlcRule, fileVars, mainVars, readerVars, KeepMessages, Idle
<1>2. CASE UNCHANGED status
  BY <1>1, <1>2, LoadSerial
<1>3. CASE status[m] = "written" /\ Became(m, "done")
  <2>1. m \in Active
    BY <1>1, <1>3 DEF Active
  <2>2. Alone(m)
    BY <2>1, OneWriter
  <2>3. ptr' = End(m)
    BY <1>1, <1>3, <2>1 DEF Serial, WriterRule, Passed
  <2>4. main.at # "adds"
    <3>1. main.at = "adds" => main.msg \in Active /\ by[main.msg] # "ctrlc"
      BY ThreadsActive DEF LogInv, MainRule
    <3> QED
      BY <1>1, <2>2, <3>1 DEF Alone
  <2> HIDE DEF m
  <2> QED
    BY <1>1, <1>3, <2>1, <2>3, <2>4, DoneSerial
<1> QED
  BY <1>2, <1>3 DEF CtrlcWritten

\* A client reads what is in the file and below the pointer.
LEMMA ReadSerial ==
    ASSUME LogInv, Serial, overlapped = {}, ClientReads
    PROVE  Serial'
<1>1. /\ filePos' \in (filePos + 1)..ReadEnd
      /\ seen' = [i \in 0..(filePos' - 1) |->
                    IF i < filePos THEN seen[i] ELSE IF i < eof THEN file[i] ELSE Hole]
      /\ UNCHANGED <<file, eof, ptr, status, by, off, len, overlapped, main, mainReg,
                     ctrlc, ctrlcReg>>
  BY DEF ClientReads, fileVars, msgVars, mainVars, ctrlcVars
<1>2. filePos' \in Nat /\ filePos' <= eof /\ filePos' <= ptr
  BY <1>1, Numbers DEF ReadEnd
<1>3. Active' = Active /\ Undisturbed' = Undisturbed /\ (NoneFailed' <=> NoneFailed)
  BY <1>1 DEF Active, Undisturbed, NoneFailed
<1>4. \A k \in Messages : End(k)' = End(k) /\ Span(k)' = Span(k)
  BY <1>1 DEF End, Span
<1>5. \A a \in Messages : WriterRule(a)'
  BY <1>1, <1>3, <1>4 DEF Serial, WriterRule, Passed
<1>6. ASSUME NEW m \in Messages PROVE SeenRule(m)'
  <2> SUFFICES ASSUME m \in Undisturbed \/ status[m] = "written",
                      NEW i \in Span(m), i < filePos'
               PROVE  seen'[i] = m
    BY <1>1, <1>3, <1>4 DEF SeenRule
  <2>1. file[i] = m
    <3>1. CASE m \in Undisturbed
      BY <3>1 DEF LogInv, LogRule
    <3>2. CASE status[m] = "written"
      <4>1. m \in Active /\ AloneRule(m)
        BY <3>2 DEF Active, LogInv
      <4> QED
        BY <3>2, <4>1 DEF AloneRule
    <3> QED
      BY <3>1, <3>2
  <2>2. i \in 0..(filePos' - 1) /\ i < eof
    BY <1>2, Numbers DEF Span
  <2>3. i < filePos => seen[i] = m
    BY DEF Serial, SeenRule
  <2> QED
    BY <1>1, <2>1, <2>2, <2>3
<1> QED
  BY <1>1, <1>2, <1>3, <1>5, <1>6 DEF Serial, RestRule, LoadedRule, NoHole

LEMMA SerialStep == LogInv /\ SerialInv /\ [Next]_vars => SerialInv'
<1> USE DEF fileVars, msgVars, readerVars, mainVars, ctrlcVars
<1> SUFFICES ASSUME LogInv, SerialInv, [Next]_vars, overlapped' = {}
             PROVE  Serial'
  BY DEF SerialInv
<1>1. ASSUME NEW m \in Messages, NEW w, NEW st, Begin(m, w, st) PROVE overlapped = {}
  BY <1>1 DEF Begin
<1>2. overlapped = {}
  BY <1>1 DEF Next, MainWrites, ChildWrites, CtrlcClaims, Transfer, MainWritten,
              WriteTempFileCompleted, MainAdds, CtrlcLoads, CtrlcAdds, CtrlcWritten,
              ClientReads, KeepMessages, vars
<1>3. Serial
  BY <1>2 DEF SerialInv
<1>4. ASSUME NEW m \in Messages, MainWrites(m) PROVE Serial'
  <2>1. Begin(m, "main", "issued") /\ main'.at = "waits"
    BY <1>4 DEF MainWrites
  <2>2. UNCHANGED <<file, eof, ptr, mainReg, ctrlc, ctrlcReg, filePos, seen>>
    BY <1>4 DEF MainWrites
  <2> QED
    BY <1>2, <1>3, <2>1, <2>2, BeginSerial
<1>5. ASSUME NEW m \in Messages, ChildWrites(m) PROVE Serial'
  <2>1. Begin(m, "child", "issued")
    BY <1>5 DEF ChildWrites
  <2>2. UNCHANGED <<file, eof, ptr, main, mainReg, ctrlc, ctrlcReg, filePos, seen>>
    BY <1>5 DEF ChildWrites
  <2> QED
    BY <1>2, <1>3, <2>1, <2>2, BeginSerial
<1>6. ASSUME NEW m \in Messages, CtrlcClaims(m) PROVE Serial'
  <2>1. Begin(m, "ctrlc", "claimed") /\ ctrlc'.at = "claims"
    BY <1>6 DEF CtrlcClaims
  <2>2. UNCHANGED <<file, eof, ptr, main, mainReg, ctrlcReg, filePos, seen>>
    BY <1>6 DEF CtrlcClaims
  <2> QED
    BY <1>2, <1>3, <2>1, <2>2, BeginSerial
<1>7. ASSUME MainWritten \/ WriteTempFileCompleted PROVE Serial'
  <2>1. UNCHANGED <<file, eof, ptr, status, by, off, len, overlapped, ctrlc, ctrlcReg,
                    filePos, seen>>
    BY <1>7 DEF MainWritten, WriteTempFileCompleted
  <2>2. mainReg' = ptr \/ main'.at # "adds"
    BY <1>7 DEF MainWritten, WriteTempFileCompleted, Idle
  <2> QED
    BY <1>3, <2>1, <2>2, LoadSerial
<1>8. ASSUME CtrlcLoads PROVE Serial'
  <2>1. UNCHANGED <<file, eof, ptr, status, by, off, len, overlapped, main, mainReg,
                    filePos, seen>>
    BY <1>8 DEF CtrlcLoads
  <2>2. ctrlcReg' = ptr
    BY <1>8 DEF CtrlcLoads
  <2> QED
    BY <1>3, <2>1, <2>2, LoadSerial
<1>9. CASE UNCHANGED vars
  <2>1. UNCHANGED <<file, eof, ptr, status, by, off, len, overlapped, main, mainReg,
                    ctrlc, ctrlcReg, filePos, seen>>
    BY <1>9 DEF vars
  <2> QED
    BY <1>3, <2>1, LoadSerial
<1> QED
  BY <1>2, <1>3, <1>4, <1>5, <1>6, <1>7, <1>8, <1>9, TransferSerial, MainAddsSerial,
     CtrlcAddsSerial, CtrlcWrittenSerial, ReadSerial DEF Next

LEMMA InitSerial == Init => SerialInv
<1> SUFFICES ASSUME Init PROVE Serial
  BY DEF SerialInv
<1>1. Active = {} /\ Undisturbed = {}
  BY DEF Init, Active, Undisturbed
<1> QED
  BY <1>1 DEF Init, Serial, WriterRule, RestRule, LoadedRule, SeenRule, NoHole, Idle

(***************************************************************************)
(* The theorems.                                                           *)
(***************************************************************************)

\* Until two writes overlap, the pointer and the end of the file tell the same story.
THEOREM SerialInvariant == Spec => [](LogInv /\ SerialInv)
<1>1. Spec => []SerialInv
  BY InitSerial, SerialStep, LogInvariant, PTL DEF Spec
<1> QED
  BY <1>1, LogInvariant, PTL

\* While no writes have overlapped, a client that has read past a message was sent it
\* as it was written (srvutil.c:705, srvstoc.c:90).
THEOREM ReadersSeeWhole == Spec => []SeenWhole
<1>1. LogInv /\ SerialInv => SeenWhole
  BY DEF SerialInv, Serial, SeenRule, SeenWhole, Undisturbed
<1> QED
  BY <1>1, SerialInvariant, PTL

\* While no writes have overlapped and none has failed, the file has no gap and ends
\* where the pointer is when nobody is writing (srvutil.c:704-706, srvchild.c:158).
THEOREM FileHasNoGap == Spec => []NoGap
<1>1. LogInv /\ SerialInv => NoGap
  BY DEF SerialInv, Serial, RestRule, NoHole, NoneFailed, NoGap
<1> QED
  BY <1>1, SerialInvariant, PTL
=============================================================================
