------------------------ MODULE RemoteTempFileProofs ------------------------
(***************************************************************************)
(* Whatever the writers of the temp file do to one another, the messages   *)
(* that no other write overlapped form an append-only log: they implement  *)
(* AppendLog, for any number of messages of any length.                    *)
(***************************************************************************)
EXTENDS RemoteTempFile, TLAPS

(***************************************************************************)
(* The inductive invariant.                                                *)
(***************************************************************************)

\* The first position behind a message.
End(m) == off[m] + len[m]

\* What a thread is doing to a message says how far its write is, and whose
\* it is: no two of them are at the same one.
MainRule ==
    /\ main.at = "waits" => /\ main.msg \in Messages /\ by[main.msg] = "main"
                            /\ status[main.msg] \in {"issued", "written", "failed"}
    /\ main.at = "adds" => /\ main.msg \in Messages /\ by[main.msg] \in {"main", "child"}
                           /\ status[main.msg] = "written"

CtrlcRule ==
    /\ ctrlc.at \in {"claims", "adds"} =>
         /\ ctrlc.msg \in Messages /\ by[ctrlc.msg] = "ctrlc"
         /\ status[ctrlc.msg] = "claimed"
    /\ ctrlc.at = "waits" => /\ ctrlc.msg \in Messages /\ by[ctrlc.msg] = "ctrlc"
                             /\ status[ctrlc.msg] \in {"issued", "written", "failed"}

ChildRule ==
    child # NoMessage => /\ by[child] = "child"
                         /\ status[child] \in {"issued", "written", "failed"}

\* A message that is written alone is the only one anybody is at; no pointer,
\* in memory or loaded, is before it, and behind it once the Ctrl-C handler
\* has advanced it.
AloneRule(a) ==
    a \in Active /\ a \notin overlapped =>
        /\ \A k \in Active : k = a
        /\ off[a] <= ptr
        /\ main.at = "adds" => off[a] <= mainReg
        /\ ctrlc.at = "adds" => off[a] <= ctrlcReg
        /\ by[a] = "ctrlc" /\ status[a] # "claimed" => End(a) <= ptr
        /\ status[a] = "written" =>
             End(a) <= eof /\ \A i \in Span(a) : file[i] = a

\* A message that was written alone is in the file, and everything that is
\* still to be written goes behind it.
LogRule(m) ==
    m \in Undisturbed =>
        /\ End(m) <= eof /\ \A i \in Span(m) : file[i] = m
        /\ End(m) <= ptr
        /\ main.at = "adds" => End(m) <= mainReg
        /\ ctrlc.at = "adds" => End(m) <= ctrlcReg
        /\ \A a \in Active : End(m) <= off[a]

LogInv ==
    /\ TypeOK
    /\ MainRule
    /\ CtrlcRule
    /\ ChildRule
    /\ \A a \in Messages : AloneRule(a)
    /\ \A m \in Messages : LogRule(m)

(***************************************************************************)
(* Type correctness.                                                       *)
(***************************************************************************)

\* A message's write begins with its place and length recorded.
LEMMA BeginTypes ==
    ASSUME TypeOK, NEW m \in Messages, NEW w, NEW st \in {"claimed", "issued"},
           Begin(m, w, st)
    PROVE  /\ status' \in [Messages -> Statuses]
           /\ by' \in [Messages -> AllWriters \cup {"none"}]
           /\ off' \in [Messages -> Nat] /\ len' \in [Messages -> Nat]
           /\ overlapped' \subseteq Messages
<1>1. w \in AllWriters
  BY WritersAssumption DEF Begin
<1>2. PICK n \in 1..MaxLen : len' = [len EXCEPT ![m] = n]
  BY DEF Begin
<1>3. n \in Nat
  BY BoundsAssumption
<1>4. Active \subseteq Messages
  BY DEF Active
<1> QED
  BY <1>1, <1>2, <1>3, <1>4 DEF Begin, TypeOK, Statuses

\* Nothing a transfer writes, or a read returns, is anything but bytes.
LEMMA TransferTypes ==
    ASSUME TypeOK, NEW m \in Messages, Transfer(m)
    PROVE  TypeOK'
<1> DEFINE end == IF End(m) > eof THEN End(m) ELSE eof
<1>1. status' \in [Messages -> Statuses] /\ UNCHANGED <<ptr, child, mainVars, ctrlcVars,
        readerVars, by, off, len, overlapped>>
  BY DEF Transfer, TypeOK, Became, Statuses, KeepMessages
<1>2. eof' \in Nat /\ file' \in [0..(eof' - 1) -> Bytes]
  <2>1. CASE UNCHANGED fileVars
    BY <2>1 DEF TypeOK, fileVars
  <2>2. CASE /\ eof' = end
             /\ file' = [i \in 0..(end - 1) |-> IF i \in Span(m) THEN m
                                                ELSE IF i < eof THEN file[i] ELSE Hole]
    <3>1. end \in Nat
      BY DEF TypeOK, End
    <3>2. ASSUME NEW i \in 0..(end - 1), i < eof PROVE file[i] \in Bytes
      <4>1. i \in 0..(eof - 1)
        BY <3>1, <3>2 DEF TypeOK
      <4> QED
        BY <4>1 DEF TypeOK
    <3>3. m \in Bytes /\ Hole \in Bytes
      BY DEF Bytes
    <3> HIDE DEF end
    <3> QED
      BY <2>2, <3>1, <3>2, <3>3
  <2> QED
    BY <2>1, <2>2 DEF Transfer, End
<1> QED
  BY <1>1, <1>2 DEF TypeOK, mainVars, ctrlcVars, readerVars

LEMMA ReadTypes ==
    ASSUME TypeOK, ClientReads
    PROVE  TypeOK'
<1>1. filePos' \in Nat
  BY DEF ClientReads, TypeOK, ReadEnd
<1>2. ASSUME NEW i \in 0..(filePos' - 1)
      PROVE  (IF i < filePos THEN seen[i] ELSE IF i < eof THEN file[i] ELSE Hole) \in Bytes
  <2>1. CASE i < filePos
    <3>1. i \in 0..(filePos - 1)
      BY <2>1, <1>1 DEF TypeOK
    <3> QED
      BY <2>1, <3>1 DEF TypeOK
  <2>2. CASE ~ (i < filePos) /\ i < eof
    <3>1. i \in 0..(eof - 1)
      BY <2>2, <1>1 DEF TypeOK
    <3> QED
      BY <2>2, <3>1 DEF TypeOK
  <2>3. CASE ~ (i < filePos) /\ ~ (i < eof)
    BY <2>3 DEF Bytes
  <2> QED
    BY <2>1, <2>2, <2>3
<1>3. seen' \in [0..(filePos' - 1) -> Bytes]
  BY <1>2 DEF ClientReads
<1> QED
  BY <1>1, <1>3 DEF ClientReads, TypeOK, fileVars, msgVars, mainVars, ctrlcVars

LEMMA TypesStep ==
    ASSUME TypeOK, MainRule, CtrlcRule, [Next]_vars
    PROVE  TypeOK'
<1> USE DEF fileVars, msgVars, readerVars, mainVars, ctrlcVars
<1>1. ASSUME NEW m \in Messages, MainWrites(m) PROVE TypeOK'
  <2>1. Begin(m, "main", "issued")
    BY <1>1 DEF MainWrites
  <2> QED
    BY <1>1, <2>1, BeginTypes DEF MainWrites, TypeOK, Doing
<1>2. ASSUME NEW m \in Messages, ChildWrites(m) PROVE TypeOK'
  <2>1. Begin(m, "child", "issued")
    BY <1>2 DEF ChildWrites
  <2> QED
    BY <1>2, <2>1, BeginTypes DEF ChildWrites, TypeOK
<1>3. ASSUME NEW m \in Messages, CtrlcClaims(m) PROVE TypeOK'
  <2>1. Begin(m, "ctrlc", "claimed")
    BY <1>3 DEF CtrlcClaims
  <2> QED
    BY <1>3, <2>1, BeginTypes DEF CtrlcClaims, TypeOK, Doing
<1>4. ASSUME MainWritten PROVE TypeOK'
  BY <1>4 DEF MainWritten, MainRule, TypeOK, Doing, Idle
<1>5. ASSUME WriteTempFileCompleted PROVE TypeOK'
  BY <1>5 DEF WriteTempFileCompleted, TypeOK, Doing
<1>6. ASSUME MainAdds PROVE TypeOK'
  <2>1. main.msg \in Messages
    BY <1>6 DEF MainAdds, MainRule
  <2>2. Advance(mainReg, main.msg) \in Nat
    BY <2>1 DEF TypeOK, Advance
  <2>3. status' \in [Messages -> Statuses]
    BY <1>6 DEF MainAdds, Became, TypeOK, Statuses
  <2> QED
    BY <1>6, <2>2, <2>3 DEF MainAdds, KeepMessages, TypeOK, Doing, Idle
<1>7. ASSUME CtrlcLoads PROVE TypeOK'
  BY <1>7 DEF CtrlcLoads, TypeOK, Doing
<1>8. ASSUME CtrlcAdds PROVE TypeOK'
  <2>1. ctrlc.msg \in Messages
    BY <1>8 DEF CtrlcAdds, CtrlcRule
  <2>2. Advance(ctrlcReg, ctrlc.msg) \in Nat
    BY <2>1 DEF TypeOK, Advance
  <2>3. status' \in [Messages -> Statuses]
    BY <1>8 DEF CtrlcAdds, Became, TypeOK, Statuses
  <2> QED
    BY <1>8, <2>2, <2>3 DEF CtrlcAdds, KeepMessages, TypeOK, Doing
<1>9. ASSUME CtrlcWritten PROVE TypeOK'
  <2>1. status' \in [Messages -> Statuses]
    BY <1>9 DEF CtrlcWritten, Became, TypeOK, Statuses
  <2> QED
    BY <1>9, <2>1 DEF CtrlcWritten, KeepMessages, TypeOK, Doing, Idle
<1>10. CASE UNCHANGED vars
  BY <1>10 DEF vars, TypeOK
<1> QED
  BY <1>1, <1>2, <1>3, <1>4, <1>5, <1>6, <1>7, <1>8, <1>9, <1>10,
     TransferTypes, ReadTypes DEF Next

(***************************************************************************)
(* What each thread is doing.                                              *)
(***************************************************************************)

LEMMA ThreadRulesStep ==
    ASSUME TypeOK, MainRule, CtrlcRule, ChildRule, [Next]_vars
    PROVE  MainRule' /\ CtrlcRule' /\ ChildRule'
<1> USE DEF fileVars, msgVars, readerVars, mainVars, ctrlcVars
<1>1. ASSUME NEW m \in Messages, NEW w, NEW st, Begin(m, w, st)
      PROVE  /\ status[m] = "new" /\ status'[m] = st /\ by'[m] = w
             /\ \A k \in Messages \ {m} : status'[k] = status[k] /\ by'[k] = by[k]
  BY <1>1 DEF Begin, TypeOK
<1>2. ASSUME NEW m \in Messages, MainWrites(m) PROVE MainRule' /\ CtrlcRule' /\ ChildRule'
  <2>1. Begin(m, "main", "issued")
    BY <1>2 DEF MainWrites
  <2>2. MainRule'
    BY <1>2, <2>1, <1>1 DEF MainWrites, MainRule
  <2>3. CtrlcRule'
    BY <1>2, <2>1, <1>1 DEF MainWrites, CtrlcRule
  <2>4. ChildRule'
    BY <1>2, <2>1, <1>1 DEF MainWrites, ChildRule, TypeOK
  <2> QED
    BY <2>2, <2>3, <2>4
<1>3. ASSUME NEW m \in Messages, ChildWrites(m) PROVE MainRule' /\ CtrlcRule' /\ ChildRule'
  <2>1. Begin(m, "child", "issued")
    BY <1>3 DEF ChildWrites
  <2>2. MainRule'
    BY <1>3, <2>1, <1>1 DEF ChildWrites, MainRule, Idle
  <2>3. CtrlcRule'
    BY <1>3, <2>1, <1>1 DEF ChildWrites, CtrlcRule
  <2>4. ChildRule'
    BY <1>3, <2>1, <1>1 DEF ChildWrites, ChildRule
  <2> QED
    BY <2>2, <2>3, <2>4
<1>4. ASSUME NEW m \in Messages, CtrlcClaims(m) PROVE MainRule' /\ CtrlcRule' /\ ChildRule'
  <2>1. Begin(m, "ctrlc", "claimed")
    BY <1>4 DEF CtrlcClaims
  <2>2. MainRule'
    BY <1>4, <2>1, <1>1 DEF CtrlcClaims, MainRule
  <2>3. CtrlcRule'
    BY <1>4, <2>1, <1>1 DEF CtrlcClaims, CtrlcRule
  <2>4. ChildRule'
    BY <1>4, <2>1, <1>1 DEF CtrlcClaims, ChildRule, TypeOK
  <2> QED
    BY <2>2, <2>3, <2>4
<1>5. ASSUME NEW m \in Messages, Transfer(m) PROVE MainRule' /\ CtrlcRule' /\ ChildRule'
  <2>1. PICK st \in {"written", "failed"} : Became(m, st)
    BY <1>5 DEF Transfer
  <2>2. /\ status[m] = "issued" /\ status'[m] = st
        /\ \A k \in Messages \ {m} : status'[k] = status[k]
    BY <1>5, <2>1 DEF Transfer, Became, TypeOK
  <2>3. UNCHANGED <<main, ctrlc, child, by>>
    BY <1>5 DEF Transfer, KeepMessages
  <2> QED
    BY <2>2, <2>3 DEF MainRule, CtrlcRule, ChildRule, TypeOK
<1>6. ASSUME MainWritten PROVE MainRule' /\ CtrlcRule' /\ ChildRule'
  BY <1>6 DEF MainWritten, MainRule, CtrlcRule, ChildRule, Idle
<1>7. ASSUME WriteTempFileCompleted PROVE MainRule' /\ CtrlcRule' /\ ChildRule'
  BY <1>7 DEF WriteTempFileCompleted, MainRule, CtrlcRule, ChildRule, TypeOK
<1>8. ASSUME MainAdds PROVE MainRule' /\ CtrlcRule' /\ ChildRule'
  <2>1. /\ main.msg \in Messages /\ by[main.msg] # "ctrlc"
        /\ \A k \in Messages \ {main.msg} : status'[k] = status[k]
        /\ UNCHANGED <<ctrlc, by>> /\ main' = Idle
    BY <1>8 DEF MainAdds, MainRule, Became, KeepMessages, TypeOK
  <2>2. child' = (IF child = main.msg THEN NoMessage ELSE child)
    BY <1>8 DEF MainAdds
  <2>3. CtrlcRule'
    BY <2>1 DEF CtrlcRule
  <2>4. ChildRule'
    BY <2>1, <2>2 DEF ChildRule, TypeOK
  <2> QED
    BY <2>1, <2>3, <2>4 DEF MainRule, Idle
<1>9. ASSUME CtrlcLoads PROVE MainRule' /\ CtrlcRule' /\ ChildRule'
  BY <1>9 DEF CtrlcLoads, MainRule, CtrlcRule, ChildRule, TypeOK, Doing
<1>10. ASSUME CtrlcAdds PROVE MainRule' /\ CtrlcRule' /\ ChildRule'
  <2>1. /\ ctrlc.msg \in Messages /\ by[ctrlc.msg] = "ctrlc"
        /\ status'[ctrlc.msg] = "issued"
        /\ \A k \in Messages \ {ctrlc.msg} : status'[k] = status[k]
        /\ UNCHANGED <<main, child, by>>
        /\ ctrlc'.at = "waits" /\ ctrlc'.msg = ctrlc.msg
    BY <1>10 DEF CtrlcAdds, CtrlcRule, Became, KeepMessages, TypeOK, Doing
  <2> QED
    BY <2>1 DEF MainRule, CtrlcRule, ChildRule, TypeOK
<1>11. ASSUME CtrlcWritten PROVE MainRule' /\ CtrlcRule' /\ ChildRule'
  <2>1. /\ ctrlc.msg \in Messages /\ by[ctrlc.msg] = "ctrlc"
        /\ \A k \in Messages \ {ctrlc.msg} : status'[k] = status[k]
        /\ UNCHANGED <<main, child, by>> /\ ctrlc' = Idle
    BY <1>11 DEF CtrlcWritten, CtrlcRule, Became, KeepMessages, TypeOK
  <2> QED
    BY <2>1 DEF MainRule, CtrlcRule, ChildRule, TypeOK, Idle
<1>12. CASE ClientReads \/ UNCHANGED vars
  BY <1>12 DEF ClientReads, vars, MainRule, CtrlcRule, ChildRule
<1> QED
  BY <1>2, <1>3, <1>4, <1>5, <1>6, <1>7, <1>8, <1>9, <1>10, <1>11, <1>12 DEF Next

(***************************************************************************)
(* The messages: what each action keeps of AloneRule and LogRule.          *)
(***************************************************************************)

MessageRules == \A a \in Messages : AloneRule(a) /\ LogRule(a)

\* A thread that has loaded the pointer is at a message that is active.
LEMMA ThreadsActive ==
    ASSUME LogInv
    PROVE  /\ main.at \in {"waits", "adds"} /\ status[main.msg] # "failed"
                => main.msg \in Active /\ by[main.msg] # "ctrlc"
           /\ ctrlc.at \in {"claims", "adds"} => ctrlc.msg \in Active /\ by[ctrlc.msg] = "ctrlc"
<1>1. MainRule /\ CtrlcRule
  BY DEF LogInv
<1> QED
  BY <1>1 DEF MainRule, CtrlcRule, Active

LEMMA BeginKeeps ==
    ASSUME LogInv, NEW m \in Messages, NEW w, NEW st \in {"claimed", "issued"},
           Begin(m, w, st), w = "ctrlc" => st = "claimed",
           UNCHANGED <<file, eof, ptr, mainReg, ctrlcReg>>,
           main'.at = "adds" => main.at = "adds",
           ctrlc'.at = "adds" => ctrlc.at = "adds"
    PROVE  MessageRules'
<1>1. /\ status[m] = "new" /\ status'[m] = st /\ by'[m] = w /\ off'[m] = ptr
      /\ \A k \in Messages \ {m} : /\ status'[k] = status[k] /\ by'[k] = by[k]
                                   /\ off'[k] = off[k] /\ len'[k] = len[k]
  BY DEF LogInv, Begin, TypeOK
<1>2. m \notin Active /\ Active' = Active \cup {m}
  BY <1>1 DEF Active
<1>3. overlapped' = IF Active = {} THEN overlapped ELSE overlapped \cup Active \cup {m}
  BY DEF Begin
<1>4. ASSUME NEW a \in Messages PROVE AloneRule(a)'
  <2> SUFFICES ASSUME a \in Active', a \notin overlapped'
               PROVE  AloneRule(a)'
    BY DEF AloneRule
  <2>1. Active = {} /\ a = m
    BY <1>2, <1>3
  <2>2. main.at # "adds" /\ ctrlc.at # "adds"
    <3>1. main.at = "adds" => status[main.msg] # "failed"
      BY DEF LogInv, MainRule
    <3> QED
      BY <2>1, <3>1, ThreadsActive
  <2>3. ptr \in Nat
    BY DEF LogInv, TypeOK
  <2>4. off'[a] <= ptr' /\ (by'[a] = "ctrlc" => status'[a] = "claimed")
    BY <1>1, <2>1, <2>3
  <2>5. status'[a] # "written" /\ \A k \in Active' : k = a
    BY <1>1, <1>2, <2>1
  <2>6. main'.at # "adds" /\ ctrlc'.at # "adds"
    BY <2>2
  <2> QED
    BY <2>4, <2>5, <2>6 DEF AloneRule
<1>5. ASSUME NEW k \in Messages PROVE LogRule(k)'
  <2> SUFFICES ASSUME k \in Undisturbed'
               PROVE  LogRule(k)'
    BY DEF LogRule
  <2>1. k # m /\ k \in Undisturbed
    BY <1>1, <1>3 DEF Undisturbed
  <2>2. LogRule(k)
    BY DEF LogInv
  <2>3. End(k)' = End(k) /\ Span(k)' = Span(k)
    BY <1>1, <2>1 DEF End, Span
  <2>4. \A a \in Active' : End(k) <= off'[a]
    BY <1>1, <1>2, <2>1, <2>2 DEF LogRule, Active
  <2> QED
    BY <2>1, <2>2, <2>3, <2>4 DEF LogRule
<1> QED
  BY <1>4, <1>5 DEF MessageRules

LEMMA TransferKeeps ==
    ASSUME LogInv, NEW m \in Messages, Transfer(m)
    PROVE  MessageRules'
<1>1. UNCHANGED <<ptr, by, off, len, overlapped, main, mainReg, ctrlc, ctrlcReg>>
  BY DEF Transfer, KeepMessages, mainVars, ctrlcVars
<1>2. /\ status[m] = "issued" /\ status'[m] \in {"written", "failed"}
      /\ \A k \in Messages \ {m} : status'[k] = status[k]
  BY DEF Transfer, Became, LogInv, TypeOK
<1>3. /\ m \in Active /\ Active' \subseteq Active
      /\ Undisturbed' \subseteq Undisturbed
  BY <1>1, <1>2 DEF Active, Undisturbed
<1>4. \A k \in Messages : End(k)' = End(k) /\ Span(k)' = Span(k) /\ End(k) \in Nat
  BY <1>1 DEF End, Span, LogInv, TypeOK
<1>5. eof \in Nat /\ off \in [Messages -> Nat] /\ len \in [Messages -> Nat]
  BY DEF LogInv, TypeOK
<1>6. CASE status'[m] = "written"
  <2> DEFINE end == IF End(m) > eof THEN End(m) ELSE eof
  <2>1. /\ eof' = end
        /\ file' = [i \in 0..(end - 1) |-> IF i \in Span(m) THEN m
                                           ELSE IF i < eof THEN file[i] ELSE Hole]
    BY <1>6 DEF Transfer, Became, LogInv, TypeOK, End
  <2>2. end \in Nat /\ eof <= end /\ End(m) <= end
    BY <1>4, <1>5
  <2>3. ASSUME NEW i \in Span(m) PROVE file'[i] = m
    <3>1. i \in 0..(end - 1)
      BY <1>5, <2>2 DEF Span, End
    <3> HIDE DEF end
    <3> QED
      BY <2>1, <3>1
  <2>4. ASSUME NEW k \in Undisturbed, NEW i \in Span(k) PROVE file'[i] = k
    <3>1. End(k) <= off[m] /\ End(k) <= eof /\ file[i] = k
      BY <1>3 DEF LogInv, LogRule, Undisturbed
    <3>2. i \in 0..(end - 1) /\ i \notin Span(m) /\ i < eof
      BY <1>5, <2>2, <3>1 DEF Span, End, Undisturbed
    <3> HIDE DEF end
    <3> QED
      BY <2>1, <3>1, <3>2
  <2> HIDE DEF end
  <2>5. ASSUME NEW a \in Messages PROVE AloneRule(a)'
    <3> SUFFICES ASSUME a \in Active', a \notin overlapped'
                 PROVE  AloneRule(a)'
      BY DEF AloneRule
    <3>1. AloneRule(a) /\ a \in Active /\ a \notin overlapped
      BY <1>1, <1>3 DEF LogInv
    <3>2. a = m
      BY <1>3, <3>1 DEF AloneRule
    <3>3. /\ off'[a] <= ptr' /\ (main'.at = "adds" => off'[a] <= mainReg')
          /\ (ctrlc'.at = "adds" => off'[a] <= ctrlcReg')
          /\ \A k \in Active' : k = a
      BY <1>1, <1>3, <3>1 DEF AloneRule
    <3>4. by'[a] = "ctrlc" /\ status'[a] # "claimed" => End(a)' <= ptr'
      BY <1>1, <1>2, <1>4, <3>1, <3>2 DEF AloneRule
    <3>5. End(a)' <= eof' /\ \A i \in Span(a)' : file'[i] = a
      BY <1>4, <2>1, <2>2, <2>3, <3>2
    <3> QED
      BY <3>3, <3>4, <3>5 DEF AloneRule
  <2>6. ASSUME NEW k \in Messages PROVE LogRule(k)'
    <3> SUFFICES ASSUME k \in Undisturbed'
                 PROVE  LogRule(k)'
      BY DEF LogRule
    <3>1. LogRule(k) /\ k \in Undisturbed
      BY <1>3 DEF LogInv
    <3>2. End(k)' <= eof'
      BY <1>4, <1>5, <2>1, <2>2, <3>1 DEF LogRule
    <3>3. \A i \in Span(k)' : file'[i] = k
      BY <1>4, <2>4, <3>1
    <3>4. \A a \in Active' : End(k)' <= off'[a]
      BY <1>1, <1>3, <1>4, <3>1 DEF LogRule
    <3> QED
      BY <1>1, <1>4, <3>1, <3>2, <3>3, <3>4 DEF LogRule
  <2> QED
    BY <2>5, <2>6 DEF MessageRules
<1>7. CASE status'[m] = "failed"
  <2>1. UNCHANGED <<file, eof>>
    BY <1>7 DEF Transfer, Became, LogInv, TypeOK, fileVars
  <2>2. m \notin Active'
    BY <1>7 DEF Active
  <2>3. ASSUME NEW a \in Messages PROVE AloneRule(a)'
    BY <1>1, <1>3, <2>2 DEF LogInv, AloneRule
  <2>4. ASSUME NEW k \in Messages PROVE LogRule(k)'
    BY <1>1, <1>3, <1>4, <2>1 DEF LogInv, LogRule
  <2> QED
    BY <2>3, <2>4 DEF MessageRules
<1> QED
  BY <1>2, <1>6, <1>7

\* A thread loads the pointer, or does nothing to any message.
LEMMA LoadKeeps ==
    ASSUME LogInv,
           UNCHANGED <<file, eof, ptr, status, by, off, len, overlapped>>,
           \/ main' = main /\ mainReg' = mainReg
           \/ mainReg' = ptr
           \/ main'.at # "adds",
           \/ ctrlc' = ctrlc /\ ctrlcReg' = ctrlcReg
           \/ ctrlcReg' = ptr
           \/ ctrlc'.at # "adds"
    PROVE  MessageRules'
<1>1. Active' = Active /\ Undisturbed' = Undisturbed
  BY DEF Active, Undisturbed
<1>2. \A k \in Messages : End(k)' = End(k) /\ Span(k)' = Span(k)
  BY DEF End, Span
<1>3. ASSUME NEW a \in Messages PROVE AloneRule(a)'
  <2>1. AloneRule(a)
    BY DEF LogInv
  <2> QED
    BY <1>1, <1>2, <2>1 DEF AloneRule
<1>4. ASSUME NEW k \in Messages PROVE LogRule(k)'
  <2>1. LogRule(k)
    BY DEF LogInv
  <2> QED
    BY <1>1, <1>2, <2>1 DEF LogRule
<1> QED
  BY <1>3, <1>4 DEF MessageRules

\* A writer is done with a message: the pointer is past it.
LEMMA DoneKeeps ==
    ASSUME LogInv, NEW m \in Active, status[m] = "written", Became(m, "done"),
           UNCHANGED <<file, eof, mainReg, ctrlcReg, by, off, len, overlapped>>,
           ptr' \in Nat,
           m \notin overlapped => End(m) <= ptr',
           \A k \in Undisturbed : End(k) <= ptr',
           m \notin overlapped => main'.at # "adds" /\ ctrlc'.at # "adds",
           main'.at = "adds" => main.at = "adds",
           ctrlc'.at = "adds" => ctrlc.at = "adds"
    PROVE  MessageRules'
<1>1. m \in Messages
  BY DEF Active
<1>2. status'[m] = "done" /\ \A k \in Messages \ {m} : status'[k] = status[k]
  BY <1>1 DEF Became, LogInv, TypeOK
<1>3. Active' = Active \ {m} /\ Undisturbed' \subseteq Undisturbed \cup {m}
  BY <1>1, <1>2 DEF Active, Undisturbed
<1>4. \A k \in Messages : End(k)' = End(k) /\ Span(k)' = Span(k)
  BY DEF End, Span
<1>5. ASSUME NEW a \in Messages PROVE AloneRule(a)'
  <2>1. AloneRule(a)
    BY DEF LogInv
  <2> QED
    BY <1>3, <2>1 DEF AloneRule
<1>6. ASSUME NEW k \in Messages, k \in Undisturbed', k # m PROVE LogRule(k)'
  <2>1. LogRule(k) /\ k \in Undisturbed
    BY <1>3, <1>6 DEF LogInv
  <2> QED
    BY <1>3, <1>4, <2>1 DEF LogRule
<1>7. ASSUME m \in Undisturbed' PROVE LogRule(m)'
  <2>1. m \notin overlapped /\ AloneRule(m)
    BY <1>1, <1>7 DEF LogInv, Undisturbed
  <2>2. Active' = {}
    BY <1>3, <2>1 DEF AloneRule
  <2> QED
    BY <1>1, <1>4, <2>1, <2>2 DEF AloneRule, LogRule
<1>8. \A k \in Messages : k \notin Undisturbed' => LogRule(k)'
  BY DEF LogRule
<1> QED
  BY <1>5, <1>6, <1>7, <1>8 DEF MessageRules

LEMMA MainAddsKeeps ==
    ASSUME LogInv, MainAdds
    PROVE  MessageRules'
<1> DEFINE m == main.msg
<1>1. /\ m \in Messages /\ status[m] = "written" /\ by[m] # "ctrlc" /\ m \in Active
  BY DEF MainAdds, LogInv, MainRule, Active
<1>2. /\ ptr' = mainReg + len[m] /\ Became(m, "done") /\ main' = Idle
      /\ UNCHANGED <<file, eof, mainReg, ctrlc, ctrlcReg, by, off, len, overlapped>>
  BY DEF MainAdds, Advance, KeepMessages, fileVars, ctrlcVars
<1>3. mainReg \in Nat /\ len[m] \in Nat /\ off[m] \in Nat /\ ptr' \in Nat
  BY <1>1, <1>2 DEF LogInv, TypeOK
<1>4. main.at = "adds"
  BY DEF MainAdds
<1>5. m \notin overlapped => End(m) <= ptr' /\ ctrlc.at # "adds"
  <2> SUFFICES ASSUME m \notin overlapped
               PROVE  End(m) <= ptr' /\ ctrlc.at # "adds"
    OBVIOUS
  <2>1. AloneRule(m)
    BY <1>1 DEF LogInv
  <2>2. off[m] <= mainReg /\ \A k \in Active : k = m
    BY <1>1, <1>4, <2>1 DEF AloneRule
  <2>3. ctrlc.at # "adds"
    BY <1>1, <2>2, ThreadsActive
  <2> QED
    BY <1>2, <1>3, <2>2, <2>3 DEF End
<1>6. \A k \in Undisturbed : End(k) <= ptr'
  <2> SUFFICES ASSUME NEW k \in Undisturbed
               PROVE  End(k) <= ptr'
    OBVIOUS
  <2>1. LogRule(k) /\ End(k) \in Nat
    BY DEF LogInv, Undisturbed, End, TypeOK
  <2>2. End(k) <= mainReg
    BY <1>4, <2>1 DEF LogRule
  <2> QED
    BY <1>2, <1>3, <2>1, <2>2
<1>7. main'.at = "idle"
  BY <1>2 DEF Idle
<1> HIDE DEF m
<1> QED
  BY <1>1, <1>2, <1>3, <1>5, <1>6, <1>7, DoneKeeps

\* The Ctrl-C handler's thread advances the pointer before it writes.
LEMMA CtrlcAddsKeeps ==
    ASSUME LogInv, CtrlcAdds
    PROVE  MessageRules'
<1> DEFINE m == ctrlc.msg
<1>1. m \in Messages /\ m \in Active /\ status[m] = "claimed" /\ ctrlc.at = "adds"
  BY DEF CtrlcAdds, LogInv, CtrlcRule, Active
<1>2. /\ ptr' = ctrlcReg + len[m] /\ Became(m, "issued") /\ ctrlc'.at = "waits"
      /\ UNCHANGED <<file, eof, main, mainReg, by, off, len, overlapped>>
  BY DEF CtrlcAdds, Advance, KeepMessages, fileVars, mainVars, LogInv, TypeOK, Doing
<1>3. status'[m] = "issued" /\ \A k \in Messages \ {m} : status'[k] = status[k]
  BY <1>1, <1>2 DEF Became, LogInv, TypeOK
<1>4. Active' = Active /\ Undisturbed' = Undisturbed
  BY <1>1, <1>2, <1>3 DEF Active, Undisturbed
<1>5. \A k \in Messages : End(k)' = End(k) /\ Span(k)' = Span(k) /\ End(k) \in Nat
  BY <1>2 DEF End, Span, LogInv, TypeOK
<1>6. ctrlcReg \in Nat /\ len[m] \in Nat /\ off[m] \in Nat
  BY <1>1 DEF LogInv, TypeOK
<1>7. ASSUME NEW a \in Messages PROVE AloneRule(a)'
  <2> SUFFICES ASSUME a \in Active', a \notin overlapped'
               PROVE  AloneRule(a)'
    BY DEF AloneRule
  <2>1. AloneRule(a) /\ a \in Active /\ a \notin overlapped
    BY <1>2, <1>4 DEF LogInv
  <2>2. a = m /\ off[a] <= ctrlcReg
    BY <1>1, <2>1 DEF AloneRule
  <2>3. off'[a] <= ptr' /\ End(a)' <= ptr'
    BY <1>2, <1>5, <1>6, <2>2 DEF End
  <2>4. status'[a] # "written"
    BY <1>3, <2>2
  <2> QED
    BY <1>2, <1>4, <2>1, <2>3, <2>4 DEF AloneRule
<1>8. ASSUME NEW k \in Messages PROVE LogRule(k)'
  <2> SUFFICES ASSUME k \in Undisturbed'
               PROVE  LogRule(k)'
    BY DEF LogRule
  <2>1. LogRule(k) /\ k \in Undisturbed
    BY <1>4 DEF LogInv
  <2>2. End(k) <= ctrlcReg
    BY <1>1, <2>1 DEF LogRule
  <2>3. End(k)' <= ptr'
    BY <1>2, <1>5, <1>6, <2>2
  <2> QED
    BY <1>2, <1>4, <1>5, <2>1, <2>3 DEF LogRule
<1> QED
  BY <1>7, <1>8 DEF MessageRules

LEMMA CtrlcWrittenKeeps ==
    ASSUME LogInv, CtrlcWritten
    PROVE  MessageRules'
<1> DEFINE m == ctrlc.msg
<1>1. /\ m \in Messages /\ by[m] = "ctrlc" /\ ctrlc.at = "waits" /\ ctrlc' = Idle
      /\ UNCHANGED <<file, eof, ptr, main, mainReg, ctrlcReg, by, off, len, overlapped>>
  BY DEF CtrlcWritten, LogInv, CtrlcRule, fileVars, mainVars, KeepMessages
<1>2. ctrlc'.at = "idle"
  BY <1>1 DEF Idle
<1>3. CASE UNCHANGED status
  BY <1>1, <1>2, <1>3, LoadKeeps
<1>4. CASE status[m] = "written" /\ Became(m, "done")
  <2>1. m \in Active /\ ptr' \in Nat
    BY <1>1, <1>4 DEF Active, LogInv, TypeOK
  <2>2. m \notin overlapped => End(m) <= ptr' /\ main'.at # "adds"
    <3> SUFFICES ASSUME m \notin overlapped
                 PROVE  End(m) <= ptr' /\ main'.at # "adds"
      OBVIOUS
    <3>1. AloneRule(m)
      BY <1>1 DEF LogInv
    <3>2. End(m) <= ptr /\ \A k \in Active : k = m
      BY <1>1, <1>4, <2>1, <3>1 DEF AloneRule
    <3>3. main.at = "adds" => status[main.msg] # "failed"
      BY DEF LogInv, MainRule
    <3>4. main.at # "adds"
      BY <1>1, <3>2, <3>3, ThreadsActive
    <3> QED
      BY <1>1, <3>2, <3>4
  <2>3. \A k \in Undisturbed : End(k) <= ptr'
    BY <1>1 DEF LogInv, LogRule, Undisturbed
  <2> HIDE DEF m
  <2> QED
    BY <1>1, <1>2, <1>4, <2>1, <2>2, <2>3, DoneKeeps
<1> QED
  BY <1>3, <1>4 DEF CtrlcWritten

LEMMA MessageRulesStep ==
    ASSUME LogInv, [Next]_vars
    PROVE  MessageRules'
<1> USE DEF fileVars, msgVars, mainVars, ctrlcVars
<1>1. ASSUME NEW m \in Messages, MainWrites(m) PROVE MessageRules'
  <2>1. Begin(m, "main", "issued") /\ main'.at = "waits"
    BY <1>1 DEF MainWrites
  <2>2. UNCHANGED <<file, eof, ptr, mainReg, ctrlc, ctrlcReg>>
    BY <1>1 DEF MainWrites
  <2> QED
    BY <2>1, <2>2, BeginKeeps
<1>2. ASSUME NEW m \in Messages, ChildWrites(m) PROVE MessageRules'
  <2>1. Begin(m, "child", "issued")
    BY <1>2 DEF ChildWrites
  <2>2. UNCHANGED <<file, eof, ptr, main, mainReg, ctrlc, ctrlcReg>>
    BY <1>2 DEF ChildWrites
  <2> QED
    BY <2>1, <2>2, BeginKeeps
<1>3. ASSUME NEW m \in Messages, CtrlcClaims(m) PROVE MessageRules'
  <2>1. Begin(m, "ctrlc", "claimed") /\ ctrlc'.at = "claims"
    BY <1>3 DEF CtrlcClaims
  <2>2. UNCHANGED <<file, eof, ptr, main, mainReg, ctrlcReg>>
    BY <1>3 DEF CtrlcClaims
  <2> QED
    BY <2>1, <2>2, BeginKeeps
<1>4. ASSUME MainWritten \/ WriteTempFileCompleted PROVE MessageRules'
  <2>1. UNCHANGED <<file, eof, ptr, status, by, off, len, overlapped, ctrlc, ctrlcReg>>
    BY <1>4 DEF MainWritten, WriteTempFileCompleted
  <2>2. mainReg' = ptr \/ main'.at = "idle"
    BY <1>4 DEF MainWritten, WriteTempFileCompleted, Idle
  <2> QED
    BY <2>1, <2>2, LoadKeeps
<1>5. ASSUME CtrlcLoads PROVE MessageRules'
  <2>1. UNCHANGED <<file, eof, ptr, status, by, off, len, overlapped, main, mainReg>>
    BY <1>5 DEF CtrlcLoads
  <2>2. ctrlcReg' = ptr
    BY <1>5 DEF CtrlcLoads
  <2> QED
    BY <2>1, <2>2, LoadKeeps
<1>6. CASE ClientReads \/ UNCHANGED vars
  <2>1. UNCHANGED <<file, eof, ptr, status, by, off, len, overlapped, main, mainReg,
                    ctrlc, ctrlcReg>>
    BY <1>6 DEF ClientReads, vars
  <2> QED
    BY <2>1, LoadKeeps
<1> QED
  BY <1>1, <1>2, <1>3, <1>4, <1>5, <1>6, TransferKeeps, MainAddsKeeps, CtrlcAddsKeeps,
     CtrlcWrittenKeeps DEF Next

(***************************************************************************)
(* The theorems.                                                           *)
(***************************************************************************)

LEMMA InitLog == Init => LogInv
<1> SUFFICES ASSUME Init
             PROVE  LogInv
  OBVIOUS
<1>1. TypeOK
  BY DEF Init, TypeOK, Statuses, AllWriters, Doing, Idle, Bytes
<1>2. MainRule /\ CtrlcRule /\ ChildRule
  BY DEF Init, MainRule, CtrlcRule, ChildRule, Idle
<1>3. Active = {} /\ Undisturbed = {}
  BY DEF Init, Active, Undisturbed
<1> QED
  BY <1>1, <1>2, <1>3 DEF LogInv, AloneRule, LogRule

\* While the writers overlap at will, what was written alone is in the file, and
\* every offset any of them holds is behind it (dwWriteFilePointer and the
\* offsets taken from it: srvchild.c:97, srvutil.c:704-706 and 1017).
THEOREM LogInvariant == Spec => []LogInv
<1>1. LogInv /\ [Next]_vars => LogInv'
  <2> SUFFICES ASSUME LogInv, [Next]_vars
               PROVE  LogInv'
    OBVIOUS
  <2>1. TypeOK' /\ MainRule' /\ CtrlcRule' /\ ChildRule'
    BY TypesStep, ThreadRulesStep DEF LogInv
  <2>2. MessageRules'
    BY MessageRulesStep
  <2> QED
    BY <2>1, <2>2 DEF LogInv, MessageRules
<1> QED
  BY <1>1, InitLog, PTL DEF Spec

\* The text is the bytes of the messages that were written alone.
LEMMA TextOfMessages ==
    ASSUME LogInv
    PROVE  \A e : e \in Text <=> \E m \in Undisturbed : \E i \in Span(m) : e = <<i, m>>
<1>1. \A m \in Undisturbed : \A i \in Span(m) : file[i] = m
  BY DEF LogInv, LogRule, Undisturbed
<1> QED
  BY <1>1 DEF Text

\* A step adds at most one message to those that were written alone.
LEMMA OneMore ==
    ASSUME LogInv, [Next]_vars
    PROVE  \/ Undisturbed' = Undisturbed
           \/ \E m \in Active : m \notin overlapped /\ Undisturbed' = Undisturbed \cup {m}
<1> USE DEF fileVars, msgVars, mainVars, ctrlcVars
<1>1. ASSUME NEW m \in Messages, NEW w, NEW st \in {"claimed", "issued"}, Begin(m, w, st)
      PROVE  Undisturbed' = Undisturbed
  <2>1. /\ status[m] = "new" /\ status'[m] = st
        /\ \A k \in Messages \ {m} : status'[k] = status[k]
    BY <1>1 DEF Begin, LogInv, TypeOK
  <2>2. overlapped \subseteq overlapped' /\ overlapped' \subseteq overlapped \cup Active \cup {m}
    BY <1>1 DEF Begin
  <2> QED
    BY <2>1, <2>2 DEF Undisturbed, Active
<1>2. ASSUME NEW m \in Messages, status[m] # "done", UNCHANGED overlapped,
             NEW st, Became(m, st)
      PROVE  \/ Undisturbed' = Undisturbed
             \/ m \notin overlapped /\ Undisturbed' = Undisturbed \cup {m}
  <2>1. status'[m] = st /\ \A k \in Messages \ {m} : status'[k] = status[k]
    BY <1>2 DEF Became, LogInv, TypeOK
  <2> QED
    BY <1>2, <2>1 DEF Undisturbed
<1>3. ASSUME NEW m \in Messages, Transfer(m) PROVE Undisturbed' = Undisturbed
  <2>1. PICK st \in {"written", "failed"} : Became(m, st)
    BY <1>3 DEF Transfer
  <2>2. status'[m] # "done" /\ status[m] = "issued" /\ UNCHANGED overlapped
    BY <1>3, <2>1 DEF Transfer, Became, KeepMessages, LogInv, TypeOK
  <2>3. m \notin Undisturbed'
    BY <2>2 DEF Undisturbed
  <2> QED
    BY <1>2, <2>1, <2>2, <2>3
<1>4. CASE MainAdds
  <2>1. /\ main.msg \in Active /\ main.msg \in Messages /\ status[main.msg] = "written"
        /\ UNCHANGED overlapped /\ Became(main.msg, "done")
    BY <1>4 DEF MainAdds, KeepMessages, LogInv, MainRule, Active
  <2> QED
    BY <1>2, <2>1
<1>5. CASE CtrlcAdds
  <2>1. /\ ctrlc.msg \in Messages /\ status[ctrlc.msg] = "claimed"
        /\ UNCHANGED overlapped /\ Became(ctrlc.msg, "issued")
    BY <1>5 DEF CtrlcAdds, KeepMessages, LogInv, CtrlcRule
  <2>2. status'[ctrlc.msg] = "issued"
    BY <2>1 DEF Became, LogInv, TypeOK
  <2>3. ctrlc.msg \notin Undisturbed'
    BY <2>2 DEF Undisturbed
  <2> QED
    BY <1>2, <2>1, <2>3
<1>6. CASE CtrlcWritten
  <2>1. ctrlc.msg \in Messages /\ UNCHANGED overlapped
    BY <1>6 DEF CtrlcWritten, KeepMessages, LogInv, CtrlcRule
  <2>2. CASE UNCHANGED status
    BY <2>1, <2>2 DEF Undisturbed
  <2>3. CASE status[ctrlc.msg] = "written" /\ Became(ctrlc.msg, "done")
    <3>1. ctrlc.msg \in Active
      BY <2>1, <2>3 DEF Active
    <3> QED
      BY <1>2, <2>1, <2>3, <3>1
  <2> QED
    BY <1>6, <2>2, <2>3 DEF CtrlcWritten
<1>7. CASE \/ MainWritten \/ WriteTempFileCompleted \/ CtrlcLoads \/ ClientReads
           \/ UNCHANGED vars
  BY <1>7 DEF MainWritten, WriteTempFileCompleted, CtrlcLoads, ClientReads, vars, Undisturbed
<1>8. ASSUME NEW m \in Messages, MainWrites(m) \/ ChildWrites(m) \/ CtrlcClaims(m)
      PROVE  Undisturbed' = Undisturbed
  BY <1>1, <1>8 DEF MainWrites, ChildWrites, CtrlcClaims
<1> QED
  BY <1>3, <1>4, <1>5, <1>6, <1>7, <1>8 DEF Next

\* The same of the next state.
LEMMA TextOfMessagesNext ==
    ASSUME LogInv'
    PROVE  \A e : e \in Text' <=> \E m \in Undisturbed' : \E i \in Span(m)' : e = <<i, m>>
<1>1. \A m \in Undisturbed' : \A i \in Span(m)' : file'[i] = m
  BY DEF LogInv, LogRule, Undisturbed
<1> QED
  BY <1>1 DEF Text

\* Only a message that is new is given a place.
LEMMA PlacesKept ==
    ASSUME LogInv, [Next]_vars
    PROVE  \A m \in Messages : status[m] # "new" => off'[m] = off[m] /\ len'[m] = len[m]
<1> USE DEF fileVars, msgVars, mainVars, ctrlcVars
<1>1. ASSUME NEW k \in Messages, NEW w, NEW st, Begin(k, w, st)
      PROVE  \A m \in Messages : status[m] # "new" => off'[m] = off[m] /\ len'[m] = len[m]
  BY <1>1 DEF Begin, LogInv, TypeOK
<1>2. CASE \E k \in Messages : MainWrites(k) \/ ChildWrites(k) \/ CtrlcClaims(k)
  BY <1>1, <1>2 DEF MainWrites, ChildWrites, CtrlcClaims
<1>3. CASE ~ \E k \in Messages : MainWrites(k) \/ ChildWrites(k) \/ CtrlcClaims(k)
  <2>1. UNCHANGED <<off, len>>
    BY <1>3 DEF Next, Transfer, MainWritten, WriteTempFileCompleted, MainAdds, CtrlcLoads,
                CtrlcAdds, CtrlcWritten, ClientReads, KeepMessages, vars
  <2> QED
    BY <2>1
<1> QED
  BY <1>2, <1>3

\* Every step adds one message to the log behind all others, or leaves it alone.
LEMMA StepAppends ==
    ASSUME LogInv, LogInv', [Next]_vars
    PROVE  Log!AppendMessage \/ Text' = Text
<1> USE DEF fileVars, msgVars, mainVars, ctrlcVars
<1>1. /\ \A e : e \in Text <=> \E m \in Undisturbed : \E i \in Span(m) : e = <<i, m>>
      /\ \A e : e \in Text' <=> \E m \in Undisturbed' : \E i \in Span(m)' : e = <<i, m>>
  BY TextOfMessages, TextOfMessagesNext
<1>2. \A m \in Messages : status[m] # "new" => Span(m)' = Span(m)
  BY PlacesKept DEF Span
<1>3. \A m \in Undisturbed \cup Active : Span(m)' = Span(m)
  BY <1>2 DEF Undisturbed, Active
<1>4. CASE Undisturbed' = Undisturbed
  <2>1. \A e : e \in Text <=> e \in Text'
    BY <1>1, <1>3, <1>4
  <2>2. Text' = Text
    BY <2>1
  <2> QED
    BY <2>2
<1>5. ASSUME NEW m \in Active, m \notin overlapped, Undisturbed' = Undisturbed \cup {m}
      PROVE  Log!AppendMessage
  <2> DEFINE new == Text' \ Text
  <2>1. m \notin Undisturbed
    BY DEF Active, Undisturbed
  <2>2. Text \subseteq Text'
    BY <1>1, <1>3, <1>5
  <2>3. \A e : e \in new <=> \E i \in Span(m) : e = <<i, m>>
    BY <1>1, <1>3, <1>5, <2>1
  <2>4. ASSUME NEW e \in Text, NEW f \in new PROVE e[1] < f[1] /\ e[2] # f[2]
    <3>1. PICK k \in Undisturbed : \E i \in Span(k) : e = <<i, k>>
      BY <1>1
    <3>2. PICK i \in Span(k) : e = <<i, k>>
      BY <3>1
    <3>3. PICK j \in Span(m) : f = <<j, m>>
      BY <2>3
    <3>4. End(k) <= off[m]
      BY DEF LogInv, LogRule, Undisturbed
    <3>5. off[k] \in Nat /\ len[k] \in Nat /\ off[m] \in Nat /\ len[m] \in Nat
      BY DEF LogInv, TypeOK, Undisturbed, Active
    <3>6. i < j
      BY <3>4, <3>5 DEF Span, End
    <3> QED
      BY <2>1, <3>2, <3>3, <3>6
  <2>5. ASSUME NEW e \in new, NEW f \in new
        PROVE  e[2] = f[2] /\ \A i \in e[1]..f[1] : <<i, e[2]>> \in new
    <3>1. PICK i \in Span(m) : e = <<i, m>>
      BY <2>3
    <3>2. PICK j \in Span(m) : f = <<j, m>>
      BY <2>3
    <3>3. off[m] \in Nat /\ len[m] \in Nat
      BY DEF LogInv, TypeOK, Active
    <3>4. \A k \in i..j : k \in Span(m)
      BY <3>3 DEF Span
    <3> HIDE DEF new
    <3> QED
      BY <2>3, <3>1, <3>2, <3>4
  <2> QED
    BY <2>2, <2>4, <2>5 DEF Log!AppendMessage
<1> QED
  BY <1>4, <1>5, OneMore

\* The messages that were written alone implement the append-only log AppendLog,
\* for any number of messages of any length and any of the three writers
\* (srvchild.c:97-158, srvutil.c:704-706 and 1017).
THEOREM ImplementsLog == Spec => LogSpec
<1>1. Init => Log!Init
  <2> SUFFICES ASSUME Init
               PROVE  Text = {}
    BY DEF Log!Init
  <2>1. Undisturbed = {}
    BY DEF Init, Undisturbed
  <2> QED
    BY <2>1 DEF Text
<1>2. LogInv /\ LogInv' /\ [Next]_vars => [Log!AppendMessage]_Text
  BY StepAppends
<1> QED
  BY <1>1, <1>2, LogInvariant, PTL DEF Spec, LogSpec, Log!Spec

\* Type correctness of RemoteTempFile.
THEOREM TypeCorrect == Spec => []TypeOK
<1>1. LogInv => TypeOK
  BY DEF LogInv
<1> QED
  BY <1>1, LogInvariant, PTL

=============================================================================
