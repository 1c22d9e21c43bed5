----------------------------- MODULE KdDialogue -----------------------------
(***************************************************************************)
(* What the kernel debugger's engine and a target machine may take for     *)
(* granted of the link between them: lines the target prints are shown     *)
(* once and in order, the engine is told of a break only while the target  *)
(* is stopped in it, a request is carried out while the engine waits for   *)
(* it and its answer is that request's, and the target runs again only     *)
(* when the engine lets it.  It says nothing of packets.                   *)
(***************************************************************************)
EXTENDS Naturals, Sequences

VARIABLES
  view,         \* the engine: "waiting" for a break, "stopped", or "asking"
  running,      \* the target has not stopped in a break
  breaks, seen,         \* breaks of the target, and the last one the engine saw
  printed, shown,       \* how many lines were printed, and the lines shown
  asked, carriedOut, answered   \* requests made; the last carried out, and answered

vars == <<view, running, breaks, seen, printed, shown, asked, carriedOut, answered>>

Init ==
  /\ view = "waiting" /\ running = TRUE
  /\ breaks = 0 /\ seen = 0
  /\ printed = 0 /\ shown = <<>>
  /\ asked = 0 /\ carriedOut = 0 /\ answered = 0

PrintLine ==
  /\ running /\ Len(shown) = printed
  /\ printed' = printed + 1
  /\ UNCHANGED <<view, running, breaks, seen, shown, asked, carriedOut, answered>>

Show ==
  /\ Len(shown) < printed
  /\ shown' = Append(shown, Len(shown) + 1)
  /\ UNCHANGED <<view, running, breaks, seen, printed, asked, carriedOut, answered>>

Break ==
  /\ running /\ Len(shown) = printed
  /\ running' = FALSE /\ breaks' = breaks + 1
  /\ UNCHANGED <<view, seen, printed, shown, asked, carriedOut, answered>>

See ==
  /\ view = "waiting" /\ ~running
  /\ view' = "stopped" /\ seen' = breaks
  /\ UNCHANGED <<running, breaks, printed, shown, asked, carriedOut, answered>>

Ask ==
  /\ view = "stopped"
  /\ view' = "asking" /\ asked' = asked + 1
  /\ UNCHANGED <<running, breaks, seen, printed, shown, carriedOut, answered>>

CarryOut ==
  /\ view = "asking" /\ ~running
  /\ carriedOut' = asked
  /\ UNCHANGED <<view, running, breaks, seen, printed, shown, asked, answered>>

Answer ==
  /\ view = "asking" /\ carriedOut = asked
  /\ view' = "stopped" /\ answered' = asked
  /\ UNCHANGED <<running, breaks, seen, printed, shown, asked, carriedOut>>

LetRun ==
  /\ view = "stopped"
  /\ view' = "waiting"
  /\ UNCHANGED <<running, breaks, seen, printed, shown, asked, carriedOut, answered>>

RunAgain ==
  /\ view = "waiting" /\ ~running /\ seen = breaks
  /\ running' = TRUE
  /\ UNCHANGED <<view, breaks, seen, printed, shown, asked, carriedOut, answered>>

Next == PrintLine \/ Show \/ Break \/ See \/ Ask \/ CarryOut \/ Answer \/ LetRun \/ RunAgain

Spec == Init /\ [][Next]_vars
=============================================================================
