----------------------------- MODULE AppendLog -----------------------------
(***************************************************************************)
(* What the server's temp file is meant to be: text that only grows, one   *)
(* message after the other, and of which nothing ever changes.  The text   *)
(* is a set of pairs <<position, message>>.                                *)
(***************************************************************************)
EXTENDS Naturals

VARIABLE text

Init == text = {}

\* One message is added behind everything else, without gaps in it.
AppendMessage ==
    LET new == text' \ text
    IN  /\ text \subseteq text'
        /\ \A e \in text, f \in new : e[1] < f[1] /\ e[2] # f[2]
        /\ \A e, f \in new :
             e[2] = f[2] /\ \A i \in e[1]..f[1] : <<i, e[2]>> \in new

Spec == Init /\ [][AppendMessage]_text

=============================================================================
