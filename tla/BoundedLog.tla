----------------------------- MODULE BoundedLog -----------------------------
(***************************************************************************)
(* What the buffer of recent messages of a topic promises: it holds the    *)
(* last Size messages given to it, oldest first, and nothing else.         *)
(* RingBuffer.tla is shown to implement this specification.                *)
(***************************************************************************)
EXTENDS Integers, Sequences

CONSTANTS Size,      \* how many messages the log keeps
          Message    \* what can be logged

VARIABLE window      \* the messages kept, oldest first

\* The last n elements of s, or all of s when it is shorter.
LastN(s, n) == IF Len(s) <= n THEN s ELSE SubSeq(s, Len(s) - n + 1, Len(s))

\* The log w after m was given to it.
Record(w, m) == LastN(Append(w, m), Size)

Init == window = << >>

Log(m) == window' = Record(window, m)

Next == \E m \in Message : Log(m)

Spec == Init /\ [][Next]_window

TypeOK == window \in Seq(Message) /\ Len(window) <= Size
=============================================================================
