---------------------------- MODULE FileStore ----------------------------
(***************************************************************************)
(* What file_server promises about files sent offline: a file is stored    *)
(* segment by segment in its order, the sender is told it is done when all *)
(* of it is stored, and only a whole file is read, again in order, by each *)
(* reader from the beginning.  A file of which a write failed is spoiled:  *)
(* nobody reads it, although its sender may be told it is done.            *)
(***************************************************************************)
EXTENDS Naturals, Sequences

CONSTANTS Task, Conn, Segments

VARIABLES stored,     \* segments of each file that are on disk, none if spoiled
          spoiled,    \* files with a segment that was not written
          confirmed,  \* files whose sender was told that they are stored
          read,       \* segments each connection has read
          finished    \* connections told that they have read all

vars == <<stored, spoiled, confirmed, read, finished>>

Init == /\ stored = [t \in Task |-> <<>>]
        /\ spoiled = {}
        /\ confirmed = {}
        /\ read = [c \in Conn |-> <<>>]
        /\ finished = {}

Write(t) ==
  /\ t \notin spoiled
  /\ Len(stored[t]) < Segments
  /\ stored' = [stored EXCEPT ![t] = Append(@, Len(@))]
  /\ confirmed' = IF Len(stored[t]) + 1 = Segments THEN confirmed \cup {t}
                                                  ELSE confirmed
  /\ UNCHANGED <<spoiled, read, finished>>

\* A write fails, or the file was spoiled before; it may be the last one.
Spoil(t) ==
  /\ t \in spoiled \/ Len(stored[t]) < Segments
  /\ spoiled' = spoiled \cup {t}
  /\ stored' = [stored EXCEPT ![t] = <<>>]
  /\ confirmed' \in {confirmed, confirmed \cup {t}}
  /\ UNCHANGED <<read, finished>>

Read(c, t) ==
  /\ Len(stored[t]) = Segments
  /\ Len(read[c]) < Segments
  /\ read' = [read EXCEPT ![c] = Append(@, stored[t][Len(@) + 1])]
  /\ finished' = IF Len(read[c]) + 1 = Segments THEN finished \cup {c}
                                               ELSE finished
  /\ UNCHANGED <<stored, spoiled, confirmed>>

Next == \E t \in Task : \/ Write(t)
                        \/ Spoil(t)
                        \/ \E c \in Conn : Read(c, t)

Spec == Init /\ [][Next]_vars
==========================================================================
