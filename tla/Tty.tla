-------------------------------- MODULE Tty ---------------------------------
(***************************************************************************)
(* What the console promises a program that reads it: the keys typed are   *)
(* edited on the last line, a line becomes readable when it is finished,   *)
(* and every finished character is read once, in order.                    *)
(***************************************************************************)
EXTENDS Integers, Sequences, SequencesExt, FiniteSetsExt

CONSTANTS INPUT_BUF, Keys, TReaders

VARIABLES
  ready,   \* the finished characters not yet read
  edit     \* the line being edited

Ends == {"nl", "^D"}

\* A key: ^U drops the line, ^H its last character, anything else is added
\* while there is room; the end of a line, and the last place, finish it.
Type(c) ==
  LET line == Append(edit, c)
  IN  CASE c = "^U" -> edit' = <<>> /\ UNCHANGED ready
        [] c = "^H" -> edit' = (IF edit = <<>> THEN edit ELSE Front(edit)) /\ UNCHANGED ready
        [] OTHER ->
             /\ c \notin {"nul", "^P"} /\ Len(ready \o edit) < INPUT_BUF
             /\ IF c \in Ends \/ Len(ready \o line) = INPUT_BUF
                THEN ready' = ready \o line /\ edit' = <<>>
                ELSE edit' = line /\ UNCHANGED ready

\* What a read that still wants n characters, and has some or has none, takes
\* from a row of finished ones: no more than n and nothing past the end of a
\* line.  A ^D is taken only by a read that has nothing.
Taken(row, n, some) ==
  LET stops == {i \in DOMAIN row : row[i] \in Ends} \cup {n, Len(row)}
      k == Min(stops)
  IN  IF k > 0 /\ row[k] = "^D" /\ (some \/ k > 1) THEN k - 1 ELSE k

Read ==
  /\ \E n \in 1 .. INPUT_BUF, some \in BOOLEAN :
       ready' = SubSeq(ready, Taken(ready, n, some) + 1, Len(ready))
  /\ UNCHANGED edit

Init == ready = <<>> /\ edit = <<>>
Next == (\E c \in Keys : Type(c)) \/ Read
Spec == Init /\ [][Next]_<<ready, edit>>
=============================================================================
