------------------------------ MODULE Console -------------------------------
(***************************************************************************)
(* Console input (console.c): console_intr() puts the keys that the        *)
(* keyboard interrupt delivers into a ring that console_read() empties.    *)
(* Both hold input.lock, console_read() from its start or its wakeup to    *)
(* its next sleep or its return: one step each.  The indices r, w and e    *)
(* are unsigned and wrap; Wrap stands for 2^32 and is a multiple of        *)
(* INPUT_BUF as that is.                                                   *)
(***************************************************************************)
EXTENDS Integers, Sequences, SequencesExt, FiniteSetsExt

CONSTANTS
  INPUT_BUF,   \* places in the ring
  Wrap,        \* where the indices wrap
  Keys,        \* what getc() may return; "nul" is its 0, "nl" the end of a line
  TReaders,    \* processes that read the console
  Lengths      \* lengths of the reads explored

VARIABLES
  input,       \* buf, r, w and e
  tpc,         \* of each reader: idle, sleep (on input.r) or woken
  tleft,       \* n of console_read(): characters it still wants
  tsome,       \* n < target: it has some
  tkilled      \* cp->killed

tvars == <<input, tpc, tleft, tsome, tkilled>>

Plus(i, n) == (i + n) % Wrap
Dist(a, b) == (b - a) % Wrap
Full(in) == Dist(in.r, in.e) = INPUT_BUF

\* The characters from index a up to index b.
Between(a, b) == [i \in 1 .. Dist(a, b) |-> input.buf[Plus(a, i - 1) % INPUT_BUF]]

\* wakeup(&input.r).
Wakeup == tpc' = [p \in TReaders |-> IF tpc[p] = "sleep" THEN "woken" ELSE tpc[p]]

-----------------------------------------------------------------------------
\* How far ^U may go back.
\* Mutant of LineLength: over what is finished, too.
MLineLength == Dist(input.r, input.e)
LineLength == Dist(input.w, input.e)

\* When console_intr() makes the line readable.
\* Mutant of Finishes: not when the ring is full.
MFinishes(c, in) == c \in {"nl", "^D"}
Finishes(c, in) == c = "nl" \/ c = "^D" \/ Full(in)

\* The cases of console_intr()'s switch.  ^P calls procdump(), which reads
\* other data only.
KillLine(c) ==
  /\ c = "^U"
  /\ LET Stops(n) == \/ n = LineLength
                     \/ input.buf[Plus(input.e, -n - 1) % INPUT_BUF] = "nl"
         n == CHOOSE m \in 0 .. INPUT_BUF : Stops(m) /\ \A l \in 0 .. m - 1 : ~Stops(l)
     IN  input' = [input EXCEPT !.e = Plus(@, -n)]
  /\ UNCHANGED tpc

Backspace(c) ==
  /\ c = "^H" /\ input.e # input.w
  /\ input' = [input EXCEPT !.e = Plus(@, -1)]
  /\ UNCHANGED tpc

Accept(c) ==
  /\ c \notin {"^P", "^U", "^H", "nul"} /\ Dist(input.r, input.e) < INPUT_BUF
  /\ LET in == [input EXCEPT !.buf[input.e % INPUT_BUF] = c, !.e = Plus(@, 1)]
     IN  IF Finishes(c, in)
         THEN input' = [in EXCEPT !.w = in.e] /\ Wakeup
         ELSE input' = in /\ UNCHANGED tpc

ConsoleIntr(c) ==
  (KillLine(c) \/ Backspace(c) \/ Accept(c)) /\ UNCHANGED <<tleft, tsome, tkilled>>

-----------------------------------------------------------------------------
\* console_read() from where it holds the lock: it takes characters while
\* there are any and stops at the end of a line, at ^D or when it has enough;
\* with nothing left to take it sleeps, or returns -1 if it was killed.
Section(p, n, some) ==
  LET row == Between(input.r, input.w)
      Ended(i) == i > 0 /\ row[i] = "nl"
      k == Min({i \in 0 .. Len(row) :
                  i = Len(row) \/ i = n \/ row[i + 1] = "^D" \/ Ended(i)})
      eof == k < n /\ k < Len(row) /\ ~Ended(k)
      done == k = n \/ eof \/ Ended(k)
  IN  /\ input' = [input EXCEPT !.r = Plus(@, IF eof /\ k = 0 /\ ~some THEN 1 ELSE k)]
      /\ tpc' = [tpc EXCEPT ![p] = IF done \/ tkilled[p] THEN "idle" ELSE "sleep"]
      /\ tleft' = [tleft EXCEPT ![p] = IF tpc'[p] = "idle" THEN 0 ELSE n - k]
      /\ tsome' = [tsome EXCEPT ![p] = tpc'[p] = "sleep" /\ (some \/ k > 0)]
      /\ UNCHANGED tkilled

ConsoleRead(p, n) == tpc[p] = "idle" /\ Section(p, n, FALSE)
Resume(p) == tpc[p] = "woken" /\ Section(p, tleft[p], tsome[p])

\* kill() of a process that does not sleep; of one that does it panics
\* (Sched.tla, run kill_sleeper).
Kill(p) ==
  /\ tpc[p] # "sleep" /\ ~tkilled[p]
  /\ tkilled' = [tkilled EXCEPT ![p] = TRUE]
  /\ UNCHANGED <<input, tpc, tleft, tsome>>

Init ==
  /\ input = [buf |-> [i \in 0 .. INPUT_BUF - 1 |-> "nul"], r |-> 0, w |-> 0, e |-> 0]
  /\ tpc = [p \in TReaders |-> "idle"] /\ tleft = [p \in TReaders |-> 0]
  /\ tsome = [p \in TReaders |-> FALSE] /\ tkilled = [p \in TReaders |-> FALSE]

Next ==
  \/ \E c \in Keys : ConsoleIntr(c)
  \/ \E p \in TReaders : (\E n \in Lengths : ConsoleRead(p, n)) \/ Resume(p) \/ Kill(p)

-----------------------------------------------------------------------------
\* The ring with its three wrapping indices is a line editor: what lies
\* between r and w is finished and read once in order, what lies between w
\* and e is the line being edited, and neither ^U, ^H nor a full ring
\* disturbs what is finished.
Tt == INSTANCE Tty WITH ready <- Between(input.r, input.w), edit <- Between(input.w, input.e)

ImplementsTty == Tt!Spec

\* No reader sleeps while there is something to read, a full ring always has
\* something to read (no key could ever be accepted again otherwise), and the
\* line being edited holds no end of line, so that ^U clears all of it.
ReadersWake ==
  /\ \A p \in TReaders : tpc[p] = "sleep" => input.r = input.w /\ ~tkilled[p]
  /\ Full(input) => input.w = input.e
  /\ \A i \in DOMAIN Between(input.w, input.e) : Between(input.w, input.e)[i] \notin {"nl", "^D"}
=============================================================================
