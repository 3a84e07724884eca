-------------------------------- MODULE Grep --------------------------------
(***************************************************************************)
(* The pattern matcher of grep.c: match(), matchhere() and matchstar() on  *)
(* patterns with ^ . * and $, against what such a pattern means.           *)
(***************************************************************************)
EXTENDS Integers, Sequences, SequencesExt

CONSTANTS
  Letters,     \* the characters a text is made of
  MaxPattern,  \* length of the longest pattern explored
  MaxText      \* length of the longest text

VARIABLES re, text

-----------------------------------------------------------------------------
\* matchhere(): re at the beginning of text.
RECURSIVE MatchHere(_, _)

\* matchstar(): c*re at the beginning of text.
RECURSIVE MatchStar(_, _, _)

\* Mutant of MatchStar: the character is tested before re is tried.
MMatchStar(c, r, t) ==
  t # <<>> /\ (Head(t) = c \/ c = ".") /\ (MatchHere(r, Tail(t)) \/ MatchStar(c, r, Tail(t)))

MatchStar(c, r, t) ==
  \/ MatchHere(r, t)
  \/ t # <<>> /\ (Head(t) = c \/ c = ".") /\ MatchStar(c, r, Tail(t))

MatchHere(r, t) ==
  IF r = <<>> THEN TRUE
  ELSE IF Len(r) > 1 /\ r[2] = "*" THEN MatchStar(r[1], SubSeq(r, 3, Len(r)), t)
  ELSE IF r = <<"$">> THEN t = <<>>
  ELSE t # <<>> /\ (r[1] = "." \/ r[1] = Head(t)) /\ MatchHere(Tail(r), Tail(t))

\* match(): at the beginning after ^, otherwise anywhere, the end included.
RECURSIVE MatchFrom(_, _)
MatchFrom(r, t) == MatchHere(r, t) \/ (t # <<>> /\ MatchFrom(r, Tail(t)))

Match(r, t) ==
  IF r # <<>> /\ r[1] = "^" THEN MatchHere(Tail(r), t) ELSE MatchFrom(r, t)

-----------------------------------------------------------------------------
Init == re = <<>> /\ text = <<>>

\* Patterns in which * follows a letter or a dot, ^ is first and $ last.
LongerRe ==
  /\ text = <<>> /\ Len(re) < MaxPattern
  /\ \E c \in Letters \cup {".", "*", "^", "$"} :
       /\ c = "*" => re # <<>> /\ Last(re) \in Letters \cup {"."}
       /\ c = "^" => re = <<>>
       /\ re # <<>> => Last(re) # "$"
       /\ re' = Append(re, c)
  /\ UNCHANGED text

LongerText ==
  Len(text) < MaxText /\ (\E c \in Letters : text' = Append(text, c)) /\ UNCHANGED re

Next == LongerRe \/ LongerText

-----------------------------------------------------------------------------
\* The pattern's items: one character, or one repeated.
Anchored == re # <<>> /\ re[1] = "^"
ToEnd == re # <<>> /\ Last(re) = "$"
Body == SubSeq(re, IF Anchored THEN 2 ELSE 1, IF ToEnd THEN Len(re) - 1 ELSE Len(re))
Singles == SelectSeq([i \in DOMAIN Body |-> i], LAMBDA i : Body[i] # "*")
Item(k) == [c |-> Body[Singles[k]],
            star |-> Singles[k] < Len(Body) /\ Body[Singles[k] + 1] = "*"]

\* The substring from i up to j falls into one piece per item: cuts[k] is
\* where the piece of item k ends.
Fits(i, j) ==
  \E cuts \in [0 .. Len(Singles) -> i .. j] :
    /\ cuts[0] = i /\ cuts[Len(Singles)] = j
    /\ \A k \in DOMAIN Singles :
         /\ cuts[k - 1] <= cuts[k]
         /\ Item(k).star \/ cuts[k] = cuts[k - 1] + 1
         /\ Item(k).c = "." \/ \A n \in cuts[k - 1] .. cuts[k] - 1 : text[n] = Item(k).c

\* match() says yes exactly when some substring of the text, starting at its
\* beginning if the pattern has ^ and ending at its end if it has $, is made
\* of one piece for each item of the pattern.
MatchesMeaning ==
  Match(re, text) <=>
    \E i \in 1 .. Len(text) + 1 : \E j \in i .. Len(text) + 1 :
      /\ Anchored => i = 1
      /\ ToEnd => j = Len(text) + 1
      /\ Fits(i, j)
=============================================================================
