------------------------------ MODULE ShParse -------------------------------
(***************************************************************************)
(* The shell's parser (sh.c): a line of characters becomes a tree of       *)
(* commands.  A character is one of the shell's symbols, " " for white     *)
(* space or "w" for any other.  The parser moves the index ps along the    *)
(* line to es, one past its end, where the terminating NUL is.  Every      *)
(* operator returns the command it built and the index it stopped at, or   *)
(* Panic where the shell calls panic().                                    *)
(***************************************************************************)
EXTENDS Integers, Sequences, SequencesExt, FiniteSetsExt

CONSTANTS
  Chars,     \* the characters lines are made of
  MaxLine,   \* the length of the longest line explored ...
  FewChars,  \* ... and, of lines of these characters only,
  MaxLong,   \* the length of the longest
  MAXARGS

VARIABLE line

Space == " "
Symbols == {"<", "|", ">", "&", ";", "(", ")"}
es == Len(line) + 1
CharAt(i) == IF i < es THEN line[i] ELSE "nul"
Word(q, eq) == [q |-> q, eq |-> eq]
Panic == [ok |-> FALSE, ps |-> 0, cmd |-> "panic"]
Parsed(cmd, ps) == [ok |-> TRUE, ps |-> ps, cmd |-> cmd]

\* The constructors.
ExecCmd(argv) == [type |-> "EXEC", argv |-> argv]
RedirCmd(sub, rd) == [type |-> "REDIR", cmd |-> sub, file |-> rd.file, fd |-> rd.fd]
PipeCmd(l, r) == [type |-> "PIPE", left |-> l, right |-> r]
ListCmd(l, r) == [type |-> "LIST", left |-> l, right |-> r]
BackCmd(sub) == [type |-> "BACK", cmd |-> sub]

-----------------------------------------------------------------------------
\* The first index from i on that is es or where P fails.
Skip(i, P(_)) == Min({j \in i .. es : j = es \/ ~P(line[j])})
SkipSpace(i) == Skip(i, LAMBDA c : c = Space)

\* gettoken(): the end of the token that starts at q ...
TokenEnd(q) ==
  LET c == CharAt(q)
  IN  IF c = "nul" THEN q
      ELSE IF c = ">" /\ CharAt(q + 1) = ">" THEN q + 2
      ELSE IF c \in Symbols THEN q + 1
      ELSE Skip(q, LAMBDA d : d # Space /\ d \notin Symbols)

\* ... and its kind, where it starts and ends, and the index after it.
Token(q, eq) ==
  [tok |-> IF CharAt(q) = ">" /\ eq = q + 2 THEN "+"
           ELSE IF CharAt(q) \in Symbols \cup {"nul"} THEN CharAt(q) ELSE "a",
   word |-> Word(q, eq), ps |-> SkipSpace(eq)]
GetToken(ps) == LET q == SkipSpace(ps) IN Token(q, TokenEnd(q))

\* peek(): past white space, is the next character one of toks?
\* Mutant of Peek: white space is not skipped.
MPeek(ps, toks) == CharAt(ps) \in toks
Peek(ps, toks) == CharAt(SkipSpace(ps)) \in toks

\* Applying redirections to a command, the first one innermost.
Redirected(cmd, rs) == FoldLeft(RedirCmd, cmd, rs)

\* parseredirs(): the redirections at ps, added to those found before.
RECURSIVE ParseRedirs(_, _)
ParseRedirs(rs, ps) ==
  LET op == GetToken(ps)
      file == GetToken(op.ps)
      rd == [file |-> file.word, fd |-> IF op.tok = "<" THEN 0 ELSE 1]
  IN  IF ~Peek(ps, {"<", ">"}) THEN Parsed(rs, ps)
      ELSE IF file.tok # "a" THEN Panic
      ELSE ParseRedirs(Append(rs, rd), file.ps)

\* The loop of parseexec(): arguments and redirections in any order.
RECURSIVE ParseArgs(_, _, _)
ParseArgs(argv, rs, ps) ==
  LET t == GetToken(ps)
      r == ParseRedirs(rs, t.ps)
  IN  IF Peek(ps, {"|", ")", "&", ";"}) \/ t.tok = "nul"
      THEN Parsed(Redirected(ExecCmd(argv), rs), ps)
      ELSE IF t.tok # "a" \/ Len(argv) + 1 >= MAXARGS \/ ~r.ok THEN Panic
      ELSE ParseArgs(Append(argv, t.word), r.cmd, r.ps)

RECURSIVE ParseLine(_)
RECURSIVE ParsePipe(_)
RECURSIVE ParseBacks(_)

\* A command with the redirections r behind it.
WithRedirs(cmd, r) == IF r.ok THEN Parsed(Redirected(cmd, r.cmd), r.ps) ELSE Panic

\* parseblock(): what follows the command line inside the parentheses.
BlockRest(body) ==
  IF ~body.ok \/ ~Peek(body.ps, {")"}) THEN Panic
  ELSE WithRedirs(body.cmd, ParseRedirs(<<>>, GetToken(body.ps).ps))
ParseBlock(ps) == BlockRest(ParseLine(GetToken(ps).ps))

ParseExec(ps) ==
  LET r == ParseRedirs(<<>>, ps)
  IN  IF Peek(ps, {"("}) THEN ParseBlock(ps)
      ELSE IF ~r.ok THEN Panic ELSE ParseArgs(<<>>, r.cmd, r.ps)

\* parsepipe(): a command, and the pipe behind a |.
PipeRest(l) ==
  LET r == ParsePipe(GetToken(l.ps).ps)
  IN  IF ~l.ok \/ ~Peek(l.ps, {"|"}) THEN l
      ELSE IF ~r.ok THEN Panic ELSE Parsed(PipeCmd(l.cmd, r.cmd), r.ps)
ParsePipe(ps) == PipeRest(ParseExec(ps))

\* parseline(): the loop over &, then an optional rest after a ;.
ParseBacks(c) ==
  IF c.ok /\ Peek(c.ps, {"&"})
  THEN ParseBacks(Parsed(BackCmd(c.cmd), GetToken(c.ps).ps)) ELSE c
LineRest(l) ==
  LET r == ParseLine(GetToken(l.ps).ps)
  IN  IF ~l.ok \/ ~Peek(l.ps, {";"}) THEN l
      ELSE IF ~r.ok THEN Panic ELSE Parsed(ListCmd(l.cmd, r.cmd), r.ps)
ParseLine(ps) == LineRest(ParseBacks(ParsePipe(ps)))

\* nulterminate(): where it writes a NUL.
RECURSIVE NulTerminate(_)
NulTerminate(cmd) ==
  CASE cmd.type = "EXEC" -> {cmd.argv[i].eq : i \in DOMAIN cmd.argv}
    [] cmd.type = "REDIR" -> NulTerminate(cmd.cmd) \cup {cmd.file.eq}
    [] cmd.type = "BACK" -> NulTerminate(cmd.cmd)
    [] OTHER -> NulTerminate(cmd.left) \cup NulTerminate(cmd.right)

\* parsecmd(): all of the line, or nothing.
Whole(c) == IF c.ok /\ SkipSpace(c.ps) = es THEN c ELSE Panic
ParseCmd == Whole(ParseLine(1))

-----------------------------------------------------------------------------
\* Any line is a line the shell may read.
Init == line = <<>>
Next ==
  \E c \in Chars :
    /\ \/ Len(line) < MaxLine
       \/ Len(line) < MaxLong /\ Range(line) \cup {c} \subseteq FewChars
    /\ line' = Append(line, c)

-----------------------------------------------------------------------------
(***************************************************************************)
(* What a line means, said without a parser.                               *)
(***************************************************************************)

IsWord(i) == i \in DOMAIN line /\ line[i] # Space /\ line[i] \notin Symbols

\* How many > stand right before i.
Gts(i) == i - 1 - Max({0} \cup {j \in 1 .. i - 1 : line[j] # ">"})

\* A token starts at a symbol, unless it is the second > of a >>, and at the
\* first character of a word.
StartsToken(i) ==
  /\ line[i] # Space
  /\ line[i] = ">" => Gts(i) % 2 = 0
  /\ IsWord(i) => ~IsWord(i - 1)

EndOf(i) == Min({j \in i + 1 .. es : ~IsWord(j)})
TokenAt(i) == [tok |-> IF IsWord(i) THEN "a" ELSE line[i], word |-> Word(i, EndOf(i))]
Tokens ==
  LET starts == SetToSortSeq({i \in DOMAIN line : StartsToken(i)}, <)
  IN  [k \in DOMAIN starts |-> TokenAt(starts[k])]

\* The trees a row of tokens stands for:
\*   line ::= backs | backs ; line      backs ::= pipe | backs &
\*   pipe ::= exec | exec "|" pipe      exec  ::= ( line ) redir* | (word | redir)*
RECURSIVE Lines(_)
RECURSIVE Backs(_)
RECURSIVE Pipes(_)

From(ts, i) == SubSeq(ts, i, Len(ts))
Upto(ts, i) == SubSeq(ts, 1, i)
Where(ts, c) == {k \in DOMAIN ts : ts[k].tok = c}
Pick(ts, ks) == LET order == SetToSortSeq(ks, <) IN [n \in DOMAIN order |-> ts[order[n]]]

Ops(ts) == Where(ts, "<") \cup Where(ts, ">")
Args(ts) == DOMAIN ts \ (Ops(ts) \cup {k + 1 : k \in Ops(ts)})
Redirs(ts) ==
  LET ops == SetToSortSeq(Ops(ts), <)
  IN  [n \in DOMAIN ops |-> [file |-> ts[ops[n] + 1].word,
                             fd |-> IF ts[ops[n]].tok = "<" THEN 0 ELSE 1]]
WellFormed(ts) ==
  /\ \A k \in Ops(ts) : k + 1 \in DOMAIN ts /\ ts[k + 1].tok = "a"
  /\ \A k \in Args(ts) : ts[k].tok = "a"

Simple(ts) ==
  LET argv == Pick(ts, Args(ts))
  IN  IF WellFormed(ts) /\ Len(argv) < MAXARGS
      THEN {Redirected(ExecCmd([n \in DOMAIN argv |-> argv[n].word]), Redirs(ts))} ELSE {}

Blocks(ts) ==
  IF ts = <<>> \/ ts[1].tok # "(" THEN {}
  ELSE LET ends == {k \in Where(ts, ")") : WellFormed(From(ts, k + 1)) /\ Args(From(ts, k + 1)) = {}}
       IN  UNION {{Redirected(c, Redirs(From(ts, k + 1))) : c \in Lines(SubSeq(ts, 2, k - 1))} :
                    k \in ends}

Pipes(ts) ==
  Simple(ts) \cup Blocks(ts)
    \cup UNION {{PipeCmd(l, r) : l \in Simple(Upto(ts, k - 1)) \cup Blocks(Upto(ts, k - 1)),
                                 r \in Pipes(From(ts, k + 1))} : k \in Where(ts, "|")}

Backs(ts) ==
  Pipes(ts) \cup (IF ts # <<>> /\ Last(ts).tok = "&" THEN {BackCmd(c) : c \in Backs(Front(ts))}
                  ELSE {})

Lines(ts) ==
  Backs(ts) \cup UNION {{ListCmd(l, r) : l \in Backs(Upto(ts, k - 1)),
                                         r \in Lines(From(ts, k + 1))} : k \in Where(ts, ";")}

\* The words of a command: arguments and file names.
RECURSIVE WordsOf(_)
WordsOf(cmd) ==
  CASE cmd.type = "EXEC" -> Range(cmd.argv)
    [] cmd.type = "REDIR" -> WordsOf(cmd.cmd) \cup {cmd.file}
    [] cmd.type = "BACK" -> WordsOf(cmd.cmd)
    [] OTHER -> WordsOf(cmd.left) \cup WordsOf(cmd.right)

-----------------------------------------------------------------------------
\* nulterminate() ends every argument and file name where the word ends (the
\* end of the line has its NUL already) and cuts no word short, although it
\* writes into the line the words still share.
WordsTerminated(cmd) ==
  \A w \in WordsOf(cmd) :
    /\ w.eq \in NulTerminate(cmd)
    /\ \A i \in w.q .. w.eq - 1 : i \notin NulTerminate(cmd) /\ IsWord(i)

\* The parser's answer c is the one tree that the line may stand for.
MeansOnly(c, trees) ==
  IF c.ok THEN trees = {c.cmd} /\ WordsTerminated(c.cmd) ELSE trees = {}

\* parsecmd() accepts exactly the lines of the grammar, which gives each of
\* them one meaning, builds the tree of that meaning and ends its words; any
\* other line ends in panic().
ParsesGrammar == MeansOnly(ParseCmd, Lines(Tokens))
=============================================================================
