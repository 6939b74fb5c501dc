------------------------------ MODULE ShParse ------------------------------
(***************************************************************************)
(* The recursive-descent parser of sh.c.  A line is the sequence of tokens *)
(* that gettoken cuts it into: "a" is a word, and every other token is a   *)
(* symbol (">" also stands for "+", which gettoken makes of ">>" and which *)
(* is parsed into the same command).  A word is named by its position.  A  *)
(* parser is given the line and a position and returns the command and the *)
(* position after it, or Panic, which ends the process that parses.        *)
(***************************************************************************)
EXTENDS Integers, Sequences, FiniteSets

CONSTANT MAXARGS   \* size of argv in struct execcmd

ASSUME ParserAssumption == MAXARGS \in Nat \ {0}

Word == "a"
Redirections == {"<", ">"}
Symbols == Redirections \cup {"|", "&", ";", "(", ")"}
Tokens == Symbols \cup {Word}

(* The token of a line of characters from position i on, with where it     *)
(* starts and ends and where the next one is looked for.                   *)
White == " "
Skip(line, i) == CHOOSE k \in i..(Len(line) + 1) : /\ k > Len(line) \/ line[k] # White
                                                  /\ \A l \in i..(k - 1) : line[l] = White
WordEnd(line, i) == CHOOSE k \in i..(Len(line) + 1) : /\ k > Len(line) \/ line[k] \in Symbols \cup {White}
                                                     /\ \A l \in i..(k - 1) : line[l] \notin Symbols \cup {White}
gettoken(line, i) ==
    LET q == Skip(line, i)
        twice == line[q] = ">" /\ q < Len(line) /\ line[q + 1] = ">"
        Token(ret, eq) == [ret |-> ret, q |-> q, eq |-> eq, s |-> Skip(line, eq)]
    IN IF q > Len(line) THEN Token("end", q)
       ELSE IF line[q] \notin Symbols THEN Token(Word, WordEnd(line, q))
       ELSE IF twice THEN Token("+", q + 2) ELSE Token(line[q], q + 1)

execcmd(argv) == <<"EXEC", argv>>
redircmd(cmd, file, fd) == <<"REDIR", cmd, file, fd>>
pipecmd(left, right) == <<"PIPE", left, right>>
listcmd(left, right) == <<"LIST", left, right>>
backcmd(cmd) == <<"BACK", cmd>>

Panic == [cmd |-> <<"none">>, pos |-> 0]
Failed(r) == r.pos = 0
Parsed(cmd, pos) == [cmd |-> cmd, pos |-> pos]
Peek(ts, i, toks) == i <= Len(ts) /\ ts[i] \in toks
RedirFd(tok) == IF tok = "<" THEN 0 ELSE 1

RECURSIVE parseline(_, _)
RECURSIVE parsepipe(_, _)
RECURSIVE parseredirs(_, _, _)
RECURSIVE parseback(_, _)
RECURSIVE parseargs(_, _, _, _)
RECURSIVE Wrap(_, _)

(* The redirections rs (operator and file positions) around cmd, the first *)
(* one innermost.                                                          *)
Wrap(cmd, rs) ==
    IF rs = <<>> THEN cmd
    ELSE Wrap(redircmd(cmd, Head(rs)[2], Head(rs)[1]), Tail(rs))

(* The redirections from position i on, appended to rs.                    *)
parseredirs(ts, i, rs) ==
    IF ~Peek(ts, i, Redirections) THEN Parsed(rs, i)
    ELSE IF ~Peek(ts, i + 1, {Word}) THEN Panic
    ELSE parseredirs(ts, i + 2, Append(rs, <<RedirFd(ts[i]), i + 1>>))

TooMany(argc) == argc >= MAXARGS
(* The loop of parseexec: words until an operator, a `)' or the end, each  *)
(* followed by redirections.                                               *)
parseargs(ts, i, argv, rs) ==
    IF i > Len(ts) \/ Peek(ts, i, {"|", ")", "&", ";"})
    THEN Parsed(Wrap(execcmd(argv), rs), i)
    ELSE IF ts[i] # Word \/ TooMany(Len(argv) + 1) THEN Panic
    ELSE LET r == parseredirs(ts, i + 1, rs)
         IN IF Failed(r) THEN Panic ELSE parseargs(ts, r.pos, Append(argv, i), r.cmd)

parseblock(ts, i) ==
    LET line == parseline(ts, i + 1)
        r == parseredirs(ts, line.pos + 1, <<>>)
    IN IF Failed(line) \/ ~Peek(ts, line.pos, {")"}) \/ Failed(r) THEN Panic
       ELSE Parsed(Wrap(line.cmd, r.cmd), r.pos)

parseexec(ts, i) ==
    IF Peek(ts, i, {"("}) THEN parseblock(ts, i)
    ELSE LET r == parseredirs(ts, i, <<>>)
         IN IF Failed(r) THEN Panic ELSE parseargs(ts, r.pos, <<>>, r.cmd)

parsepipe(ts, i) ==
    LET left == parseexec(ts, i)
        right == parsepipe(ts, left.pos + 1)
    IN IF Failed(left) \/ ~Peek(ts, left.pos, {"|"}) THEN left
       ELSE IF Failed(right) THEN Panic
       ELSE Parsed(pipecmd(left.cmd, right.cmd), right.pos)

(* The loop over `&' in parseline.                                         *)
parseback(ts, r) ==
    IF Failed(r) \/ ~Peek(ts, r.pos, {"&"}) THEN r
    ELSE parseback(ts, Parsed(backcmd(r.cmd), r.pos + 1))

parseline(ts, i) ==
    LET left == parseback(ts, parsepipe(ts, i))
        right == parseline(ts, left.pos + 1)
    IN IF Failed(left) \/ ~Peek(ts, left.pos, {";"}) THEN left
       ELSE IF Failed(right) THEN Panic
       ELSE Parsed(listcmd(left.cmd, right.cmd), right.pos)

Leftovers_ignored(ts, r) == FALSE
Leftovers(ts, r) == r.pos # Len(ts) + 1

parsecmd(ts) ==
    LET r == parseline(ts, 1)
    IN IF Failed(r) \/ Leftovers(ts, r) THEN Panic ELSE r

(* The words that nulterminate ends with a NUL.                            *)
RECURSIVE nulterminate(_)
nulterminate(cmd) ==
    CASE cmd[1] = "EXEC" -> {cmd[2][k] : k \in 1..Len(cmd[2])}
      [] cmd[1] = "REDIR" -> nulterminate(cmd[2]) \cup {cmd[3]}
      [] cmd[1] = "BACK" -> nulterminate(cmd[2])
      [] OTHER -> nulterminate(cmd[2]) \cup nulterminate(cmd[3])

(***************************************************************************)
(* The grammar of command lines, as the set of commands that the tokens    *)
(* from i to j stand for; nothing here says in which order to look.        *)
(***************************************************************************)
RECURSIVE LineTrees(_, _, _)
RECURSIVE BackTrees(_, _, _)
RECURSIVE PipeTrees(_, _, _)

At(ts, i, j, tok) == {k \in i..j : ts[k] = tok}

(* Words and redirections, in any order.                                   *)
SimpleTrees(ts, i, j) ==
    LET ops == {k \in i..j : ts[k] \in Redirections}
        files == {k + 1 : k \in ops}
        args == At(ts, i, j, Word) \ files
        Nth(S, n) == CHOOSE k \in S : Cardinality({l \in S : l < k}) = n - 1
        Ordered(S) == [n \in 1..Cardinality(S) |-> Nth(S, n)]
        redirs == [n \in 1..Cardinality(ops) |-> <<RedirFd(ts[Nth(ops, n)]), Nth(ops, n) + 1>>]
    IN IF /\ ops \cup At(ts, i, j, Word) = i..j
          /\ files \subseteq At(ts, i, j, Word)
          /\ Cardinality(args) < MAXARGS
       THEN {Wrap(execcmd(Ordered(args)), redirs)} ELSE {}

(* A line in parentheses, and redirections only after them.                *)
OnlyRedirs(ts, i, j) ==
    /\ (j - i) % 2 = 1
    /\ \A k \in i..j : IF (k - i) % 2 = 0 THEN ts[k] \in Redirections ELSE ts[k] = Word
ExecTrees(ts, i, j) ==
    SimpleTrees(ts, i, j) \cup
    UNION {{Wrap(c, [n \in 1..((j - k) \div 2) |-> <<RedirFd(ts[k + 2*n - 1]), k + 2*n>>]) :
               c \in LineTrees(ts, i + 1, k - 1)} :
           k \in {l \in At(ts, i, j, ")") : ts[i] = "(" /\ OnlyRedirs(ts, l + 1, j)}}

PipeTrees(ts, i, j) ==
    ExecTrees(ts, i, j) \cup
    UNION {{pipecmd(l, r) : l \in ExecTrees(ts, i, k - 1), r \in PipeTrees(ts, k + 1, j)} :
              k \in At(ts, i, j, "|")}

BackTrees(ts, i, j) ==
    PipeTrees(ts, i, j) \cup
    (IF i <= j /\ ts[j] = "&" THEN {backcmd(c) : c \in BackTrees(ts, i, j - 1)} ELSE {})

LineTrees(ts, i, j) ==
    BackTrees(ts, i, j) \cup
    UNION {{listcmd(l, r) : l \in BackTrees(ts, i, k - 1), r \in LineTrees(ts, k + 1, j)} :
              k \in At(ts, i, j, ";")}
=============================================================================
