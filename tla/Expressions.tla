---------------------------- MODULE Expressions -----------------------------
(* cmd/sh/if.c: the expression before the command of "if" is evaluated while  *)
(* it is read, by eval and evalp, one word after the other.  Every operand is *)
(* evaluated: the commands in braces all run.                                 *)
(* A definition Mut... is a wrong form of the definition below it.            *)
EXTENDS Integers, FiniteSets, Sequences

VARIABLES
  ifTree,      \* the expression meant
  ifArg,       \* its words, and the command's
  ifRan        \* what came of it: the command it runs, "false" or "error"

ifVars == <<ifTree, ifArg, ifRan>>

Error == <<FALSE, 0>>       \* exit(1), with a message
Word(i) == IF i <= Len(ifArg) THEN ifArg[i] ELSE "NULL"

\* The primitives, each with its first file f: "y" is there, is readable and so
\* on, "n" is not.  -r, -w and -x give the opposite of what access() says.
Test1   == {"-d", "-e", "-f", "-s", "-t"}
Access1 == {"-r", "-w", "-x"}
Do1(op, f) == IF op \in Access1 THEN f = "n" ELSE f = "y"
Test2   == {"-ef", "-nt", "-ot", "=", "!="}
Do2(op, f, g) == CASE op = "="  -> f = g
                   [] op = "!=" -> f # g
                   [] OTHER     -> f = "y" /\ g = "y"

\* comm: the words up to the matching brace are run; "ok" ends with 0.
RECURSIVE Brace(_, _)
Brace(i, nest) ==
  IF nest = 0 THEN i
  ELSE IF Word(i) = "NULL" THEN 0
  ELSE Brace(i + 1, nest + (IF Word(i) = "{" THEN 1 ELSE 0) - (IF Word(i) = "}" THEN 1 ELSE 0))
Comm(i) == LET e == Brace(i + 1, 1) IN
           IF e <= i + 2 THEN Error ELSE <<Word(i + 1) = "ok", e>>

\* evalp, from word i: the value and the word after it.  What is in parentheses
\* is not negated.
RECURSIVE Eval(_, _)
RECURSIVE Evalp(_, _)
Evalp(i, neg) ==
  LET Neg(r) == IF r = Error THEN Error ELSE <<r[1] # neg, r[2]>> IN
  CASE Word(i) = "!" -> Evalp(i + 1, ~neg)
    [] Word(i) = "NULL" \/ Word(i + 1) = "NULL" -> Error
    [] Word(i) = "{" /\ Word(i + 1) # "NULL" -> Neg(Comm(i))
    [] Word(i) = "(" /\ Word(i + 1) # "NULL" ->
         LET r == Eval(i + 1, 0) IN
         IF r = Error \/ Word(r[2]) # ")" THEN Error ELSE <<r[1], r[2] + 1>>
    [] Word(i) \in Test1 \cup Access1 /\ Word(i + 1) # "NULL" ->
         Neg(<<Do1(Word(i), Word(i + 1)), i + 2>>)
    [] OTHER -> IF Word(i + 1) \in Test2 /\ Word(i + 2) # "NULL"
                THEN Neg(<<Do2(Word(i + 1), Word(i), Word(i + 2)), i + 3>>)
                ELSE Error

\* eval: -a binds tighter than -o, as the operand of either is read with
\* priority 1, which leaves an -o to the caller.
MutOperand(i) == Eval(i, 0)
Operand(i)    == Eval(i, 1)
RECURSIVE EvalRest(_, _)
EvalRest(r, prio) ==
  LET Join(And) == LET s == Operand(r[2] + 1) IN
        IF s = Error THEN Error
        ELSE EvalRest(<<IF And THEN r[1] /\ s[1] ELSE r[1] \/ s[1], s[2]>>, prio)
  IN CASE r = Error                            -> Error
       [] r # Error /\ Word(r[2]) = "-a"       -> Join(TRUE)
       [] r # Error /\ Word(r[2]) = "-o" /\ prio = 0 -> Join(FALSE)
       [] OTHER                                -> r
Eval(i, prio) == EvalRest(Evalp(i, FALSE), prio)

\* main: the command runs if the expression is true and a command is there.
IfMain ==
  /\ ifRan = "none"
  /\ ifRan' = LET r == Eval(1, 0) IN
              CASE r = Error -> "error"
                [] r # Error /\ r[1] -> Word(r[2])
                [] OTHER -> "false"
  /\ UNCHANGED <<ifTree, ifArg>>

-----------------------------------------------------------------------------
\* Expressions and the words they are written with.  Two that if reads otherwise
\* than they look are not among them: a ! before parentheses, which evalp drops,
\* and -r, -w and -x, which hold where access() fails.
Leaf(v, w)   == [op |-> "leaf", val |-> v, words |-> w, args |-> <<>>]
Node(o, x)   == [op |-> o, val |-> FALSE, words |-> <<>>, args |-> x]
Leaves == {Leaf(TRUE, <<"-e", "y">>), Leaf(FALSE, <<"n", "=", "y">>),
           Leaf(TRUE, <<"{", "ok", "}">>), Leaf(FALSE, <<"!", "-f", "y">>)}
Level1 == Leaves \cup {Node("!", <<x>>) : x \in Leaves}
Pairs(S, T) == {Node(o, <<x, y>>) : o \in {"-a", "-o"}, x \in S, y \in T}
Level2 == Level1 \cup Pairs(Level1, Leaves)
Trees  == Level2 \cup Pairs(Level2, Pairs(Leaves, Leaves)) \cup Pairs(Pairs(Leaves, Leaves), Leaves)

RECURSIVE Value(_)
Value(t) == CASE t.op = "leaf" -> t.val
              [] t.op = "!"    -> ~Value(t.args[1])
              [] t.op = "-a"   -> Value(t.args[1]) /\ Value(t.args[2])
              [] t.op = "-o"   -> Value(t.args[1]) \/ Value(t.args[2])

RECURSIVE Words(_)
Inside(t, op) == IF op = "-a" /\ t.op = "-o" THEN <<"(">> \o Words(t) \o <<")">> ELSE Words(t)
Words(t) == CASE t.op = "leaf" -> t.words
              [] t.op = "!"    -> <<"!">> \o Words(t.args[1])
              [] OTHER         -> Inside(t.args[1], t.op) \o <<t.op>> \o Inside(t.args[2], t.op)

IfStart ==
  /\ ifRan = "start"
  /\ ifTree' \in Trees /\ ifArg' = Append(Words(ifTree'), "command") /\ ifRan' = "none"
IfInit == ifTree = Leaf(TRUE, <<"-e", "y">>) /\ ifArg = <<>> /\ ifRan = "start"
IfNext == IfStart \/ IfMain

\* The command runs if and only if the expression, read with ! before -a before
\* -o and with parentheses, is true: for the expressions of Trees, so without !
\* before parentheses and without -r, -w and -x.
IfExact == ifRan \notin {"start", "none"} => ifRan = IF Value(ifTree) THEN "command" ELSE "false"

-----------------------------------------------------------------------------
(* cmd/bin/expr.c: an expression is evaluated while its words are read, by    *)
(* getvalue for a priority and getsingleval for an operand.                   *)

CONSTANTS ExWords    \* the command lines

VARIABLES
  exArg,       \* the words
  exOut        \* what is printed, <<>> before that

exVars == <<exArg, exOut>>

\* A value: T_INT with its number, or T_STR, which is never empty.
ExInt(n)   == [str |-> FALSE, n |-> n]
ExStr(n)   == [str |-> TRUE, n |-> n]
\* exit(1) with a message, or the trap of a division by zero
ExBad == <<ExStr(-1), 0>>

Ops == {"%", "/", "*", "+", "-", "<", "<=", ">", ">=", "==", "!=", "&", "|"}
MutPriority(op) == IF op = "%" THEN 0 ELSE IF op \in {"/", "*"} THEN 1
                   ELSE IF op \in {"+", "-"} THEN 3 ELSE IF op = "&" THEN 5 ELSE IF op = "|" THEN 6 ELSE 4
Priority(op) == CASE op = "%" -> 0 [] op = "/" -> 1 [] op = "*" -> 2
                  [] op \in {"+", "-"} -> 3 [] op = "&" -> 5 [] op = "|" -> 6
                  [] OTHER -> 4
P_CMP == 4
P_ALL == 7

\* The division of C rounds towards zero.
CAbs(a)    == IF a < 0 THEN -a ELSE a
CDiv(a, b) == (CAbs(a) \div CAbs(b)) * (IF (a < 0) = (b < 0) THEN 1 ELSE -1)
CMod(a, b) == a - b * CDiv(a, b)
Truth(b)   == IF b THEN 1 ELSE 0

\* What an operator makes of its operands; "&" and "|" take strings too.
Numeric(op, a, b) ==
  CASE op = "%" -> CMod(a, b) [] op = "/" -> CDiv(a, b) [] op = "*" -> a * b
    [] op = "+" -> a + b      [] op = "-" -> a - b
    [] op = "<" -> Truth(a < b) [] op = "<=" -> Truth(a <= b) [] op = ">" -> Truth(a > b)
    [] op = ">=" -> Truth(a >= b)
    [] op = "==" -> Truth(a = b) [] OTHER -> Truth(a # b)
Traps(op, b) == op \in {"%", "/"} /\ b = 0
Wrong(op, a, b) == op \notin {"&", "|"} /\ (a.str \/ b.str \/ Traps(op, b.n))
\* ">=" has lost the test in front of badtype() and is always a type mismatch.
Fails(op, a, b) == op = ">=" \/ Wrong(op, a, b)
Apply(op, a, b) ==
  CASE op = "&" -> IF b.n = 0 \/ a.n = 0 THEN ExInt(0) ELSE a
    [] op = "|" -> IF a.n = 0 THEN b ELSE a
    [] OTHER    -> ExInt(Numeric(op, a.n, b.n))

-----------------------------------------------------------------------------
\* getsingleval and getvalue from word i: the value and the word after it.  The
\* right operand of an operator is read with its own priority, that of "&" and
\* "|" with P_CMP.
Token(i) == IF i <= Len(exArg) THEN exArg[i] ELSE "NULL"
\* A word of digits is a number, so the empty one is, any other one a string.
Atoi(w)  == CASE w = "0" -> ExInt(0) [] w = "1" -> ExInt(1) [] w = "2" -> ExInt(2)
              [] w = "" -> ExInt(0) [] OTHER -> ExStr(1)
RightPriority(op) == IF op \in {"&", "|"} THEN P_CMP ELSE Priority(op)
RECURSIVE Getvalue(_, _)
RECURSIVE Operators(_, _)
Getsingleval(i) ==
  CASE Token(i) = "NULL" -> ExBad
    [] Token(i) = "("    -> LET v == Getvalue(i + 1, P_ALL)
                            IN  IF v = ExBad \/ Token(v[2]) # ")" THEN ExBad
                                ELSE <<v[1], v[2] + 1>>
    [] OTHER             -> <<Atoi(Token(i)), i + 1>>
Operators(v, p) ==
  LET op == Token(v[2])
      w  == Getvalue(v[2] + 1, RightPriority(op))
  IN  CASE v = ExBad                           -> ExBad
        [] op \notin Ops \/ p < Priority(op) -> v
        [] OTHER -> IF w = ExBad \/ Fails(op, v[1], w[1]) THEN ExBad
                    ELSE Operators(<<Apply(op, v[1], w[1]), w[2]>>, p)
Getvalue(i, p) == Operators(Getsingleval(i), p)

\* main: nothing may be left.
ExMain ==
  LET v == Getvalue(1, P_ALL)
  IN  /\ exOut = <<>>
      /\ exOut' = IF v = ExBad \/ v[2] <= Len(exArg) THEN ExBad ELSE <<v[1]>>
      /\ UNCHANGED exArg

ExInit == exArg \in ExWords /\ exOut = <<>>

-----------------------------------------------------------------------------
(* Properties.                                                               *)

\* The value of the words exArg[i .. j] as the usage message has them read: the
\* operator of the lowest priority that is in no parentheses is applied last, and
\* ">=" is a comparison like the others.  The message does not say how operators
\* of one priority group: the first is applied last, as getvalue does it.
RECURSIVE Depth(_, _)
Depth(i, k) == IF k < i THEN 0 ELSE Depth(i, k - 1) + (CASE Token(k) = "(" -> 1
                                                        [] Token(k) = ")" -> -1
                                                        [] OTHER -> 0)
Usage == <<{"%"}, {"/"}, {"*"}, {"+", "-"}, {"<", "<=", ">", ">=", "==", "!="}, {"&"}, {"|"}>>
Class(op)   == CHOOSE c \in DOMAIN Usage : op \in Usage[c]
Outer(i, j) == {k \in i .. j : Token(k) \in Ops /\ Depth(i, k) = 0}
IsLast(i, j, k) ==
  LET o == Outer(i, j)
  IN  /\ k \in o /\ \A m \in o : Class(Token(m)) <= Class(Token(k))
      /\ \A m \in o : Class(Token(m)) = Class(Token(k)) => m >= k
RECURSIVE ExRead(_, _)
ExRead(i, j) ==
  IF Outer(i, j) = {}
  THEN IF Token(i) = "(" THEN ExRead(i + 1, j - 1) ELSE <<Atoi(Token(i))>>
  ELSE LET k == CHOOSE m \in i .. j : IsLast(i, j, m)
           a == ExRead(i, k - 1)
           b == ExRead(k + 1, j)
       IN  IF a = ExBad \/ b = ExBad \/ Wrong(Token(k), a[1], b[1]) THEN ExBad
           ELSE <<Apply(Token(k), a[1], b[1])>>

\* Every operand is where one is expected and the parentheses match.
WellFormed ==
  LET n == Len(exArg)
      Ends(k)   == k \in 1 .. n /\ Token(k) \notin Ops \cup {"("}
      Begins(k) == k \in 1 .. n /\ Token(k) \notin Ops \cup {")"}
  IN  /\ Depth(1, n) = 0 /\ \A k \in 1 .. n : Depth(1, k) >= 0
      /\ Begins(1) /\ Ends(n)
      /\ \A k \in 1 .. n : Token(k) \in Ops => Ends(k - 1) /\ Begins(k + 1)
      /\ \A k \in 1 .. n - 1 : ~(Ends(k) /\ Begins(k + 1))

\* Where expr does not do what its usage message says: ">=" fails, and an "&"
\* behind a "|" is applied to what the "|" gave, as if they were one priority.
Otherwise ==
  \E k, m \in DOMAIN exArg :
    \/ exArg[k] = ">="
    \/ /\ k < m /\ exArg[k] = "|" /\ exArg[m] = "&" /\ Depth(1, k) = Depth(1, m)
       /\ \A n \in k .. m : Depth(1, n) >= Depth(1, k)

\* expr prints the value that its usage message gives the words, with the two
\* exceptions of Otherwise.
ExprExact == (exOut # <<>> /\ WellFormed /\ ~Otherwise) => exOut = ExRead(1, Len(exArg))

-----------------------------------------------------------------------------
(* cmd/sh/glob.c: the expansion of * and ? in the words of a command.  A name *)
(* is a sequence of characters, a path and a pattern a sequence of names.     *)
(* Only the wildcards *  and ? of glob.c are modelled: [ ends the plain part   *)
(* of a path as well, but match() gives it no meaning.                        *)
CONSTANTS
  GlNames,     \* names the directories can hold
  GlComps      \* components of the patterns

VARIABLES
  glTree,      \* the paths that exist
  glArg,       \* the words still to be looked at
  glArgv       \* n_argv, as a set for every word: addarg, then qsort

glVars == <<glTree, glArg, glArgv>>

Wild(pat)    == \E i \in DOMAIN pat : pat[i] \in {"*", "?"}
Dots(name)   == name \in {<<".">>, <<".", ".">>}
From(s, i)   == SubSeq(s, i, Len(s))

\* match: "." and ".." are left out where it is entered, with the name and, after
\* stars, with every suffix of it; at last it goes on with the name as it is.
RECURSIVE Match(_, _)
RECURSIVE MatchRest(_, _)
Endings(name) == {From(name, i) : i \in 1 .. Len(name)}
Unstarred(pat) ==
  LET k == CHOOSE i \in 1 .. Len(pat) + 1 :
             /\ \A j \in 1 .. i - 1 : pat[j] = "*"
             /\ i = Len(pat) + 1 \/ pat[i] # "*"
  IN From(pat, k)
AfterStar(name, rest) ==
  rest = <<>> \/ (\E s \in Endings(name) : Match(s, rest)) \/ MatchRest(name, rest)
MutOneChar(name, pat) == name # <<>> /\ (pat[1] = "?" \/ pat[1] = name[1] \/ Len(name) = 1)
OneChar(name, pat)    == name # <<>> /\ (pat[1] = "?" \/ pat[1] = name[1])
MatchRest(name, pat) ==
  CASE pat = <<>> -> name = <<>>
    [] pat # <<>> /\ pat[1] = "*" -> AfterStar(name, Unstarred(pat))
    [] OTHER -> OneChar(name, pat) /\ MatchRest(From(name, 2), From(pat, 2))
Match(name, pat) == ~Dots(name) /\ MatchRest(name, pat)

\* globs puts the plain part of the pattern behind the path it has so far,
\* without a "/" between them.
Glued(path, dir) ==
  IF path = <<>> \/ dir = <<>> THEN path \o dir
  ELSE SubSeq(path, 1, Len(path) - 1) \o <<path[Len(path)] \o dir[1]>> \o From(dir, 2)

\* globs and glob1: the paths found for the pattern pat behind path.
RECURSIVE Globs(_, _)
Glob1(path, pat, rest) ==
  UNION {Globs(Append(path, n), rest) :
         n \in {n \in GlNames : Append(path, n) \in glTree /\ Match(n, pat)}}
Globs(path, pat) ==
  IF \A i \in DOMAIN pat : ~Wild(pat[i])
  THEN {path \o pat} \cap glTree
  ELSE LET k == CHOOSE i \in DOMAIN pat : Wild(pat[i]) /\ \A j \in 1 .. i - 1 : ~Wild(pat[j])
       IN Glob1(Glued(path, SubSeq(pat, 1, k - 1)), pat[k], From(pat, k + 1))

\* globx: a word without a wildcard stays; globa drops one that finds nothing.
Globa ==
  /\ glArg # <<>>
  /\ glArgv' = Append(glArgv, IF \E i \in DOMAIN glArg[1] : Wild(glArg[1][i])
                              THEN Globs(<<>>, glArg[1]) ELSE {glArg[1]})
  /\ glArg' = Tail(glArg)
  /\ UNCHANGED glTree

Patterns == {<<p>> : p \in GlComps} \cup (GlComps \X GlComps)
\* A command with a pattern is given, in some directory.
GlobStart ==
  /\ glArg = <<>> /\ glArgv = <<>>
  /\ \E top \in SUBSET GlNames, d \in GlNames, sub \in SUBSET GlNames :
       /\ d \in top \/ sub = {}
       /\ Cardinality(top) <= 2 /\ Cardinality(sub) <= 2
       /\ glTree' = {<<n>> : n \in top} \cup {<<d, n>> : n \in sub}
  /\ \E p \in Patterns : glArg' = <<p>> /\ glArgv' = <<p>>
GlInit == glTree = {} /\ glArg = <<>> /\ glArgv = <<>>
GlNext == GlobStart \/ Globa

-----------------------------------------------------------------------------
\* What a pattern means: every character of the name is taken by one of the
\* pattern's, in order.
RECURSIVE Fits(_, _)
Fits(name, pat) ==
  CASE pat = <<>>    -> name = <<>>
    [] pat # <<>> /\ pat[1] = "*" ->
         \E i \in 1 .. Len(name) + 1 : Fits(From(name, i), From(pat, 2))
    [] OTHER         -> name # <<>> /\ pat[1] \in {"?", name[1]}
                          /\ Fits(From(name, 2), From(pat, 2))

\* A star with more behind it may miss a name when what is behind it would have
\* to take the "." or ".." the name ends with, which match does not enter.
Missed(name, pat) ==
  \E k \in DOMAIN pat : \E s \in Endings(name) :
    /\ pat[k] = "*" /\ Unstarred(From(pat, k)) # <<>>
    /\ Dots(s) /\ Fits(s, Unstarred(From(pat, k)))

\* The words a pattern becomes are the paths that exist and that it fits, but
\* for those with a name that is Missed.
GlobExact ==
  (glArg = <<>> /\ glArgv # <<>> /\ \E i \in DOMAIN glArgv[1] : Wild(glArgv[1][i])) =>
    LET pat == glArgv[1]
        fit == {q \in glTree : Len(q) = Len(pat) /\ \A i \in DOMAIN q : Fits(q[i], pat[i])}
    IN /\ glArgv[2] \subseteq fit
       /\ \A q \in fit \ glArgv[2] : \E i \in DOMAIN q : Missed(q[i], pat[i])
=============================================================================
