------------------------------- MODULE Shell -------------------------------
(* The main loop of the shell (user/sh.c): a line is read, cut into tokens,  *)
(* its variables are replaced, it is parsed, its backticks are run and their *)
(* output put in place, and the tree is executed.  A character is a string   *)
(* of length 1, a word a sequence of characters.  How a child is run and its *)
(* status comes back is module ExitStatus; here a child is what it runs and  *)
(* how it ends.  The sizes of the tables (tokens[100], value[1000],          *)
(* argv[128]) and what a longer line overwrites are not modelled.            *)
EXTENDS Integers, SequencesExt, FiniteSets

CONSTANTS Tree,        \* the trees whose spellings are typed
          Raw,         \* the other lines that are typed
          VarTable,    \* the variables of the shell: a sequence of <<name, value>>
          Failing,     \* the words that, as commands, end with status 1
          Exiting,     \* and those that end the env that runs them: exit, and declare
                       \* with an option it does not know
          Unopenable,  \* the words that, as file names, cannot be opened
          NULL

VARIABLES pc,      \* the stage of the main loop
          buf,     \* the line read
          tokens,  \* tokens[0 .. token_count-1]
          in_backtick,
          clean,   \* history: in_backtick at the start of this line
          ast,
          ran,     \* history: the commands run for this line, in order
          status   \* what execute_ast returned

vars == <<pc, buf, tokens, in_backtick, clean, ast, ran, status>>

\* The character that encloses a command whose output is wanted.
BACKTICK == "bt"
-----------------------------------------------------------------------------
(* Tokens. *)

WHITESPACE == {" "}
SYMBOLS    == {"<", "|", ">", "&", ";", "(", ")", BACKTICK}

Tok(t, v) == [type |-> t, value |-> v]
END   == Tok("END", <<>>)
\* What a cell of tokens[] holds that this line has not written.
STALE == Tok("STALE", <<"stale">>)

\* The type of the operator of width w at i, NULL where there is none.
Operator(l, i, w) ==
    LET op == IF i + w - 1 <= Len(l) THEN SubSeq(l, i, i + w - 1) ELSE <<>>
    IN  CASE op = <<"|", "|">> -> "OR"
          [] op = <<"&", "&">> -> "AND"
          [] op = <<">", ">">> -> "DGREAT"
          [] op = <<"|">> -> "PIPE"
          [] op = <<";">> -> "SEMI"
          [] op = <<"<">> -> "LESS"
          [] op = <<">">> -> "GREAT"
          [] op = <<BACKTICK>> -> "BACKTICK"
          [] OTHER -> NULL

\* The second loop of tokenize, from character i; start is where the word being
\* read began, 0 between words.
RECURSIVE Lex(_, _, _)
Lex(l, i, start) ==
    LET word == IF start = 0 THEN <<>> ELSE <<Tok("WORD", SubSeq(l, start, i - 1))>>
    IN  CASE i > Len(l) -> word
          [] i <= Len(l) /\ l[i] \in WHITESPACE -> word \o Lex(l, i + 1, 0)
          [] i <= Len(l) /\ Operator(l, i, 2) # NULL ->
                word \o <<Tok(Operator(l, i, 2), SubSeq(l, i, i + 1))>> \o Lex(l, i + 2, 0)
          [] i <= Len(l) /\ Operator(l, i, 2) = NULL /\ Operator(l, i, 1) # NULL ->
                word \o <<Tok(Operator(l, i, 1), <<l[i]>>)>> \o Lex(l, i + 1, 0)
          [] OTHER -> Lex(l, i + 1, IF start = 0 THEN i ELSE start)

\* The first loop: every symbol counts, also each half of && and an & alone,
\* which the second loop takes as part of a word.
CountTokens(l) ==
    LET word(i) == l[i] \notin WHITESPACE \cup SYMBOLS
    IN  Cardinality({i \in 1..Len(l) : l[i] \in SYMBOLS})
          + Cardinality({i \in 1..Len(l) : word(i) /\ (i = Len(l) \/ ~word(i + 1))})

\* A comment ends the line.
Uncommented(l) == SubSeq(l, 1, SelectInSeq(l \o <<"#">>, LAMBDA c : c = "#") - 1)

\* Mutant: no TOKEN_END after fewer tokens than were counted.
tokenizeNoEnd(line) ==
    LET l == Uncommented(line)
        t == Lex(l, 1, 0)
    IN  [i \in 1..CountTokens(l) |-> IF i <= Len(t) THEN t[i] ELSE STALE]

(* tokenize: where the first loop counted more than there are, TOKEN_END is  *)
(* pushed and counted.                                                       *)
tokenize(line) ==
    LET l == Uncommented(line)
        t == Lex(l, 1, 0)
        n == CountTokens(l)
    IN  IF Len(t) < n THEN Append(t, END) ELSE SubSeq(t, 1, n)

\* replace_substr: every occurrence of old, none of them in what was put in.
RECURSIVE replace_substr(_, _, _)
replace_substr(s, old, new) ==
    CASE Len(s) < Len(old) -> s
      [] Len(s) >= Len(old) /\ IsPrefix(old, s) ->
            new \o replace_substr(SubSeq(s, Len(old) + 1, Len(s)), old, new)
      [] OTHER -> <<s[1]>> \o replace_substr(Tail(s), old, new)

\* All variables are tried on a word that begins with $, in the order of the table.
Expand(v) ==
    IF v # <<>> /\ v[1] = "$"
    THEN FoldLeft(LAMBDA s, x : replace_substr(s, <<"$">> \o x[1], x[2]), v, VarTable)
    ELSE v

\* The empty words go; the loop steps over the token after each of them.
RECURSIVE DropEmpty(_, _)
DropEmpty(t, i) ==
    CASE i > Len(t) -> t
      [] i <= Len(t) /\ t[i] = Tok("WORD", <<>>) -> DropEmpty(RemoveAt(t, i), i + 1)
      [] OTHER -> DropEmpty(t, i + 1)

(* replace_token_var *)
replace_token_var(t) ==
    DropEmpty([i \in DOMAIN t |->
                 IF t[i].type = "WORD" THEN Tok("WORD", Expand(t[i].value)) ELSE t[i]], 1)
-----------------------------------------------------------------------------
(* The parser.  A function of it takes the tokens t, the current one at and  *)
(* in_backtick, and returns the node with the last two as it leaves them.    *)

Nothing == [type |-> "NULL"]
PLACE   == <<BACKTICK>>      \* what stands in argv for the output of a backtick

Command(argv, bts)  == [type |-> "COMMAND", argv |-> argv, backticks |-> bts]
Redir(type, f, cmd) == [type |-> type, filename |-> f, left |-> cmd]
Node(type, l, r)    == [type |-> type, left |-> l, right |-> r]

Is(n, type) == n.type = type
Res(n, at, inb) == [node |-> n, at |-> at, inb |-> inb]

peek_token(t, at) == IF at <= Len(t) THEN t[at] ELSE END
After(t, at)      == IF at <= Len(t) THEN at + 1 ELSE at   \* next_token

\* How a production goes on after its left operand, unless that is missing; and with
\* the operand on the right: the tree, if there is one, is extended and the rest read.
Unless(left, rest(_)) == IF Is(left.node, "NULL") THEN left ELSE rest(left)
Join(type, left, right, rest(_)) ==
    IF Is(right.node, "NULL") THEN [right EXCEPT !.node = left.node]
    ELSE rest([right EXCEPT !.node = Node(type, left.node, right.node)])

RECURSIVE parse_simple_command(_, _, _, _, _), PipeRest(_, _), AndOrRest(_, _),
          SeqRest(_, _)

parse_pipeline(t, at, inb) ==
    Unless(parse_simple_command(t, at, inb, <<>>, <<>>), LAMBDA left : PipeRest(t, left))

PipeRest(t, left) ==
    IF peek_token(t, left.at).type # "PIPE" THEN left
    ELSE Join("PIPE", left, parse_simple_command(t, left.at + 1, left.inb, <<>>, <<>>),
              LAMBDA tree : PipeRest(t, tree))

\* && and || bind alike, to the left.
parse_and_or(t, at, inb) ==
    Unless(parse_pipeline(t, at, inb), LAMBDA left : AndOrRest(t, left))

\* Mutant: the tree grows to the right.
AndOrRestRight(t, left) ==
    IF peek_token(t, left.at).type \notin {"AND", "OR"} THEN left
    ELSE Join(peek_token(t, left.at).type, left, parse_and_or(t, left.at + 1, left.inb),
              LAMBDA tree : tree)

AndOrRest(t, left) ==
    IF peek_token(t, left.at).type \notin {"AND", "OR"} THEN left
    ELSE Join(peek_token(t, left.at).type, left, parse_pipeline(t, left.at + 1, left.inb),
              LAMBDA tree : AndOrRest(t, tree))

parse_command(t, at, inb) ==
    Unless(parse_and_or(t, at, inb), LAMBDA left : SeqRest(t, left))

SeqRest(t, left) ==
    IF peek_token(t, left.at).type # "SEMI" THEN left
    ELSE Join("SEQ", left, parse_and_or(t, left.at + 1, left.inb),
              LAMBDA tree : SeqRest(t, tree))

\* The second backtick of a command is expected after what stands between them.
Enclosed(t, sub, rest(_)) ==
    IF Is(sub.node, "NULL") \/ peek_token(t, sub.at).type # "BACKTICK"
    THEN [sub EXCEPT !.node = Nothing] ELSE rest(sub)

(* parse_simple_command: argv and bts are what its loop has gathered.  A     *)
(* redirection ends the command; a syntax error inside backticks leaves      *)
(* in_backtick set.                                                          *)
parse_simple_command(t, at, inb, argv, bts) ==
    LET tok  == peek_token(t, at)
        file == peek_token(t, After(t, at))
        kind == CASE tok.type = "LESS" -> "REDIR_IN" [] tok.type = "GREAT" -> "REDIR_OUT"
                  [] OTHER -> "REDIR_APP"
    IN  CASE tok.type \in {"END", "PIPE", "AND", "OR", "SEMI"} ->
               Res(IF argv = <<>> THEN Nothing ELSE Command(argv, bts), at, inb)
          [] tok.type \in {"LESS", "GREAT", "DGREAT"} ->
               Res(IF file.type # "WORD" \/ argv = <<>> THEN Nothing
                   ELSE Redir(kind, file.value, Command(argv, bts)),
                   After(t, After(t, at)), inb)
          [] tok.type = "BACKTICK" /\ inb ->
               Res(IF argv = <<>> THEN Nothing ELSE Command(argv, <<>>), at, inb)
          [] tok.type = "BACKTICK" /\ ~inb ->
               Enclosed(t, parse_command(t, at + 1, TRUE),
                        LAMBDA sub : parse_simple_command(t, sub.at + 1, FALSE,
                                        Append(argv, PLACE), Append(bts, sub.node)))
          [] OTHER -> parse_simple_command(t, at + 1, inb, Append(argv, tok.value), bts)
-----------------------------------------------------------------------------
(* Execution: what a node can lead to, as a set of outcomes.  An outcome is  *)
(* the commands run, in order (the two sides of a pipe one after the other), *)
(* the status, and whether the env that executed the node has ended.         *)

Outcome(r, s, g) == [ran |-> r, status |-> s, gone |-> g]

\* o1, and then, unless the env has ended, each of what may follow.
Then(o1, next) ==
    IF o1.gone THEN {o1}
    ELSE {Outcome(o1.ran \o o2.ran, o2.status, o2.gone) : o2 \in next}

\* In a child: exit there ends the child.
InChild(os) == {[o EXCEPT !.gone = FALSE] : o \in os}

\* A builtin that calls exit() ends the env that runs it; all else runs in a child or
\* returns.
Exits(n) == n.argv[1] \in Exiting

execute_command(n) ==
    {Outcome(<<n.argv>>,
             IF n.argv[1] \in Failing THEN 1 ELSE 0,
             Exits(n))}

RECURSIVE execute_ast(_)

(* execute_redirection: a child opens the file and executes what is left of  *)
(* the arrow.                                                                *)
execute_redirection(n) ==
    IF n.type # "SEQ" /\ n.filename \in Unopenable THEN {Outcome(<<>>, 1, FALSE)}
    ELSE InChild(execute_ast(n.left))

(* execute_pipeline: two children; the status is made of two variables of    *)
(* the parent that only the children set.                                    *)
execute_pipeline(n) ==
    {Outcome(l.ran \o r.ran, s, FALSE) :
        l \in execute_ast(n.left), r \in execute_ast(n.right), s \in {0, 1}}

\* Mutant: || tested as &&.
AndOrSame(n) ==
    UNION {IF l.status = 0 THEN Then(l, execute_ast(n.right)) ELSE {l} :
             l \in execute_ast(n.left)}

AndOr(n) ==
    UNION {IF (l.status = 0) = (n.type = "AND") THEN Then(l, execute_ast(n.right)) ELSE {l} :
             l \in execute_ast(n.left)}

(* The case of NODE_SEQ has no break and no return: control runs on into the *)
(* case of the redirections.                                                 *)
execute_ast(n) ==
    CASE n.type = "COMMAND" -> execute_command(n)
      [] n.type = "PIPE" -> execute_pipeline(n)
      [] n.type \in {"AND", "OR"} -> AndOr(n)
      [] n.type = "SEQ" ->
            UNION {Then(l, UNION {Then(r, execute_redirection(n)) : r \in execute_ast(n.right)}) :
                     l \in execute_ast(n.left)}
      [] OTHER -> execute_redirection(n)

\* What a tree that ran these commands wrote, as one word.
Output(r) == <<"@">> \o FlattenSeq([i \in DOMAIN r |-> FlattenSeq(r[i])])

\* Every backtick of a command runs, and the output of the first of them takes
\* the place of all.
Substitute(argv, out) == [i \in DOMAIN argv |-> IF argv[i] = PLACE THEN out ELSE argv[i]]

\* The trees a tree can become, each with the commands run on the way.
RECURSIVE resolve_backticks(_)
resolve_backticks(n) ==
    IF n.type = "COMMAND"
    THEN IF n.backticks = <<>> THEN {[tree |-> n, ran |-> <<>>]}
         ELSE {[tree |-> Command(Substitute(n.argv, Output(rs[1])), n.backticks),
                ran  |-> FlattenSeq(rs)] :
                 rs \in {f \in [DOMAIN n.backticks ->
                                  UNION {{o.ran : o \in execute_ast(n.backticks[i])} :
                                           i \in DOMAIN n.backticks}] :
                           \A i \in DOMAIN f : \E o \in execute_ast(n.backticks[i]) : f[i] = o.ran}}
    ELSE IF "right" \in DOMAIN n
    THEN {[tree |-> Node(n.type, l.tree, r.tree), ran |-> l.ran \o r.ran] :
            l \in resolve_backticks(n.left), r \in resolve_backticks(n.right)}
    ELSE {[tree |-> [n EXCEPT !.left = l.tree], ran |-> l.ran] : l \in resolve_backticks(n.left)}
-----------------------------------------------------------------------------
(* What the lines are meant to say. *)

Op(type) ==
    CASE type = "PIPE" -> <<"|">> [] type = "AND" -> <<"&", "&">> [] type = "OR" -> <<"|", "|">>
      [] type = "SEQ" -> <<";">> [] type = "REDIR_IN" -> <<"<">> [] type = "REDIR_OUT" -> <<">">>
      [] type = "REDIR_APP" -> <<">", ">">>

\* The tree whose output argv[i] of command n stands for.
Quoted(n, i) == n.backticks[Cardinality({j \in 1..i : n.argv[j] = PLACE})]

\* How tree n is typed, with sp around the operators.
RECURSIVE Spelled(_, _)
Spelled(n, sp) ==
    IF n.type = "COMMAND"
    THEN LET word(i) == IF n.argv[i] # PLACE THEN n.argv[i]
                        ELSE PLACE \o Spelled(Quoted(n, i), sp) \o PLACE
         IN  FoldLeft(LAMBDA l, i : l \o <<" ">> \o word(i), word(1),
                      [i \in 1..Len(n.argv) - 1 |-> i + 1])
    ELSE Spelled(n.left, sp) \o sp \o Op(n.type) \o sp
           \o (IF "right" \in DOMAIN n THEN Spelled(n.right, sp) ELSE n.filename)

Spelling == {[line |-> Spelled(n, sp), tree |-> n] : n \in Tree, sp \in {<<>>, <<" ">>}}
Line     == {x.line : x \in Spelling} \cup Raw
-----------------------------------------------------------------------------
(* The main loop. *)

Init ==
    /\ pc = "prompt" /\ buf = <<>> /\ tokens = <<>>
    /\ in_backtick = FALSE /\ clean = TRUE
    /\ ast = Nothing /\ ran = <<>> /\ status = 0

IsBlank(l) == ToSet(l) \subseteq WHITESPACE

ReadBlank ==
    /\ pc = "prompt"
    /\ \E l \in Line : IsBlank(l) /\ buf' = l
    /\ UNCHANGED <<pc, tokens, in_backtick, clean, ast, ran, status>>

\* init_for_cmd resets all that belongs to a line but in_backtick.
Read ==
    /\ pc = "prompt"
    /\ \E l \in Line : ~IsBlank(l) /\ buf' = l
    /\ pc' = "read"
    /\ tokens' = <<>> /\ ast' = Nothing /\ ran' = <<>> /\ status' = 0
    /\ clean' = ~in_backtick
    /\ UNCHANGED in_backtick

Tokenize ==
    /\ pc = "read"
    /\ tokens' = tokenize(buf)
    /\ pc' = "tokens"
    /\ UNCHANGED <<buf, in_backtick, clean, ast, ran, status>>

Replace ==
    /\ pc = "tokens"
    /\ tokens' = replace_token_var(tokens)
    /\ pc' = "words"
    /\ UNCHANGED <<buf, in_backtick, clean, ast, ran, status>>

Parse ==
    /\ pc = "words"
    /\ LET r == parse_command(tokens, 1, in_backtick)
       IN  /\ ast' = r.node
           /\ in_backtick' = r.inb
           /\ pc' = IF Is(r.node, "NULL") THEN "prompt" ELSE "tree"
    /\ UNCHANGED <<buf, tokens, clean, ran, status>>

Resolve ==
    /\ pc = "tree"
    /\ \E r \in resolve_backticks(ast) : ast' = r.tree /\ ran' = r.ran
    /\ pc' = "resolved"
    /\ UNCHANGED <<buf, tokens, in_backtick, clean, status>>

Execute ==
    /\ pc = "resolved"
    /\ \E o \in execute_ast(ast) :
          /\ ran' = ran \o o.ran
          /\ status' = o.status
          /\ pc' = IF o.gone THEN "gone" ELSE "prompt"
    /\ UNCHANGED <<buf, tokens, in_backtick, clean, ast>>

Next == ReadBlank \/ Read \/ Tokenize \/ Replace \/ Parse \/ Resolve \/ Execute

Spec == Init /\ [][Next]_vars
-----------------------------------------------------------------------------
(* Type invariant of the main loop's state.                                  *)
TypeOK ==
    /\ pc \in {"prompt", "read", "tokens", "words", "tree", "resolved", "gone"}
    /\ buf \in Line \cup {<<>>}
    /\ \A i \in DOMAIN tokens :
          tokens[i].type \in {"END", "WORD", "PIPE", "AND", "OR", "SEMI", "LESS", "GREAT",
                             "DGREAT", "BACKTICK"}
    /\ in_backtick \in BOOLEAN /\ clean \in BOOLEAN
    /\ status \in {0, 1}
    /\ pc \in {"tree", "resolved", "gone"} => ast # Nothing

RECURSIVE Words(_)
Words(n) ==
    CASE n.type = "NULL" -> <<>>
      [] n.type = "COMMAND" ->
            FlattenSeq([i \in DOMAIN n.argv |->
                          IF n.argv[i] = PLACE THEN Words(Quoted(n, i)) ELSE n.argv[i]])
      [] n.type \in {"PIPE", "AND", "OR", "SEQ"} -> Words(n.left) \o Words(n.right)
      [] OTHER -> Words(n.left) \o n.filename

(* The characters of the words of a tree stand in the line that was typed,   *)
(* in that order: a command never gets a word of another line, nor words in  *)
(* another order, though the two loops of tokenize count and write           *)
(* differently and tokens[] is never cleared (user/sh.c 520-637).  Of lines  *)
(* without variables.                                                        *)
WordsInOrder ==
    pc = "tree" /\ ~Contains(buf, "$") =>
       LET left == FoldLeft(LAMBDA w, c : IF w # <<>> /\ Head(w) = c THEN Tail(w) ELSE w,
                            Words(ast), buf)
       IN  left = <<>>

(* The shell's tables are well formed and hold the words of the line.        *)
Sound == TypeOK /\ WordsInOrder

(* A line typed from a tree is parsed into that tree, with or without blanks *)
(* around the operators: && and || group to the left, | binds more, ; less,  *)
(* and a command in backticks ends at its own backtick; unless an earlier    *)
(* syntax error left in_backtick set (user/sh.c 710-918).                    *)
TreeBack ==
    pc \notin {"read", "tokens", "words"} /\ clean =>
       \A x \in Spelling : x.line = buf => ast # Nothing /\ (pc = "tree" => ast = x.tree)

\* The pipelines of an and-or list, from left to right, each with its operator.
RECURSIVE Chain(_)
Chain(n) == IF n.type \in {"AND", "OR"} THEN Append(Chain(n.left), <<n.type, n.right>>)
            ELSE <<<<"AND", n>>>>

\* What a list of commands may do: a pipeline runs when the status before it is
\* what its operator asks for, and is skipped otherwise.
Flat(chain) ==
    FoldLeft(LAMBDA os, c :
                UNION {IF o.gone \/ (o.status = 0) # (c[1] = "AND") THEN {o}
                       ELSE Then(o, execute_ast(c[2])) : o \in os},
             {Outcome(<<>>, 0, FALSE)}, chain)

RECURSIVE Conditional(_)
Conditional(n) ==
    \/ n.type = "COMMAND" /\ n.backticks = <<>>
    \/ n.type \in {"AND", "OR"} /\ Conditional(n.left) /\ Conditional(n.right)

(* A line of commands joined by && and || runs them from left to right, each *)
(* one or not by the status so far, to the last, and exit ends the shell     *)
(* there (user/sh.c 1044-1073).                                              *)
FlatRun ==
    pc \in {"prompt", "gone"} /\ clean /\ ast # Nothing =>
       \A x \in Spelling : x.line = buf /\ Conditional(x.tree) =>
          Outcome(ran, status, pc = "gone") \in Flat(Chain(x.tree))
=============================================================================
