------------------------------ MODULE MCShell -------------------------------
(* Instance of Shell: the commands t (succeeds), f (fails), exit, d (exits   *)
(* with status 1) and one with a variable, in every tree of up to two pipes  *)
(* or lists, and every line of at most three characters of one alphabet, or  *)
(* five of a smaller.                                                        *)
EXTENDS Shell

Cmd(w) == Command(<<w>>, <<>>)

MCFailing    == {<<"f">>, <<"d">>}
MCExiting    == {<<"e", "x", "i", "t">>, <<"d">>}
MCUnopenable == {<<"u">>}
MCVarTable   == <<<<<<"a">>, <<>>>>, <<<<"a", "b">>, <<"f">>>>, <<<<"c">>, <<"t">>>>>>

Plain  == {Cmd(<<"t">>), Cmd(<<"f">>), Cmd(<<"e", "x", "i", "t">>)}
Simple == Plain \cup
          {Cmd(<<"d">>), Command(<<<<"t">>, <<"f">>>>, <<>>),
           Redir("REDIR_OUT", <<"o">>, Cmd(<<"f">>)), Redir("REDIR_IN", <<"u">>, Cmd(<<"t">>)),
           Redir("REDIR_APP", <<"o">>, Command(<<<<"t">>, PLACE>>, <<Cmd(<<"f">>)>>)),
           Command(<<<<"t">>, PLACE, PLACE>>, <<Cmd(<<"t">>), Node("OR", Cmd(<<"f">>), Cmd(<<"t">>))>>)}
Two   == {Node(op, l, r) : op \in {"PIPE", "AND", "OR", "SEQ"}, l \in Simple, r \in Plain}
Three == {Node(op, l, r) : op \in {"AND", "OR", "SEQ"},
                           l \in {n \in Two : n.type # "SEQ" /\ n.left \in Plain}, r \in Plain}
Third == {Node("AND", l, r) : l \in Plain, r \in {n \in Two : n.type = "PIPE" /\ n.left \in Plain}}

MCTree == Simple \cup Two \cup Three \cup Third

Alphabet == {"t", "|", "&", BACKTICK, ";", ">", " "}
MCRaw == {<<>>} \cup UNION {[1..n -> Alphabet] : n \in 1..3}
          \cup [1..5 -> {"t", "|", BACKTICK}]
          \cup {<<"$", "a">>, <<"t", " ", "$", "a">>, <<"$", "a", "b">>,
                <<"$", "c", " ", "#", "$", "a">>, <<"$", "a", " ", "$", "a", " ", "t">>}
=============================================================================
