------------------------------ MODULE MCApiPass ------------------------------
(***************************************************************************)
(* Packages for the API pass.  In the first set the graph varies and there *)
(* are no examples; in the second three functions of a plain module have   *)
(* examples.                                                               *)
(***************************************************************************)
EXTENDS ApiPass

Objs == {"r", "s", "_p", "C", "m", "f", "f2", "x", "k", "l", "n"}

Q(module, name) == [module |-> module, name |-> name]

MCQual ==
    [o \in Objs |->
        CASE o = "r" -> Q(<<"r">>, <<>>)
          [] o = "s" -> Q(<<"r", "s">>, <<>>)
          [] o = "_p" -> Q(<<"r", "s", "_p">>, <<>>)
          [] o = "C" -> Q(<<"r", "s", "_p">>, <<"C">>)
          [] o = "m" -> Q(<<"r", "s", "_p">>, <<"C", "m">>)
          [] o \in {"f", "f2"} -> Q(<<"r", "s", "_p">>, <<"f">>)  \* twins
          [] o = "x" -> Q(<<"x">>, <<>>)
          [] o = "k" -> Q(<<"r", "s">>, <<"k">>)
          [] o = "l" -> Q(<<"r", "s">>, <<"l">>)
          [] o = "n" -> Nameless]

MCKind ==
    [o \in Objs |->
        CASE o \in {"r", "s", "_p", "x"} -> "module"
          [] o = "C" -> "class"
          [] o \in {"m", "f", "f2"} -> "function"
          [] OTHER -> "other"]

\* k and l compare equal.
MCValue == [o \in Objs |-> IF o = "l" THEN "k" ELSE o]

Sub(seq, keys) == SelectSeq(seq, LAMBDA m : m[1] \in keys)

MembersOfRoot == <<<<"C", "C">>, <<"b", Broken>>, <<"n", "n">>, <<"s", "s">>, <<"t", "f">>, <<"x", "x">>>>
MembersOfS == <<<<"C", "C">>, <<"_p", "_p">>, <<"f", "f2">>, <<"k", "k">>, <<"l", "l">>, <<"r", "r">>>>

MembersWith(inRoot, inS, s) ==
    [o \in Objs |->
        CASE o = "r" -> [i \in DOMAIN Sub(MembersOfRoot, inRoot) |->
                            IF Sub(MembersOfRoot, inRoot)[i][1] = "s" THEN <<"s", s>>
                            ELSE Sub(MembersOfRoot, inRoot)[i]]
          [] o = "s" -> Sub(MembersOfS, inS)
          [] o = "_p" -> <<<<"C", "C">>, <<"f", "f">>>>
          [] o = "C" -> <<<<"m", "m">>>>
          [] o = "x" -> <<<<"f", "f">>>>
          [] OTHER -> <<>>]

Everything ==
    [members |-> {}, submodules |-> {<<>>}, exclude |-> {{}}, limit |-> {{}},
     examples |-> {[o \in Objs |-> <<>>]}, execute |-> {TRUE}, shown |-> {{}},
     wait_for_show |-> {FALSE}, flags_known |-> {TRUE}, refused |-> {{}}]

Graphs ==
    {MembersWith(inRoot \union {"b"}, inS, s) :
        inRoot \in SUBSET {"C", "n", "s", "t", "x"},
        inS \in {{"_p"}, {"C", "_p", "f"}, {"C", "f", "k", "l"}, {"_p", "k", "l", "r", "f"}},
        s \in {"s", "f2"}}

Example(ends, draws, shows) ==
    [kind |-> "example", ends |-> ends, draws |-> draws, shows |-> shows, tokens |-> TRUE]
TextBlock == [kind |-> "text", ends |-> "", draws |-> "", shows |-> FALSE, tokens |-> TRUE]
Untokenized == [Example("success", "figure", TRUE) EXCEPT !.tokens = FALSE]

MCBlocks ==
    {TextBlock, Untokenized, Example("skip", "figure", TRUE),
     Example("success", "nothing", FALSE), Example("success", "figure", FALSE),
     Example("success", "figure", TRUE), Example("success", "broken", TRUE),
     Example("success", "closes", FALSE),
     Example("failure", "figure", FALSE), Example("unexpected_exception", "nothing", FALSE)}

UpTo(n) == UNION {[1..k -> MCBlocks] : k \in 0..n}

\* At most n blocks for each of the objects, none for the others.
Examples(objects, n) ==
    {[o \in Objs |-> IF o \in objects THEN e[o] ELSE <<>>] : e \in [objects -> UpTo(n)]}

\* Three functions in the root, l documented before m before f.
Flat == [o \in Objs |-> IF o = "r" THEN <<<<"g", "l">>, <<"h", "m">>, <<"i", "f">>>> ELSE <<>>]
Names(objects) == {Full[o] : o \in objects}

MCPackages ==
    <<[Everything EXCEPT !.members = Graphs, !.exclude = {{}, Names({"C"})},
                         !.submodules = {<<>>, <<<<"s">>>>, <<<<"s", "_p">>>>}],
      [Everything EXCEPT !.members = {Flat}, !.limit = {Names({"f", "m"})},
                         !.examples = Examples({"f", "m"}, 2), !.wait_for_show = BOOLEAN],
      [Everything EXCEPT !.members = {Flat}, !.limit = {Names({"f", "l", "m"})},
                         !.examples = Examples({"f", "l", "m"}, 1), !.wait_for_show = BOOLEAN,
                         !.shown = {{}, {"m"}}, !.refused = {{}, {"m"}}],
      [Everything EXCEPT !.members = {Flat}, !.limit = {Names({"f"})},
                         !.examples = Examples({"f"}, 3), !.execute = BOOLEAN,
                         !.wait_for_show = BOOLEAN, !.flags_known = BOOLEAN]>>
=============================================================================
