----------------------------- MODULE MCDocVisit -----------------------------
(* The docstring of one object and two pages, and at most MaxItems items of *)
(* some forty kinds on them.                                                *)
EXTENDS DocVisit

CONSTANT MaxItems

MCObjects ==
  {[mod |-> <<"np">>, qual |-> <<>>],
   [mod |-> <<"np", "ma">>, qual |-> <<"zeros">>],
   [mod |-> <<"np">>, qual |-> <<"zeros">>],
   [mod |-> <<"np", "fft">>, qual |-> <<"zeros">>],
   [mod |-> <<"np", "ma">>, qual |-> <<"core">>],
   [mod |-> <<"np", "ma">>, qual |-> <<"core", "zeros">>],
   [mod |-> <<"np", "ma">>, qual |-> <<>>],
   [mod |-> <<"np", "ma", "core">>, qual |-> <<>>],
   [mod |-> <<"np", "ma", "core">>, qual |-> <<"zeros">>],
   [mod |-> <<"np", "ma", "core">>, qual |-> <<"zeros", "shape">>]}

MCDocs ==
  <<[page |-> FALSE, qa |-> <<"np", "ma", "zeros">>, dir |-> "none", params |-> {<<"shape">>}, local |-> {<<"shape">>}],
    [page |-> TRUE, qa |-> <<"index">>, dir |-> "top", params |-> {}, local |-> {}],
    [page |-> TRUE, qa |-> <<"user">>, dir |-> "sub", params |-> {}, local |-> {}]>>

OneObject == {[mod |-> <<"np", "ma">>, qual |-> <<"zeros">>]}

T(dot, name) == [dot |-> dot, name |-> name]
Zeros == T(FALSE, <<"zeros">>)
R(role, t) == [is |-> "role", domain |-> "none", role |-> role, target |-> t, title |-> FALSE, bang |-> FALSE,
               tilde |-> FALSE, call |-> FALSE, under |-> FALSE, url |-> FALSE]
From(from, name) == [from |-> from, name |-> name]
Subst == [is |-> "subst", label |-> <<"v">>]
Picture(uri) == [is |-> "image", uri |-> uri, items |-> <<>>]
Include(uri) == [is |-> "include", uri |-> uri]
Admonition(options, rest) == [is |-> "admonition", options |-> options, items |-> <<Subst, [is |-> "comment"]>>, rest |-> rest]
Box(titled) == [is |-> "box", titled |-> titled, items |-> <<R("gone", Zeros)>>, rest |-> <<Subst>>]
Csv(uri, body) == [is |-> "csv", uri |-> uri, header |-> {}, body |-> body]
See(desc) == [is |-> "see", target |-> T(FALSE, <<"np", "zeros">>), desc |-> desc]

Items == <<
  R("func", Zeros),
  R("none", T(FALSE, <<"shape">>)),
  [R("method", T(TRUE, <<"zeros">>)) EXCEPT !.tilde = TRUE, !.call = TRUE],
  [R("class", T(FALSE, <<"np", "zeros">>)) EXCEPT !.domain = "py", !.title = TRUE],
  R("func", T(FALSE, <<"os">>)),
  R("none", T(FALSE, <<"None">>)),
  [R("func", Zeros) EXCEPT !.bang = TRUE],
  [R("func", Zeros) EXCEPT !.domain = "cpp"],
  R("ref", T(FALSE, <<"l">>)),
  [R("none", T(FALSE, <<"l">>)) EXCEPT !.under = TRUE],
  [R("none", T(FALSE, <<"web">>)) EXCEPT !.title = TRUE],
  [R("none", T(FALSE, <<"web">>)) EXCEPT !.url = TRUE],
  R("doc", T(FALSE, <<"user">>)), R("doc", T(FALSE, <<"l">>)),
  R("kbd", Zeros), R("rc", Zeros), R("gone", Zeros), R("ghpull", Zeros),
  [is |-> "section", label |-> <<"l">>],
  [is |-> "anchor", label |-> <<"l">>],
  [is |-> "external", label |-> <<"web">>],
  [is |-> "def", label |-> <<"v">>, replace |-> TRUE],
  [is |-> "def", label |-> <<"v">>, replace |-> FALSE],
  Subst,
  Picture(From("here", "fig")), Picture(From("root", "fig")), Picture(From("web", "fig")),
  [is |-> "plot", uri |-> From("none", "")],
  [is |-> "plot", uri |-> From("here", "script")],
  Include(From("root", "part")),
  Include(From("here", "loop")),
  Admonition(FALSE, <<>>), Admonition(FALSE, <<Subst>>), Admonition(TRUE, <<>>),
  Box(TRUE), Box(FALSE),
  [is |-> "code"], [is |-> "dropped"],
  [R("pep", Zeros) EXCEPT !.title = TRUE],
  [is |-> "table", ok |-> TRUE, items |-> <<[is |-> "text"], R("gone", Zeros)>>],
  [is |-> "table", ok |-> FALSE],
  Csv(From("here", "fig"), {}), Csv(From("here", "fig"), {"row"}), Csv(From("none", ""), {}),
  [is |-> "directive", class |-> "sphinx"],
  [is |-> "directive", class |-> "unknown"],
  See({[is |-> "text"]}), See({[is |-> "directive"]})
  >>

Slots == (DOMAIN MCDocs) \X (DOMAIN Items)

AtMost[n \in Nat] ==
  IF n = 0 THEN {{}} ELSE AtMost[n - 1] \cup {S \cup {x} : S \in AtMost[n - 1], x \in Slots}

Chosen(S, d) ==
  [i \in 1..Cardinality({n \in DOMAIN Items : <<d, n>> \in S}) |->
     Items[CHOOSE n \in DOMAIN Items :
             /\ <<d, n>> \in S
             /\ Cardinality({m \in 1..n : <<d, m>> \in S}) = i]]

\* The last page ends in a link to the label in any case.
MCItems ==
  {[d \in DOMAIN MCDocs |->
      Chosen(S, d) \o IF d = Len(MCDocs) THEN <<R("ref", T(FALSE, <<"l">>))>> ELSE <<>>] : S \in AtMost[MaxItems]}

\* Many objects and hardly a document; one object and MaxItems items; plots that are not run.
MCPackages ==
  {[objects |-> MCObjects, items |-> <<<<>>, <<>>, <<>>>>, executes |-> TRUE]}
  \cup {[objects |-> OneObject, items |-> items, executes |-> TRUE] : items \in MCItems}
  \cup {[objects |-> {}, items |-> <<<<[is |-> "plot", uri |-> From("none", "")]>>, <<>>, <<>>>>, executes |-> FALSE]}

MCFileDir == [f \in {<<"top", "fig">>, <<"sub", "fig">>, <<"top", "part">>, <<"sub", "loop">>, <<"sub", "script">>} |-> f[1]]
MCFileItems ==
  [f \in {<<"top", "part">>, <<"sub", "loop">>} |->
     IF f = <<"top", "part">>
       THEN <<[is |-> "section", label |-> <<"l">>], Subst, R("gone", Zeros), Include(From("here", "none"))>>
       ELSE <<[is |-> "text"], Include(From("here", "loop"))>>]
MCBaseName == [f \in DOMAIN MCFileDir |-> <<"file", f[2]>>]

MCAliases == [n \in {<<"np", "zeros">>} |-> [mod |-> <<"np", "ma">>, qual |-> <<"zeros">>]]
MCRoleConfig == [k \in {<<"none", "rc">>, <<"none", "data">>} |-> IF k[2] = "rc" THEN "unset" ELSE "drop"]

MCAsked ==
  {<<"np">>, <<"np", "ma">>, <<"np", "ma", "zeros">>}
  \X ([dot : {FALSE}, name : {<<"zeros">>, <<"core">>, <<"ma", "zeros">>, <<"np", "zeros">>, <<"shape">>, <<"core", "zeros">>}]
      \cup {T(TRUE, <<"zeros">>), T(TRUE, <<"core">>)})
MCImportable == {<<"os">>, <<"None">>}
MCHandledRole == {<<"py", "kbd">>, <<"py", "pep">>}
=============================================================================
