----------------------------- MODULE References -----------------------------
(***************************************************************************)
(* What `papyri gen' makes of an inline role (tree.py): which documented   *)
(* object, page or URL it is a link to, and what is reported when it is    *)
(* none.  A name is the sequence of its components; an object is known by  *)
(* the module that defines it and its name there ("numpy.ma:zeros").       *)
(***************************************************************************)
EXTENDS Naturals, Sequences, SequencesExt, FiniteSets

CONSTANTS
  Component,     \* the components of names
  Root,          \* the package that is documented
  BuiltinPrefix, \* the components `builtins' and `str'
  Constant,      \* None, False, True
  Importable,    \* the names Python can import, a superset of what is documented
  RoleConfig,    \* [global.roles]: per <<domain, role>> a handler
  HandledRole,   \* the <<domain, role>>s of the registry
  GithubSlug     \* whether the project has one

Name == Seq(Component) \ {<<>>}
Object == [mod : Name, qual : Seq(Component)]

Dotted(o) == o.mod \o o.qual

Missing == [kind |-> "missing"]
Local == [kind |-> "local"]

\* A name as it is written, without title, tilde and parentheses.
Target == [dot : BOOLEAN, name : Name]

-----------------------------------------------------------------------------
(* The index of the documented objects and the search in it *)

Keys(known) == {Dotted(o) : o \in known}

\* Objects of one dotted name have one key: the iteration order of a set says whose it is.
Indexes(known) == {m \in [Keys(known) -> known] : \A k \in DOMAIN m : Dotted(m[k]) = k}

EndsIn(s, name) == Len(s) > Len(name) /\ IsSuffix(name, s)

\* Each object is a second time in the index, under its own name with the colon:
\* no role spells it so, but the search for an ending meets it there.
SuffixHits(m, known, name) ==
  {m[k] : k \in {j \in DOMAIN m : EndsIn(j, name)}} \cup {o \in known : EndsIn(o.qual, name)}

\* One hit is a link; none or several are not.
Only(S) == IF \E o \in S : S = {o} THEN CHOOSE o \in S : TRUE ELSE Missing

Scopes(qa) == {SubSeq(qa, 1, i) : i \in 1..Len(qa)}
Enclosing(m, qa, name) == {s \in Scopes(qa) : s \o name \in DOMAIN m}

\* Mutant: the scopes are walked from the root.
OutermostScope(S) == CHOOSE s \in S : \A t \in S : IsPrefix(s, t)

ClosestScope(S) == CHOOSE s \in S : \A t \in S : IsPrefix(t, s)

NeverIndexed(t) ==
  /\ ~t.dot
  /\ \/ t.name[1] \in BuiltinPrefix /\ Len(t.name) > 1
     \/ t.name[1] \in Constant /\ Len(t.name) = 1

\* resolve_ for a name that is no alias.
Resolve(m, known, qa, local, t) ==
  IF NeverIndexed(t) THEN Missing
  ELSE IF ~t.dot /\ t.name \in local THEN Local
  ELSE IF ~t.dot /\ t.name \in DOMAIN m THEN m[t.name]
  ELSE IF t.dot /\ qa \o t.name \in DOMAIN m THEN m[qa \o t.name]
  ELSE IF t.dot /\ t.name \in DOMAIN m THEN m[t.name]
  ELSE IF ~t.dot /\ Enclosing(m, qa, t.name) # {}
         THEN m[ClosestScope(Enclosing(m, qa, t.name)) \o t.name]
  ELSE Only(SuffixHits(m, known, t.name))

\* The alias of an object stands for the object: it is found under its own name or not at all.
ResolveAlias(m, known, qa, t, aliases) ==
  IF ~t.dot /\ t.name \in DOMAIN aliases
    THEN IF aliases[t.name] \in known THEN aliases[t.name] ELSE Missing
    ELSE Resolve(m, known, qa, {}, t)

-----------------------------------------------------------------------------
(* Roles *)

PythonRole == {"none", "mod", "func", "any", "meth", "method", "class", "exc", "data", "attr", "obj", "const"}
GithubRole == {"ghpull", "ghissue"}

\* A role as written: :domain:role:`body'.  "none" is no domain, or no role;
\* `under' is the underscore of a named reference.
Role == [is : {"role"}, domain : STRING, role : STRING, target : Target,
         title : BOOLEAN, bang : BOOLEAN, tilde : BOOLEAN, call : BOOLEAN, under : BOOLEAN, url : BOOLEAN]

IsDefault(r) == r.role = "none"
IsPython(r) == r.role \in PythonRole /\ r.domain \in {"none", "py"}
Plain(r) == ~(r.title \/ r.bang \/ r.tilde \/ r.call \/ r.under \/ r.url \/ r.target.dot)

\* What becomes of a role: the node in its place, and the codes reported.
Becomes(node, codes) == [node |-> node, codes |-> codes]
Left(r, codes) == Becomes([is |-> "role", role |-> r], codes)
Shown(how) == Becomes([is |-> how], {})
PageLink(p, label) == Becomes([is |-> "local", page |-> p, label |-> label], {})
DocLink(p) == Becomes([is |-> "local", page |-> p], {})

\* Links to objects of the package carry no version, whether the object is documented or not.
ObjectLink(name) == IF name[1] = Root THEN [is |-> "local", object |-> name]
                                      ELSE [is |-> "external", object |-> name]

\* Mutant: what is not found is left without a word.
NotFoundSilently(r) == Left(r, {})

NotFound(r) == Left(r, {IF IsDefault(r) THEN "W-unresolved-default-role" ELSE "W-unresolved-ref"})

Github(r) == IF GithubSlug THEN Shown("url") ELSE Becomes([is |-> "text"], {"W-missing-github-slug"})

\* A handler of [global.roles]; one that returns nothing leaves the role to the next.
Configured(r) ==
  LET h == RoleConfig[<<r.domain, r.role>>]
  IN  IF h = "unset" THEN Becomes([is |-> "code"], {"W-unset-role"})
      ELSE IF h = "drop" THEN Becomes([is |-> "nothing"], {}) ELSE Shown("code")

\* Roles of the registry format their body and link nothing; a :pep: that is no bare
\* number is an exception.
Handled(r) == <<IF r.domain = "none" THEN "py" ELSE r.domain, r.role>> \in HandledRole
Formatted(r) == IF r.role = "pep" /\ r.title THEN Becomes([is |-> "error"], {}) ELSE Shown("code")

\* The import solver is given the role as it is written, with the title in it.
ImportName(r) == IF r.target.dot THEN <<Root>> \o r.target.name ELSE r.target.name
Imports(r) == ~r.title /\ ImportName(r) \in Importable

Imported(r) == IF Imports(r) THEN Becomes(ObjectLink(ImportName(r)), {}) ELSE NotFound(r)

\* The visitor resolves in the scope of the page's object, or of the package for a narrative page.
ScopeOf(qa) == IF qa # <<>> /\ qa[1] = Root THEN qa ELSE <<Root>>

\* A reference that keeps its underscore is the name of nothing.
Searched(r, m, known, qa, local) ==
  LET found == Resolve(m, known, ScopeOf(qa), IF r.role \in {"any", "none"} THEN local ELSE {}, r.target)
  IN  IF r.under THEN NotFound(r)
      ELSE IF found = Local THEN Shown("local name")
      ELSE IF found # Missing THEN Becomes([is |-> "local", object |-> Dotted(found)], {})
      ELSE IF IsPython(r) THEN Imported(r) ELSE NotFound(r)

\* replace_InlineRole, for a document at `qa' with its parameters and local names,
\* where m indexes the `known' objects, `pages' the labels and `urls' the external targets, and
\* `page' is the page a :doc: means.
Replace(r, m, known, qa, params, local, pages, urls, page) ==
  LET label == r.target.name
      nonstandard == IF r.role = "method" THEN {"W-nonstandard-role"} ELSE {}
      Linked == IF r.bang THEN Shown("code")
                ELSE IF r.url THEN Shown("url")
                ELSE IF r.role = "ref"
                  THEN IF label \in DOMAIN pages THEN PageLink(pages[label], label) ELSE NotFound(r)
                ELSE IF r.role = "doc" THEN DocLink(page)
                ELSE IF IsDefault(r) /\ label \in DOMAIN pages THEN PageLink(pages[label], label)
                ELSE IF IsDefault(r) /\ label \in urls THEN Shown("url")
                ELSE Searched(r, m, known, qa, local)
  IN  IF r.domain = "none" /\ IsDefault(r) /\ Plain(r) /\ label \in params THEN Shown("param")
      ELSE IF r.domain \in {"none", "py"} /\ r.role \in GithubRole THEN Github(r)
      ELSE IF ~IsDefault(r) /\ <<r.domain, r.role>> \in DOMAIN RoleConfig THEN Configured(r)
      ELSE IF Handled(r) THEN Formatted(r)
      ELSE IF ~(IsPython(r) \/ r.role \in {"ref", "doc"}) THEN Left(r, {"W-unknown-role"})
      ELSE [Linked EXCEPT !.codes = @ \cup nonstandard]
=============================================================================
