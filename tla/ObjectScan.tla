------------------------------ MODULE ObjectScan ------------------------------
(***************************************************************************)
(* How papyri gen finds the objects of a package and the name it gives     *)
(* each of them: Gen._get_collector, DFSCollector, find_canonical and the  *)
(* selection at the head of Gen.collect_api_docs (papyri/gen.py).          *)
(*                                                                         *)
(* A package is a graph: `members' of a module (what dir() lists) and of a *)
(* class (its __dict__), in order, as pairs <<key, object>>.  A path, the  *)
(* dotted name an object is reached by, is a sequence of keys; a qualified *)
(* name is a record of the parts before and after the colon.               *)
(***************************************************************************)
EXTENDS Integers, Sequences, SequencesExt, FiniteSets

CONSTANTS Kind,     \* object -> "module", "class", "function" or "other"
          Full,     \* object -> its qualified name, or Nameless (full_qual)
          Value,    \* object -> what == compares
          Root,     \* the root module
          Packages, \* what Init chooses from: families, each giving the
                    \* graphs and the values of each part of a configuration
          Private,  \* the keys that start with a single underscore
          Broken    \* the member that getattr cannot get

VARIABLES package,   \* the package and its configuration
          open,      \* DFSCollector._open_list
          seen,      \* the identities scan has met
          obj,       \* DFSCollector.obj: qualified name -> object
          order,     \* the order of the dict's keys
          aliases,   \* DFSCollector.aliases: qualified name -> paths
          canonical, \* the `aliases' of papyri.json
          phase      \* "start", "scan", "examples", "done" or "refused"

scanVars == <<package, open, seen, obj, order, aliases, canonical, phase>>

Nameless == [module |-> <<>>, name |-> <<>>]

RootName == Full[Root].module

\* DFSCollector.__init__ asserts that the root is a module and its name has no dot.
ASSUME RootIsAModule ==
    Root \in DOMAIN Kind /\ Kind[Root] = "module" /\ Full[Root].name = <<>> /\ Len(RootName) = 1

ASSUME ObjectsAreNamed ==
    /\ Broken \notin DOMAIN Kind
    /\ \A o \in DOMAIN Kind : Full[o] \in [module : Seq(STRING), name : Seq(STRING)]

\* A module keeps its name without a colon.
DottedName(o) == IF Kind[o] = "module" THEN Full[o].module ELSE <<Last(Full[o].name)>>

Owned(o) == Full[o] # Nameless /\ Head(Full[o].module) = Head(RootName)
Equal(o, p) == Value[o] = Value[p]

\* The elements of s that are in S, in their order.
Within(s, S) ==
    LET f[n \in 0..Len(s)] ==
          IF n = 0 THEN <<>>
          ELSE IF s[n] \in S THEN Append(f[n - 1], s[n]) ELSE f[n - 1]
    IN  f[Len(s)]

\* The members that getattr can get.
Gettable(members) == Within(members, {m \in ToSet(members) : m[2] # Broken})
Members(o) == Gettable(package.members[o])

\* getattr(o, key) of the members of o: the object, or Broken.
Attribute(members, key) ==
    LET hits == Within(members, {m \in ToSet(members) : m[1] = key})
    IN  IF hits = <<>> THEN Broken ELSE Head(hits)[2]

\* The object at the end of the path, from the root on.
Lookup(graph, path) ==
    IF path = <<>> \/ Head(path) # Head(RootName) THEN Broken
    ELSE LET f[n \in 0..(Len(path) - 1)] ==
               IF n = 0 THEN Root
               ELSE IF f[n - 1] = Broken THEN Broken ELSE Attribute(graph[f[n - 1]], path[n + 1])
         IN  f[Len(path) - 1]
At(path) == Lookup(package.members, path)

Seeds == [i \in 1..Len(package.submodules) |-> At(RootName \o package.submodules[i])]

ScanInit ==
    /\ \E i \in DOMAIN Packages :
          LET family == Packages[i]
          IN  package \in [members : family.members, submodules : family.submodules,
                           exclude : family.exclude, limit : family.limit,
                           examples : family.examples, execute : family.execute,
                           shown : family.shown, wait_for_show : family.wait_for_show,
                           flags_known : family.flags_known, refused : family.refused]
    /\ open = <<>> /\ seen = {} /\ obj = <<>> /\ order = <<>>
    /\ aliases = <<>> /\ canonical = <<>> /\ phase = "start"

\* _get_collector: the root first, then each configured submodule.
GetCollector ==
    /\ phase = "start" /\ Broken \notin ToSet(Seeds)
    /\ open' = <<<<Root, RootName>>>> \o
               [i \in 1..Len(Seeds) |-> <<Seeds[i], DottedName(Seeds[i])>>]
    /\ phase' = "scan"
    /\ UNCHANGED <<package, seen, obj, order, aliases, canonical>>

\* "Configured submodule ... could not be imported".
RefuseSubmodule ==
    /\ phase = "start" /\ Broken \in ToSet(Seeds)
    /\ phase' = "refused"
    /\ UNCHANGED <<package, open, seen, obj, order, aliases, canonical>>

Taken(o) == \E q \in DOMAIN obj : Equal(obj[q], o)
Wanted(o) == o \notin seen /\ Owned(o) /\ ~Taken(o)

\* Mutant: the members of a class are not followed.
ChildrenOfModules(o, path) ==
    IF Kind[o] = "module"
    THEN [i \in 1..Len(Members(o)) |-> <<Members(o)[i][2], Append(path, Members(o)[i][1])>>]
    ELSE <<>>

\* visit_ModuleType, visit_ClassType, visit_FunctionType.
Children(o, path) ==
    IF Kind[o] \in {"module", "class"}
    THEN [i \in 1..Len(Members(o)) |-> <<Members(o)[i][2], Append(path, Members(o)[i][1])>>]
    ELSE <<>>

\* A second object of the same name takes the place of the first.
Keep(o, path) ==
    LET qa == Full[o]
        known == qa \in DOMAIN obj
    IN  /\ obj' = [q \in DOMAIN obj \union {qa} |-> IF q = qa THEN o ELSE obj[q]]
        /\ order' = IF known THEN order ELSE Append(order, qa)
        /\ aliases' = [q \in DOMAIN obj \union {qa} |->
                          IF q # qa THEN aliases[q]
                          ELSE Append(IF known THEN aliases[qa] ELSE <<>>, path)]

Scanning == phase = "scan" /\ open # <<>>

\* Mutant: the members come first, as the class's name has it.
VisitDepthFirst ==
    /\ Scanning
    /\ LET o == Head(open)[1]
           path == Head(open)[2]
       IN  /\ Wanted(o)
           /\ Keep(o, path)
           /\ open' = Children(o, path) \o Tail(open)
           /\ seen' = seen \union {o}
    /\ UNCHANGED <<package, canonical, phase>>

Visit ==
    /\ Scanning
    /\ LET o == Head(open)[1]
           path == Head(open)[2]
       IN  /\ Wanted(o)
           /\ Keep(o, path)
           /\ open' = Tail(open) \o Children(o, path)
           /\ seen' = seen \union {o}
    /\ UNCHANGED <<package, canonical, phase>>

\* full_qual answers its own exceptions with no name.  The RuntimeError that
\* ends the run over an object all the same (a module without a name) is left out.
Pass ==
    /\ Scanning
    /\ ~Wanted(Head(open)[1])
    /\ open' = Tail(open)
    /\ seen' = seen \union {Head(open)[1]}
    /\ UNCHANGED <<package, obj, order, aliases, canonical, phase>>

---------------------------------------------------------------------------
\* find_canonical.
Level(path) == Len(path) - 1
QualLevel(qa) == Len(qa.module) + Len(qa.name) - 1
IsName(path, qa) == qa.name = <<>> /\ path = qa.module
IsPrivate(path) == \E i \in DOMAIN path : path[i] \in Private

Candidates(qa, paths) ==
    LET least == CHOOSE n \in {Level(p) : p \in ToSet(paths)} :
                    \A p \in ToSet(paths) : n <= Level(p)
        bound == IF least < QualLevel(qa) THEN least ELSE QualLevel(qa)
    IN  Within(paths, {p \in ToSet(paths) : Level(p) <= bound})

HasCanonical(qa, paths) ==
    LET found == Candidates(qa, paths)
    IN  /\ \E i \in DOMAIN paths : ~IsName(paths[i], qa)
        /\ Len(found) = 1
        /\ ~IsPrivate(Head(found)) /\ ~IsName(Head(found), qa)

Canonical(found) ==
    [qa \in {q \in DOMAIN found : HasCanonical(q, found[q])} |-> Head(Candidates(qa, found[qa]))]

\* The exclusions of the configuration, then the names asked for.
Selected(qa) == qa \notin package.exclude /\ (package.limit = {} \/ qa \in package.limit)

\* compute_aliases looks at every object found, the excluded ones too.
Select ==
    /\ phase = "scan" /\ open = <<>>
    /\ order' = Within(order, {q \in ToSet(order) : Selected(q)})
    /\ canonical' = Canonical(aliases)
    /\ phase' = "examples"
    /\ UNCHANGED <<package, open, seen, obj, aliases>>

\* The prune after the scan has no action: it takes out what is under another
\* name than its own, and there is nothing of the kind (AllOwnedFound).
ScanNext == GetCollector \/ RefuseSubmodule \/ Visit \/ Pass \/ Select

---------------------------------------------------------------------------
(* What a reader expects of the names, in terms of the graph alone.        *)

Walks(o) == Owned(o) /\ Kind[o] \in {"module", "class"}

\* The paths of at most n steps from the root through the package's own
\* modules and classes.
Paths[n \in Nat] ==
    IF n = 0 THEN {RootName}
    ELSE LET shorter == Paths[n - 1]
         IN  shorter \union UNION {{Append(p, m[1]) : m \in ToSet(Members(At(p)))} :
                                      p \in {q \in shorter : Walks(At(q))}}

\* What the root and the configured submodules lead to in n steps.
Reached[n \in Nat] ==
    IF n = 0 THEN {Root} \union ToSet(Seeds)
    ELSE LET nearer == Reached[n - 1]
         IN  nearer \union UNION {{m[2] : m \in ToSet(Members(o))} :
                                     o \in {q \in nearer : Walks(q)}}

Scanned == phase \in {"examples", "done"}

\* Every object of the package that its own modules and classes lead to is
\* found, under its name or as the equal of an object that was; and nothing
\* else is (DFSCollector.scan, gen.py:413-424).
AllOwnedFound ==
    Scanned =>
        LET owned == {o \in Reached[Cardinality(DOMAIN Kind)] : Owned(o)}
        IN  /\ \A o \in owned : Full[o] \in DOMAIN obj \/ Taken(o)
            /\ \A q \in DOMAIN obj : obj[q] \in owned /\ Full[obj[q]] = q

\* A configured submodule whose name the root gives to something else.
Shadowed == \E i \in DOMAIN Seeds : Kind[Seeds[i]] # "module"

\* The name papyri.json gives an object leads to an object of that qualified
\* name, and no path is shorter, unless a configured submodule was walked
\* before its turn (find_canonical, gen.py:2281-2311; "short").
CanonicalNameLeadsHome ==
    Scanned /\ ~Shadowed =>
        \A q \in DOMAIN canonical :
            LET a == canonical[q]
            IN  /\ At(a) # Broken /\ Full[At(a)] = q
                /\ \/ \E i \in DOMAIN package.submodules : Len(package.submodules[i]) > 1
                   \/ \A p \in Paths[Len(a) - 2] : At(p) = Broken \/ Full[At(p)] # q
=============================================================================
