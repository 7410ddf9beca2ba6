----------------------------- MODULE MCDocTree -----------------------------
(* Four pages in two directories and every library of at most MaxLines     *)
(* toctrees of one line on them, with at most one page that fails.         *)
EXTENDS DocTree

CONSTANTS up, index, sub, a, site, star, MaxLines

MCName == {up, index, sub, a, site, star}
MCPages == <<<<a>>, <<index>>, <<sub, a>>, <<sub, index>>>>

Rel(p) == [to |-> "rel", path |-> p, dir |-> FALSE, rst |-> FALSE, titled |-> FALSE,
           line |-> "path"]
Titled(p) == [Rel(p) EXCEPT !.titled = TRUE]
One(e) == [entries |-> <<e>>, glob |-> FALSE, hidden |-> FALSE]

Toctrees == <<
  One(Rel(<<a>>)),
  [One([Rel(<<a>>) EXCEPT !.rst = TRUE]) EXCEPT !.hidden = TRUE],
  One(Rel(<<index>>)),
  One(Rel(<<sub, a>>)),
  One([Rel(<<sub>>) EXCEPT !.dir = TRUE]),
  One(Titled(<<up, a>>)),
  One(Titled(<<up, index>>)),
  One(Rel(<<up, a>>)),
  One([Rel(<<a>>) EXCEPT !.to = "abs"]),
  One([Rel(<<site>>) EXCEPT !.to = "url"]),
  One(Rel(<<sub, up, a>>)),
  [One([Rel(<<star>>) EXCEPT !.line = "pattern"]) EXCEPT !.glob = TRUE],
  One([Rel(<<a>>) EXCEPT !.line = "self"])
  >>

Chosen(S, k) ==
  [i \in 1..Cardinality({n \in DOMAIN Toctrees : <<k, n>> \in S}) |->
     Toctrees[CHOOSE n \in DOMAIN Toctrees :
                /\ <<k, n>> \in S
                /\ Cardinality({m \in 1..n : <<k, m>> \in S}) = i]]

Slots == Range(MCPages) \X DOMAIN Toctrees

AtMost[n \in Nat] ==
  IF n = 0 THEN {{}} ELSE AtMost[n - 1] \cup {S \cup {x} : S \in AtMost[n - 1], x \in Slots}

MCLibraries ==
  {[holds |-> [k \in Range(MCPages) |-> Chosen(S, k)], fails |-> F] :
     S \in AtMost[MaxLines], F \in {{}} \cup {{k} : k \in Range(MCPages)}}
=============================================================================
