------------------------------- MODULE MCGenRun -----------------------------
(***************************************************************************)
(* Small instances of GenRun: a module and a function, a narrative source  *)
(* and a script, and libraries in which at most one step raises and one    *)
(* complains, of the same item.                                            *)
(***************************************************************************)
EXTENDS GenRun

CONSTANTS m, f, nosuch, d, x, E, F,
          FlagTrouble    \* how many options of a run are not the usual ones

MCExpected == [o \in Object |-> IF o = f THEN {E} ELSE {}]

MCGating == {<<"numpydoc", f>>, <<"normalized", f>>, <<"exec", x>>, <<"syntax", x>>,
             <<"lint", m>>, <<"lint", d>>}

Usual == [early |-> FALSE, unseen |-> FALSE, gate |-> TRUE, dry |-> FALSE,
          fallback |-> FALSE, only |-> {}, parts |-> Part]

MCFlags ==
    {o \in [early : BOOLEAN, unseen : BOOLEAN, gate : BOOLEAN, dry : BOOLEAN,
            fallback : BOOLEAN, only : {{}, {f}, {nosuch}},
            parts : {Part, {"narrative"}}] :
        Cardinality({k \in DOMAIN Usual : o[k] # Usual[k]}) <= FlagTrouble}

Fine == [s \in Spot |-> None]

Complaint == {s \in Spot : s[1] \in {"normalized", "syntax", "lint"}}

\* Only the blocks tell one exception from another.
Trouble == ({"extract", "prepare"} \X {f}) \X {E, F}
              \cup (Spot \ (Complaint \cup ({"extract", "prepare"} \X {f}))) \X {F}

Lib(ts, cs) ==
    [s \in Spot |-> IF \E t \in ts : t[1] = s THEN (CHOOSE t \in ts : t[1] = s)[2]
                    ELSE IF s \in cs THEN F ELSE None]

\* A step raises, an item is complained of, or one that is complained of raises.
MCSource ==
    {Fine}
      \cup {Lib({t}, {}) : t \in Trouble}
      \cup {Lib({}, {c}) : c \in Complaint}
      \cup {Lib({tc[1]}, {tc[2]}) :
               tc \in {q \in Trouble \X Complaint : q[1][1][2] = q[2][2]}}
=============================================================================
