------------------------------- MODULE ApiPass -------------------------------
(***************************************************************************)
(* The API pass of papyri gen, from the objects found (ObjectScan) to the  *)
(* examples and figures of their pages: Gen.get_example_data and           *)
(* PapyriDocTestRunner (papyri/gen.py).                                    *)
(*                                                                         *)
(* The examples of one docstring run one after the other, in the process   *)
(* of gen; the figures matplotlib holds open are the state of that         *)
(* process, and what one docstring leaves there the next one finds.  An    *)
(* error in an object's examples makes the collector leave the object out  *)
(* and go on (GenRun models the options under which it does not).          *)
(*                                                                         *)
(* A block of a docstring is a text or an example; an example has what it  *)
(* `ends' with when it is run ("skip" under the SKIP option), what it      *)
(* `draws', whether it `shows' it, and whether it has `tokens'.            *)
(***************************************************************************)
EXTENDS ObjectScan

VARIABLES at,       \* the block of the docstring that comes next, 0 between
          section,  \* _example_section_data
          figs,     \* PapyriDocTestRunner.figs
          open_figs,\* the figure managers of matplotlib
          pages,    \* the pages made: qualified name -> section and figures
          skipped   \* the objects left out for their examples

exampleVars == <<at, section, figs, open_figs, pages, skipped>>
vars == <<scanVars, exampleVars>>

Init ==
    /\ ScanInit
    /\ at = 0 /\ section = <<>> /\ figs = <<>> /\ open_figs = <<>>
    /\ pages = <<>> /\ skipped = {}

Scan == ScanNext /\ UNCHANGED exampleVars

qa == Head(order)
Blocks == package.examples[obj[qa]]
Block == Blocks[at]

\* The docstrings that are only shown: execute_exclude_patterns.
Runs(q) == package.execute /\ obj[q] \notin package.shown
Executed == Runs(qa)

\* No runner can be made (an unknown name in doctest_optionflags, an implied
\* import that fails), or DocTestParser refuses the docstring.
Refused == ~package.flags_known \/ obj[qa] \in package.refused

Text(i) == [type |-> "text", entries |-> <<i>>, status |-> "", out |-> 0]
GenCode(i, status) == [type |-> "code", entries |-> <<i>>, status |-> status, out |-> i]
Figure(f) == [type |-> "figure", entries |-> <<f>>, status |-> "", out |-> 0]

\* Mutant: the status of the neighbours is not compared.
MergedAnyStatus(acc, item) ==
    IF acc # <<>> /\ item.type = "code" /\ Last(acc).type = "code"
    THEN Append(Front(acc), [item EXCEPT !.entries = Last(acc).entries \o item.entries])
    ELSE Append(acc, item)

Merged(acc, item) ==
    IF /\ acc # <<>> /\ item.type = "code"
       /\ Last(acc).type = "code" /\ Last(acc).status = item.status
    THEN Append(Front(acc), [item EXCEPT !.entries = Last(acc).entries \o item.entries])
    ELSE Append(acc, item)

\* _compact: neighbours of one status become one item, with the last output.
Compact(items) ==
    LET f[n \in 0..Len(items)] == IF n = 0 THEN <<>> ELSE Merged(f[n - 1], items[n])
    IN  f[Len(items)]

Treating == phase = "examples" /\ order # <<>>
InBlocks == Treating /\ at \in 1..Len(Blocks)
NextObject == order' = Tail(order) /\ at' = 0 /\ section' = <<>> /\ figs' = <<>>

\* No Examples section: no runner, and no figure is closed.
WithoutExamples ==
    /\ Treating /\ at = 0 /\ Blocks = <<>>
    /\ pages' = [q \in DOMAIN pages \union {qa} |->
                    IF q = qa THEN [section |-> <<>>, figs |-> <<>>] ELSE pages[q]]
    /\ NextObject
    /\ UNCHANGED <<package, open, seen, obj, aliases, canonical, phase, open_figs, skipped>>

\* Whatever is refused is refused as an error of the object, before any of
\* its examples is run.
RefuseExamples ==
    /\ Treating /\ at = 0 /\ Blocks # <<>> /\ Refused
    /\ skipped' = skipped \union {qa}
    /\ NextObject
    /\ UNCHANGED <<package, open, seen, obj, aliases, canonical, phase, open_figs, pages>>

StartExamples ==
    /\ Treating /\ at = 0 /\ Blocks # <<>> /\ ~Refused
    /\ at' = 1
    /\ UNCHANGED <<scanVars, section, figs, open_figs, pages, skipped>>

KeepText ==
    /\ InBlocks /\ Block.kind = "text"
    /\ section' = Append(section, Text(at))
    /\ at' = at + 1
    /\ UNCHANGED <<scanVars, figs, open_figs, pages, skipped>>

ShowOnly ==
    /\ InBlocks /\ Block.kind = "example" /\ ~Executed /\ Block.tokens
    /\ section' = Append(section, GenCode(at, "none"))
    /\ at' = at + 1
    /\ UNCHANGED <<scanVars, figs, open_figs, pages, skipped>>

\* doctest passes over the example without a report: nothing is shown of it.
Skip ==
    /\ InBlocks /\ Block.kind = "example" /\ Executed /\ Block.ends = "skip"
    /\ at' = at + 1
    /\ UNCHANGED <<scanVars, section, figs, open_figs, pages, skipped>>

Running == InBlocks /\ Block.kind = "example" /\ Executed /\ Block.ends # "skip"

\* The open figures once the example has run: it may draw one, which savefig
\* may not be able to save, or close them all.
Drawn ==
    CASE Block.draws = "closes" -> <<>>
      [] Block.draws = "nothing" -> open_figs
      [] OTHER -> Append(open_figs, [of |-> qa, at |-> at, broken |-> Block.draws = "broken"])

\* report_success saves the open figures after plt.show, or after every
\* example when the configuration does not wait for it.
Saves == Drawn # <<>> /\ (Block.shows \/ ~package.wait_for_show)
Unsavable == Saves /\ \E i \in DOMAIN Drawn : Drawn[i].broken

\* report_success without a figure to save; the figures stay open.
Succeed ==
    /\ Running /\ Block.ends = "success" /\ Block.tokens /\ ~Saves
    /\ section' = Append(section, GenCode(at, "success"))
    /\ open_figs' = Drawn
    /\ at' = at + 1
    /\ UNCHANGED <<scanVars, figs, pages, skipped>>

SucceedWithFigures ==
    /\ Running /\ Block.ends = "success" /\ Block.tokens /\ Saves /\ ~Unsavable
    /\ section' = Append(section, GenCode(at, "success")) \o
                  [i \in DOMAIN Drawn |-> Figure(Drawn[i])]
    /\ figs' = figs \o Drawn
    /\ open_figs' = <<>>
    /\ at' = at + 1
    /\ UNCHANGED <<scanVars, pages, skipped>>

\* savefig raises in report_success: out of doctest, out of the docstring,
\* past the plt.close at its end.
SaveFails ==
    /\ Running /\ Block.ends = "success" /\ Block.tokens /\ Unsavable
    /\ open_figs' = Drawn
    /\ skipped' = skipped \union {qa}
    /\ NextObject
    /\ UNCHANGED <<package, open, seen, obj, aliases, canonical, phase, pages>>

\* report_failure, report_unexpected_exception: no figure is looked at.
Fail ==
    /\ Running /\ Block.ends # "success" /\ Block.tokens
    /\ section' = Append(section, GenCode(at, Block.ends))
    /\ open_figs' = Drawn
    /\ at' = at + 1
    /\ UNCHANGED <<scanVars, figs, pages, skipped>>

\* Each report, and showing an example that is not run, begins with the tokens
\* of its source: parse_script raises out of the docstring like savefig.
TokensFail ==
    /\ InBlocks /\ Block.kind = "example" /\ ~Block.tokens /\ ~(Executed /\ Block.ends = "skip")
    /\ open_figs' = IF Executed THEN Drawn ELSE open_figs
    /\ skipped' = skipped \union {qa}
    /\ NextObject
    /\ UNCHANGED <<package, open, seen, obj, aliases, canonical, phase, pages>>

\* Mutant: the figures still open are not closed.
EndLeavingFigures ==
    /\ Treating /\ at > Len(Blocks) /\ Blocks # <<>>
    /\ pages' = [q \in DOMAIN pages \union {qa} |->
                    IF q = qa THEN [section |-> Compact(section), figs |-> figs] ELSE pages[q]]
    /\ NextObject
    /\ UNCHANGED <<package, open, seen, obj, aliases, canonical, phase, open_figs, skipped>>

\* The end of get_example_data: what is still open is closed.
EndExamples ==
    /\ Treating /\ at > Len(Blocks) /\ Blocks # <<>>
    /\ pages' = [q \in DOMAIN pages \union {qa} |->
                    IF q = qa THEN [section |-> Compact(section), figs |-> figs] ELSE pages[q]]
    /\ open_figs' = <<>>
    /\ NextObject
    /\ UNCHANGED <<package, open, seen, obj, aliases, canonical, phase, skipped>>

Finish ==
    /\ phase = "examples" /\ order = <<>>
    /\ phase' = "done"
    /\ UNCHANGED <<package, open, seen, obj, order, aliases, canonical, exampleVars>>

Stopped == phase \in {"done", "refused"} /\ UNCHANGED vars

Next ==
    \/ Scan
    \/ WithoutExamples \/ RefuseExamples \/ StartExamples \/ KeepText \/ ShowOnly \/ Skip
    \/ Succeed \/ SucceedWithFigures \/ SaveFails \/ Fail \/ TokensFail \/ EndExamples
    \/ Finish \/ Stopped

Spec == Init /\ [][Next]_vars

---------------------------------------------------------------------------
BlocksOf(q) == package.examples[obj[q]]

StatusOf(q, i) == IF Runs(q) THEN BlocksOf(q)[i].ends ELSE "none"

\* The blocks that are not passed over.
Skips(q, i) == Runs(q) /\ BlocksOf(q)[i].kind = "example" /\ BlocksOf(q)[i].ends = "skip"
Kept(q) == {i \in DOMAIN BlocksOf(q) : ~Skips(q, i)}

\* The texts and examples a page shows, one after the other.
Entries(items) ==
    LET f[n \in 0..Len(items)] ==
          IF n = 0 THEN <<>>
          ELSE IF items[n].type = "figure" THEN f[n - 1] ELSE f[n - 1] \o items[n].entries
    IN  f[Len(items)]

\* A page shows every block of its docstring but the examples that doctest
\* skips, once and in order; merged examples all ended as the page says
\* (gen.py:982-1018, PapyriDocTestRunner._compact).
ExamplesShownAsRun ==
    \A q \in DOMAIN pages :
        /\ Entries(pages[q].section) = Within([i \in DOMAIN BlocksOf(q) |-> i], Kept(q))
        /\ \A k \in DOMAIN pages[q].section :
              LET item == pages[q].section[k]
              IN  item.type = "code" =>
                    \A j \in DOMAIN item.entries : StatusOf(q, item.entries[j]) = item.status

DrawsBroken(q) == \E i \in 1..Len(BlocksOf(q)) : BlocksOf(q)[i].draws = "broken"

\* What is wrong with the examples of q themselves, whatever is open.
OwnTrouble(q) ==
    \/ ~package.flags_known
    \/ obj[q] \in package.refused
    \/ \E i \in Kept(q) : ~BlocksOf(q)[i].tokens

\* A page shows a figure that another object drew only when that object was
\* left out with its figures open; and an object whose examples have nothing
\* wrong is left out only over a figure that cannot be saved: its own, or one
\* drawn by an object left out before it (gen.py:698-726, 1022-1025).
LingeringFigureHasACause ==
    /\ \A q \in DOMAIN pages :
          \A i \in DOMAIN pages[q].figs : pages[q].figs[i].of \in {q} \union skipped
    /\ \A q \in skipped : OwnTrouble(q) \/ \E p \in skipped : DrawsBroken(p)
=============================================================================
