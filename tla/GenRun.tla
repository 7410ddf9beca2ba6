------------------------------- MODULE GenRun -------------------------------
(***************************************************************************)
(* `papyri gen': successive runs over one library, and the bundle          *)
(* directory they leave (papyri/gen.py, papyri/error_collector.py), which  *)
(* `papyri pack' reads (papyri/pack.py).                                   *)
(*                                                                         *)
(* What the library does to a run is a function from spots -- a step of    *)
(* the run and the item it is for -- to the exception that step raises     *)
(* there, or None; `normalized', `syntax' and `lint' are what numpydoc, the *)
(* tokenizer and the visitor complain of without failing.  The run does    *)
(* not know the function; it is chosen when the run starts, and the        *)
(* properties compare what the run did with it.                            *)
(*                                                                         *)
(* A file of the directory is known by the item it is for, and holds the   *)
(* number of the run that wrote it.  Assets and toc.json are not items.    *)
(***************************************************************************)
EXTENDS Integers, FiniteSets

CONSTANTS
    Name,       \* qualified names
    Object,     \* those that the collector finds
    Module,     \* those that are modules
    Doc,        \* the narrative sources
    Script,     \* the example scripts
    Error,      \* class names of exceptions
    Expected,   \* expected_errors: of each object, the errors listed for it
    Gating,     \* the diagnostics <<code, item>> that resolve to `error'
    Flags,      \* the options that runs are started with; `fallback' is
                \* exec_failure = "fallback"
    Source,     \* the states of the library that runs meet
    Manifest,   \* papyri.json
    None, Torn, \* no file, no exception; a file cut short
    MaxRuns, MaxAccidents   \* how many runs, crashes and write errors happen

Item == Object \cup Doc \cup Script

Spot == ({"extract", "numpydoc", "normalized", "prepare", "visit", "lint"} \X Object)
          \cup ({"scan", "visit", "lint"} \X Doc)
          \cup ({"exec", "syntax", "visit", "lint"} \X Script)

Part == {"api", "examples", "narrative"}

ASSUME GenAssumption ==
    /\ Object \subseteq Name /\ Module \subseteq Object
    /\ Object \cap Doc = {} /\ Object \cap Script = {} /\ Doc \cap Script = {}
    /\ Expected \in [Object -> SUBSET Error]
    /\ \A f \in Flags : f \in [early : BOOLEAN, unseen : BOOLEAN, gate : BOOLEAN,
                              dry : BOOLEAN, fallback : BOOLEAN,
                              only : SUBSET Name, parts : SUBSET Part]
    /\ Source \subseteq [Spot -> Error \cup {None}]
    /\ None \notin Error
    /\ Manifest \notin Item
    /\ None \notin Nat /\ Torn \notin Nat /\ None # Torn
    /\ None \notin Item
    /\ MaxRuns \in Nat /\ MaxAccidents \in Nat

Code == {"numpydoc", "module_docstring", "normalized", "exec", "syntax", "lint"}
File == Item \cup {Manifest}

VARIABLES
    dir,       \* the bundle directory: the run that wrote a file
    run,       \* the number of the current or last run
    flags, src,
    pc,        \* where the run is
    todo,      \* the items that this part of the run has not come to
    at,        \* the object it is on
    errored,   \* ErrorCollector.errored
    unseen,    \* ErrorCollector._expected_unseen
    records,   \* Diagnostics.records
    pages,     \* the keys of Gen.data, .examples and .docs
    exit,      \* how the last run ended
    accidents  \* the crashes and write errors that may still happen

VARIABLES
    before,    \* ghost: the directory when the run was started
    output,    \* ghost: what each run set out to write
    patched    \* ghost: the directory was partly overwritten or removed since
               \* the last run began to write all of it

options == <<run, flags, src>>
collector == <<errored, unseen>>
ghosts == <<before, output, patched>>
vars == <<dir, options, pc, todo, at, collector, records, pages, exit,
          accidents, ghosts>>

Pc == {"idle", "object", "numpydoc", "prepare", "visit", "script", "doc",
       "remove", "write", "manifest", "gate"}
Exits == {"none", "ok", "gated", "raised", "unseen", "killed"}

TypeOK ==
    /\ dir \in [File -> Nat \cup {None, Torn}]
    /\ run \in Nat
    /\ flags \in Flags
    /\ src \in Source
    /\ pc \in Pc
    /\ todo \in SUBSET Item
    /\ at \in Object \cup {None}
    /\ pc \in {"numpydoc", "prepare", "visit"} => at \in Object
    /\ errored \in BOOLEAN
    /\ unseen \in [Object -> SUBSET Error]
    /\ records \in SUBSET (Code \X Item)
    /\ pages \in SUBSET Item
    /\ exit \in Exits
    /\ accidents \in Nat
    /\ before \in [File -> Nat \cup {None, Torn}]
    /\ output \in [0 .. MaxRuns -> SUBSET Item]
    /\ patched \in BOOLEAN

\* Nothing has been generated yet.
Init ==
    /\ dir = [f \in File |-> None]
    /\ run = 0
    /\ flags \in Flags
    /\ src \in Source
    /\ pc = "idle"
    /\ todo = {} /\ at = None
    /\ errored = FALSE
    /\ unseen = Expected
    /\ records = {}
    /\ pages = {}
    /\ exit = "none"
    /\ accidents = MaxAccidents
    /\ before = dir
    /\ output = [r \in 0 .. MaxRuns |-> {}]
    /\ patched = FALSE

-----------------------------------------------------------------------------
Finish(how) ==
    /\ pc' = "idle"
    /\ exit' = how

\* What a run documents.
Selected(f) ==
    IF "api" \notin f.parts THEN {}
    ELSE IF f.only = {} THEN Object ELSE Object \cap f.only

\* Mutant of Start: the old directory is removed first.
StartRemoving(f, s) ==
    /\ pc = "idle" /\ run < MaxRuns
    /\ run' = run + 1
    /\ flags' = f /\ src' = s
    /\ pc' = "object"
    /\ todo' = Selected(f)
    /\ at' = None
    /\ errored' = FALSE
    /\ unseen' = Expected
    /\ records' = {}
    /\ pages' = {}
    /\ exit' = "none"
    /\ before' = dir
    /\ dir' = IF f.only = {} THEN [g \in File |-> None] ELSE dir
    /\ UNCHANGED <<accidents, output, patched>>

\* gen_main, up to the first object: early_error and fail_unseen_error are
\* those of the command line, whatever the configuration file says.
Start(f, s) ==
    /\ pc = "idle" /\ run < MaxRuns
    /\ run' = run + 1
    /\ flags' = f /\ src' = s
    /\ pc' = "object"
    /\ todo' = Selected(f)
    /\ at' = None
    /\ errored' = FALSE
    /\ unseen' = Expected
    /\ records' = {}
    /\ pages' = {}
    /\ exit' = "none"
    /\ before' = dir
    /\ UNCHANGED <<dir, accidents, output, patched>>

-----------------------------------------------------------------------------
(* ErrorCollector.  A block for one object has raised e, or nothing.        *)

\* Mutant of Block: __enter__ does not reset the flag.
BlockKeepingFlag(o, e) ==
    /\ errored' = (errored \/ e # None)
    /\ unseen' = [unseen EXCEPT ![o] = @ \ {e}]

\* __enter__, and what __exit__ keeps of the exception.
Block(o, e) ==
    /\ errored' = (e # None)
    /\ unseen' = [unseen EXCEPT ![o] = @ \ {e}]

\* Mutant of Verdict: exceptions are swallowed whatever early_error is.
VerdictLenient(o, e) ==
    IF e = None /\ flags.unseen /\ unseen[o] # {} THEN "unseen" ELSE "none"

\* What leaves __exit__: nothing, the exception itself, or UnseenError.  An
\* exception that is swallowed is not followed by the check for unseen ones.
Verdict(o, e) ==
    IF e # None /\ ~flags.early THEN "none"
    ELSE IF flags.unseen /\ unseen[o] \ {e} # {} THEN "unseen"
    ELSE IF e # None THEN "raised"
    ELSE "none"

\* The block of a step, and where the run goes: on with the object, to the next
\* one, or out.
Guarded(step, next) ==
    LET e == src[<<step, at'>>] IN
    /\ Block(at', e)
    /\ IF Verdict(at', e) # "none"
       THEN Finish(Verdict(at', e))
       ELSE /\ pc' = IF errored' THEN "object" ELSE next
            /\ UNCHANGED exit

-----------------------------------------------------------------------------
(* collect_api_docs, object by object.                                      *)

Emit(new) == records' = records \cup new

\* What the library has for these steps to complain of.
Diagnosed(codes, i) == {<<c, i>> : c \in {k \in codes : src[<<k, i>>] # None}}

\* extract_docstring, in the first block.
Extract(o) ==
    /\ pc = "object" /\ o \in todo
    /\ at' = o
    /\ todo' = todo \ {o}
    /\ Guarded("extract", "numpydoc")
    /\ UNCHANGED <<dir, options, records, pages, accidents, ghosts>>

\* NumpyDocString is outside the blocks: an object whose docstring it rejects
\* is left out, a module goes on without one.  What it normalized is reported
\* before the second block is entered.
Numpydoc ==
    /\ pc = "numpydoc"
    /\ IF src[<<"numpydoc", at>>] = None
       THEN pc' = "prepare" /\ Emit(Diagnosed({"normalized"}, at))
       ELSE IF at \in Module
            THEN pc' = "prepare" /\ Emit({<<"module_docstring", at>>})
            ELSE pc' = "object" /\ Emit({<<"numpydoc", at>>})
    /\ UNCHANGED <<dir, options, todo, at, collector, pages, exit, accidents,
                   ghosts>>

\* prepare_doc_for_one_object, in the second block.
Prepare ==
    /\ pc = "prepare"
    /\ at' = at
    /\ Guarded("prepare", "visit")
    /\ UNCHANGED <<dir, options, todo, records, pages, accidents, ghosts>>

\* GenVisitor, see-also, validate and put, under a handler of their own.  The
\* visitor emits diagnostics whether or not it gets to the end.
Visit ==
    /\ pc = "visit"
    /\ LET e == src[<<"visit", at>>] IN
       /\ pages' = IF e = None THEN pages \cup {at} ELSE pages
       /\ IF e # None /\ flags.early
          THEN Finish("raised")
          ELSE pc' = "object" /\ UNCHANGED exit
       /\ Emit(Diagnosed({"lint"}, at))
    /\ UNCHANGED <<dir, options, todo, at, collector, accidents, ghosts>>

-----------------------------------------------------------------------------
(* The other parts.                                                         *)

\* Mutant of RunScript: a fallback leaves no diagnostic.
RunScriptQuietly(x) ==
    /\ pc = "script" /\ x \in todo
    /\ todo' = todo \ {x}
    /\ IF src[<<"exec", x>>] # None /\ ~flags.fallback
       THEN Finish("raised") /\ UNCHANGED <<records, pages>>
       ELSE /\ Emit(Diagnosed({"syntax", "lint"}, x))
            /\ IF src[<<"visit", x>>] # None
               THEN Finish("raised") /\ UNCHANGED pages
               ELSE pages' = pages \cup {x} /\ UNCHANGED <<pc, exit>>
    /\ UNCHANGED <<dir, options, at, collector, accidents, ghosts>>

\* collect_examples.  A script that raises ends the run or, with fallback, is
\* stored as it is and reported, one that cannot be tokenized is reported, and
\* the visitor reports before it ends or raises; whatever else raises ends the
\* run.
RunScript(x) ==
    /\ pc = "script" /\ x \in todo
    /\ todo' = todo \ {x}
    /\ IF src[<<"exec", x>>] # None /\ ~flags.fallback
       THEN Finish("raised") /\ UNCHANGED <<records, pages>>
       ELSE /\ Emit(Diagnosed({"exec", "syntax", "lint"}, x))
            /\ IF src[<<"visit", x>>] # None
               THEN Finish("raised") /\ UNCHANGED pages
               ELSE pages' = pages \cup {x} /\ UNCHANGED <<pc, exit>>
    /\ UNCHANGED <<dir, options, at, collector, accidents, ghosts>>

\* collect_narrative_docs, over the sources that _scan_narrative_sources could
\* parse; the others were left out there.  A page that is left out here has been
\* reported on as far as its visit got.
VisitDoc(d) ==
    /\ pc = "doc" /\ d \in todo
    /\ todo' = todo \ {d}
    /\ LET e == src[<<"visit", d>>] IN
       /\ pages' = IF e = None THEN pages \cup {d} ELSE pages
       /\ IF e # None /\ flags.early
          THEN Finish("raised")
          ELSE UNCHANGED <<pc, exit>>
    /\ Emit(Diagnosed({"lint"}, d))
    /\ UNCHANGED <<dir, options, at, collector, accidents, ghosts>>

\* gen_main goes from one part to the next.
ToExamples ==
    /\ pc = "object" /\ todo = {}
    /\ pc' = "script"
    /\ todo' = IF "examples" \in flags.parts THEN Script ELSE {}
    /\ UNCHANGED <<dir, options, at, collector, records, pages, exit, accidents,
                   ghosts>>

ToNarrative ==
    /\ pc = "script" /\ todo = {}
    /\ pc' = "doc"
    /\ todo' = IF "narrative" \in flags.parts
               THEN {d \in Doc : src[<<"scan", d>>] = None} ELSE {}
    /\ UNCHANGED <<dir, options, at, collector, records, pages, exit, accidents,
                   ghosts>>

\* A dry run writes to a temporary directory, and is over before the
\* diagnostics are looked at.
EndDryRun ==
    /\ pc = "doc" /\ todo = {} /\ flags.dry
    /\ Finish("ok")
    /\ UNCHANGED <<dir, options, todo, at, collector, records, pages, accidents,
                   ghosts>>

\* A run of everything replaces the directory, one with --only adds to it.
ToDirectory ==
    /\ pc = "doc" /\ todo = {} /\ ~flags.dry
    /\ IF flags.only = {}
       THEN /\ pc' = "remove"
            /\ output' = [output EXCEPT ![run] = pages]
            /\ UNCHANGED todo
       ELSE /\ pc' = "write"
            /\ todo' = pages \cap Object
            /\ UNCHANGED output
    /\ UNCHANGED <<dir, options, at, collector, records, pages, exit, accidents,
                   before, patched>>

-----------------------------------------------------------------------------
(* The directory.                                                           *)

\* shutil.rmtree takes the files in the order the directory lists them.
RemoveFile(f) ==
    /\ pc = "remove" /\ dir[f] # None
    /\ dir' = [dir EXCEPT ![f] = None]
    /\ patched' = TRUE
    /\ UNCHANGED <<options, pc, todo, at, collector, records, pages, exit,
                   accidents, before, output>>

RemoveDone ==
    /\ pc = "remove" /\ \A f \in File : dir[f] = None
    /\ pc' = "write"
    /\ todo' = pages
    /\ patched' = FALSE
    /\ UNCHANGED <<dir, options, at, collector, records, pages, exit, accidents,
                   before, output>>

\* write_api, write_narrative, write_examples.
Rank(i) == IF i \in Object THEN 1 ELSE IF i \in Doc THEN 2 ELSE 3

WriteFile(i) ==
    /\ pc = "write" /\ i \in todo
    /\ \A j \in todo : Rank(i) <= Rank(j)
    /\ dir' = [dir EXCEPT ![i] = run]
    /\ todo' = todo \ {i}
    /\ patched' = (patched \/ flags.only # {})
    /\ UNCHANGED <<options, pc, at, collector, records, pages, exit,
                   accidents, before, output>>

\* Mutant of WriteDone: papyri.json is written first.
WriteDoneEarly ==
    /\ pc = "write"
    /\ IF flags.only # {}
       THEN todo = {} /\ pc' = "gate" /\ UNCHANGED dir
       ELSE IF dir[Manifest] = run
       THEN todo = {} /\ pc' = "gate" /\ UNCHANGED dir
       ELSE /\ pc' = "write"
            /\ dir' = [dir EXCEPT ![Manifest] = run]
    /\ UNCHANGED <<options, todo, at, collector, records, pages, exit, accidents,
                   ghosts>>

\* papyri.json comes last, and not at all with --only.
WriteDone ==
    /\ pc = "write" /\ todo = {}
    /\ pc' = "gate"
    /\ IF flags.only # {}
       THEN UNCHANGED dir
       ELSE dir' = [dir EXCEPT ![Manifest] = run]
    /\ UNCHANGED <<options, todo, at, collector, records, pages, exit, accidents,
                   ghosts>>

\* Diagnostics.has_errors, and error_on_warning.
Gate ==
    /\ pc = "gate"
    /\ Finish(IF flags.gate /\ records \cap Gating # {} THEN "gated" ELSE "ok")
    /\ UNCHANGED <<dir, options, todo, at, collector, records, pages, accidents,
                   ghosts>>

\* The file that is being written: an item, or the manifest after the last.
Writing(f) ==
    /\ pc = "write"
    /\ IF todo = {}
       THEN f = Manifest /\ flags.only = {}
       ELSE f \in todo /\ \A j \in todo : Rank(f) <= Rank(j)

\* A write fails, or the process is killed or interrupted, anywhere: a keyboard
\* interrupt goes through every handler.
Accident ==
    /\ pc # "idle" /\ accidents > 0
    /\ accidents' = accidents - 1
    /\ dir' \in {dir} \cup {[dir EXCEPT ![f] = Torn] : f \in {g \in File : Writing(g)}}
    /\ Finish("killed")
    /\ UNCHANGED <<options, todo, at, collector, records, pages, ghosts>>

-----------------------------------------------------------------------------
Next ==
    \/ \E f \in Flags, s \in Source : Start(f, s)
    \/ \E o \in Object : Extract(o)
    \/ Numpydoc \/ Prepare \/ Visit
    \/ \E x \in Script : RunScript(x)
    \/ \E d \in Doc : VisitDoc(d)
    \/ ToExamples \/ ToNarrative \/ EndDryRun \/ ToDirectory
    \/ \E f \in File : RemoveFile(f)
    \/ RemoveDone
    \/ \E i \in Item : WriteFile(i)
    \/ WriteDone \/ Gate \/ Accident

Spec == Init /\ [][Next]_vars

-----------------------------------------------------------------------------
(* What a run should do, told from the library and the options alone.       *)

Raises(step, i) == src[<<step, i>>] # None

\* No step that leaves an object out fails on it.
Succeeds(o) ==
    /\ ~Raises("extract", o) /\ ~Raises("prepare", o) /\ ~Raises("visit", o)
    /\ ~Raises("numpydoc", o) \/ o \in Module

Pages ==
    {o \in Selected(flags) : Succeeds(o)}
      \cup (IF "examples" \in flags.parts THEN Script ELSE {})
      \cup (IF "narrative" \in flags.parts
            THEN {d \in Doc : ~Raises("scan", d) /\ ~Raises("visit", d)} ELSE {})

Completed == pc = "idle" /\ exit \in {"ok", "gated"}

\* The bundle leaves out an object, or a page, if and only if one of its own
\* steps failed: the collector that all objects share carries nothing from one
\* block to the next (ErrorCollector.errored, _qa), and a page is put only when
\* it has been visited to the end.
CollectedIsWhatSucceeds ==
    pc \in {"remove", "write", "gate"} \/ Completed => pages = Pages

\* With --fail-early a run that comes to its end met no exception in the blocks
\* of the collector, nor in the handlers around visiting and narrative pages,
\* nor in what collect_examples does after a script.  It may have left out
\* what early_error does not reach: a docstring that numpydoc rejects, a source
\* that does not parse, and with fallback a script's output.
StrictRunIsClean ==
    Completed /\ flags.early =>
        /\ \A o \in Selected(flags) :
              Succeeds(o) \/ (Raises("numpydoc", o) /\ o \notin Module)
        /\ "narrative" \in flags.parts =>
              \A d \in Doc : Raises("scan", d) \/ ~Raises("visit", d)
        /\ "examples" \in flags.parts =>
              \A x \in Script : ~Raises("visit", x)

\* What the diagnostics are about, as far as the run gets with each item: an
\* item that fails later than it is complained of is left out, and reported on
\* all the same.
Complaints ==
    LET api == {o \in Selected(flags) : ~Raises("extract", o)}
        visited == {o \in api : /\ Raises("numpydoc", o) => o \in Module
                               /\ ~Raises("prepare", o)}
        scripts == IF "examples" \in flags.parts THEN Script ELSE {}
        sources == IF "narrative" \in flags.parts
                   THEN {d \in Doc : ~Raises("scan", d)} ELSE {}
        Of(code, is) == {<<code, i>> : i \in {j \in is : Raises(code, j)}}
    IN  Of("numpydoc", api \ Module)
          \cup {<<"module_docstring", o>> :
                   o \in {p \in api \cap Module : Raises("numpydoc", p)}}
          \cup Of("normalized", {o \in api : ~Raises("numpydoc", o)})
          \cup Of("lint", visited \cup scripts \cup sources)
          \cup Of("exec", scripts) \cup Of("syntax", scripts)

\* `papyri gen' exits non-zero when a diagnostic resolves to error: a run that
\* ends well, and was not told to let errors pass or to write nothing, had no
\* item with an error to report, one that was left out for another reason
\* included.
GateHolds ==
    Completed /\ flags.gate /\ ~flags.dry =>
        (exit = "gated" <=> Complaints \cap Gating # {})

-----------------------------------------------------------------------------
(* The directory, as read_bundle_dir takes it.                              *)

\* Every file that is there parses, and papyri.json is.
Accepts == /\ dir[Manifest] # None
           /\ \A f \in File : dir[f] # Torn

\* `papyri pack' makes an artifact of one complete run, however many runs were
\* broken off and wherever: all that the run which wrote papyri.json collected
\* and nothing older.  A partial run (--only), and a removal that is broken off
\* with papyri.json still there, are the exceptions.
ArtifactIsOneRun ==
    pc = "idle" /\ Accepts /\ ~patched =>
        \A i \in Item : dir[i] = IF i \in output[dir[Manifest]]
                                 THEN dir[Manifest] ELSE None

\* A run that ends itself -- by an exception it does not swallow, or by
\* UnseenError -- leaves the directory as it was.
AbortKeepsBundle == exit \in {"raised", "unseen"} => dir = before

=============================================================================
