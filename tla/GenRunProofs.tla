---------------------------- MODULE GenRunProofs ----------------------------
(***************************************************************************)
(* What holds of `papyri gen' for every library, every sequence of runs    *)
(* and options, and every accident.                                        *)
(***************************************************************************)
EXTENDS GenRun, TLAPS

TypeInv == TypeOK /\ run <= MaxRuns

LEMMA InitTypeInv == Init => TypeInv
  <1> SUFFICES ASSUME Init
               PROVE  TypeInv
    OBVIOUS
  <1>1. dir \in [File -> Nat \cup {None, Torn}] /\ before = dir
    BY DEF Init
  <1>2. output \in [0 .. MaxRuns -> SUBSET Item]
    BY DEF Init
  <1>3. /\ run \in Nat /\ run <= MaxRuns /\ accidents \in Nat
        /\ unseen \in [Object -> SUBSET Error]
    BY GenAssumption DEF Init
  <1> QED
    BY <1>1, <1>2, <1>3 DEF Init, TypeInv, TypeOK, Pc, Exits

\* What a block for one object does is typed, wherever the run goes on
\* (ErrorCollector.__exit__).
LEMMA GuardedTyped ==
    ASSUME TypeInv, NEW step, NEW next \in {"numpydoc", "visit"},
           at' \in Object, Guarded(step, next)
    PROVE  /\ pc' \in {"idle", "object", next} /\ exit' \in Exits
           /\ errored' \in BOOLEAN
           /\ unseen' \in [Object -> SUBSET Error]
  <1> DEFINE e == src[<<step, at'>>]
  <1>1. Verdict(at', e) \in {"none", "raised", "unseen"}
    BY DEF Verdict
  <1>2. errored' \in BOOLEAN /\ unseen' \in [Object -> SUBSET Error]
    BY DEF Guarded, Block, TypeInv, TypeOK
  <1>3. pc' \in {"idle", "object", next} /\ exit' \in Exits
    BY <1>1 DEF Guarded, Finish, TypeInv, TypeOK, Exits
  <1> QED
    BY <1>2, <1>3

\* A crash or a failing write leaves files, and pieces of files.
LEMMA AccidentTyped ==
    ASSUME TypeInv, Accident
    PROVE  dir' \in [File -> Nat \cup {None, Torn}]
  <1>1. CASE dir' = dir
    BY <1>1 DEF TypeInv, TypeOK
  <1>2. ASSUME NEW f \in File, dir' = [dir EXCEPT ![f] = Torn]
        PROVE  dir' \in [File -> Nat \cup {None, Torn}]
    BY <1>2 DEF TypeInv, TypeOK
  <1> QED
    BY <1>1, <1>2 DEF Accident

\* A record is of a known code, and of an item of the library
\* (Diagnostics.emit).
LEMMA EmitTyped ==
    ASSUME TypeInv, NEW codes \in SUBSET Code, NEW i \in Item,
           Emit(Diagnosed(codes, i))
    PROVE  records' \in SUBSET (Code \X Item)
  <1>1. ASSUME NEW c \in codes
        PROVE  <<c, i>> \in Code \X Item
    OBVIOUS
  <1>2. Diagnosed(codes, i) \subseteq Code \X Item
    BY <1>1 DEF Diagnosed
  <1> QED
    BY <1>2 DEF Emit, TypeInv, TypeOK

LEMMA NextTypeInv == TypeInv /\ [Next]_vars => TypeInv'
  <1> SUFFICES ASSUME TypeInv, [Next]_vars
               PROVE  TypeInv'
    OBVIOUS
  <1> USE DEF TypeInv, TypeOK
  <1>1. ASSUME NEW f \in Flags, NEW s \in Source, Start(f, s)
        PROVE  TypeInv'
    <2>1. Selected(f) \in SUBSET Item
      BY DEF Selected, Item
    <2>2. run' \in Nat /\ run' <= MaxRuns
      BY <1>1, GenAssumption DEF Start
    <2> QED
      BY <1>1, <2>1, <2>2, GenAssumption DEF Start, Pc, Exits
  <1>2. ASSUME NEW o \in Object, Extract(o)
        PROVE  TypeInv'
    <2>1. at' \in Object
      BY <1>2 DEF Extract
    <2>2. Guarded("extract", "numpydoc")
      BY <1>2 DEF Extract
    <2>3. pc' \in {"idle", "object", "numpydoc"} /\ exit' \in Exits
          /\ errored' \in BOOLEAN /\ unseen' \in [Object -> SUBSET Error]
      BY <2>1, <2>2, GuardedTyped
    <2> QED
      BY <1>2, <2>1, <2>3 DEF Extract, Pc, options, ghosts
  <1>3. CASE Numpydoc
    <2>0. at \in Item
      BY <1>3 DEF Numpydoc, Item
    <2>1. records' \in SUBSET (Code \X Item) /\ pc' \in {"prepare", "object"}
      BY <1>3, <2>0, EmitTyped DEF Numpydoc, Emit, Code
    <2> QED
      BY <1>3, <2>1 DEF Numpydoc, Pc, options, collector, ghosts
  <1>4. CASE Prepare
    <2>1. at' = at /\ at' \in Object
      BY <1>4 DEF Prepare
    <2>2. Guarded("prepare", "visit")
      BY <1>4 DEF Prepare
    <2>3. pc' \in {"idle", "object", "visit"} /\ exit' \in Exits
          /\ errored' \in BOOLEAN /\ unseen' \in [Object -> SUBSET Error]
      BY <2>1, <2>2, GuardedTyped
    <2> QED
      BY <1>4, <2>1, <2>3 DEF Prepare, Pc, options, ghosts
  <1>5. CASE Visit
    <2>1. records' \in SUBSET (Code \X Item) /\ pages' \in SUBSET Item
      BY <1>5, EmitTyped DEF Visit, Code, Item
    <2>2. pc' \in {"idle", "object"} /\ exit' \in Exits
      BY <1>5 DEF Visit, Finish, Exits
    <2> QED
      BY <1>5, <2>1, <2>2 DEF Visit, Pc, options, collector, ghosts
  <1>6. ASSUME NEW x \in Script, RunScript(x)
        PROVE  TypeInv'
    <2>1. records' \in SUBSET (Code \X Item) /\ pages' \in SUBSET Item
      BY <1>6, EmitTyped DEF RunScript, Code, Item
    <2>2. pc' \in {"idle", "script"} /\ exit' \in Exits
      BY <1>6 DEF RunScript, Finish, Exits
    <2> QED
      BY <1>6, <2>1, <2>2 DEF RunScript, Pc, options, collector, ghosts
  <1>7. ASSUME NEW d \in Doc, VisitDoc(d)
        PROVE  TypeInv'
    <2>1. records' \in SUBSET (Code \X Item) /\ pages' \in SUBSET Item
      BY <1>7, EmitTyped DEF VisitDoc, Code, Item
    <2>2. pc' \in {"idle", "doc"} /\ exit' \in Exits
      BY <1>7 DEF VisitDoc, Finish, Exits
    <2> QED
      BY <1>7, <2>1, <2>2 DEF VisitDoc, Pc, options, collector, ghosts
  <1>8. CASE ToExamples
    BY <1>8 DEF ToExamples, Pc, Item, options, collector, ghosts
  <1>9. CASE ToNarrative
    BY <1>9 DEF ToNarrative, Pc, Item, options, collector, ghosts
  <1>10. CASE EndDryRun
    BY <1>10 DEF EndDryRun, Finish, Pc, Exits, options, collector, ghosts
  <1>11. CASE ToDirectory
    BY <1>11 DEF ToDirectory, Pc, options, collector
  <1>12. ASSUME NEW f \in File, RemoveFile(f)
         PROVE  TypeInv'
    BY <1>12 DEF RemoveFile, options, collector
  <1>13. CASE RemoveDone
    BY <1>13 DEF RemoveDone, Pc, options, collector
  <1>14. ASSUME NEW i \in Item, WriteFile(i)
         PROVE  TypeInv'
    BY <1>14 DEF WriteFile, options, collector
  <1>15. CASE WriteDone
    BY <1>15 DEF WriteDone, Pc, options, collector, ghosts
  <1>16. CASE Gate
    BY <1>16 DEF Gate, Finish, Pc, Exits, options, collector, ghosts
  <1>17. CASE Accident
    <2>1. dir' \in [File -> Nat \cup {None, Torn}]
      BY <1>17, AccidentTyped
    <2> QED
      BY <1>17, <2>1 DEF Accident, Finish, Pc, Exits, options, collector, ghosts
  <1>18. CASE UNCHANGED vars
    BY <1>18 DEF vars, options, collector, ghosts
  <1> QED
    BY <1>1, <1>2, <1>3, <1>4, <1>5, <1>6, <1>7, <1>8, <1>9, <1>10, <1>11,
       <1>12, <1>13, <1>14, <1>15, <1>16, <1>17, <1>18 DEF Next

\* A run never holds what the code does not expect: it is on an object whenever
\* it is in one of the steps for an object, and it collects and reports items
\* of the library only.
THEOREM GenTypeCorrect == Spec => []TypeOK
  <1>1. TypeInv => TypeOK
    BY DEF TypeInv
  <1> QED
    BY <1>1, InitTypeInv, NextTypeInv, PTL DEF Spec
-----------------------------------------------------------------------------
(* The directory.  While a run collects, papyri.json is of an earlier one;  *)
(* while it writes, there is none; and what is there of the run that wrote  *)
(* papyri.json is what that run set out to write.                           *)

Collecting == {"object", "numpydoc", "prepare", "visit", "script", "doc", "remove"}

\* papyri.json is of a run that began, and not of the one that is collecting.
ManifestIsOld ==
    /\ dir[Manifest] \in Nat => dir[Manifest] <= run
    /\ pc \in Collecting => dir[Manifest] # run

\* The run is to write what it collected.
SetOut == pc \in {"remove", "write"} /\ (pc = "write" => flags.only = {})
             => output[run] = pages

\* A run of everything writes to a directory that was empty.
WritesAfresh ==
    pc = "write" /\ flags.only = {} =>
        /\ dir[Manifest] = None
        /\ todo \subseteq pages
        /\ \A i \in Item : dir[i] = IF i \in pages \ todo THEN run ELSE None

\* What papyri.json stands for.
ManifestStands ==
    ~patched /\ dir[Manifest] \in Nat =>
        \A i \in Item : \/ dir[i] = Torn
                        \/ dir[i] = IF i \in output[dir[Manifest]]
                                    THEN dir[Manifest] ELSE None

ArtifactInv == ManifestIsOld /\ SetOut /\ WritesAfresh /\ ManifestStands

LEMMA InitArtifactInv == Init => ArtifactInv
  BY GenAssumption DEF Init, ArtifactInv, ManifestIsOld, SetOut, WritesAfresh,
     ManifestStands, File, Collecting

\* A step that leaves the directory alone, and stays among the collecting ones
\* or ends the run, keeps all of it.
LEMMA CollectingKeeps ==
    ASSUME TypeInv, ArtifactInv, pc \in Collecting \ {"remove"},
           pc' \in (Collecting \ {"remove"}) \cup {"idle"},
           UNCHANGED <<dir, run, output, patched>>
    PROVE  ArtifactInv'
  BY DEF ArtifactInv, ManifestIsOld, SetOut, WritesAfresh, ManifestStands,
     Collecting

LEMMA NextArtifactInv ==
    TypeInv /\ TypeInv' /\ ArtifactInv /\ [Next]_vars => ArtifactInv'
  <1> SUFFICES ASSUME TypeInv, TypeInv', ArtifactInv, [Next]_vars
               PROVE  ArtifactInv'
    OBVIOUS
  <1> DEFINE Old == /\ dir[Manifest] \in Nat \cup {None, Torn}
                    /\ run \in Nat
  <1>0. Old
    BY DEF TypeInv, TypeOK, File
  <1>1. ASSUME NEW f \in Flags, NEW s \in Source, Start(f, s)
        PROVE  ArtifactInv'
    BY <1>0, <1>1, GenAssumption
       DEF Start, ArtifactInv, ManifestIsOld, SetOut, WritesAfresh, ManifestStands
  <1>2. ASSUME NEW o \in Object, Extract(o)
        PROVE  ArtifactInv'
    <2>1. at' \in Object /\ Guarded("extract", "numpydoc")
      BY <1>2 DEF Extract
    <2>2. pc' \in {"idle", "object", "numpydoc"}
      BY <2>1, GuardedTyped
    <2> QED
      BY <1>2, <2>2, CollectingKeeps DEF Extract, Collecting, options, ghosts
  <1>3. CASE Numpydoc
    BY <1>3, CollectingKeeps DEF Numpydoc, Collecting, options, ghosts
  <1>4. CASE Prepare
    <2>1. at' \in Object /\ Guarded("prepare", "visit")
      BY <1>4 DEF Prepare, TypeInv, TypeOK
    <2>2. pc' \in {"idle", "object", "visit"}
      BY <2>1, GuardedTyped
    <2> QED
      BY <1>4, <2>2, CollectingKeeps DEF Prepare, Collecting, options, ghosts
  <1>5. CASE Visit
    BY <1>5, CollectingKeeps DEF Visit, Finish, Collecting, options, ghosts
  <1>6. ASSUME NEW x \in Script, RunScript(x)
        PROVE  ArtifactInv'
    BY <1>6, CollectingKeeps DEF RunScript, Finish, Collecting, options, ghosts
  <1>7. ASSUME NEW d \in Doc, VisitDoc(d)
        PROVE  ArtifactInv'
    BY <1>7, CollectingKeeps DEF VisitDoc, Finish, Collecting, options, ghosts
  <1>8. CASE ToExamples
    BY <1>8, CollectingKeeps DEF ToExamples, Collecting, options, ghosts
  <1>9. CASE ToNarrative
    BY <1>9, CollectingKeeps DEF ToNarrative, Collecting, options, ghosts
  <1>10. CASE EndDryRun
    BY <1>10, CollectingKeeps DEF EndDryRun, Finish, Collecting, options, ghosts
  <1>11. CASE ToDirectory
    <2>1. dir[Manifest] # run /\ UNCHANGED <<dir, run, flags, pages, patched>>
      BY <1>11 DEF ToDirectory, ArtifactInv, ManifestIsOld, Collecting, options
    <2>2. CASE flags.only = {}
      <3>1. pc' = "remove" /\ output' = [output EXCEPT ![run] = pages]
        BY <1>11, <2>2 DEF ToDirectory
      <3>2. run \in 0 .. MaxRuns
        BY <1>0, GenAssumption DEF TypeInv
      <3>3. output'[run] = pages
        BY <3>1, <3>2 DEF TypeInv, TypeOK
      <3>4. dir[Manifest] \in Nat => output'[dir[Manifest]] = output[dir[Manifest]]
        BY <2>1, <3>1, <1>0, GenAssumption
           DEF TypeInv, TypeOK, ArtifactInv, ManifestIsOld
      <3> QED
        BY <2>1, <2>2, <3>1, <3>3, <3>4
           DEF ArtifactInv, ManifestIsOld, SetOut, WritesAfresh, ManifestStands
    <2>3. CASE flags.only # {}
      BY <1>11, <2>1, <2>3
         DEF ToDirectory, ArtifactInv, ManifestIsOld, SetOut, WritesAfresh,
             ManifestStands, Collecting
    <2> QED
      BY <2>2, <2>3
  <1>12. ASSUME NEW f \in File, RemoveFile(f)
         PROVE  ArtifactInv'
    BY <1>0, <1>12, GenAssumption
       DEF RemoveFile, ArtifactInv, ManifestIsOld, SetOut, WritesAfresh,
           ManifestStands, Collecting, TypeInv, TypeOK, options, File
  <1>13. CASE RemoveDone
    BY <1>13, GenAssumption
       DEF RemoveDone, ArtifactInv, ManifestIsOld, SetOut, WritesAfresh,
           ManifestStands, Collecting, TypeInv, TypeOK, options, File
  <1>14. ASSUME NEW i \in Item, WriteFile(i)
         PROVE  ArtifactInv'
    <2>1. /\ dir'[Manifest] = dir[Manifest]
          /\ \A j \in Item : dir'[j] = IF j = i THEN run ELSE dir[j]
      BY <1>14, GenAssumption DEF WriteFile, TypeInv, TypeOK, File
    <2>2. /\ pc = "write" /\ pc' = "write" /\ i \in todo /\ todo' = todo \ {i}
          /\ patched' = (patched \/ flags.only # {})
          /\ UNCHANGED <<run, flags, output, pages>>
      BY <1>14 DEF WriteFile, options
    <2>3. ManifestIsOld' /\ SetOut'
      BY <2>1, <2>2 DEF ArtifactInv, ManifestIsOld, SetOut, Collecting
    <2>4. CASE flags.only = {}
      <3>1. WritesAfresh'
        BY <2>1, <2>2, <2>4 DEF ArtifactInv, WritesAfresh
      <3>2. ManifestStands'
        BY <2>1, <2>2, <2>4, GenAssumption
           DEF ArtifactInv, WritesAfresh, ManifestStands
      <3> QED
        BY <2>3, <3>1, <3>2 DEF ArtifactInv
    <2>5. CASE flags.only # {}
      BY <2>2, <2>3, <2>5 DEF ArtifactInv, WritesAfresh, ManifestStands
    <2> QED
      BY <2>4, <2>5
  <1>15. CASE WriteDone
    <2>1. pc = "write" /\ pc' = "gate" /\ todo = {}
          /\ UNCHANGED <<run, flags, output, pages, patched>>
      BY <1>15 DEF WriteDone, options, ghosts
    <2>2. CASE flags.only = {}
      <3>1. dir'[Manifest] = run /\ \A j \in Item : dir'[j] = dir[j]
        BY <1>15, <2>2, GenAssumption DEF WriteDone, TypeInv, TypeOK, File
      <3>2. output[run] = pages
            /\ \A j \in Item : dir[j] = IF j \in pages THEN run ELSE None
        BY <2>1, <2>2 DEF ArtifactInv, SetOut, WritesAfresh
      <3> QED
        BY <2>1, <3>1, <3>2, <1>0
           DEF ArtifactInv, ManifestIsOld, SetOut, WritesAfresh, ManifestStands,
               Collecting
    <2>3. CASE flags.only # {}
      BY <1>15, <2>1, <2>3
         DEF WriteDone, ArtifactInv, ManifestIsOld, SetOut, WritesAfresh,
             ManifestStands, Collecting
    <2> QED
      BY <2>2, <2>3
  <1>16. CASE Gate
    BY <1>16
       DEF Gate, Finish, ArtifactInv, ManifestIsOld, SetOut, WritesAfresh,
           ManifestStands, Collecting, options, ghosts
  <1>17. CASE Accident
    <2>1. pc' = "idle" /\ UNCHANGED <<run, flags, output, pages, patched>>
      BY <1>17 DEF Accident, Finish, options, ghosts
    <2>2. CASE dir' = dir
      BY <2>1, <2>2
         DEF ArtifactInv, ManifestIsOld, SetOut, WritesAfresh, ManifestStands,
             Collecting
    <2>3. ASSUME NEW f \in File, dir' = [dir EXCEPT ![f] = Torn]
          PROVE  ArtifactInv'
      <3>1. /\ dir'[Manifest] \in {dir[Manifest], Torn}
            /\ \A j \in Item : dir'[j] \in {dir[j], Torn}
        BY <2>3 DEF TypeInv, TypeOK, File
      <3> QED
        BY <2>1, <3>1, <1>0, GenAssumption
           DEF ArtifactInv, ManifestIsOld, SetOut, WritesAfresh, ManifestStands,
               Collecting
    <2> QED
      BY <1>17, <2>2, <2>3 DEF Accident
  <1>18. CASE UNCHANGED vars
    BY <1>18
       DEF vars, options, ghosts, ArtifactInv, ManifestIsOld, SetOut,
           WritesAfresh, ManifestStands
  <1> QED
    BY <1>1, <1>2, <1>3, <1>4, <1>5, <1>6, <1>7, <1>8, <1>9, <1>10, <1>11,
       <1>12, <1>13, <1>14, <1>15, <1>16, <1>17, <1>18 DEF Next

\* What `papyri pack' accepts is all that one run set out to write and nothing
\* older, for every number of runs and accidents; a run with --only and a
\* removal broken off are the only ways out.
THEOREM ArtifactsAreWhole == Spec => []ArtifactIsOneRun
  <1>1. TypeInv /\ ArtifactInv => ArtifactIsOneRun
    <2> SUFFICES ASSUME TypeInv, ArtifactInv, Accepts, ~patched
                 PROVE  \A i \in Item : dir[i] = IF i \in output[dir[Manifest]]
                                                 THEN dir[Manifest] ELSE None
      BY DEF ArtifactIsOneRun
    <2>1. dir[Manifest] \in Nat /\ \A i \in Item : dir[i] # Torn
      BY DEF Accepts, TypeInv, TypeOK, File
    <2> QED
      BY <2>1 DEF ArtifactInv, ManifestStands
  <1> QED
    BY <1>1, InitTypeInv, NextTypeInv, InitArtifactInv, NextArtifactInv, PTL
       DEF Spec
-----------------------------------------------------------------------------
(* A run that ends itself has not touched the directory.                    *)

KeepInv ==
    /\ pc \in Collecting \ {"remove"} => dir = before
    /\ exit \in {"raised", "unseen"} => pc = "idle" /\ dir = before

LEMMA InitKeepInv == Init => KeepInv
  BY DEF Init, KeepInv, Collecting

LEMMA NextKeepInv == TypeInv /\ KeepInv /\ [Next]_vars => KeepInv'
  <1> SUFFICES ASSUME TypeInv, KeepInv, [Next]_vars
               PROVE  KeepInv'
    OBVIOUS
  <1> USE DEF KeepInv, Collecting
  <1>1. CASE \E f \in Flags, s \in Source : Start(f, s)
    BY <1>1 DEF Start
  <1>2. CASE \E o \in Object : Extract(o)
    BY <1>2 DEF Extract, Guarded, Finish, ghosts
  <1>3. CASE Numpydoc \/ Prepare \/ Visit
    BY <1>3 DEF Numpydoc, Prepare, Visit, Guarded, Finish, ghosts
  <1>4. CASE (\E x \in Script : RunScript(x)) \/ (\E d \in Doc : VisitDoc(d))
    BY <1>4 DEF RunScript, VisitDoc, Finish, ghosts
  <1>5. CASE ToExamples \/ ToNarrative \/ EndDryRun \/ ToDirectory
    BY <1>5 DEF ToExamples, ToNarrative, EndDryRun, ToDirectory, Finish, ghosts
  <1>6. CASE (\E f \in File : RemoveFile(f)) \/ RemoveDone
    BY <1>6 DEF RemoveFile, RemoveDone
  <1>7. CASE (\E i \in Item : WriteFile(i)) \/ WriteDone \/ Gate
    BY <1>7 DEF WriteFile, WriteDone, Gate, Finish, ghosts
  <1>8. CASE Accident
    BY <1>8 DEF Accident, Finish, ghosts
  <1>9. CASE UNCHANGED vars
    BY <1>9 DEF vars, ghosts
  <1> QED
    BY <1>1, <1>2, <1>3, <1>4, <1>5, <1>6, <1>7, <1>8, <1>9 DEF Next

\* An exception that a run does not swallow, and UnseenError, come before the
\* first file is removed: the bundle of the run before is still there.
THEOREM AbortsKeepTheBundle == Spec => []AbortKeepsBundle
  <1>1. KeepInv => AbortKeepsBundle
    BY DEF KeepInv, AbortKeepsBundle
  <1> QED
    BY <1>1, InitTypeInv, NextTypeInv, InitKeepInv, NextKeepInv, PTL DEF Spec

-----------------------------------------------------------------------------
(***************************************************************************)
(* What a run of `papyri gen' collects and reports, for every library and  *)
(* all options: the properties of GenRun that compare a run with the       *)
(* library it met.  A run that has come to pc has settled some of the      *)
(* objects, run some of the scripts and read some of the sources; the      *)
(* invariant says what it holds of these, and of the object it is on.      *)
(***************************************************************************)

ObjectSteps == {"numpydoc", "prepare", "visit"}

Scripts == IF "examples" \in flags.parts THEN Script ELSE {}

Sources == IF "narrative" \in flags.parts THEN {d \in Doc : ~Raises("scan", d)} ELSE {}

\* The objects no step is left for.
Settled ==
    IF pc = "object" THEN Selected(flags) \ todo
    ELSE IF pc \in ObjectSteps THEN Selected(flags) \ (todo \cup {at})
    ELSE Selected(flags)

\* The objects whose docstring numpydoc has been given, or never will be.
Heard ==
    IF pc = "object" \/ pc \in {"prepare", "visit"} THEN Selected(flags) \ todo
    ELSE Settled

Ran ==
    IF pc = "object" \/ pc \in ObjectSteps THEN {}
    ELSE IF pc = "script" THEN Scripts \ todo ELSE Scripts

Read ==
    IF pc \in {"object", "script"} \/ pc \in ObjectSteps THEN {}
    ELSE IF pc = "doc" THEN Sources \ todo ELSE Sources

Parsed(o) == ~Raises("numpydoc", o) \/ o \in Module

Visited(o) == ~Raises("extract", o) /\ Parsed(o) /\ ~Raises("prepare", o)

Reported(code) == {i \in Item : <<code, i>> \in records}

\* What is left to take belongs to the part of the run that is on.
TodoInv ==
    /\ pc = "object" \/ pc \in ObjectSteps => todo \subseteq Selected(flags)
    /\ pc = "script" => todo \subseteq Scripts
    /\ pc = "doc" => todo \subseteq Sources

\* The object a run is on has passed the steps before.
AtInv ==
    /\ pc \in ObjectSteps => at \in Selected(flags) \ todo /\ ~Raises("extract", at)
    /\ pc \in {"prepare", "visit"} => Parsed(at)
    /\ pc = "visit" => ~Raises("prepare", at)

PagesInv ==
    pages = {o \in Settled : Succeeds(o)} \cup Ran \cup {d \in Read : ~Raises("visit", d)}

RecordsInv ==
    /\ Reported("numpydoc") =
         {o \in Heard : ~Raises("extract", o) /\ o \notin Module /\ Raises("numpydoc", o)}
    /\ Reported("module_docstring") =
         {o \in Heard : ~Raises("extract", o) /\ o \in Module /\ Raises("numpydoc", o)}
    /\ Reported("normalized") =
         {o \in Heard : ~Raises("extract", o) /\ ~Raises("numpydoc", o) /\ Raises("normalized", o)}
    /\ Reported("lint") = {o \in Settled : Visited(o) /\ Raises("lint", o)}
                              \cup {i \in Ran \cup Read : Raises("lint", i)}
    /\ Reported("exec") = {x \in Ran : Raises("exec", x)}
    /\ Reported("syntax") = {x \in Ran : Raises("syntax", x)}

\* What has been taken without the run having ended.
StrictInv ==
    /\ \A x \in Ran : ~Raises("visit", x)
    /\ flags.early =>
         /\ \A o \in Settled : Succeeds(o) \/ ~Parsed(o)
         /\ \A d \in Read : ~Raises("visit", d)

Live == pc # "idle" \/ Completed

GateInv ==
    Completed /\ ~flags.dry =>
        (exit = "gated" <=> flags.gate /\ records \cap Gating # {})

CollectInv ==
    /\ Live => TodoInv /\ AtInv /\ PagesInv /\ RecordsInv /\ StrictInv
    /\ GateInv

-----------------------------------------------------------------------------
(* How the parts of the invariant change.                                   *)

\* The library and the options stay what they are while a run is on.
LEMMA LibraryStays ==
    ASSUME UNCHANGED options
    PROVE  /\ flags' = flags /\ Selected(flags)' = Selected(flags)
           /\ Scripts' = Scripts /\ Sources' = Sources
           /\ \A step, i : Raises(step, i)' <=> Raises(step, i)
           /\ \A o : /\ Succeeds(o)' <=> Succeeds(o)
                     /\ Parsed(o)' <=> Parsed(o)
                     /\ Visited(o)' <=> Visited(o)
  BY DEF options, Selected, Scripts, Sources, Raises, Succeeds, Parsed, Visited

\* A diagnostic is reported under its code and under no other.
LEMMA EmitReports ==
    ASSUME NEW code, NEW i \in Item, Emit({<<code, i>>})
    PROVE  \A c : Reported(c)' = IF c = code THEN Reported(c) \cup {i} ELSE Reported(c)
  BY DEF Emit, Reported

LEMMA DiagnosedReports ==
    ASSUME NEW codes, NEW i \in Item, Emit(Diagnosed(codes, i))
    PROVE  \A c : Reported(c)' = IF c \in codes /\ Raises(c, i)
                                 THEN Reported(c) \cup {i} ELSE Reported(c)
  BY DEF Emit, Diagnosed, Reported, Raises

LEMMA NothingReported ==
    ASSUME UNCHANGED records
    PROVE  \A c : Reported(c)' = Reported(c)
  BY DEF Reported

\* What becomes of an object in a block of the collector: it is left out, the
\* run ends, or its step has not raised (ErrorCollector.__exit__).
LEMMA GuardedOutcome ==
    ASSUME NEW step, NEW next \in {"numpydoc", "visit"}, UNCHANGED options,
           Guarded(step, next)
    PROVE  \/ pc' = "idle" /\ exit' \in {"raised", "unseen"}
           \/ pc' = "object" /\ Raises(step, at') /\ ~flags.early
           \/ pc' = next /\ ~Raises(step, at')
  <1> DEFINE e == src[<<step, at'>>]
  <1>1. CASE Verdict(at', e) # "none"
    BY <1>1 DEF Guarded, Finish, Verdict
  <1>2. CASE Verdict(at', e) = "none" /\ e # None
    BY <1>2 DEF Guarded, Block, Verdict, Raises
  <1>3. CASE Verdict(at', e) = "none" /\ e = None
    BY <1>3 DEF Guarded, Block, Raises
  <1> QED
    BY <1>1, <1>2, <1>3

\* A run that ends itself owes nothing.
LEMMA EndedKeeps ==
    ASSUME pc' = "idle", exit' \notin {"ok", "gated"}
    PROVE  CollectInv'
  BY DEF CollectInv, Live, Completed, GateInv

LEMMA InitCollectInv == Init => CollectInv
  BY DEF Init, CollectInv, Live, Completed, GateInv

-----------------------------------------------------------------------------
(* The objects.                                                             *)

\* Everything but GateInv, which speaks of runs that have ended.
CollectingInv == TodoInv /\ AtInv /\ PagesInv /\ RecordsInv /\ StrictInv

LEMMA GoingOn ==
    ASSUME pc' # "idle", CollectingInv'
    PROVE  CollectInv'
  BY DEF CollectInv, CollectingInv, Live, Completed, GateInv

LEMMA WasOn ==
    ASSUME CollectInv, pc # "idle"
    PROVE  CollectingInv
  BY DEF CollectInv, CollectingInv, Live

LEMMA ExtractCollects ==
    ASSUME TypeInv, CollectInv, NEW o \in Object, Extract(o)
    PROVE  CollectInv'
  <1>1. /\ pc = "object" /\ o \in todo /\ at' = o /\ todo' = todo \ {o}
        /\ UNCHANGED options /\ UNCHANGED <<records, pages>>
        /\ Guarded("extract", "numpydoc")
    BY DEF Extract
  <1>2. CollectingInv
    BY <1>1, WasOn
  <1>3. o \in Selected(flags)
    BY <1>1, <1>2 DEF CollectingInv, TodoInv
  <1>4. CASE pc' = "idle" /\ exit' \in {"raised", "unseen"}
    BY <1>4, EndedKeeps
  <1>5. CASE pc' = "object" /\ Raises("extract", o) /\ ~flags.early
    <2>1. /\ Settled' = Settled \cup {o} /\ Heard' = Heard \cup {o}
          /\ Ran' = {} /\ Ran = {} /\ Read' = {} /\ Read = {}
      BY <1>1, <1>3, <1>5, LibraryStays DEF Settled, Heard, Ran, Read, ObjectSteps
    <2>2. ~Succeeds(o) /\ ~Visited(o)
      BY <1>5 DEF Succeeds, Visited
    <2>3. TodoInv' /\ AtInv'
      BY <1>1, <1>2, <1>5, LibraryStays DEF CollectingInv, TodoInv, AtInv, ObjectSteps
    <2>4. PagesInv'
      BY <1>1, <1>2, <2>1, <2>2, LibraryStays DEF CollectingInv, PagesInv
    <2>5. RecordsInv'
      BY <1>1, <1>2, <1>5, <2>1, <2>2, LibraryStays, NothingReported
         DEF CollectingInv, RecordsInv
    <2>6. StrictInv'
      BY <1>1, <1>2, <1>5, <2>1, LibraryStays DEF CollectingInv, StrictInv
    <2> QED
      BY <1>5, <2>3, <2>4, <2>5, <2>6, GoingOn DEF CollectingInv
  <1>6. CASE pc' = "numpydoc" /\ ~Raises("extract", o)
    <2>1. /\ Settled' = Settled /\ Heard' = Heard
          /\ Ran' = {} /\ Ran = {} /\ Read' = {} /\ Read = {}
      BY <1>1, <1>3, <1>6, LibraryStays DEF Settled, Heard, Ran, Read, ObjectSteps
    <2>2. TodoInv' /\ AtInv'
      BY <1>1, <1>2, <1>3, <1>6, LibraryStays
         DEF CollectingInv, TodoInv, AtInv, ObjectSteps
    <2>3. PagesInv' /\ StrictInv'
      BY <1>1, <1>2, <2>1, LibraryStays DEF CollectingInv, PagesInv, StrictInv
    <2>4. RecordsInv'
      BY <1>1, <1>2, <2>1, LibraryStays, NothingReported DEF CollectingInv, RecordsInv
    <2> QED
      BY <1>6, <2>2, <2>3, <2>4, GoingOn DEF CollectingInv
  <1> QED
    BY <1>1, <1>4, <1>5, <1>6, GuardedOutcome

LEMMA NumpydocCollects ==
    ASSUME TypeInv, CollectInv, Numpydoc
    PROVE  CollectInv'
  <1>1. /\ pc = "numpydoc" /\ pc' \in {"prepare", "object"}
        /\ UNCHANGED options /\ UNCHANGED <<pages, todo, at>>
        /\ ~Raises("numpydoc", at) =>
             pc' = "prepare" /\ Emit(Diagnosed({"normalized"}, at))
        /\ Raises("numpydoc", at) /\ at \in Module =>
             pc' = "prepare" /\ Emit({<<"module_docstring", at>>})
        /\ Raises("numpydoc", at) /\ at \notin Module =>
             pc' = "object" /\ Emit({<<"numpydoc", at>>})
    BY DEF Numpydoc, Raises
  <1>2. CollectingInv
    BY <1>1, WasOn
  <1>3. at \in Selected(flags) \ todo /\ ~Raises("extract", at) /\ at \in Item
    BY <1>1, <1>2 DEF CollectingInv, AtInv, ObjectSteps, Selected, Item
  <1>4. /\ Heard' = Heard \cup {at} /\ Settled = Selected(flags) \ (todo \cup {at})
        /\ Ran' = {} /\ Ran = {} /\ Read' = {} /\ Read = {}
    BY <1>1, <1>3, LibraryStays DEF Settled, Heard, Ran, Read, ObjectSteps
  <1>5. Settled' = IF pc' = "object" THEN Settled \cup {at} ELSE Settled
    BY <1>1, <1>3, <1>4, LibraryStays DEF Settled, ObjectSteps
  <1>6. at \notin Heard /\ at \notin Settled
    BY <1>1, <1>4 DEF Heard, ObjectSteps
  <1>7. pc' = "object" => ~Parsed(at) /\ ~Succeeds(at) /\ ~Visited(at)
    BY <1>1, <1>3 DEF Parsed, Succeeds, Visited
  <1>8. TodoInv' /\ AtInv'
    BY <1>1, <1>2, <1>3, LibraryStays
       DEF CollectingInv, TodoInv, AtInv, ObjectSteps, Parsed
  <1>9. PagesInv' /\ StrictInv'
    BY <1>1, <1>2, <1>4, <1>5, <1>7, LibraryStays
       DEF CollectingInv, PagesInv, StrictInv
  <1>10. RecordsInv'
    <2>1. CASE ~Raises("numpydoc", at)
      BY <1>1, <1>2, <1>3, <1>4, <1>5, <2>1, LibraryStays, DiagnosedReports
         DEF CollectingInv, RecordsInv
    <2>2. CASE Raises("numpydoc", at) /\ at \in Module
      <3>1. \A c \in Code : Reported(c)' = IF c = "module_docstring"
                                         THEN Reported(c) \cup {at} ELSE Reported(c)
        BY <1>1, <1>3, <2>2, EmitReports
      <3>2. Settled' = Settled
        BY <1>1, <1>5, <2>2
      <3> QED
        BY <1>1, <1>2, <1>3, <1>4, <2>2, <3>1, <3>2, LibraryStays
           DEF CollectingInv, RecordsInv, Code
    <2>3. CASE Raises("numpydoc", at) /\ at \notin Module
      <3>1. \A c \in Code : Reported(c)' = IF c = "numpydoc"
                                         THEN Reported(c) \cup {at} ELSE Reported(c)
        BY <1>1, <1>3, <2>3, EmitReports
      <3>2. Settled' = Settled \cup {at}
        BY <1>1, <1>5, <2>3
      <3> QED
        BY <1>1, <1>2, <1>3, <1>4, <1>7, <2>3, <3>1, <3>2, LibraryStays
           DEF CollectingInv, RecordsInv, Code
    <2> QED
      BY <2>1, <2>2, <2>3
  <1> QED
    BY <1>1, <1>8, <1>9, <1>10, GoingOn DEF CollectingInv

LEMMA PrepareCollects ==
    ASSUME TypeInv, CollectInv, Prepare
    PROVE  CollectInv'
  <1>1. /\ pc = "prepare" /\ at' = at /\ UNCHANGED todo
        /\ UNCHANGED options /\ UNCHANGED <<records, pages>>
        /\ Guarded("prepare", "visit")
    BY DEF Prepare
  <1>2. CollectingInv
    BY <1>1, WasOn
  <1>3. at \in Selected(flags) \ todo /\ ~Raises("extract", at) /\ Parsed(at)
    BY <1>1, <1>2 DEF CollectingInv, AtInv, ObjectSteps
  <1>4. CASE pc' = "idle" /\ exit' \in {"raised", "unseen"}
    BY <1>4, EndedKeeps
  <1>5. CASE pc' = "object" /\ Raises("prepare", at) /\ ~flags.early
    <2>1. /\ Settled' = Settled \cup {at} /\ Heard' = Heard
          /\ Ran' = {} /\ Ran = {} /\ Read' = {} /\ Read = {}
      BY <1>1, <1>3, <1>5, LibraryStays DEF Settled, Heard, Ran, Read, ObjectSteps
    <2>2. ~Succeeds(at) /\ ~Visited(at)
      BY <1>5 DEF Succeeds, Visited
    <2>3. TodoInv' /\ AtInv'
      BY <1>1, <1>2, <1>5, LibraryStays DEF CollectingInv, TodoInv, AtInv, ObjectSteps
    <2>4. PagesInv' /\ StrictInv'
      BY <1>1, <1>2, <1>5, <2>1, <2>2, LibraryStays
         DEF CollectingInv, PagesInv, StrictInv
    <2>5. RecordsInv'
      BY <1>1, <1>2, <2>1, <2>2, LibraryStays, NothingReported
         DEF CollectingInv, RecordsInv
    <2> QED
      BY <1>5, <2>3, <2>4, <2>5, GoingOn DEF CollectingInv
  <1>6. CASE pc' = "visit" /\ ~Raises("prepare", at)
    <2>1. /\ Settled' = Settled /\ Heard' = Heard
          /\ Ran' = {} /\ Ran = {} /\ Read' = {} /\ Read = {}
      BY <1>1, <1>3, <1>6, LibraryStays DEF Settled, Heard, Ran, Read, ObjectSteps
    <2>2. TodoInv' /\ AtInv'
      BY <1>1, <1>2, <1>3, <1>6, LibraryStays
         DEF CollectingInv, TodoInv, AtInv, ObjectSteps
    <2>3. PagesInv' /\ StrictInv'
      BY <1>1, <1>2, <2>1, LibraryStays DEF CollectingInv, PagesInv, StrictInv
    <2>4. RecordsInv'
      BY <1>1, <1>2, <2>1, LibraryStays, NothingReported DEF CollectingInv, RecordsInv
    <2> QED
      BY <1>6, <2>2, <2>3, <2>4, GoingOn DEF CollectingInv
  <1> QED
    BY <1>1, <1>4, <1>5, <1>6, GuardedOutcome

LEMMA VisitCollects ==
    ASSUME TypeInv, CollectInv, Visit
    PROVE  CollectInv'
  <1>1. /\ pc = "visit" /\ UNCHANGED <<todo, at>> /\ UNCHANGED options
        /\ pages' = IF Raises("visit", at) THEN pages ELSE pages \cup {at}
        /\ Emit(Diagnosed({"lint"}, at))
        /\ \/ pc' = "idle" /\ exit' = "raised"
           \/ pc' = "object" /\ ~(Raises("visit", at) /\ flags.early)
    BY DEF Visit, Raises, Finish
  <1>2. CollectingInv
    BY <1>1, WasOn
  <1>3. /\ at \in Selected(flags) \ todo /\ ~Raises("extract", at) /\ Parsed(at)
        /\ ~Raises("prepare", at) /\ at \in Item
    BY <1>1, <1>2 DEF CollectingInv, AtInv, ObjectSteps, Selected, Item
  <1>4. CASE pc' = "idle"
    BY <1>1, <1>4, EndedKeeps
  <1>5. CASE pc' = "object"
    <2>1. /\ Settled' = Settled \cup {at} /\ Heard' = Heard
          /\ Ran' = {} /\ Ran = {} /\ Read' = {} /\ Read = {}
      BY <1>1, <1>3, <1>5, LibraryStays DEF Settled, Heard, Ran, Read, ObjectSteps
    <2>2. Visited(at) /\ (Succeeds(at) <=> ~Raises("visit", at))
      BY <1>3 DEF Succeeds, Visited, Parsed
    <2>3. TodoInv' /\ AtInv'
      BY <1>1, <1>2, <1>5, LibraryStays DEF CollectingInv, TodoInv, AtInv, ObjectSteps
    <2>4. PagesInv'
      BY <1>1, <1>2, <2>1, <2>2, LibraryStays DEF CollectingInv, PagesInv
    <2>5. StrictInv'
      BY <1>1, <1>2, <1>5, <2>1, <2>2, LibraryStays DEF CollectingInv, StrictInv
    <2>6. RecordsInv'
      BY <1>1, <1>2, <1>3, <2>1, <2>2, LibraryStays, DiagnosedReports
         DEF CollectingInv, RecordsInv
    <2> QED
      BY <1>5, <2>3, <2>4, <2>5, <2>6, GoingOn DEF CollectingInv
  <1> QED
    BY <1>1, <1>4, <1>5

-----------------------------------------------------------------------------
(* The scripts, the sources and the ways from one part to the next.         *)

LEMMA RunScriptCollects ==
    ASSUME TypeInv, CollectInv, NEW x \in Script, RunScript(x)
    PROVE  CollectInv'
  <1>1. /\ pc = "script" /\ x \in todo /\ todo' = todo \ {x} /\ UNCHANGED options
        /\ \/ pc' = "idle" /\ exit' = "raised"
           \/ /\ pc' = pc /\ ~Raises("visit", x)
              /\ pages' = pages \cup {x}
              /\ Emit(Diagnosed({"exec", "syntax", "lint"}, x))
    BY DEF RunScript, Raises, Finish
  <1>2. CollectingInv
    BY <1>1, WasOn
  <1>3. x \in Scripts /\ x \in Item
    BY <1>1, <1>2 DEF CollectingInv, TodoInv, Item
  <1>4. CASE pc' = "idle" /\ exit' = "raised"
    BY <1>4, EndedKeeps
  <1>5. CASE /\ pc' = pc /\ ~Raises("visit", x) /\ pages' = pages \cup {x}
             /\ Emit(Diagnosed({"exec", "syntax", "lint"}, x))
    <2>1. /\ Settled' = Settled /\ Heard' = Heard /\ Ran' = Ran \cup {x}
          /\ Read' = {} /\ Read = {}
      BY <1>1, <1>3, <1>5, LibraryStays DEF Settled, Heard, Ran, Read, ObjectSteps
    <2>2. TodoInv' /\ AtInv'
      BY <1>1, <1>2, <1>5, LibraryStays DEF CollectingInv, TodoInv, AtInv, ObjectSteps
    <2>3. PagesInv' /\ StrictInv'
      BY <1>1, <1>2, <1>5, <2>1, LibraryStays DEF CollectingInv, PagesInv, StrictInv
    <2>4. RecordsInv'
      BY <1>1, <1>2, <1>3, <1>5, <2>1, LibraryStays, DiagnosedReports
         DEF CollectingInv, RecordsInv
    <2> QED
      BY <1>1, <1>5, <2>2, <2>3, <2>4, GoingOn DEF CollectingInv
  <1> QED
    BY <1>1, <1>4, <1>5

LEMMA VisitDocCollects ==
    ASSUME TypeInv, CollectInv, NEW d \in Doc, VisitDoc(d)
    PROVE  CollectInv'
  <1>1. /\ pc = "doc" /\ d \in todo /\ todo' = todo \ {d} /\ UNCHANGED options
        /\ Emit(Diagnosed({"lint"}, d))
        /\ pages' = IF Raises("visit", d) THEN pages ELSE pages \cup {d}
        /\ \/ pc' = "idle" /\ exit' = "raised"
           \/ pc' = pc /\ ~(Raises("visit", d) /\ flags.early)
    BY DEF VisitDoc, Raises, Finish
  <1>2. CollectingInv
    BY <1>1, WasOn
  <1>3. d \in Sources /\ d \in Item
    BY <1>1, <1>2 DEF CollectingInv, TodoInv, Item
  <1>4. CASE pc' = "idle" /\ exit' = "raised"
    BY <1>4, EndedKeeps
  <1>5. CASE pc' = pc /\ ~(Raises("visit", d) /\ flags.early)
    <2>1. Settled' = Settled /\ Heard' = Heard /\ Ran' = Ran /\ Read' = Read \cup {d}
      BY <1>1, <1>3, <1>5, LibraryStays DEF Settled, Heard, Ran, Read, ObjectSteps
    <2>2. TodoInv' /\ AtInv'
      BY <1>1, <1>2, <1>5, LibraryStays DEF CollectingInv, TodoInv, AtInv, ObjectSteps
    <2>3. PagesInv' /\ StrictInv'
      BY <1>1, <1>2, <1>5, <2>1, LibraryStays DEF CollectingInv, PagesInv, StrictInv
    <2>4. RecordsInv'
      BY <1>1, <1>2, <1>3, <2>1, LibraryStays, DiagnosedReports
         DEF CollectingInv, RecordsInv
    <2> QED
      BY <1>1, <1>5, <2>2, <2>3, <2>4, GoingOn DEF CollectingInv
  <1> QED
    BY <1>1, <1>4, <1>5

LEMMA ToExamplesCollects ==
    ASSUME TypeInv, CollectInv, ToExamples
    PROVE  CollectInv'
  <1>1. /\ pc = "object" /\ todo = {} /\ pc' = "script" /\ todo' = Scripts
        /\ UNCHANGED options /\ UNCHANGED <<records, pages>>
    BY DEF ToExamples, Scripts
  <1>2. CollectingInv
    BY <1>1, WasOn
  <1>3. Settled' = Settled /\ Heard' = Heard /\ Ran' = {} /\ Ran = {} /\ Read' = {} /\ Read = {}
    BY <1>1, LibraryStays DEF Settled, Heard, Ran, Read, ObjectSteps
  <1>4. TodoInv' /\ AtInv' /\ PagesInv' /\ StrictInv'
    BY <1>1, <1>2, <1>3, LibraryStays
       DEF CollectingInv, TodoInv, AtInv, PagesInv, StrictInv, ObjectSteps
  <1>5. RecordsInv'
    BY <1>1, <1>2, <1>3, LibraryStays, NothingReported DEF CollectingInv, RecordsInv
  <1> QED
    BY <1>1, <1>4, <1>5, GoingOn DEF CollectingInv

LEMMA ToNarrativeCollects ==
    ASSUME TypeInv, CollectInv, ToNarrative
    PROVE  CollectInv'
  <1>1. /\ pc = "script" /\ todo = {} /\ pc' = "doc" /\ todo' = Sources
        /\ UNCHANGED options /\ UNCHANGED <<records, pages>>
    BY DEF ToNarrative, Sources, Raises
  <1>2. CollectingInv
    BY <1>1, WasOn
  <1>3. Settled' = Settled /\ Heard' = Heard /\ Ran' = Ran /\ Read' = {} /\ Read = {}
    BY <1>1, LibraryStays DEF Settled, Heard, Ran, Read, ObjectSteps
  <1>4. TodoInv' /\ AtInv' /\ PagesInv' /\ StrictInv'
    BY <1>1, <1>2, <1>3, LibraryStays
       DEF CollectingInv, TodoInv, AtInv, PagesInv, StrictInv, ObjectSteps
  <1>5. RecordsInv'
    BY <1>1, <1>2, <1>3, LibraryStays, NothingReported DEF CollectingInv, RecordsInv
  <1> QED
    BY <1>1, <1>4, <1>5, GoingOn DEF CollectingInv

\* When every part is over, what was collected and reported stays.
Late == {"remove", "write", "gate"}

LEMMA LateKeeps ==
    ASSUME CollectInv, pc \in Late \/ (pc = "doc" /\ todo = {}), pc' \in Late \cup {"idle"},
           UNCHANGED options, UNCHANGED <<records, pages>>, GateInv'
    PROVE  CollectInv'
  <1>1. CollectingInv
    BY WasOn DEF Late
  <1>2. Settled' = Settled /\ Heard' = Heard /\ Ran' = Ran /\ Read' = Read
    BY LibraryStays DEF Settled, Heard, Ran, Read, ObjectSteps, Late
  <1>3. TodoInv' /\ AtInv' /\ PagesInv' /\ StrictInv'
    BY <1>1, <1>2, LibraryStays
       DEF CollectingInv, TodoInv, AtInv, PagesInv, StrictInv, ObjectSteps, Late
  <1>4. RecordsInv'
    BY <1>1, <1>2, LibraryStays, NothingReported DEF CollectingInv, RecordsInv
  <1> QED
    BY <1>3, <1>4 DEF CollectInv

LEMMA NextCollectInv == TypeInv /\ CollectInv /\ [Next]_vars => CollectInv'
  <1> SUFFICES ASSUME TypeInv, CollectInv, [Next]_vars
               PROVE  CollectInv'
    OBVIOUS
  <1>0. pc' # "idle" => GateInv'
    BY DEF GateInv, Completed
  <1>1. ASSUME NEW f \in Flags, NEW s \in Source, Start(f, s)
        PROVE  CollectInv'
    <2>1. /\ pc' = "object" /\ flags' = f /\ todo' = Selected(f)
          /\ records' = {} /\ pages' = {}
      BY <1>1 DEF Start
    <2>2. Selected(flags)' = Selected(f)
      BY <2>1 DEF Selected
    <2>3. Settled' = {} /\ Heard' = {} /\ Ran' = {} /\ Read' = {}
      BY <2>1, <2>2 DEF Settled, Heard, Ran, Read
    <2>4. \A c : Reported(c)' = {}
      BY <2>1 DEF Reported
    <2>5. TodoInv' /\ AtInv'
      BY <2>1, <2>2 DEF TodoInv, AtInv, ObjectSteps
    <2>6. PagesInv' /\ RecordsInv' /\ StrictInv'
      BY <2>1, <2>3, <2>4 DEF PagesInv, RecordsInv, StrictInv
    <2> QED
      BY <2>1, <2>5, <2>6, GoingOn DEF CollectingInv
  <1>2. CASE \E o \in Object : Extract(o)
    BY <1>2, ExtractCollects
  <1>3. CASE Numpydoc
    BY <1>3, NumpydocCollects
  <1>4. CASE Prepare
    BY <1>4, PrepareCollects
  <1>5. CASE Visit
    BY <1>5, VisitCollects
  <1>6. CASE \E x \in Script : RunScript(x)
    BY <1>6, RunScriptCollects
  <1>7. CASE \E d \in Doc : VisitDoc(d)
    BY <1>7, VisitDocCollects
  <1>8. CASE ToExamples
    BY <1>8, ToExamplesCollects
  <1>9. CASE ToNarrative
    BY <1>9, ToNarrativeCollects
  <1>10. CASE EndDryRun
    <2>1. flags'.dry
      BY <1>10 DEF EndDryRun, options
    <2>2. GateInv'
      BY <2>1 DEF GateInv
    <2> QED
      BY <1>10, <2>2, LateKeeps DEF EndDryRun, Finish
  <1>11. CASE ToDirectory
    BY <1>0, <1>11, LateKeeps DEF ToDirectory, Late
  <1>12. CASE (\E f \in File : RemoveFile(f)) \/ RemoveDone
    BY <1>0, <1>12, LateKeeps DEF RemoveFile, RemoveDone, Late
  <1>13. CASE (\E i \in Item : WriteFile(i)) \/ WriteDone
    BY <1>0, <1>13, LateKeeps DEF WriteFile, WriteDone, Late
  <1>14. CASE Gate
    <2>1. /\ exit' = IF flags.gate /\ records \cap Gating # {} THEN "gated" ELSE "ok"
          /\ pc = "gate" /\ pc' = "idle" /\ flags' = flags /\ records' = records
      BY <1>14 DEF Gate, Finish, options
    <2>2. GateInv'
      BY <2>1 DEF GateInv
    <2> QED
      BY <1>14, <2>1, <2>2, LateKeeps DEF Gate, Late
  <1>15. CASE Accident
    BY <1>15, EndedKeeps DEF Accident, Finish
  <1>16. CASE UNCHANGED vars
    <2>1. UNCHANGED options /\ UNCHANGED <<pc, todo, at, records, pages, exit>>
      BY <1>16 DEF vars
    <2>2. Settled' = Settled /\ Heard' = Heard /\ Ran' = Ran /\ Read' = Read
      BY <2>1, LibraryStays DEF Settled, Heard, Ran, Read
    <2>3. (Live' <=> Live) /\ (GateInv' <=> GateInv)
      BY <2>1 DEF Live, Completed, GateInv, options
    <2>4. (TodoInv => TodoInv') /\ (AtInv => AtInv')
      BY <2>1, LibraryStays DEF TodoInv, AtInv
    <2>5. (PagesInv => PagesInv') /\ (StrictInv => StrictInv')
      BY <2>1, <2>2, LibraryStays DEF PagesInv, StrictInv
    <2>6. RecordsInv => RecordsInv'
      BY <2>1, <2>2, LibraryStays, NothingReported DEF RecordsInv
    <2> QED
      BY <2>3, <2>4, <2>5, <2>6 DEF CollectInv
  <1> QED
    BY <1>1, <1>2, <1>3, <1>4, <1>5, <1>6, <1>7, <1>8, <1>9, <1>10, <1>11, <1>12,
       <1>13, <1>14, <1>15, <1>16 DEF Next

LEMMA CollectInvariant == Spec => [](TypeInv /\ CollectInv)
  BY InitTypeInv, NextTypeInv, InitCollectInv, NextCollectInv, PTL DEF Spec

-----------------------------------------------------------------------------
(* The properties.                                                          *)

\* When every part is over, all is settled, run and read.
LEMMA AllIsTaken ==
    ASSUME pc \in Late \/ pc = "idle"
    PROVE  /\ Settled = Selected(flags) /\ Heard = Selected(flags)
           /\ Ran = Scripts /\ Read = Sources
  BY DEF Settled, Heard, Ran, Read, ObjectSteps, Late

\* A bundle leaves out an item if and only if one of the item's own steps
\* failed, whatever happened to the others: for every library and all options
\* (gen.py, collect_api_docs; ErrorCollector).
THEOREM CollectedIsRight == Spec => []CollectedIsWhatSucceeds
  <1>1. CollectInv => CollectedIsWhatSucceeds
    <2> SUFFICES ASSUME CollectInv, pc \in {"remove", "write", "gate"} \/ Completed
                 PROVE  pages = Pages
      BY DEF CollectedIsWhatSucceeds
    <2>1. PagesInv /\ Settled = Selected(flags) /\ Ran = Scripts /\ Read = Sources
      BY AllIsTaken DEF CollectInv, Live, Completed, Late
    <2> QED
      BY <2>1 DEF PagesInv, Pages, Scripts, Sources
  <1> QED
    BY <1>1, CollectInvariant, PTL

\* With --fail-early a run that comes to its end has swallowed no exception of
\* the collector's blocks, of a visit or of a narrative page, for every library;
\* docstrings numpydoc rejects, sources that do not parse and, with fallback,
\* scripts that raise are not covered (ErrorCollector.__exit__ and the handlers
\* of gen.py outside it).
THEOREM StrictRunsAreClean == Spec => []StrictRunIsClean
  <1>1. CollectInv => StrictRunIsClean
    <2> SUFFICES ASSUME CollectInv, Completed, flags.early
                 PROVE  StrictRunIsClean
      BY DEF StrictRunIsClean
    <2>1. StrictInv /\ Settled = Selected(flags) /\ Ran = Scripts /\ Read = Sources
      BY AllIsTaken DEF CollectInv, Live, Completed
    <2> QED
      BY <2>1 DEF StrictInv, StrictRunIsClean, Scripts, Sources, Parsed
  <1> QED
    BY <1>1, CollectInvariant, PTL

LEMMA RecordsAreComplaints ==
    ASSUME TypeInv, CollectInv, Completed
    PROVE  records = Complaints
  <1>1. /\ RecordsInv /\ Heard = Selected(flags)
        /\ Settled = Selected(flags) /\ Ran = Scripts /\ Read = Sources
    BY AllIsTaken DEF CollectInv, Live, Completed
  <1>2. \A i : <<"numpydoc", i>> \in records <=>
                 i \in Selected(flags) /\ ~Raises("extract", i) /\ i \notin Module
                 /\ Raises("numpydoc", i)
    BY <1>1 DEF RecordsInv, Reported, TypeInv, TypeOK, Selected
  <1>3. \A i : <<"module_docstring", i>> \in records <=>
                 i \in Selected(flags) /\ ~Raises("extract", i) /\ i \in Module
                 /\ Raises("numpydoc", i)
    BY <1>1 DEF RecordsInv, Reported, TypeInv, TypeOK
  <1>4. \A i : <<"lint", i>> \in records <=>
                 /\ (i \in Selected(flags) /\ Visited(i)) \/ i \in Scripts \cup Sources
                 /\ Raises("lint", i)
    BY <1>1 DEF RecordsInv, Reported, TypeInv, TypeOK
  <1>5. \A i : /\ <<"exec", i>> \in records <=> i \in Scripts /\ Raises("exec", i)
               /\ <<"syntax", i>> \in records <=> i \in Scripts /\ Raises("syntax", i)
               /\ <<"normalized", i>> \in records <=>
                    i \in Selected(flags) /\ ~Raises("extract", i)
                    /\ ~Raises("numpydoc", i) /\ Raises("normalized", i)
    BY <1>1 DEF RecordsInv, Reported, TypeInv, TypeOK
  <1>6. \A r \in records : \E c \in Code, i \in Item : r = <<c, i>>
    BY DEF TypeInv, TypeOK
  <1>7. \A r \in Complaints : \E c \in Code : \E i : r = <<c, i>>
    BY DEF Complaints, Code
  <1>8. \A i : /\ <<"numpydoc", i>> \in Complaints <=>
                    i \in Selected(flags) /\ ~Raises("extract", i) /\ i \notin Module
                    /\ Raises("numpydoc", i)
               /\ <<"module_docstring", i>> \in Complaints <=>
                    i \in Selected(flags) /\ ~Raises("extract", i) /\ i \in Module
                    /\ Raises("numpydoc", i)
    BY DEF Complaints
  <1>9. \A i : <<"lint", i>> \in Complaints <=>
                 /\ (i \in Selected(flags) /\ Visited(i)) \/ i \in Scripts \cup Sources
                 /\ Raises("lint", i)
    BY DEF Complaints, Visited, Parsed, Scripts, Sources
  <1>10. \A i : /\ <<"exec", i>> \in Complaints <=> i \in Scripts /\ Raises("exec", i)
                /\ <<"syntax", i>> \in Complaints <=> i \in Scripts /\ Raises("syntax", i)
                /\ <<"normalized", i>> \in Complaints <=>
                     i \in Selected(flags) /\ ~Raises("extract", i)
                     /\ ~Raises("numpydoc", i) /\ Raises("normalized", i)
    BY DEF Complaints, Scripts
  <1>11. \A c \in Code : \A i : <<c, i>> \in records <=> <<c, i>> \in Complaints
    BY <1>2, <1>3, <1>4, <1>5, <1>8, <1>9, <1>10 DEF Code
  <1> QED
    BY <1>6, <1>7, <1>11

\* The exit status of a run that comes to the gate tells whether a diagnostic
\* resolved to error, those of items that were left out for another reason
\* included, for every library and every set of such diagnostics; the bundle
\* is written by then (gen.py, the error_on_warning gate).
THEOREM TheGateHolds == Spec => []GateHolds
  <1>1. TypeInv /\ CollectInv => GateHolds
    <2> SUFFICES ASSUME TypeInv, CollectInv, Completed, flags.gate, ~flags.dry
                 PROVE  exit = "gated" <=> Complaints \cap Gating # {}
      BY DEF GateHolds
    <2>1. records = Complaints
      BY RecordsAreComplaints
    <2> QED
      BY <2>1 DEF CollectInv, GateInv
  <1> QED
    BY <1>1, CollectInvariant, PTL
===============================================================================
