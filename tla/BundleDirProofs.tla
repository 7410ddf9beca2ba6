--------------------------- MODULE BundleDirProofs ---------------------------
(***************************************************************************)
(* What a directory made by `papyri unpack' is worth, and what injectors   *)
(* make of one that `papyri gen' wrote, for all bundles and injectors, and *)
(* wherever commands were killed.                                          *)
(***************************************************************************)
EXTENDS BundleDir, SequenceTheorems, WellFoundedInduction, TLAPS

\* A command is at one of the two directories, an unpacking at its own.
CommandInv ==
  /\ at \in [do : {"idle", "inject", "unpack"}, where : Origins, item : Nat,
             step : {"none", "read", "write", "enter"}]
  /\ at.do = "idle" => at = Idle
  /\ at.do = "unpack" => at.where = "unpacked"
  /\ dir = [w \in Origins |-> dir[w]]

\* There is a directory of that name, or a command has made it one.
IsThere(w) == dir[w] # Nothing \/ (at.do # "idle" /\ at.where = w)

\* No file but the manifest is written as late as the manifest.
ManifestIsLast(d) == \A f \in DOMAIN d : Rank(f) = 5 => f = Manifest

RankInv ==
  /\ \A w \in Origins : IsThere(w) => ManifestIsLast(dir[w])
  /\ artifact \notin {Nothing, Torn} => ManifestIsLast(artifact)

Headless(d) == Manifest \in DOMAIN d => d[Manifest] = Torn

\* An unfinished unpacking has not come to the manifest; one broken off left
\* none that can be read, and no injector mends it.
UnpackInv ==
  /\ artifact \notin {Nothing, Torn} => Manifest \in DOMAIN artifact
  /\ at.do = "unpack" =>
       artifact \notin {Nothing, Torn} /\ Manifest \notin DOMAIN dir["unpacked"]
  /\ IsThere("unpacked") /\ source = Nothing /\ at.do # "unpack" => Headless(dir["unpacked"])

RefusalInv == CommandInv /\ RankInv /\ UnpackInv

-----------------------------------------------------------------------------
(* The operators *)

\* The manifest comes last, and no page or toc is the manifest.
LEMMA RankOfFiles ==
  /\ Rank(Toc) = 4 /\ Rank(Manifest) = 5 /\ Toc # Manifest
  /\ \A k : Rank(<<"docs", k>>) = 2 /\ <<"docs", k>> # Manifest
  /\ \A f : Rank(f) \in 1..5
  /\ \A f \in Files : Rank(f) = 5 => f = Manifest
BY DEF Rank, Toc, Manifest, Files

LEMMA PutKeepsLast ==
  ASSUME NEW d, NEW f, NEW x, ManifestIsLast(d), Rank(f) = 5 => f = Manifest
  PROVE  ManifestIsLast(Put(d, f, x))
BY DEF ManifestIsLast, Put

LEMMA PutKeepsHeadless ==
  ASSUME NEW d, NEW f, NEW x, Headless(d), f # Manifest \/ x = Torn
  PROVE  Headless(Put(d, f, x))
BY DEF Headless, Put

\* Reading adds a toc, if there is none, and a directory without a manifest is no bundle.
LEMMA ReadingKeepsLast ==
  ASSUME NEW d, NEW strict, ManifestIsLast(d), Check(d, strict) = "ok"
  PROVE  ManifestIsLast(ReadDir(d)) /\ Manifest \in DOMAIN ReadDir(d)
<1>1. DOMAIN ReadDir(d) = DOMAIN d \cup {Toc}
  BY DEF ReadDir
<1>2. Manifest \in DOMAIN d
  BY DEF Check, LayoutFails
<1> QED
  BY <1>1, <1>2, RankOfFiles DEF ManifestIsLast

\* What an artifact is written out as is files of it, the manifest among them.
LEMMA ExplodedKeepsLast ==
  ASSUME NEW b, ManifestIsLast(b), Manifest \in DOMAIN b
  PROVE  ManifestIsLast(Exploded(b)) /\ Manifest \in DOMAIN Exploded(b)
<1>1. DOMAIN Exploded(b) = {g \in DOMAIN b : g # Toc \/ b[Toc] # <<>>}
  BY DEF Exploded
<1> QED
  BY <1>1, RankOfFiles DEF ManifestIsLast

LEMMA HeadlessIsRefused ==
  ASSUME NEW d, NEW strict, Headless(d)
  PROVE  Check(d, strict) # "ok"
<1>1. LayoutFails(d) \/ DecodeFails(d)
  BY DEF Headless, LayoutFails, DecodeFails
<1> QED
  BY <1>1 DEF Check

-----------------------------------------------------------------------------
(* The commands *)

LEMMA RefusalInit == Init => RefusalInv
<1> SUFFICES ASSUME Init PROVE RefusalInv
  OBVIOUS
<1>1. dir = [w \in Origins |-> dir[w]] /\ dir["gen"] = origin /\ dir["unpacked"] = Nothing
  BY DEF Init, Origins
<1>2. CommandInv
  BY <1>1 DEF Init, CommandInv, Idle, Origins
<1>3. ManifestIsLast(origin)
  BY BundleAssumption, RankOfFiles DEF Init, ManifestIsLast
<1>4. \A w \in Origins : IsThere(w) => w = "gen"
  BY <1>1 DEF Init, IsThere, Idle, Origins
<1> QED
  BY <1>1, <1>2, <1>3, <1>4 DEF RefusalInv, RankInv, UnpackInv, Init, Idle

\* A command that ends leaves the directories it was at.
LEMMA Ending ==
  ASSUME CommandInv, NEW how, End(how), dir' = [w \in Origins |-> dir'[w]]
  PROVE  /\ CommandInv' /\ at'.do = "idle"
         /\ \A w \in Origins : dir'[w] = dir[w] /\ IsThere(w)' => IsThere(w)
BY DEF End, CommandInv, Idle, IsThere, Origins

\* Where the injector works, there is a directory, and what it writes is no manifest.
LEMMA Writing ==
  ASSUME RefusalInv, at.do = "inject" \/ at.do = "unpack", UNCHANGED <<artifact, source>>,
         NEW f, NEW x, Rank(f) = 5 => f = Manifest,
         dir' = [dir EXCEPT ![at.where] = Put(@, f, x)],
         at.do = "inject" => f # Manifest
  PROVE  /\ dir' = [w \in Origins |-> dir'[w]]
         /\ \A w \in Origins : w # at.where => dir'[w] = dir[w]
         /\ dir'[at.where] = Put(dir[at.where], f, x) /\ ManifestIsLast(dir'[at.where])
         /\ at.do = "inject" /\ at.where = "unpacked" /\ source = Nothing =>
              Headless(dir'["unpacked"])
<1>1. /\ dir = [w \in Origins |-> dir[w]] /\ at.where \in Origins
      /\ dir' = [w \in Origins |-> dir'[w]]
      /\ \A w \in Origins : w # at.where => dir'[w] = dir[w]
      /\ dir'[at.where] = Put(dir[at.where], f, x)
  BY DEF RefusalInv, CommandInv
<1>2. IsThere(at.where) /\ ManifestIsLast(dir[at.where])
  BY <1>1 DEF IsThere, RefusalInv, RankInv
<1>3. ManifestIsLast(dir'[at.where])
  BY <1>1, <1>2, PutKeepsLast
<1>4. ASSUME at.do = "inject", at.where = "unpacked", source = Nothing
      PROVE  Headless(dir'["unpacked"])
  BY <1>1, <1>2, <1>4, PutKeepsHeadless DEF RefusalInv, UnpackInv
<1> QED
  BY <1>1, <1>3, <1>4

\* Steps of an injector that leave it at its directory, or end it.
LEMMA InjectorStep ==
  ASSUME RefusalInv, at.do = "inject", UNCHANGED <<artifact, source>>,
         dir' = dir \/ \E x : \E f : f # Manifest /\ Rank(f) # 5
                                     /\ dir' = [dir EXCEPT ![at.where] = Put(@, f, x)],
         \/ \E how : End(how)
         \/ \E i \in Nat : \E s \in {"read", "write", "enter"} :
              at' = [at EXCEPT !.item = i, !.step = s]
  PROVE  RefusalInv'
<1>1. /\ dir' = [w \in Origins |-> dir'[w]] /\ at.where \in Origins
      /\ \A w \in Origins : w # at.where => dir'[w] = dir[w]
      /\ dir' = dir \/ ManifestIsLast(dir'[at.where])
      /\ dir' = dir \/ (at.where = "unpacked" /\ source = Nothing => Headless(dir'["unpacked"]))
  <2>1. at.where \in Origins /\ dir = [w \in Origins |-> dir[w]]
    BY DEF RefusalInv, CommandInv
  <2>2. ASSUME NEW x, NEW f, f # Manifest /\ Rank(f) # 5,
               dir' = [dir EXCEPT ![at.where] = Put(@, f, x)]
        PROVE  <1>1
    BY <2>1, <2>2, Writing
  <2> QED
    BY <2>1, <2>2
<1>2. /\ CommandInv' /\ at'.do # "unpack"
      /\ \A w \in Origins : w # at.where /\ IsThere(w)' => IsThere(w)
  <2>1. CASE \E how : End(how)
    BY <1>1, <2>1, Ending DEF RefusalInv
  <2>2. CASE \E i \in Nat : \E s \in {"read", "write", "enter"} :
               at' = [at EXCEPT !.item = i, !.step = s]
    BY <1>1, <2>2 DEF RefusalInv, CommandInv, IsThere
  <2> QED
    BY <2>1, <2>2
<1>3. IsThere(at.where) /\ ManifestIsLast(dir[at.where])
  BY <1>1 DEF IsThere, RefusalInv, RankInv
<1>4. RankInv'
  BY <1>1, <1>2, <1>3 DEF RefusalInv, RankInv
<1>5. UnpackInv'
  BY <1>1, <1>2, <1>3 DEF RefusalInv, UnpackInv, Origins
<1> QED
  BY <1>2, <1>4, <1>5 DEF RefusalInv

\* An injector: where papyri.json is missing it ends before it has written anything.
LEMMA InjectorSteps ==
  ASSUME RefusalInv, ReadPage \/ WritePage \/ EnterPage
  PROVE  RefusalInv'
<1>1. CASE ReadPage
  <2>1. at' = [at EXCEPT !.step = "write"] => at' = [at EXCEPT !.item = at.item, !.step = "write"]
    BY DEF RefusalInv, CommandInv
  <2>2. at.item \in Nat
    BY DEF RefusalInv, CommandInv
  <2> QED
    BY <1>1, <2>1, <2>2, InjectorStep DEF ReadPage
<1>2. CASE WritePage
  <2>1. at' = [at EXCEPT !.item = at.item, !.step = "enter"] /\ at.item \in Nat
    BY <1>2 DEF RefusalInv, CommandInv, WritePage
  <2>2. File # Manifest /\ Rank(File) # 5
    BY RankOfFiles DEF File
  <2> QED
    BY <1>2, <2>1, <2>2, InjectorStep DEF WritePage
<1>3. CASE EnterPage
  <2>1. at.item + 1 \in Nat
    BY DEF RefusalInv, CommandInv
  <2>2. (\E how : End(how)) \/ at' = [at EXCEPT !.item = at.item + 1, !.step = "read"]
    BY <1>3, <2>1 DEF EnterPage, NextItem, RefusalInv, CommandInv
  <2>3. dir' = dir \/ dir' = [dir EXCEPT ![at.where] = Put(@, Toc, Entered)]
    BY <1>3 DEF EnterPage
  <2>4. at.do = "inject" /\ UNCHANGED <<artifact, source>>
    BY <1>3 DEF EnterPage
  <2>5. dir' = dir \/ \E x : \E f : f # Manifest /\ Rank(f) # 5
                                     /\ dir' = [dir EXCEPT ![at.where] = Put(@, f, x)]
    <3>1. Toc # Manifest /\ Rank(Toc) # 5
      BY RankOfFiles
    <3> QED
      BY <2>3, <3>1
  <2>6. \/ \E how : End(how)
        \/ \E i \in Nat : \E s \in {"read", "write", "enter"} :
             at' = [at EXCEPT !.item = i, !.step = s]
    BY <2>1, <2>2
  <2> QED
    BY <2>4, <2>5, <2>6, InjectorStep
<1> QED
  BY <1>1, <1>2, <1>3

\* A command that starts: an injector is at a directory that is there, an
\* unpacking makes its own.
LEMMA StartSteps ==
  ASSUME RefusalInv, StartUnpack \/ \E w \in Origins : StartInjector(w)
  PROVE  RefusalInv'
<1>1. dir = [w \in Origins |-> dir[w]] /\ "unpacked" \in Origins
  BY DEF RefusalInv, CommandInv, Origins
<1>2. ASSUME NEW w \in Origins, StartInjector(w)
      PROVE  RefusalInv'
  <2>1. /\ at'.do = "inject" /\ at'.where = w /\ CommandInv' /\ at.do = "idle"
        /\ UNCHANGED <<dir, artifact>> /\ dir[w] # Nothing
    BY <1>2 DEF StartInjector, Begin, RefusalInv, CommandInv, Idle
  <2>2. \A v \in Origins : IsThere(v)' => IsThere(v)
    BY <2>1 DEF IsThere
  <2>3. source' = Nothing => source = Nothing
    BY <1>2, ManifestAssumption DEF StartInjector
  <2> QED
    BY <2>1, <2>2, <2>3, <1>1 DEF RefusalInv, RankInv, UnpackInv, Headless
<1>3. CASE StartUnpack
  <2>1. /\ at'.do = "unpack" /\ at'.where = "unpacked" /\ CommandInv' /\ at.do = "idle"
        /\ artifact \notin {Nothing, Torn} /\ artifact' = artifact
    BY <1>1, <1>3 DEF StartUnpack, Begin, RefusalInv, CommandInv, Idle, Origins
  <2>2. /\ \A w \in Origins : w # "unpacked" => dir'[w] = dir[w] /\ (IsThere(w)' => IsThere(w))
        /\ dir'["unpacked"] = <<>>
    BY <1>1, <1>3, <2>1 DEF StartUnpack, IsThere
  <2>3. ManifestIsLast(<<>>) /\ Manifest \notin DOMAIN <<>>
    BY DEF ManifestIsLast
  <2> QED
    BY <2>1, <2>2, <2>3 DEF RefusalInv, RankInv, UnpackInv
<1> QED
  BY <1>2, <1>3

\* Packing changes the artifact only.
LEMMA PackStep ==
  ASSUME RefusalInv, NEW w \in Origins, NEW strict, Pack(w, strict)
  PROVE  RefusalInv'
<1>1. UNCHANGED <<dir, at, source>> /\ at.do = "idle" /\ dir[w] # Nothing
  BY DEF Pack, Idle
<1>2. artifact' \in {artifact, Torn} \/ (Check(dir[w], strict) = "ok" /\ artifact' = ReadDir(dir[w]))
  BY DEF Pack
<1>3. ManifestIsLast(dir[w])
  BY <1>1 DEF RefusalInv, RankInv, IsThere
<1>4. \A v \in Origins : IsThere(v)' <=> IsThere(v)
  BY <1>1 DEF IsThere
<1>5. artifact' \notin {Nothing, Torn} => ManifestIsLast(artifact') /\ Manifest \in DOMAIN artifact'
  BY <1>2, <1>3, ReadingKeepsLast DEF RefusalInv, RankInv, UnpackInv
<1>6. CommandInv'
  BY <1>1 DEF RefusalInv, CommandInv, Idle
<1>7. RankInv'
  BY <1>1, <1>4, <1>5 DEF RefusalInv, RankInv
<1>8. UnpackInv'
  <2>1. IsThere("unpacked")' => IsThere("unpacked")
    BY <1>4 DEF Origins
  <2> QED
    BY <1>1, <1>5, <2>1 DEF RefusalInv, UnpackInv, Headless
<1> QED
  BY <1>6, <1>7, <1>8 DEF RefusalInv

\* The manifest is due when nothing else is left.
LEMMA DueInTurn ==
  ASSUME RefusalInv, at.do = "unpack", NEW f \in Due
  PROVE  /\ f \in Left /\ (Rank(f) = 5 => f = Manifest)
         /\ f = Manifest => Left = {f}
         /\ Manifest \in Left
<1>1. ManifestIsLast(Exploded(artifact)) /\ Manifest \in DOMAIN Exploded(artifact)
  BY ExplodedKeepsLast DEF RefusalInv, RankInv, UnpackInv
<1>2. Manifest \in Left
  BY <1>1 DEF RefusalInv, CommandInv, UnpackInv, Left, Here
<1>3. \A g \in Left : Rank(f) <= Rank(g) /\ (Rank(g) = 5 => g = Manifest)
  BY <1>1 DEF Due, Left, ManifestIsLast
<1>4. f = Manifest => \A g \in Left : g = f
  BY <1>3, RankOfFiles
<1> QED
  BY <1>2, <1>3, <1>4 DEF Due

\* A file of an artifact: with the last one, the manifest, the directory has its source.
LEMMA WriteOutStep ==
  ASSUME RefusalInv, WriteOut
  PROVE  RefusalInv'
<1>1. PICK f \in Due :
        /\ dir' = [dir EXCEPT !["unpacked"] = Put(@, f, Exploded(artifact)[f])]
        /\ IF Left = {f} THEN End("unpacked") /\ source' = artifact
                          ELSE UNCHANGED <<at, verdict, source>>
  BY DEF WriteOut
<1>2. at.do = "unpack" /\ at.where = "unpacked" /\ artifact' = artifact
  BY DEF WriteOut, RefusalInv, CommandInv
<1>3. f \in Left /\ (Rank(f) = 5 => f = Manifest) /\ (f = Manifest => Left = {f})
  BY <1>2, DueInTurn
<1>4. /\ dir' = [w \in Origins |-> dir'[w]]
      /\ \A w \in Origins : w # "unpacked" => dir'[w] = dir[w]
      /\ dir'["unpacked"] = Put(dir["unpacked"], f, Exploded(artifact)[f])
  BY <1>1, <1>2 DEF RefusalInv, CommandInv, Origins
<1>5. ManifestIsLast(dir'["unpacked"])
  BY <1>2, <1>3, <1>4, PutKeepsLast DEF RefusalInv, RankInv, IsThere, Origins
<1>6. CASE Left = {f}
  <2>1. CommandInv' /\ at'.do = "idle" /\ source' # Nothing
    BY <1>1, <1>2, <1>4, <1>6, Ending DEF RefusalInv, UnpackInv
  <2>2. \A w \in Origins : w # "unpacked" /\ IsThere(w)' => IsThere(w)
    BY <1>4, <2>1 DEF IsThere
  <2> QED
    BY <1>2, <1>4, <1>5, <2>1, <2>2 DEF RefusalInv, RankInv, UnpackInv
<1>7. CASE Left # {f}
  <2>1. UNCHANGED <<at, source>> /\ CommandInv'
    BY <1>1, <1>4, <1>7 DEF RefusalInv, CommandInv, Idle
  <2>2. \A w \in Origins : w # "unpacked" /\ IsThere(w)' => IsThere(w)
    BY <1>4, <2>1 DEF IsThere
  <2>3. Manifest \notin DOMAIN dir'["unpacked"]
    BY <1>2, <1>3, <1>4, <1>7 DEF Put, RefusalInv, UnpackInv
  <2> QED
    BY <1>2, <1>4, <1>5, <2>1, <2>2, <2>3 DEF RefusalInv, RankInv, UnpackInv
<1> QED
  BY <1>6, <1>7

\* A kill leaves at most one file cut short; if that is the manifest, it cannot be read.
LEMMA KillStep ==
  ASSUME RefusalInv, Kill
  PROVE  RefusalInv'
<1>1. /\ dir = [w \in Origins |-> dir[w]] /\ at.where \in Origins
      /\ at.do \in {"inject", "unpack"} /\ UNCHANGED <<artifact, source>> /\ End("killed")
  BY DEF Kill, RefusalInv, CommandInv, Idle
<1>2. CASE at.do = "inject"
  <2>1. dir' = dir \/ \E f \in Target : dir' = [dir EXCEPT ![at.where] = Put(@, f, Torn)]
    BY DEF Kill
  <2>2. \A f \in Target : f # Manifest /\ Rank(f) # 5
    BY <1>2, RankOfFiles DEF Target, File
  <2> QED
    BY <1>1, <1>2, <2>1, <2>2, InjectorStep
<1>3. CASE at.do = "unpack"
  <2>1. PICK d : /\ dir' = [w \in Origins |-> IF w = "unpacked" THEN d ELSE dir[w]]
                 /\ ManifestIsLast(d) /\ Headless(d)
    <3>1. at.where = "unpacked" /\ ManifestIsLast(dir["unpacked"]) /\ Headless(dir["unpacked"])
      BY <1>1, <1>3 DEF RefusalInv, CommandInv, RankInv, UnpackInv, IsThere, Headless
    <3>2. CASE UNCHANGED dir
      BY <1>1, <3>1, <3>2
    <3>3. CASE \E f \in Target : dir' = [dir EXCEPT ![at.where] = Put(@, f, Torn)]
      <4>1. PICK f \in Due : dir' = [dir EXCEPT ![at.where] = Put(@, f, Torn)]
        BY <1>3, <3>3 DEF Target
      <4>2. /\ ManifestIsLast(Put(dir["unpacked"], f, Torn))
            /\ Headless(Put(dir["unpacked"], f, Torn))
        BY <1>3, <3>1, <4>1, DueInTurn, PutKeepsLast, PutKeepsHeadless
      <4>3. dir' = [w \in Origins |-> IF w = "unpacked" THEN Put(dir["unpacked"], f, Torn) ELSE dir[w]]
        BY <1>1, <3>1, <4>1
      <4> QED
        BY <4>2, <4>3
    <3> QED
      BY <3>2, <3>3 DEF Kill
  <2>2. CommandInv' /\ at'.do = "idle" /\ at.where = "unpacked"
    BY <1>1, <1>3, <2>1, Ending DEF RefusalInv, CommandInv
  <2>3. \A w \in Origins : w # "unpacked" /\ IsThere(w)' => IsThere(w)
    BY <2>1, <2>2 DEF IsThere
  <2> QED
    BY <1>1, <2>1, <2>2, <2>3 DEF RefusalInv, RankInv, UnpackInv, Origins
<1> QED
  BY <1>1, <1>2, <1>3

LEMMA RefusalStep == RefusalInv /\ [Next]_vars => RefusalInv'
<1> SUFFICES ASSUME RefusalInv, [Next]_vars PROVE RefusalInv'
  OBVIOUS
<1>1. CASE UNCHANGED vars
  BY <1>1 DEF vars, RefusalInv, CommandInv, RankInv, UnpackInv, IsThere, Idle
<1>2. CASE Next
  BY <1>2, InjectorSteps, StartSteps, PackStep, WriteOutStep, KillStep DEF Next
<1> QED
  BY <1>1, <1>2

(* For all bundles and injectors: what a broken-off unpacking has left is  *)
(* refused by pack, whatever injectors do to it (papyri.json is written    *)
(* last, and no injector writes one).  That injectors refuse it is not     *)
(* said: they take a papyri.json cut short for one that is there.          *)
THEOREM HalfABundleIsRefused == Spec => []BrokenOffIsRefused
<1>1. RefusalInv => BrokenOffIsRefused
  BY HeadlessIsRefused
     DEF RefusalInv, CommandInv, UnpackInv, IsThere, BrokenOffIsRefused
<1> QED
  BY <1>1, RefusalInit, RefusalStep, PTL DEF Spec

-----------------------------------------------------------------------------
(* Packing and unpacking are inverse to each other.                        *)

\* What is packed reads as itself and passes the checks.
IsArtifact(a) == ReadDir(a) = a /\ Check(a, FALSE) = "ok" /\ a[Manifest] \in Meta

HasOwnManifest(d) == Manifest \in DOMAIN d => d[Manifest] \in Meta \cup {Torn}

ContentInv ==
  /\ \A w \in Origins : IsThere(w) => HasOwnManifest(dir[w])
  /\ artifact \notin {Nothing, Torn} => IsArtifact(artifact)

\* An unfinished unpacking has part of the artifact and no source; a directory
\* that has one is what that is written out as.
SourceInv ==
  /\ at.do = "unpack" =>
       /\ source = Nothing
       /\ \A f \in DOMAIN dir["unpacked"] :
            f \in DOMAIN Exploded(artifact) /\ dir["unpacked"][f] = Exploded(artifact)[f]
  /\ at.do = "inject" /\ at.where = "unpacked" => source \in {Nothing, Torn}
  /\ source \notin {Nothing, Torn} => IsArtifact(source) /\ dir["unpacked"] = Exploded(source)

RoundTripInv == RefusalInv /\ ContentInv /\ SourceInv

(* Manifests *)

\* A field without a value.
Unset == ""

OptionalsAreStrings(m) == \A k \in Optional \cap DOMAIN m : m[k] \notin {Number, List}

LEMMA UnsetIsNoValue == Unset \notin {Number, List}
BY ManifestAssumption DEF Unset

LEMMA MetaIsFunction ==
  ASSUME NEW m \in Meta
  PROVE  /\ m = [k \in DOMAIN m |-> m[k]] /\ DOMAIN m \subseteq MetaKeys
         /\ \A k \in DOMAIN m : m[k] \in {Text, Number, List, Unset}
BY DEF Meta, Unset

LEMMA FunctionIsMeta ==
  ASSUME NEW D \in SUBSET MetaKeys, NEW m \in [D -> {Text, Number, List, Unset}]
  PROVE  m \in Meta
BY DEF Meta, Unset

LEMMA ReadMetaFields ==
  ASSUME NEW m
  PROVE  /\ DOMAIN ReadMeta(m) = Known \cup {x \in DOMAIN m \ Known : m[x] # List}
         /\ \A k \in DOMAIN ReadMeta(m) :
              /\ k \notin DOMAIN m => ReadMeta(m)[k] = Unset
              /\ k \in DOMAIN m /\ m[k] = Number /\ k \notin Known => ReadMeta(m)[k] = Text
              /\ k \in DOMAIN m /\ (m[k] # Number \/ k \in Known) => ReadMeta(m)[k] = m[k]
BY DEF ReadMeta, Unset

LEMMA ReadsAs ==
  ASSUME NEW m, NEW r, r = [k \in DOMAIN r |-> r[k]],
         DOMAIN r = Known \cup {x \in DOMAIN m \ Known : m[x] # List},
         \A k \in DOMAIN r :
           /\ k \notin DOMAIN m => r[k] = Unset
           /\ k \in DOMAIN m /\ m[k] = Number /\ k \notin Known => r[k] = Text
           /\ k \in DOMAIN m /\ (m[k] # Number \/ k \in Known) => r[k] = m[k]
  PROVE  ReadMeta(m) = r
<1>1. DOMAIN ReadMeta(m) = DOMAIN r /\ \A k \in DOMAIN r : ReadMeta(m)[k] = r[k]
  <2>1. DOMAIN ReadMeta(m) = DOMAIN r
    BY ReadMetaFields
  <2>2. ASSUME NEW k \in DOMAIN r
        PROVE  ReadMeta(m)[k] = r[k]
    <3>1. CASE k \notin DOMAIN m
      BY <2>1, <3>1, ReadMetaFields
    <3>2. CASE k \in DOMAIN m /\ m[k] = Number /\ k \notin Known
      BY <2>1, <3>2, ReadMetaFields
    <3>3. CASE k \in DOMAIN m /\ (m[k] # Number \/ k \in Known)
      BY <2>1, <3>3, ReadMetaFields
    <3> QED
      BY <3>1, <3>2, <3>3
  <2> QED
    BY <2>1, <2>2
<1>2. ReadMeta(m) = [k \in DOMAIN ReadMeta(m) |-> ReadMeta(m)[k]]
  BY DEF ReadMeta
<1> QED
  BY <1>1, <1>2

\* A manifest that was read is a manifest, has the required keys, and reads as itself.
LEMMA ReadingManifests ==
  ASSUME NEW m \in Meta
  PROVE  /\ ReadMeta(m) \in Meta
         /\ ReadMeta(ReadMeta(m)) = ReadMeta(m)
         /\ \A k \in Required : k \in DOMAIN m /\ m[k] = Text => ReadMeta(m)[k] = Text
         /\ Required \subseteq DOMAIN ReadMeta(m)
         /\ OptionalsAreStrings(m) => OptionalsAreStrings(ReadMeta(m))
<1> DEFINE D == Known \cup {x \in DOMAIN m \ Known : m[x] # List}
           r == ReadMeta(m)
<1>1. /\ DOMAIN r = D
      /\ \A k \in D : /\ k \notin DOMAIN m => r[k] = Unset
                      /\ k \in DOMAIN m /\ m[k] = Number /\ k \notin Known => r[k] = Text
                      /\ k \in DOMAIN m /\ (m[k] # Number \/ k \in Known) => r[k] = m[k]
  BY ReadMetaFields
<1>2. /\ Known \subseteq D /\ D \subseteq Known \cup DOMAIN m
      /\ \A x \in D \ Known : m[x] # List
  OBVIOUS
<1>3. r = [k \in DOMAIN r |-> r[k]]
  BY DEF ReadMeta
<1> HIDE DEF r, D
<1>4. r \in Meta
  <2>1. D \in SUBSET MetaKeys
    BY <1>2, MetaIsFunction DEF MetaKeys
  <2>2. \A k \in D : r[k] \in {Text, Number, List, Unset}
    BY <1>1, <1>2, MetaIsFunction
  <2> QED
    BY <1>1, <1>3, <2>1, <2>2, FunctionIsMeta
<1>5. ReadMeta(r) = r
  <2>1. \A x \in D \ Known : r[x] # List
    BY <1>1, <1>2, ManifestAssumption
  <2>2. DOMAIN r = Known \cup {x \in DOMAIN r \ Known : r[x] # List}
    BY <1>1, <1>2, <2>1
  <2>3. \A k \in DOMAIN r : r[k] = Number /\ k \notin Known => r[k] = Text
    BY <1>1, UnsetIsNoValue
  <2> QED
    BY <1>3, <2>2, <2>3, ReadsAs
<1>6. \A k \in Required : k \in DOMAIN m /\ m[k] = Text => r[k] = Text
  BY <1>1, <1>2 DEF Known
<1>7. OptionalsAreStrings(m) => OptionalsAreStrings(r)
  BY <1>1, UnsetIsNoValue DEF OptionalsAreStrings, Known
<1> QED
  BY <1>1, <1>2, <1>4, <1>5, <1>6, <1>7 DEF Known, r

\* The manifest as it is written out.
WrittenMeta(m) == [k \in {x \in DOMAIN m : x \notin Optional \/ m[x] # Unset} |-> m[k]]

LEMMA WritingManifests ==
  ASSUME NEW m \in Meta, ReadMeta(m) = m
  PROVE  WrittenMeta(m) \in Meta /\ ReadMeta(WrittenMeta(m)) = m
<1> DEFINE w == WrittenMeta(m)
           D == {x \in DOMAIN m : x \notin Optional \/ m[x] # Unset}
<1>1. DOMAIN w = D /\ \A k \in D : w[k] = m[k]
  BY DEF WrittenMeta, Unset
<1>2. w \in [D -> {Text, Number, List, Unset}] /\ D \in SUBSET MetaKeys
  BY MetaIsFunction DEF WrittenMeta
<1>3. /\ DOMAIN m = Known \cup {x \in DOMAIN m \ Known : m[x] # List}
      /\ \A k \in DOMAIN m : m[k] = Number /\ k \notin Known => m[k] = Text
  BY ReadMetaFields
<1>4. DOMAIN m = Known \cup {x \in DOMAIN w \ Known : w[x] # List}
  BY <1>1, <1>3 DEF Known
<1>5. \A k \in DOMAIN m :
         /\ k \notin DOMAIN w => m[k] = Unset
         /\ k \in DOMAIN w /\ w[k] = Number /\ k \notin Known => m[k] = Text
         /\ k \in DOMAIN w /\ (w[k] # Number \/ k \in Known) => m[k] = w[k]
  BY <1>1, <1>3
<1>6. ReadMeta(w) = m
  <2>1. m = [k \in DOMAIN m |-> m[k]]
    BY MetaIsFunction
  <2> HIDE DEF w, D
  <2> QED
    BY <1>4, <1>5, <2>1, ReadsAs
<1>7. w \in Meta
  BY <1>2, FunctionIsMeta
<1> QED
  BY <1>6, <1>7

(* Directories *)

\* Two directories with the same pages, assets and toc are checked alike.
LEMMA CheckedAlike ==
  ASSUME NEW d, NEW e, Check(d, FALSE) = "ok", ~LayoutFails(e), ~DecodeFails(e),
         TocOf(e) = TocOf(d),
         \A f : Len(f) = 2 => (f \in DOMAIN e <=> f \in DOMAIN d),
         \A f \in DOMAIN e : Len(f) = 2 => e[f] = d[f]
  PROVE  Check(e, FALSE) = "ok"
<1>1. \A sub : Named(e, sub) = Named(d, sub)
  BY DEF Named
<1>2. PagesOf(e) = PagesOf(d)
  BY DEF PagesOf
<1>3. Lint(e) = Lint(d) /\ Docs(e) = Docs(d)
  BY <1>1, <1>2 DEF Lint, Docs
<1>4. TocDangles(e) = TocDangles(d)
  BY <1>3 DEF TocDangles
<1> QED
  BY <1>3, <1>4 DEF Check

\* Being strict adds checks.
LEMMA StrictIsStricter ==
  ASSUME NEW d, NEW strict, Check(d, strict) = "ok"
  PROVE  Check(d, FALSE) = "ok" /\ ~LayoutFails(d) /\ ~DecodeFails(d)
BY DEF Check

\* The toc and the manifest are no pages, and two files.
LEMMA TopFiles == Len(Toc) # 2 /\ Len(Manifest) # 2 /\ Toc # Manifest
BY DEF Toc, Manifest

LEMMA ReadDirFields ==
  ASSUME NEW d
  PROVE  /\ DOMAIN ReadDir(d) = DOMAIN d \cup {Toc}
         /\ ReadDir(d)[Toc] = TocOf(d)
         /\ Manifest \in DOMAIN d => ReadDir(d)[Manifest] = ReadMeta(d[Manifest])
         /\ \A f \in DOMAIN d : f \notin {Toc, Manifest} => ReadDir(d)[f] = d[f]
BY TopFiles DEF ReadDir

LEMMA ExplodedFields ==
  ASSUME NEW b
  PROVE  /\ DOMAIN Exploded(b) = {g \in DOMAIN b : g # Toc \/ b[Toc] # <<>>}
         /\ Manifest \in DOMAIN b => Exploded(b)[Manifest] = WrittenMeta(b[Manifest])
         /\ \A f \in DOMAIN Exploded(b) : f # Manifest => Exploded(b)[f] = b[f]
<1> DEFINE D == {g \in DOMAIN b : g # Toc \/ b[Toc] # <<>>}
<1>1. Exploded(b) = [f \in D |-> IF f = Manifest THEN WrittenMeta(b[f]) ELSE b[f]]
  BY DEF Exploded, WrittenMeta, Unset
<1>2. Manifest \in DOMAIN b => Manifest \in D
  BY TopFiles
<1> QED
  BY <1>1, <1>2

\* What pack writes is an artifact.
LEMMA PackedIsArtifact ==
  ASSUME NEW d, NEW strict, Check(d, strict) = "ok", HasOwnManifest(d)
  PROVE  IsArtifact(ReadDir(d))
<1> DEFINE a == ReadDir(d)
           m == d[Manifest]
<1>1. Check(d, FALSE) = "ok" /\ ~LayoutFails(d) /\ ~DecodeFails(d)
  BY StrictIsStricter
<1>2. /\ Manifest \in DOMAIN d /\ m \in Meta
      /\ \A k \in Required : k \in DOMAIN m /\ m[k] = Text
      /\ \A f \in DOMAIN d : d[f] # Torn
      /\ OptionalsAreStrings(m)
  BY <1>1 DEF LayoutFails, DecodeFails, HasOwnManifest, OptionalsAreStrings
<1>3. /\ a[Manifest] = ReadMeta(m) /\ a[Manifest] \in Meta /\ ReadMeta(a[Manifest]) = a[Manifest]
      /\ Required \subseteq DOMAIN a[Manifest]
      /\ \A k \in Required : a[Manifest][k] = Text
      /\ OptionalsAreStrings(a[Manifest])
  <2>1. a[Manifest] = ReadMeta(m)
    BY <1>2, ReadDirFields
  <2>2. /\ ReadMeta(m) \in Meta /\ ReadMeta(ReadMeta(m)) = ReadMeta(m)
        /\ Required \subseteq DOMAIN ReadMeta(m)
        /\ \A k \in Required : ReadMeta(m)[k] = Text
        /\ OptionalsAreStrings(ReadMeta(m))
    BY <1>2, ReadingManifests
  <2> HIDE DEF a, m
  <2> QED
    BY <2>1, <2>2
<1>4. /\ DOMAIN a = DOMAIN d \cup {Toc} /\ a[Toc] = TocOf(d) /\ TocOf(a) = TocOf(d)
      /\ \A f \in DOMAIN d : f \notin {Toc, Manifest} => a[f] = d[f]
  BY ReadDirFields DEF TocOf
<1>5. ReadDir(a) = a
  <2>1. DOMAIN ReadDir(a) = DOMAIN a /\ \A f \in DOMAIN a : ReadDir(a)[f] = a[f]
    BY <1>2, <1>3, <1>4, ReadDirFields
  <2>2. /\ a = [f \in DOMAIN a |-> a[f]]
        /\ ReadDir(a) = [f \in DOMAIN ReadDir(a) |-> ReadDir(a)[f]]
    BY DEF ReadDir
  <2> HIDE DEF a
  <2> QED
    BY <2>1, <2>2
<1>6. ~LayoutFails(a) /\ ~DecodeFails(a)
  <2>1. a[Manifest] # Torn /\ TocOf(d) # Torn
    BY <1>2, <1>3, ManifestAssumption DEF TocOf
  <2>2. \A f \in DOMAIN a : a[f] # Torn
    BY <1>2, <1>4, <2>1
  <2> QED
    BY <1>2, <1>3, <1>4, <2>2 DEF LayoutFails, DecodeFails, OptionalsAreStrings
<1>7. Check(a, FALSE) = "ok"
  <2>1. \A f : Len(f) = 2 => (f \in DOMAIN a <=> f \in DOMAIN d)
    BY <1>4, TopFiles
  <2>2. \A f \in DOMAIN a : Len(f) = 2 => a[f] = d[f]
    BY <1>4, TopFiles
  <2> HIDE DEF a
  <2> QED
    BY <1>1, <1>4, <1>6, <2>1, <2>2, CheckedAlike
<1> QED
  BY <1>3, <1>5, <1>7 DEF IsArtifact

\* What an artifact is written out as can be packed, to that artifact.
LEMMA UnpackedIsBundle ==
  ASSUME NEW b, IsArtifact(b)
  PROVE  /\ ReadDir(Exploded(b)) = b /\ Check(Exploded(b), FALSE) = "ok"
         /\ Exploded(b)[Manifest] \in Meta
<1> DEFINE e == Exploded(b)
           m == b[Manifest]
<1>1. Check(b, FALSE) = "ok" /\ ~LayoutFails(b) /\ ~DecodeFails(b)
  BY StrictIsStricter DEF IsArtifact
<1>2. /\ Manifest \in DOMAIN b /\ m \in Meta
      /\ \A k \in Required : k \in DOMAIN m /\ m[k] = Text
      /\ \A f \in DOMAIN b : b[f] # Torn
      /\ OptionalsAreStrings(m)
  BY <1>1 DEF LayoutFails, DecodeFails, IsArtifact, OptionalsAreStrings
<1>3. Toc \in DOMAIN b /\ ReadMeta(m) = m /\ b = [f \in DOMAIN b |-> b[f]]
  <2>1. ReadDir(b) = b
    BY DEF IsArtifact
  <2>2. ReadDir(b) = [f \in DOMAIN ReadDir(b) |-> ReadDir(b)[f]]
    BY DEF ReadDir
  <2> QED
    BY <1>2, <2>1, <2>2, ReadDirFields
<1>4. /\ e[Manifest] = WrittenMeta(m) /\ WrittenMeta(m) \in Meta /\ ReadMeta(WrittenMeta(m)) = m
      /\ \A k \in Required : k \in DOMAIN e[Manifest] /\ e[Manifest][k] = Text
      /\ OptionalsAreStrings(e[Manifest])
  <2>1. e[Manifest] = WrittenMeta(m) /\ WrittenMeta(m) \in Meta /\ ReadMeta(WrittenMeta(m)) = m
    BY <1>2, <1>3, ExplodedFields, WritingManifests
  <2>2. \A k \in Required : k \notin Optional
    BY DEF Required, Optional
  <2> QED
    BY <1>2, <2>1, <2>2 DEF WrittenMeta, OptionalsAreStrings
<1>5. /\ DOMAIN e = {g \in DOMAIN b : g # Toc \/ b[Toc] # <<>>} /\ Manifest \in DOMAIN e
      /\ \A f \in DOMAIN e : f # Manifest => e[f] = b[f]
  BY <1>2, TopFiles, ExplodedFields
<1>6. TocOf(e) = b[Toc] /\ TocOf(b) = b[Toc]
  BY <1>3, <1>5, TopFiles DEF TocOf
<1>7. ReadDir(e) = b
  <2>1. DOMAIN ReadDir(e) = DOMAIN b
    <3>1. DOMAIN ReadDir(e) = DOMAIN e \cup {Toc}
      BY ReadDirFields
    <3> HIDE DEF e
    <3> QED
      BY <1>3, <1>5, <3>1
  <2>2. \A f \in DOMAIN b : ReadDir(e)[f] = b[f]
    BY <1>4, <1>5, <1>6, ReadDirFields
  <2>3. ReadDir(e) = [f \in DOMAIN ReadDir(e) |-> ReadDir(e)[f]]
    BY DEF ReadDir
  <2> HIDE DEF e
  <2> QED
    BY <1>3, <2>1, <2>2, <2>3
<1>8. ~LayoutFails(e) /\ ~DecodeFails(e)
  <2>1. \A f \in DOMAIN e : e[f] # Torn
    BY <1>2, <1>4, <1>5, ManifestAssumption
  <2> QED
    BY <1>4, <1>5, <2>1 DEF LayoutFails, DecodeFails, OptionalsAreStrings
<1>9. Check(e, FALSE) = "ok"
  <2>1. \A f : Len(f) = 2 => (f \in DOMAIN e <=> f \in DOMAIN b)
    BY <1>5, TopFiles
  <2>2. \A f \in DOMAIN e : Len(f) = 2 => e[f] = b[f]
    BY <1>5, TopFiles
  <2> HIDE DEF e
  <2> QED
    BY <1>1, <1>6, <1>8, <2>1, <2>2, CheckedAlike
<1> QED
  BY <1>4, <1>7, <1>9

-----------------------------------------------------------------------------
(* The commands, again *)

\* A page or a toc that is written, or a file that is cut short, leaves the manifest.
LEMMA PutKeepsManifest ==
  ASSUME NEW d, NEW f, NEW x, HasOwnManifest(d), f # Manifest \/ x \in Meta \cup {Torn}
  PROVE  HasOwnManifest(Put(d, f, x))
BY DEF HasOwnManifest, Put

LEMMA RoundTripInit == Init => RoundTripInv
<1> SUFFICES ASSUME Init PROVE RoundTripInv
  OBVIOUS
<1>1. /\ dir["gen"] = origin /\ dir["unpacked"] = Nothing
      /\ at.do = "idle" /\ artifact = Nothing /\ source = Nothing
  BY DEF Init, Idle, Origins
<1>2. HasOwnManifest(origin)
  BY ManifestAssumption DEF Init, HasOwnManifest
<1> QED
  BY <1>1, <1>2, RefusalInit DEF RoundTripInv, ContentInv, SourceInv, IsThere, Origins

\* Steps of an injector; at an unpacked directory its source is given up before.
LEMMA InjectorKeeps ==
  ASSUME RoundTripInv, RefusalInv', at.do = "inject", UNCHANGED <<artifact, source>>,
         at'.do = "idle" \/ (at'.do = at.do /\ at'.where = at.where),
         dir' = dir \/ \E x : \E f : f # Manifest /\ dir' = [dir EXCEPT ![at.where] = Put(@, f, x)]
  PROVE  RoundTripInv'
<1>1. dir = [w \in Origins |-> dir[w]] /\ at.where \in Origins /\ IsThere(at.where)
  BY DEF RoundTripInv, RefusalInv, CommandInv, IsThere
<1>2. /\ \A w \in Origins : w # at.where => dir'[w] = dir[w]
      /\ HasOwnManifest(dir'[at.where])
  <2>1. HasOwnManifest(dir[at.where])
    BY <1>1 DEF RoundTripInv, ContentInv
  <2> QED
    BY <1>1, <2>1, PutKeepsManifest
<1>3. \A w \in Origins : w # at.where /\ IsThere(w)' => IsThere(w)
  BY <1>2 DEF IsThere
<1>4. ContentInv'
  BY <1>1, <1>2, <1>3 DEF RoundTripInv, ContentInv
<1>5. SourceInv'
  BY <1>1, <1>2 DEF RoundTripInv, SourceInv, Origins
<1> QED
  BY <1>4, <1>5 DEF RoundTripInv

LEMMA InjectorKeepsRoundTrip ==
  ASSUME RoundTripInv, RefusalInv', ReadPage \/ WritePage \/ EnterPage
  PROVE  RoundTripInv'
<1>1. at \in [do : {"idle", "inject", "unpack"}, where : Origins, item : Nat,
              step : {"none", "read", "write", "enter"}]
  BY DEF RoundTripInv, RefusalInv, CommandInv
<1>2. CASE ReadPage
  <2>1. /\ at.do = "inject" /\ UNCHANGED <<artifact, source, dir>>
        /\ (\E how : End(how)) \/ at' = [at EXCEPT !.step = "write"]
    BY <1>2 DEF ReadPage
  <2>2. at'.do = "idle" \/ (at'.do = at.do /\ at'.where = at.where)
    BY <1>1, <2>1 DEF End, Idle
  <2> QED
    BY <2>1, <2>2, InjectorKeeps
<1>3. CASE WritePage
  <2>1. /\ at.do = "inject" /\ UNCHANGED <<artifact, source>>
        /\ dir' = [dir EXCEPT ![at.where] = Put(@, File, draft)]
        /\ at'.do = at.do /\ at'.where = at.where
    BY <1>1, <1>3 DEF WritePage
  <2>2. File # Manifest
    BY RankOfFiles DEF File
  <2> QED
    BY <2>1, <2>2, InjectorKeeps
<1>4. CASE EnterPage
  <2>1. /\ at.do = "inject" /\ UNCHANGED <<artifact, source>>
        /\ dir' = dir \/ dir' = [dir EXCEPT ![at.where] = Put(@, Toc, Entered)]
        /\ (\E how : End(how)) \/ at' = [at EXCEPT !.item = @ + 1, !.step = "read"]
    BY <1>4 DEF EnterPage, NextItem
  <2>2. at'.do = "idle" \/ (at'.do = at.do /\ at'.where = at.where)
    <3>1. CASE \E how : End(how)
      BY <3>1 DEF End, Idle
    <3>2. CASE at' = [at EXCEPT !.item = @ + 1, !.step = "read"]
      BY <1>1, <3>2
    <3> QED
      BY <2>1, <3>1, <3>2
  <2> QED
    BY <2>1, <2>2, TopFiles, InjectorKeeps
<1> QED
  BY <1>2, <1>3, <1>4

LEMMA StartKeepsRoundTrip ==
  ASSUME RoundTripInv, RefusalInv', StartUnpack \/ \E w \in Origins : StartInjector(w)
  PROVE  RoundTripInv'
<1>1. dir = [w \in Origins |-> dir[w]] /\ "unpacked" \in Origins
  BY DEF RoundTripInv, RefusalInv, CommandInv, Origins
<1>2. ASSUME NEW w \in Origins, StartInjector(w)
      PROVE  RoundTripInv'
  <2>1. /\ at'.do = "inject" /\ at'.where = w /\ at.do = "idle"
        /\ UNCHANGED <<dir, artifact>> /\ dir[w] # Nothing
        /\ source' = IF w = "unpacked" /\ source # Nothing THEN Torn ELSE source
    BY <1>2 DEF StartInjector, Begin, Idle
  <2>2. \A v \in Origins : IsThere(v)' => IsThere(v)
    BY <2>1 DEF IsThere
  <2>3. ContentInv'
    BY <2>1, <2>2 DEF RoundTripInv, ContentInv
  <2>4. SourceInv'
    BY <2>1 DEF RoundTripInv, SourceInv
  <2> QED
    BY <2>3, <2>4 DEF RoundTripInv
<1>3. CASE StartUnpack
  <2>1. /\ at'.do = "unpack" /\ at'.where = "unpacked" /\ at.do = "idle"
        /\ artifact' = artifact /\ source' = Nothing
        /\ dir' = [dir EXCEPT !["unpacked"] = <<>>]
    BY <1>3 DEF StartUnpack, Begin, Idle
  <2>2. /\ \A w \in Origins : w # "unpacked" => dir'[w] = dir[w] /\ (IsThere(w)' => IsThere(w))
        /\ dir'["unpacked"] = <<>>
    BY <1>1, <2>1 DEF IsThere
  <2>3. DOMAIN <<>> = {} /\ HasOwnManifest(<<>>)
    BY DEF HasOwnManifest
  <2>4. ContentInv'
    BY <2>1, <2>2, <2>3 DEF RoundTripInv, ContentInv
  <2>5. SourceInv'
    BY <2>1, <2>2, <2>3 DEF SourceInv
  <2> QED
    BY <2>4, <2>5 DEF RoundTripInv
<1> QED
  BY <1>2, <1>3

LEMMA PackKeepsRoundTrip ==
  ASSUME RoundTripInv, RefusalInv', NEW w \in Origins, NEW strict, Pack(w, strict)
  PROVE  RoundTripInv'
<1>1. UNCHANGED <<dir, at, source>> /\ at.do = "idle" /\ dir[w] # Nothing
  BY DEF Pack, Idle
<1>2. artifact' \in {artifact, Torn} \/ (Check(dir[w], strict) = "ok" /\ artifact' = ReadDir(dir[w]))
  BY DEF Pack
<1>3. HasOwnManifest(dir[w])
  BY <1>1 DEF RoundTripInv, ContentInv, IsThere
<1>4. artifact' \notin {Nothing, Torn} => IsArtifact(artifact')
  BY <1>2, <1>3, PackedIsArtifact DEF RoundTripInv, ContentInv
<1>5. \A v \in Origins : IsThere(v)' <=> IsThere(v)
  BY <1>1 DEF IsThere
<1>6. ContentInv'
  BY <1>1, <1>4, <1>5 DEF RoundTripInv, ContentInv
<1>7. SourceInv'
  BY <1>1 DEF RoundTripInv, SourceInv
<1> QED
  BY <1>6, <1>7 DEF RoundTripInv

LEMMA WriteOutKeepsRoundTrip ==
  ASSUME RoundTripInv, RefusalInv', WriteOut
  PROVE  RoundTripInv'
<1>1. PICK f \in Due :
        /\ dir' = [dir EXCEPT !["unpacked"] = Put(@, f, Exploded(artifact)[f])]
        /\ IF Left = {f} THEN End("unpacked") /\ source' = artifact
                          ELSE UNCHANGED <<at, verdict, source>>
  BY DEF WriteOut
<1>2. /\ at.do = "unpack" /\ at.where = "unpacked" /\ artifact' = artifact
      /\ artifact \notin {Nothing, Torn} /\ IsArtifact(artifact)
  BY DEF WriteOut, RoundTripInv, RefusalInv, CommandInv, UnpackInv, ContentInv
<1>3. /\ \A w \in Origins : w # "unpacked" => dir'[w] = dir[w]
      /\ dir'["unpacked"] = Put(dir["unpacked"], f, Exploded(artifact)[f])
  BY <1>1 DEF RoundTripInv, RefusalInv, CommandInv, Origins
<1>4. f \in DOMAIN Exploded(artifact) /\ Left = DOMAIN Exploded(artifact) \ DOMAIN dir["unpacked"]
  BY <1>2 DEF Due, Left, Here
<1>5. /\ \A g \in DOMAIN dir'["unpacked"] :
           g \in DOMAIN Exploded(artifact) /\ dir'["unpacked"][g] = Exploded(artifact)[g]
      /\ DOMAIN dir'["unpacked"] = DOMAIN dir["unpacked"] \cup {f}
  BY <1>2, <1>3, <1>4 DEF Put, RoundTripInv, SourceInv
<1>6. HasOwnManifest(dir'["unpacked"])
  <2>1. Exploded(artifact)[Manifest] \in Meta
    BY <1>2, UnpackedIsBundle
  <2>2. HasOwnManifest(dir["unpacked"])
    BY <1>2 DEF RoundTripInv, ContentInv, IsThere, Origins
  <2> QED
    BY <1>3, <2>1, <2>2, PutKeepsManifest
<1>7. \A w \in Origins : w # "unpacked" /\ IsThere(w)' => IsThere(w)
  BY <1>1, <1>3 DEF IsThere, End, Idle
<1>8. ContentInv'
  BY <1>2, <1>3, <1>6, <1>7 DEF RoundTripInv, ContentInv
<1>9. CASE Left = {f}
  <2>1. at'.do = "idle" /\ source' = artifact
    BY <1>1, <1>9 DEF End, Idle
  <2>2. DOMAIN dir'["unpacked"] = DOMAIN Exploded(artifact)
    BY <1>4, <1>5, <1>9
  <2>3. /\ dir'["unpacked"] = [g \in DOMAIN dir'["unpacked"] |-> dir'["unpacked"][g]]
        /\ Exploded(artifact) = [g \in DOMAIN Exploded(artifact) |-> Exploded(artifact)[g]]
    BY <1>3 DEF Put, Exploded
  <2>4. dir'["unpacked"] = Exploded(artifact)
    BY <1>5, <2>2, <2>3
  <2>5. SourceInv'
    BY <1>2, <2>1, <2>4 DEF SourceInv
  <2> QED
    BY <1>8, <2>5 DEF RoundTripInv
<1>10. CASE Left # {f}
  <2>1. UNCHANGED <<at, source>>
    BY <1>1, <1>10
  <2>2. source = Nothing
    BY <1>2 DEF RoundTripInv, SourceInv
  <2>3. SourceInv'
    BY <1>2, <1>5, <2>1, <2>2 DEF SourceInv
  <2> QED
    BY <1>8, <2>3 DEF RoundTripInv
<1> QED
  BY <1>9, <1>10

LEMMA KillKeepsRoundTrip ==
  ASSUME RoundTripInv, RefusalInv', Kill
  PROVE  RoundTripInv'
<1>1. /\ dir = [w \in Origins |-> dir[w]] /\ at.where \in Origins /\ IsThere(at.where)
      /\ at.do \in {"inject", "unpack"} /\ UNCHANGED <<artifact, source>> /\ at'.do = "idle"
  BY DEF Kill, End, RoundTripInv, RefusalInv, CommandInv, Idle, IsThere
<1>2. dir' = dir \/ \E f \in Target : dir' = [dir EXCEPT ![at.where] = Put(@, f, Torn)]
  BY DEF Kill
<1>3. CASE at.do = "inject"
  <2>1. \A f \in Target : f # Manifest
    BY <1>3, RankOfFiles DEF Target, File
  <2> QED
    BY <1>1, <1>2, <1>3, <2>1, InjectorKeeps
<1>4. CASE at.do = "unpack"
  <2>1. at.where = "unpacked" /\ source = Nothing
    BY <1>4 DEF RoundTripInv, RefusalInv, CommandInv, SourceInv
  <2>2. HasOwnManifest(dir["unpacked"])
    BY <1>1, <2>1 DEF RoundTripInv, ContentInv
  <2>3. /\ \A w \in Origins : w # "unpacked" => dir'[w] = dir[w]
        /\ HasOwnManifest(dir'["unpacked"])
    BY <1>1, <1>2, <2>1, <2>2, PutKeepsManifest
  <2>4. \A w \in Origins : w # "unpacked" /\ IsThere(w)' => IsThere(w)
    BY <1>1, <2>3 DEF IsThere
  <2>5. ContentInv'
    BY <1>1, <2>3, <2>4 DEF RoundTripInv, ContentInv
  <2>6. SourceInv'
    BY <1>1, <2>1 DEF SourceInv
  <2> QED
    BY <2>5, <2>6 DEF RoundTripInv
<1> QED
  BY <1>1, <1>3, <1>4

LEMMA RoundTripStep == RoundTripInv /\ [Next]_vars => RoundTripInv'
<1> SUFFICES ASSUME RoundTripInv, [Next]_vars PROVE RoundTripInv'
  OBVIOUS
<1>1. RefusalInv'
  BY RefusalStep DEF RoundTripInv
<1>2. CASE UNCHANGED vars
  BY <1>1, <1>2 DEF vars, RoundTripInv, ContentInv, SourceInv, IsThere
<1>3. CASE Next
  BY <1>1, <1>3, InjectorKeepsRoundTrip, StartKeepsRoundTrip, PackKeepsRoundTrip,
     WriteOutKeepsRoundTrip, KillKeepsRoundTrip DEF Next
<1> QED
  BY <1>2, <1>3

(* For all bundles: a directory that was unpacked to the end, and that no  *)
(* injector has been at since, passes the checks and packs to the artifact *)
(* it was made of (explode_bundle_to_dir and read_bundle_dir are inverse). *)
THEOREM UnpackInvertsPack == Spec => []UnpackedPacksAlike
<1>1. RoundTripInv => UnpackedPacksAlike
  BY UnpackedIsBundle DEF RoundTripInv, SourceInv, UnpackedPacksAlike
<1> QED
  BY <1>1, RoundTripInit, RoundTripStep, PTL DEF Spec

-----------------------------------------------------------------------------
(* The first and the last of some numbers                                   *)

LEMMA LeastOf ==
  ASSUME NEW S, S \subseteq Nat, S # {}
  PROVE  \E i \in S : \A j \in S : i <= j
<1>1. PICK i \in S : \A j \in S : ~(<<j, i>> \in OpToRel(<, Nat))
  BY NatLessThanWellFounded, WFMin
<1>2. \A j \in S : ~(j < i)
  BY <1>1 DEF OpToRel
<1> QED
  BY <1>2

LEMMA GreatestOf ==
  ASSUME NEW n \in Nat, NEW S, S \subseteq 0..n, S # {}
  PROVE  \E i \in S : \A j \in S : j <= i
<1> DEFINE T == {n - j : j \in S}
<1>1. T \subseteq Nat /\ T # {}
  <2>1. \A j \in S : j \in 0..n /\ n - j \in Nat
    OBVIOUS
  <2> QED
    BY <2>1
<1> HIDE DEF T
<1>2. PICK t \in T : \A u \in T : t <= u
  BY <1>1, LeastOf
<1>3. PICK i \in S : t = n - i
  BY DEF T
<1>4. ASSUME NEW j \in S PROVE j <= i
  <2>1. n - j \in T
    BY DEF T
  <2>2. t <= n - j
    BY <1>2, <2>1
  <2>3. i \in 0..n /\ j \in 0..n
    OBVIOUS
  <2> QED
    BY <1>3, <2>2, <2>3
<1> QED
  BY <1>4

\* The least of the places that CHOOSE speaks of is there.
LEMMA FirstIsThere ==
  ASSUME NEW n \in Nat, NEW S, S \subseteq 1..n, S # {},
         NEW i, i = CHOOSE k \in 1..n : k \in S /\ \A j \in 1..(k - 1) : j \notin S
  PROVE  i \in S /\ i \in 1..n /\ \A j \in S : i <= j
<1>1. S \subseteq Nat
  OBVIOUS
<1>2. PICK k \in S : \A j \in S : k <= j
  BY <1>1, LeastOf
<1>3. k \in 1..n /\ \A j \in 1..(k - 1) : j \notin S
  BY <1>2
<1>4. \E m \in 1..n : m \in S /\ \A j \in 1..(m - 1) : j \notin S
  BY <1>3
<1>5. i \in 1..n /\ i \in S /\ \A j \in 1..(i - 1) : j \notin S
  BY <1>4
<1>6. ASSUME NEW j \in S PROVE i <= j
  <2>1. j \in 1..n /\ j \notin 1..(i - 1)
    BY <1>5
  <2> QED
    BY <1>5, <2>1
<1> QED
  BY <1>5, <1>6

-----------------------------------------------------------------------------
(* Entries of the toc                                                       *)

\* What is inserted comes in addition.
LEMMA InsertAdds ==
  ASSUME NEW S, NEW s \in Seq(S), NEW e \in S, NEW i \in 1..(Len(s) + 1)
  PROVE  InsertAt(s, i, e) \in Seq(S) /\ Range(InsertAt(s, i, e)) = Range(s) \cup {e}
<1> DEFINE a == SubSeq(s, 1, i - 1)
           z == SubSeq(s, i, Len(s))
           m == <<e>>
           r == (a \o m) \o z
<1>1. Len(s) \in Nat /\ DOMAIN s = 1..Len(s) /\ i \in Nat /\ \A j \in 1..Len(s) : s[j] \in S
  OBVIOUS
<1>2. a \in Seq(S) /\ Len(a) = i - 1 /\ \A j \in 1..(i - 1) : a[j] = s[j]
  BY <1>1, SubSeqProperties
<1>3. z \in Seq(S) /\ Len(z) = Len(s) - i + 1 /\ \A j \in 1..(Len(s) - i + 1) : z[j] = s[i + j - 1]
  BY <1>1, SubSeqProperties
<1>4. m \in Seq(S) /\ Len(m) = 1 /\ m[1] = e
  OBVIOUS
<1> HIDE DEF a, z, m
<1>5. /\ a \o m \in Seq(S) /\ Len(a \o m) = i
      /\ \A j \in 1..i : (a \o m)[j] = IF j <= i - 1 THEN a[j] ELSE m[j - (i - 1)]
  <2>1. /\ a \o m \in Seq(S) /\ Len(a \o m) = Len(a) + Len(m)
        /\ \A j \in 1..(Len(a) + Len(m)) : (a \o m)[j] = IF j <= Len(a) THEN a[j] ELSE m[j - Len(a)]
    BY <1>2, <1>4, ConcatProperties
  <2>2. Len(a) + Len(m) = i
    BY <1>1, <1>2, <1>4
  <2> QED
    BY <1>2, <2>1, <2>2
<1>6. /\ r \in Seq(S) /\ Len(r) = Len(s) + 1
      /\ \A j \in 1..(Len(s) + 1) : r[j] = IF j <= i THEN (a \o m)[j] ELSE z[j - i]
  <2>1. /\ r \in Seq(S) /\ Len(r) = Len(a \o m) + Len(z)
        /\ \A j \in 1..(Len(a \o m) + Len(z)) :
              r[j] = IF j <= Len(a \o m) THEN (a \o m)[j] ELSE z[j - Len(a \o m)]
    <3>1. PICK b : b = a \o m
      OBVIOUS
    <3>2. b \in Seq(S)
      BY <1>5, <3>1
    <3>3. /\ b \o z \in Seq(S) /\ Len(b \o z) = Len(b) + Len(z)
          /\ \A j \in 1..(Len(b) + Len(z)) :
                (b \o z)[j] = IF j <= Len(b) THEN b[j] ELSE z[j - Len(b)]
      BY <1>3, <3>2, ConcatProperties
    <3> QED
      BY <3>1, <3>3
  <2>2. Len(a \o m) + Len(z) = Len(s) + 1
    BY <1>1, <1>3, <1>5
  <2> QED
    BY <1>5, <2>1, <2>2
<1> HIDE DEF r
<1>7. DOMAIN r = 1..(Len(s) + 1)
  BY <1>6
<1>8. ASSUME NEW j \in 1..(Len(s) + 1)
      PROVE  r[j] = IF j < i THEN s[j] ELSE IF j = i THEN e ELSE s[j - 1]
  <2>1. CASE j < i
    <3>1. j \in 1..i /\ j \in 1..(i - 1) /\ j <= i /\ j <= i - 1
      BY <1>1, <2>1
    <3>2. r[j] = (a \o m)[j] /\ (a \o m)[j] = a[j] /\ a[j] = s[j]
      BY <1>2, <1>5, <1>6, <3>1
    <3> QED
      BY <2>1, <3>2
  <2>2. CASE j = i
    <3>1. j \in 1..i /\ j <= i /\ ~(j <= i - 1) /\ j - (i - 1) = 1 /\ ~(j < i)
      BY <1>1, <2>2
    <3>2. r[j] = (a \o m)[j] /\ (a \o m)[j] = m[j - (i - 1)]
      BY <1>5, <1>6, <3>1
    <3> QED
      BY <1>4, <2>2, <3>1, <3>2
  <2>3. CASE j > i
    <3>1. j - i \in 1..(Len(s) - i + 1) /\ i + (j - i) - 1 = j - 1
      BY <1>1, <2>3
    <3>2. r[j] = z[j - i]
      BY <1>1, <1>6, <2>3
    <3>3. z[j - i] = s[j - 1]
      BY <1>3, <3>1
    <3>4. ~(j < i) /\ j # i
      BY <1>1, <2>3
    <3> QED
      BY <3>2, <3>3, <3>4
  <2> QED
    BY <1>1, <2>1, <2>2, <2>3
<1>9. Range(r) = Range(s) \cup {e}
  <2>1. ASSUME NEW x \in Range(r) PROVE x \in Range(s) \cup {e}
    <3>1. PICK j \in 1..(Len(s) + 1) : x = r[j]
      BY <1>7 DEF Range
    <3>2. j < i => j \in DOMAIN s
      BY <1>1, <3>1
    <3>3. j > i => j - 1 \in DOMAIN s
      BY <1>1, <3>1
    <3> QED
      BY <1>1, <1>8, <3>1, <3>2, <3>3 DEF Range
  <2>2. ASSUME NEW x \in Range(s) PROVE x \in Range(r)
    <3>1. PICK j \in 1..Len(s) : x = s[j]
      BY <1>1 DEF Range
    <3>2. CASE j < i
      <4>1. r[j] = x /\ j \in DOMAIN r
        BY <1>1, <1>7, <1>8, <3>1, <3>2
      <4> QED
        BY <4>1 DEF Range
    <3>3. CASE j >= i
      <4>1. j + 1 \in 1..(Len(s) + 1) /\ j + 1 > i /\ (j + 1) - 1 = j
        BY <1>1, <3>3
      <4>2. r[j + 1] = x /\ j + 1 \in DOMAIN r
        BY <1>1, <1>7, <1>8, <3>1, <4>1
      <4> QED
        BY <4>2 DEF Range
    <3> QED
      BY <1>1, <3>2, <3>3
  <2>3. e \in Range(r)
    <3>1. r[i] = e /\ i \in DOMAIN r
      BY <1>1, <1>7, <1>8
    <3> QED
      BY <3>1 DEF Range
  <2> QED
    BY <2>1, <2>2, <2>3
<1>10. InsertAt(s, i, e) = r
  BY DEF InsertAt, r, a, m, z
<1> QED
  BY <1>6, <1>9, <1>10

\* A path of the tree, and one more node under it.
LEMMA PathGrows ==
  ASSUME NEW node \in Seq(Key), NEW key \in Key
  PROVE  Append(node, key) \in Seq(Key) \ {<<>>} /\ Last(Append(node, key)) = key
<1>1. /\ Append(node, key) \in Seq(Key) /\ Append(node, key) # <<>>
      /\ Len(Append(node, key)) = Len(node) + 1 /\ Append(node, key)[Len(node) + 1] = key
  BY AppendProperties
<1> QED
  BY <1>1 DEF Last

\* A tree that lists what it did and one page more.
ListsMore(toc, new, key) ==
  new \in Paths /\ \A k : Lists(new, k) <=> (Lists(toc, k) \/ k = key)

LEMMA UnderListsMore ==
  ASSUME NEW toc \in Paths, NEW i \in DOMAIN toc, NEW key \in Key
  PROVE  ListsMore(toc, Under(toc, toc[i], key), key)
<1> DEFINE below == {j \in DOMAIN toc : IsPrefix(toc[i], toc[j])}
           end == CHOOSE j \in below : \A k \in below : k <= j
           e == Append(toc[i], key)
<1>1. Len(toc) \in Nat /\ DOMAIN toc = 1..Len(toc) /\ toc[i] \in Seq(Key) \ {<<>>}
  BY DEF Paths
<1>2. i \in below /\ below \subseteq 0..Len(toc)
  <2>1. Len(toc[i]) \in Nat
    BY <1>1
  <2> QED
    BY <1>1, <2>1 DEF IsPrefix
<1>3. end \in below
  <2> HIDE DEF below
  <2>1. \E j \in below : \A k \in below : k <= j
    BY <1>1, <1>2, GreatestOf
  <2> QED
    BY <2>1
<1>4. e \in Seq(Key) \ {<<>>} /\ Last(e) = key
  BY <1>1, PathGrows
<1>5. end + 1 \in 1..(Len(toc) + 1)
  BY <1>1, <1>3
<1>6. Under(toc, toc[i], key) = InsertAt(toc, end + 1, e)
  BY DEF Under
<1> HIDE DEF below, end, e
<1>7. InsertAt(toc, end + 1, e) \in Paths /\ Range(InsertAt(toc, end + 1, e)) = Range(toc) \cup {e}
  <2>1. PICK S : S = Seq(Key) \ {<<>>}
    OBVIOUS
  <2>2. toc \in Seq(S) /\ e \in S
    BY <1>4, <2>1 DEF Paths
  <2>3. InsertAt(toc, end + 1, e) \in Seq(S) /\ Range(InsertAt(toc, end + 1, e)) = Range(toc) \cup {e}
    BY <1>5, <2>2, InsertAdds
  <2> QED
    BY <2>1, <2>3 DEF Paths
<1> QED
  BY <1>4, <1>6, <1>7 DEF ListsMore, Lists

LEMMA AppendListsMore ==
  ASSUME NEW toc \in Paths, NEW key \in Key
  PROVE  ListsMore(toc, Append(toc, <<key>>), key)
<1>1. <<key>> \in Seq(Key) \ {<<>>} /\ Last(<<key>>) = key
  BY DEF Last
<1>2. PICK e : e = <<key>>
  OBVIOUS
<1>3. /\ Append(toc, e) \in Paths /\ Len(Append(toc, e)) = Len(toc) + 1
      /\ \A j \in 1..Len(toc) : Append(toc, e)[j] = toc[j]
      /\ Append(toc, e)[Len(toc) + 1] = e
  BY <1>1, <1>2, AppendProperties DEF Paths
<1>4. Len(toc) \in Nat /\ DOMAIN toc = 1..Len(toc) /\ DOMAIN Append(toc, e) = 1..(Len(toc) + 1)
  BY <1>3 DEF Paths
<1>5. Range(Append(toc, e)) = Range(toc) \cup {e}
  <2>1. ASSUME NEW x \in Range(Append(toc, e)) PROVE x \in Range(toc) \cup {e}
    <3>1. PICK j \in 1..(Len(toc) + 1) : x = Append(toc, e)[j]
      BY <1>4 DEF Range
    <3>2. j \in 1..Len(toc) \/ j = Len(toc) + 1
      BY <1>4
    <3> QED
      BY <1>3, <1>4, <3>1, <3>2 DEF Range
  <2>2. ASSUME NEW x \in Range(toc) PROVE x \in Range(Append(toc, e))
    <3>1. PICK j \in 1..Len(toc) : x = toc[j]
      BY <1>4 DEF Range
    <3>2. j \in DOMAIN Append(toc, e) /\ Append(toc, e)[j] = x
      BY <1>3, <1>4, <3>1
    <3> QED
      BY <3>2 DEF Range
  <2>3. e \in Range(Append(toc, e))
    <3>1. Len(toc) + 1 \in DOMAIN Append(toc, e)
      BY <1>4
    <3> QED
      BY <1>3, <3>1 DEF Range
  <2> QED
    BY <2>1, <2>2, <2>3
<1> QED
  BY <1>1, <1>2, <1>3, <1>5 DEF ListsMore, Lists

\* add_toc_entry enters the page, if the parent is there and the page is not.
LEMMA EntryIsMade ==
  ASSUME NEW toc \in Paths, NEW key \in Key, NEW parent,
         parent # "none" => Lists(toc, key) \/ Lists(toc, parent)
  PROVE  ListsMore(toc, AddEntry(toc, key, parent), key)
<1>0. Len(toc) \in Nat /\ DOMAIN toc = 1..Len(toc)
  BY DEF Paths
<1>1. CASE Lists(toc, key)
  BY <1>1 DEF AddEntry, ListsMore
<1>2. CASE ~Lists(toc, key) /\ parent # "none"
  <2> DEFINE S == {i \in DOMAIN toc : Last(toc[i]) = parent}
  <2>1. PICK i : i = First(LAMBDA j : Last(toc[j]) = parent, toc)
    OBVIOUS
  <2>2. i = CHOOSE k \in 1..Len(toc) : k \in S /\ \A j \in 1..(k - 1) : j \notin S
    <3>1. \A k \in DOMAIN toc : (Last(toc[k]) = parent /\ \A j \in 1..(k - 1) : ~(Last(toc[j]) = parent))
                        <=> (k \in S /\ \A j \in 1..(k - 1) : j \notin S)
      BY <1>0
    <3> QED
      BY <1>0, <2>1, <3>1 DEF First
  <2>3. S # {}
    BY <1>2 DEF Lists, Range
  <2>4. i \in DOMAIN toc
    <3> HIDE DEF S
    <3>1. S \subseteq 1..Len(toc)
      BY <1>0 DEF S
    <3> QED
      BY <1>0, <2>2, <2>3, <3>1, FirstIsThere
  <2>5. AddEntry(toc, key, parent) = Under(toc, toc[i], key)
    BY <1>2, <2>1 DEF AddEntry, InsertEntry
  <2> QED
    BY <2>4, <2>5, UnderListsMore
<1>3. CASE ~Lists(toc, key) /\ parent = "none"
  <2>1. CASE Roots(toc) = {1}
    <3>1. 1 \in DOMAIN toc
      BY <2>1 DEF Roots
    <3> QED
      BY <1>3, <2>1, <3>1, UnderListsMore DEF AddEntry, InsertEntry
  <2>2. CASE Roots(toc) # {1}
    BY <1>3, <2>2, AppendListsMore DEF AddEntry, InsertEntry
  <2> QED
    BY <2>1, <2>2
<1> QED
  BY <1>1, <1>2, <1>3

-----------------------------------------------------------------------------
(* Blocks of sections                                                       *)

\* A page with a block in it: none of the sections before has the block's
\* title, and what comes after is of no deeper level.
HasBlock(s, title, new) ==
  \E a, z \in Seq(Section) :
     /\ s = a \o new \o z
     /\ \A i \in 1..Len(a) : a[i].title # title
     /\ z # <<>> => z[1].level <= new[1].level

\* A block that bundle_edit can find again: it is headed by its title, and the
\* rest of it is deeper.
IsBlock(title, new) ==
  /\ new \in Seq(Section) /\ new # <<>> /\ new[1].title = title
  /\ \A j \in 2..Len(new) : new[j].level > new[1].level

LEMMA JoinedSections ==
  ASSUME NEW a \in Seq(Section), NEW new \in Seq(Section), NEW z \in Seq(Section),
         NEW s, s = a \o new \o z
  PROVE  /\ s \in Seq(Section) /\ Len(s) = Len(a) + Len(new) + Len(z)
         /\ Len(a) \in Nat /\ Len(new) \in Nat /\ Len(z) \in Nat
         /\ \A i \in 1..Len(a) : s[i] = a[i]
         /\ \A i \in 1..Len(new) : s[Len(a) + i] = new[i]
         /\ \A i \in 1..Len(z) : s[Len(a) + Len(new) + i] = z[i]
<1>0. Len(a) \in Nat /\ Len(new) \in Nat /\ Len(z) \in Nat
  OBVIOUS
<1>1. PICK b : b = a \o new
  OBVIOUS
<1>2. /\ b \in Seq(Section) /\ Len(b) = Len(a) + Len(new)
      /\ \A i \in 1..(Len(a) + Len(new)) : b[i] = IF i <= Len(a) THEN a[i] ELSE new[i - Len(a)]
  BY <1>1, ConcatProperties
<1>3. /\ s \in Seq(Section) /\ Len(s) = Len(b) + Len(z)
      /\ \A i \in 1..(Len(b) + Len(z)) : s[i] = IF i <= Len(b) THEN b[i] ELSE z[i - Len(b)]
  BY <1>1, <1>2, ConcatProperties
<1>4. ASSUME NEW i \in 1..Len(a) PROVE s[i] = a[i]
  <2>1. i \in 1..(Len(a) + Len(new)) /\ i \in 1..(Len(b) + Len(z)) /\ i <= Len(a) /\ i <= Len(b)
    BY <1>0, <1>2
  <2> QED
    BY <1>2, <1>3, <2>1
<1>5. ASSUME NEW i \in 1..Len(new) PROVE s[Len(a) + i] = new[i]
  <2>1. /\ Len(a) + i \in 1..(Len(a) + Len(new)) /\ Len(a) + i \in 1..(Len(b) + Len(z))
        /\ ~(Len(a) + i <= Len(a)) /\ Len(a) + i <= Len(b) /\ (Len(a) + i) - Len(a) = i
    BY <1>0, <1>2
  <2> QED
    BY <1>2, <1>3, <2>1
<1>6. ASSUME NEW i \in 1..Len(z) PROVE s[Len(a) + Len(new) + i] = z[i]
  <2>1. /\ Len(b) + i \in 1..(Len(b) + Len(z)) /\ ~(Len(b) + i <= Len(b)) /\ (Len(b) + i) - Len(b) = i
    BY <1>0, <1>2
  <2> QED
    BY <1>2, <1>3, <2>1
<1> QED
  BY <1>0, <1>2, <1>3, <1>4, <1>5, <1>6

LEMMA LevelsAreNumbers == \A x \in Section : x.level \in Nat
BY DEF Section

\* A page, cut where its sections begin and end.
LEMMA CutSections ==
  ASSUME NEW s \in Seq(Section), NEW i \in 1..(Len(s) + 1), NEW j \in 1..(Len(s) + 1)
  PROVE  /\ SubSeq(s, 1, i - 1) \in Seq(Section) /\ Len(SubSeq(s, 1, i - 1)) = i - 1
         /\ \A k \in 1..(i - 1) : SubSeq(s, 1, i - 1)[k] = s[k]
         /\ SubSeq(s, j, Len(s)) \in Seq(Section) /\ Len(SubSeq(s, j, Len(s))) = Len(s) - j + 1
         /\ \A k \in 1..(Len(s) - j + 1) : SubSeq(s, j, Len(s))[k] = s[j + k - 1]
<1>1. Len(s) \in Nat /\ \A k \in 1..Len(s) : s[k] \in Section
  OBVIOUS
<1>2. /\ SubSeq(s, 1, i - 1) \in Seq(Section) /\ Len(SubSeq(s, 1, i - 1)) = i - 1
      /\ \A k \in 1..(i - 1) : SubSeq(s, 1, i - 1)[k] = s[k]
  <2>1. 1 \in Int /\ i - 1 \in Int /\ \A k \in 1..(i - 1) : s[k] \in Section
    BY <1>1
  <2>2. /\ SubSeq(s, 1, i - 1) \in Seq(Section)
        /\ Len(SubSeq(s, 1, i - 1)) = IF 1 <= i - 1 THEN (i - 1) - 1 + 1 ELSE 0
        /\ \A k \in 1..((i - 1) - 1 + 1) : SubSeq(s, 1, i - 1)[k] = s[1 + k - 1]
    BY <2>1, SubSeqProperties
  <2> QED
    BY <2>1, <2>2
<1>3. /\ SubSeq(s, j, Len(s)) \in Seq(Section) /\ Len(SubSeq(s, j, Len(s))) = Len(s) - j + 1
      /\ \A k \in 1..(Len(s) - j + 1) : SubSeq(s, j, Len(s))[k] = s[j + k - 1]
  <2>1. j \in Int /\ Len(s) \in Int /\ \A k \in j..Len(s) : s[k] \in Section
    BY <1>1
  <2>2. /\ SubSeq(s, j, Len(s)) \in Seq(Section)
        /\ Len(SubSeq(s, j, Len(s))) = IF j <= Len(s) THEN Len(s) - j + 1 ELSE 0
        /\ \A k \in 1..(Len(s) - j + 1) : SubSeq(s, j, Len(s))[k] = s[j + k - 1]
    BY <2>1, SubSeqProperties
  <2> QED
    BY <1>1, <2>1, <2>2
<1> QED
  BY <1>2, <1>3

LEMMA ReplacingCuts ==
  ASSUME NEW s \in Seq(Section), NEW title, NEW new
  PROVE  ReplaceBlock(s, title, new) =
           IF \A i \in 1..Len(s) : s[i].title # title THEN s \o new
           ELSE SubSeq(s, 1, StartOf(s, title) - 1) \o new
                  \o SubSeq(s, EndOf(s, StartOf(s, title)), Len(s))
<1>1. DOMAIN s = 1..Len(s)
  OBVIOUS
<1> QED
  BY <1>1 DEF ReplaceBlock

LEMMA StartIsFirst ==
  ASSUME NEW s \in Seq(Section), NEW title, NEW k \in 1..Len(s), s[k].title = title
  PROVE  /\ StartOf(s, title) \in 1..Len(s) /\ s[StartOf(s, title)].title = title
         /\ \A j \in 1..(StartOf(s, title) - 1) : s[j].title # title
<1>1. Len(s) \in Nat
  OBVIOUS
<1> DEFINE S == {i \in 1..Len(s) : s[i].title = title}
<1>2. S \subseteq 1..Len(s) /\ S # {}
  OBVIOUS
<1>3. \A i \in 1..Len(s) : (i \in S /\ \A j \in 1..(i - 1) : j \notin S)
                          <=> (s[i].title = title /\ \A j \in 1..(i - 1) : s[j].title # title)
  BY <1>1
<1>4. StartOf(s, title) = CHOOSE i \in 1..Len(s) : i \in S /\ \A j \in 1..(i - 1) : j \notin S
  <2>1. StartOf(s, title) = CHOOSE i \in DOMAIN s : s[i].title = title /\ \A j \in 1..(i - 1) : ~(s[j].title = title)
    BY Zenon DEF StartOf, First
  <2>2. StartOf(s, title) = CHOOSE i \in 1..Len(s) : s[i].title = title /\ \A j \in 1..(i - 1) : s[j].title # title
    BY <2>1
  <2> QED
    BY <1>3, <2>2
<1>5. StartOf(s, title) \in S /\ \A j \in S : StartOf(s, title) <= j
  <2> HIDE DEF S
  <2>1. PICK i : i = StartOf(s, title)
    OBVIOUS
  <2> QED
    BY <1>1, <1>2, <1>4, <2>1, FirstIsThere
<1> QED
  BY <1>1, <1>5

LEMMA EndIsNext ==
  ASSUME NEW s \in Seq(Section), NEW start \in 1..Len(s)
  PROVE  /\ EndOf(s, start) \in (start + 1)..(Len(s) + 1)
         /\ EndOf(s, start) # Len(s) + 1 => s[EndOf(s, start)].level <= s[start].level
         /\ \A j \in (start + 1)..(EndOf(s, start) - 1) : ~(s[j].level <= s[start].level)
<1>1. Len(s) \in Nat
  OBVIOUS
<1> DEFINE rest == {i \in (start + 1)..Len(s) : s[i].level <= s[start].level}
           end == EndOf(s, start)
<1>2. CASE rest = {}
  <2>1. end = Len(s) + 1
    BY <1>2 DEF EndOf
  <2> QED
    BY <1>1, <1>2, <2>1
<1>3. CASE rest # {}
  <2>1. end = CHOOSE i \in rest : \A j \in rest : i <= j
    BY <1>3 DEF EndOf
  <2>2. rest \subseteq Nat
    BY <1>1
  <2>3. end \in rest /\ \A j \in rest : end <= j
    <3> HIDE DEF rest, end
    <3>1. \E i \in rest : \A j \in rest : i <= j
      BY <1>3, <2>2, LeastOf
    <3> QED
      BY <2>1, <3>1
  <2> HIDE DEF end
  <2>4. end \in (start + 1)..Len(s) /\ s[end].level <= s[start].level
    BY <2>3
  <2>5. ASSUME NEW j \in (start + 1)..(end - 1) PROVE ~(s[j].level <= s[start].level)
    <3>1. j \in (start + 1)..Len(s) /\ ~(end <= j)
      BY <1>1, <2>4
    <3> QED
      BY <2>3, <3>1
  <2>6. EndOf(s, start) = end
    BY DEF end
  <2> QED
    BY <1>1, <2>4, <2>5, <2>6
<1> QED
  BY <1>2, <1>3

-----------------------------------------------------------------------------
(* What an injector makes of a bundle                                       *)

\* The pages an injector writes or patches.
PageFile(i) == <<"docs", Injector[i].key>>
ItemFiles == {PageFile(i) : i \in DOMAIN Injector}

\* A page that brings no flaw, link or figure that was not there before.
NoWorse(b, p, f) ==
  LET was == IF f \in DOMAIN b THEN b[f] ELSE NoPage
  IN  p \in Page /\ p.flaws \subseteq was.flaws /\ p.links \subseteq was.links /\ p.figures \subseteq was.figures

\* The toc keeps its entries, and a new one leads to a page.
TocGrows(b, d) ==
  TocOf(d) # Torn =>
    /\ TocOf(d) \in Paths
    /\ \A k : Lists(TocOf(b), k) => Lists(TocOf(d), k)
    /\ \A k : Lists(TocOf(d), k) => Lists(TocOf(b), k) \/ <<"docs", k>> \in ItemFiles \cap DOMAIN d

\* A directory that was a bundle before injectors worked on it, wherever they stopped.
Grown(b, d) ==
  /\ DOMAIN b \subseteq DOMAIN d /\ DOMAIN d \subseteq DOMAIN b \cup ItemFiles \cup {Toc}
  /\ \A f \in DOMAIN d \ (ItemFiles \cup {Toc}) : d[f] = b[f]
  /\ \A f \in DOMAIN d \cap ItemFiles : d[f] = Torn \/ NoWorse(b, d[f], f)
  /\ TocGrows(b, d)

\* The injector has come to its end with this page.
Done(d, i) ==
  /\ PageFile(i) \in DOMAIN d /\ d[PageFile(i)] # Torn
  /\ TocOf(d) # Torn /\ Lists(TocOf(d), Injector[i].key)

AtGen == at.do = "inject" /\ at.where = "gen"

EditInv ==
  /\ CommandInv
  /\ origin \in Bundles /\ Grown(origin, dir["gen"])
  /\ AtGen => ~injected /\ at.item \in DOMAIN Injector /\ \A j \in 1..(at.item - 1) : Done(dir["gen"], j)
  /\ AtGen /\ at.step = "write" => NoWorse(origin, draft, PageFile(at.item))
  /\ AtGen /\ at.step = "enter" =>
       PageFile(at.item) \in DOMAIN dir["gen"] /\ dir["gen"][PageFile(at.item)] # Torn
  /\ injected => \A j \in DOMAIN Injector : Done(dir["gen"], j)

LEMMA InjectorItems ==
  /\ Len(Injector) \in Nat \ {0} /\ DOMAIN Injector = 1..Len(Injector)
  /\ \A i \in DOMAIN Injector : Injector[i] \in Items
BY InjectorAssumption, EmptySeq

LEMMA PageFiles ==
  /\ \A f \in ItemFiles : f[1] = "docs" /\ Len(f) = 2 /\ f # Toc /\ f # Manifest
  /\ \A i \in DOMAIN Injector : PageFile(i) \in ItemFiles /\ PageFile(i) # Toc
  /\ Toc \notin ItemFiles /\ Manifest \notin ItemFiles
BY DEF ItemFiles, PageFile, Toc, Manifest

\* A page is written, or broken off.
LEMMA PageIsPut ==
  ASSUME NEW b, NEW d, Grown(b, d), NEW f \in ItemFiles, NEW x, x = Torn \/ NoWorse(b, x, f)
  PROVE  /\ Grown(b, Put(d, f, x))
         /\ f \in DOMAIN Put(d, f, x) /\ Put(d, f, x)[f] = x
         /\ x # Torn => \A i \in DOMAIN Injector : Done(d, i) => Done(Put(d, f, x), i)
<1>1. PICK e : e = Put(d, f, x)
  OBVIOUS
<1>2. /\ DOMAIN e = DOMAIN d \cup {f} /\ e[f] = x
      /\ \A g \in DOMAIN d : g # f => e[g] = d[g]
  BY <1>1 DEF Put
<1>3. f # Toc
  BY PageFiles
<1>4. TocOf(e) = TocOf(d)
  BY <1>2, <1>3 DEF TocOf
<1>5. TocGrows(b, e)
  BY <1>2, <1>4 DEF Grown, TocGrows
<1>6. Grown(b, e)
  <2>1. DOMAIN b \subseteq DOMAIN e /\ DOMAIN e \subseteq DOMAIN b \cup ItemFiles \cup {Toc}
    BY <1>2 DEF Grown
  <2>2. \A g \in DOMAIN e \ (ItemFiles \cup {Toc}) : e[g] = b[g]
    BY <1>2 DEF Grown
  <2>3. \A g \in DOMAIN e \cap ItemFiles : e[g] = Torn \/ NoWorse(b, e[g], g)
    BY <1>2 DEF Grown
  <2> QED
    BY <1>5, <2>1, <2>2, <2>3 DEF Grown
<1>7. ASSUME x # Torn, NEW i \in DOMAIN Injector, Done(d, i) PROVE Done(e, i)
  BY <1>2, <1>4, <1>7 DEF Done
<1> QED
  BY <1>1, <1>2, <1>6, <1>7

\* The toc is written with an entry for a page that is there.
LEMMA TocIsPut ==
  ASSUME NEW b, NEW d, Grown(b, d), TocOf(d) # Torn, NEW i \in DOMAIN Injector,
         PageFile(i) \in DOMAIN d, NEW toc, ListsMore(TocOf(d), toc, Injector[i].key), toc # Torn
  PROVE  /\ Grown(b, Put(d, Toc, toc))
         /\ \A j \in DOMAIN Injector : Done(d, j) => Done(Put(d, Toc, toc), j)
         /\ d[PageFile(i)] # Torn => Done(Put(d, Toc, toc), i)
<1>1. PICK e : e = Put(d, Toc, toc)
  OBVIOUS
<1>2. /\ DOMAIN e = DOMAIN d \cup {Toc} /\ e[Toc] = toc
      /\ \A g \in DOMAIN d : g # Toc => e[g] = d[g]
  BY <1>1 DEF Put
<1>3. TocOf(e) = toc
  BY <1>2 DEF TocOf
<1>4. toc \in Paths /\ \A k : Lists(toc, k) <=> (Lists(TocOf(d), k) \/ k = Injector[i].key)
  BY DEF ListsMore
<1>5. PageFile(i) \in ItemFiles
  BY PageFiles
<1>6. TocGrows(b, e)
  <2>1. \A k : Lists(TocOf(b), k) => Lists(toc, k)
    BY <1>4 DEF Grown, TocGrows
  <2>2. ASSUME NEW k, Lists(toc, k)
        PROVE  Lists(TocOf(b), k) \/ <<"docs", k>> \in ItemFiles \cap DOMAIN e
    <3>1. CASE Lists(TocOf(d), k)
      BY <1>2, <3>1 DEF Grown, TocGrows
    <3>2. CASE k = Injector[i].key
      BY <1>2, <1>5, <3>2 DEF PageFile
    <3> QED
      BY <1>4, <2>2, <3>1, <3>2
  <2> QED
    BY <1>3, <1>4, <2>1, <2>2 DEF TocGrows
<1>7. Grown(b, e)
  <2>1. DOMAIN b \subseteq DOMAIN e /\ DOMAIN e \subseteq DOMAIN b \cup ItemFiles \cup {Toc}
    BY <1>2 DEF Grown
  <2>2. \A g \in DOMAIN e \ (ItemFiles \cup {Toc}) : e[g] = b[g]
    BY <1>2 DEF Grown
  <2>3. \A g \in DOMAIN e \cap ItemFiles : e[g] = Torn \/ NoWorse(b, e[g], g)
    BY <1>2, PageFiles DEF Grown
  <2> QED
    BY <1>6, <2>1, <2>2, <2>3 DEF Grown
<1>8. ASSUME NEW j \in DOMAIN Injector, Done(d, j) PROVE Done(e, j)
  BY <1>2, <1>3, <1>4, <1>8, PageFiles DEF Done
<1>9. ASSUME d[PageFile(i)] # Torn PROVE Done(e, i)
  BY <1>2, <1>3, <1>4, <1>9, PageFiles DEF Done
<1> QED
  BY <1>1, <1>7, <1>8, <1>9

\* The writing of the toc is broken off.
LEMMA TocIsTorn ==
  ASSUME NEW b, NEW d, Grown(b, d)
  PROVE  Grown(b, Put(d, Toc, Torn))
<1>1. PICK e : e = Put(d, Toc, Torn)
  OBVIOUS
<1>2. /\ DOMAIN e = DOMAIN d \cup {Toc} /\ e[Toc] = Torn
      /\ \A g \in DOMAIN d : g # Toc => e[g] = d[g]
  BY <1>1 DEF Put
<1>3. TocGrows(b, e)
  BY <1>2 DEF TocGrows, TocOf
<1>4. DOMAIN b \subseteq DOMAIN e /\ DOMAIN e \subseteq DOMAIN b \cup ItemFiles \cup {Toc}
  BY <1>2 DEF Grown
<1>5. \A g \in DOMAIN e \ (ItemFiles \cup {Toc}) : e[g] = b[g]
  BY <1>2 DEF Grown
<1>6. \A g \in DOMAIN e \cap ItemFiles : e[g] = Torn \/ NoWorse(b, e[g], g)
  BY <1>2, PageFiles DEF Grown
<1> QED
  BY <1>1, <1>3, <1>4, <1>5, <1>6 DEF Grown

\* Replacing a block leaves sections.
LEMMA ReplacedSections ==
  ASSUME NEW s \in Seq(Section), NEW title, NEW new \in Seq(Section)
  PROVE  ReplaceBlock(s, title, new) \in Seq(Section)
<1>1. Len(s) \in Nat
  OBVIOUS
<1>2. CASE \A i \in 1..Len(s) : s[i].title # title
  <2>1. PICK r : r = s \o new
    OBVIOUS
  <2>2. r \in Seq(Section)
    BY <2>1, ConcatProperties
  <2> QED
    BY <1>2, <2>1, <2>2, ReplacingCuts
<1>3. CASE \E i \in 1..Len(s) : s[i].title = title
  <2>1. PICK i \in 1..Len(s) : s[i].title = title
    BY <1>3
  <2>2. PICK start : start = StartOf(s, title)
    OBVIOUS
  <2>3. start \in 1..Len(s)
    BY <2>1, <2>2, StartIsFirst
  <2>4. PICK end : end = EndOf(s, start)
    OBVIOUS
  <2>5. end \in (start + 1)..(Len(s) + 1)
    BY <2>3, <2>4, EndIsNext
  <2>6. start \in 1..(Len(s) + 1) /\ end \in 1..(Len(s) + 1)
    BY <1>1, <2>3, <2>5
  <2>7. PICK a : a = SubSeq(s, 1, start - 1)
    OBVIOUS
  <2>8. PICK z : z = SubSeq(s, end, Len(s))
    OBVIOUS
  <2>9. a \in Seq(Section) /\ z \in Seq(Section)
    BY <2>6, <2>7, <2>8, CutSections
  <2>10. ReplaceBlock(s, title, new) = a \o new \o z
    BY <1>3, <2>2, <2>4, <2>7, <2>8, ReplacingCuts
  <2>11. PICK r : r = a \o new \o z
    OBVIOUS
  <2>12. r \in Seq(Section)
    BY <2>9, <2>11, JoinedSections
  <2> QED
    BY <2>10, <2>11, <2>12
<1> QED
  BY <1>2, <1>3

-----------------------------------------------------------------------------
(* Injectors keep a bundle packable                                         *)

LEMMA EditInit == Init => EditInv
<1> SUFFICES ASSUME Init PROVE EditInv
  OBVIOUS
<1>1. CommandInv
  BY RefusalInit DEF RefusalInv
<1>2. origin \in Bundles /\ dir["gen"] = origin /\ at.do = "idle" /\ ~injected
  BY DEF Init, Idle
<1>3. \A f \in DOMAIN origin \cap ItemFiles : origin[f] \in Page
  BY <1>2, BundleAssumption, PageFiles
<1>4. \A f \in DOMAIN origin \cap ItemFiles : NoWorse(origin, origin[f], f)
  BY <1>3 DEF NoWorse
<1>5. TocGrows(origin, origin)
  <2>1. <<>> \in Paths
    BY DEF Paths
  <2>2. TocOf(origin) \in Paths
    BY <1>2, <2>1, BundleAssumption DEF TocOf
  <2> QED
    BY <2>2 DEF TocGrows
<1>6. Grown(origin, origin)
  BY <1>4, <1>5 DEF Grown
<1> QED
  BY <1>1, <1>2, <1>6 DEF EditInv, AtGen

\* Steps that are not an injector's at gen's directory leave it alone.
LEMMA ElsewhereKeepsEdits ==
  ASSUME EditInv, CommandInv', dir'["gen"] = dir["gen"], origin' = origin,
         ~AtGen', injected' => injected
  PROVE  EditInv'
BY DEF EditInv

LEMMA ReadKeepsEdits ==
  ASSUME EditInv, CommandInv', ReadPage
  PROVE  EditInv'
<1>1. UNCHANGED <<dir, origin, injected>> /\ at.do = "inject" /\ at.step = "read"
  BY DEF ReadPage
<1>2. CASE ~AtGen'
  BY <1>1, <1>2, ElsewhereKeepsEdits
<1>3. CASE AtGen'
  <2>1. /\ at' = [at EXCEPT !.step = "write"] /\ Manifest \in DOMAIN Here
        /\ Item.patch => File \in DOMAIN Here /\ Here[File] # Torn
        /\ draft' = IF ~Item.patch THEN [NoPage EXCEPT !.sections = Item.sections]
                    ELSE [Here[File] EXCEPT !.sections = ReplaceBlock(@, Item.title, Item.sections)]
    BY <1>3 DEF ReadPage, End, Idle, AtGen
  <2>2. at'.step = "write" /\ at'.item = at.item /\ at'.where = at.where /\ at'.do = at.do /\ AtGen
    BY <1>1, <1>3, <2>1 DEF EditInv, CommandInv, AtGen
  <2>3. ~injected /\ at.item \in DOMAIN Injector /\ \A j \in 1..(at.item - 1) : Done(dir["gen"], j)
    BY <2>2 DEF EditInv
  <2>4. Item \in Items /\ Item.sections \in Seq(Section) /\ File = PageFile(at.item) /\ Here = dir["gen"]
    BY <2>2, <2>3, InjectorItems DEF Item, Items, File, PageFile, Here, AtGen
  <2>5. NoWorse(origin, draft', PageFile(at.item))
    <3>1. CASE ~Item.patch
      <4>1. draft' = [NoPage EXCEPT !.sections = Item.sections]
        BY <2>1, <3>1
      <4>2. /\ draft'.sections = Item.sections
            /\ draft'.flaws = {} /\ draft'.links = {} /\ draft'.figures = {}
            /\ draft' \in Page
        BY <2>4, <4>1 DEF NoPage, Page
      <4> QED
        BY <4>2 DEF NoWorse
    <3>2. CASE Item.patch
      <4>1. NoWorse(origin, Here[File], File)
        BY <2>1, <2>3, <2>4, <3>2, PageFiles DEF EditInv, Grown
      <4>2. PICK p : p = Here[File]
        OBVIOUS
      <4>3. p \in Page /\ p.sections \in Seq(Section)
        BY <4>1, <4>2 DEF NoWorse, Page
      <4>4. PICK r : r = ReplaceBlock(p.sections, Item.title, Item.sections)
        OBVIOUS
      <4>5. r \in Seq(Section)
        BY <2>4, <4>3, <4>4, ReplacedSections
      <4>6. draft' = [p EXCEPT !.sections = r]
        BY <2>1, <3>2, <4>2, <4>4
      <4>7. /\ draft' \in Page /\ draft'.flaws = p.flaws /\ draft'.links = p.links
            /\ draft'.figures = p.figures
        BY <4>3, <4>5, <4>6 DEF Page
      <4> QED
        BY <2>4, <4>1, <4>2, <4>7 DEF NoWorse
    <3> QED
      BY <3>1, <3>2
  <2> QED
    BY <1>1, <2>2, <2>3, <2>5 DEF EditInv
<1> QED
  BY <1>2, <1>3

\* Writing at one directory leaves the other.
LEMMA WrittenIs ==
  ASSUME CommandInv, NEW f, NEW x, dir' = [dir EXCEPT ![at.where] = Put(@, f, x)]
  PROVE  dir'["gen"] = IF at.where = "gen" THEN Put(dir["gen"], f, x) ELSE dir["gen"]
BY DEF CommandInv, Origins

LEMMA WriteKeepsEdits ==
  ASSUME EditInv, CommandInv', WritePage
  PROVE  EditInv'
<1>1. /\ UNCHANGED <<origin, injected>> /\ at.do = "inject" /\ at.step = "write"
      /\ dir' = [dir EXCEPT ![at.where] = Put(@, File, draft)]
      /\ at' = [at EXCEPT !.step = "enter"]
  BY DEF WritePage
<1>2. at'.step = "enter" /\ at'.item = at.item /\ at'.where = at.where /\ at'.do = at.do
  BY <1>1 DEF EditInv, CommandInv
<1>3. dir'["gen"] = IF at.where = "gen" THEN Put(dir["gen"], File, draft) ELSE dir["gen"]
  BY <1>1, WrittenIs DEF EditInv
<1>4. CASE at.where # "gen"
  BY <1>1, <1>2, <1>3, <1>4, ElsewhereKeepsEdits DEF AtGen
<1>5. CASE at.where = "gen"
  <2>1. AtGen /\ AtGen'
    BY <1>1, <1>2, <1>5 DEF AtGen
  <2>2. ~injected /\ at.item \in DOMAIN Injector /\ \A j \in 1..(at.item - 1) : Done(dir["gen"], j)
    BY <2>1 DEF EditInv
  <2>3. File = PageFile(at.item)
    BY DEF File, PageFile, Item
  <2>4. NoWorse(origin, draft, File) /\ draft # Torn /\ File \in ItemFiles
    BY <1>1, <2>1, <2>2, <2>3, ManifestAssumption, PageFiles DEF EditInv, NoWorse
  <2>5. /\ Grown(origin, dir'["gen"]) /\ File \in DOMAIN dir'["gen"] /\ dir'["gen"][File] = draft
        /\ \A i \in DOMAIN Injector : Done(dir["gen"], i) => Done(dir'["gen"], i)
    BY <1>3, <1>5, <2>4, PageIsPut DEF EditInv
  <2>6. \A j \in 1..(at.item - 1) : Done(dir'["gen"], j)
    <3>1. \A j \in 1..(at.item - 1) : j \in DOMAIN Injector
      BY <2>2, InjectorItems
    <3> QED
      BY <2>2, <2>5, <3>1
  <2>7. Done(dir["gen"], 1)' <=> Done(dir'["gen"], 1)
    BY DEF Done
  <2> QED
    BY <1>1, <1>2, <2>1, <2>2, <2>3, <2>4, <2>5, <2>6 DEF EditInv
<1> QED
  BY <1>4, <1>5

LEMMA EnterKeepsEdits ==
  ASSUME EditInv, CommandInv', EnterPage
  PROVE  EditInv'
<1>1. UNCHANGED origin /\ at.do = "inject" /\ at.step = "enter"
  BY DEF EnterPage
<1>2. CASE EntryFails
  <2>1. UNCHANGED <<dir, injected>> /\ at' = Idle
    BY <1>2 DEF EnterPage, End
  <2> QED
    BY <1>1, <2>1, ElsewhereKeepsEdits DEF AtGen, Idle
<1>3. CASE ~EntryFails
  <2>1. /\ dir' = IF Entered = TocOf(Here) THEN dir ELSE [dir EXCEPT ![at.where] = Put(@, Toc, Entered)]
        /\ NextItem
    BY <1>3 DEF EnterPage
  <2>2. CASE at.where # "gen"
    <3>1. dir'["gen"] = dir["gen"]
      BY <2>1, <2>2, WrittenIs DEF EditInv
    <3>2. ~AtGen' /\ (injected' => injected)
      <4>1. CASE at.item < Len(Injector)
        <5>1. at' = [at EXCEPT !.item = @ + 1, !.step = "read"] /\ injected' = injected
          BY <2>1, <4>1 DEF NextItem
        <5>2. at'.where = at.where
          BY <5>1 DEF EditInv, CommandInv
        <5> QED
          BY <2>2, <5>1, <5>2 DEF AtGen
      <4>2. CASE ~(at.item < Len(Injector))
        <5>1. at' = Idle /\ injected' = (injected \/ at.where = "gen")
          BY <2>1, <4>2 DEF NextItem, End
        <5>2. at'.do # "inject"
          BY <5>1 DEF Idle
        <5>3. injected' => injected
          BY <2>2, <5>1
        <5> QED
          BY <5>2, <5>3 DEF AtGen
      <4> QED
        BY <4>1, <4>2
    <3> QED
      BY <1>1, <3>1, <3>2, ElsewhereKeepsEdits
  <2>3. CASE at.where = "gen"
    <3>1. AtGen /\ Here = dir["gen"]
      BY <1>1, <2>3 DEF AtGen, Here
    <3>2. /\ ~injected /\ at.item \in DOMAIN Injector /\ \A j \in 1..(at.item - 1) : Done(dir["gen"], j)
          /\ PageFile(at.item) \in DOMAIN dir["gen"] /\ dir["gen"][PageFile(at.item)] # Torn
      BY <1>1, <3>1 DEF EditInv
    <3>3. PICK toc : toc = TocOf(dir["gen"])
      OBVIOUS
    <3>4. toc # Torn /\ toc \in Paths
      BY <1>3, <3>1, <3>3 DEF EntryFails, EditInv, Grown, TocGrows
    <3>5. Item \in Items /\ Item = Injector[at.item]
      BY <3>2, InjectorItems DEF Item
    <3>6. Item.parent # "none" => Lists(toc, Item.key) \/ Lists(toc, Item.parent)
      BY <1>3, <3>1, <3>3 DEF EntryFails
    <3>7. ListsMore(toc, Entered, Item.key)
      <4>1. Item.key \in Key
        BY <3>5 DEF Items
      <4> QED
        BY <3>1, <3>3, <3>4, <3>6, <4>1, EntryIsMade DEF Entered
    <3>8. Entered # Torn
      BY <3>7, ManifestAssumption DEF ListsMore
    <3>9. /\ Grown(origin, dir'["gen"]) /\ Done(dir'["gen"], at.item)
          /\ \A j \in DOMAIN Injector : Done(dir["gen"], j) => Done(dir'["gen"], j)
      <4>1. CASE Entered = toc
        <5>1. dir' = dir /\ Lists(toc, Item.key)
          BY <2>1, <3>1, <3>3, <3>7, <4>1 DEF ListsMore
        <5> QED
          BY <3>2, <3>3, <3>4, <3>5, <5>1 DEF EditInv, Done
      <4>2. CASE Entered # toc
        <5>1. dir'["gen"] = Put(dir["gen"], Toc, Entered)
          BY <2>1, <2>3, <3>1, <3>3, <4>2, WrittenIs DEF EditInv
        <5> QED
          BY <3>2, <3>3, <3>4, <3>5, <3>7, <3>8, <5>1, TocIsPut DEF EditInv
      <4> QED
        BY <4>1, <4>2
    <3>10. CASE at.item < Len(Injector)
      <4>1. at' = [at EXCEPT !.item = @ + 1, !.step = "read"] /\ UNCHANGED injected
        BY <2>1, <3>10 DEF NextItem
      <4>2. at'.item = at.item + 1 /\ at'.step = "read" /\ at'.do = at.do /\ at'.where = at.where
        BY <4>1 DEF EditInv, CommandInv
      <4>3. at'.item \in DOMAIN Injector
        BY <3>2, <3>10, <4>2, InjectorItems
      <4>4. ASSUME NEW j \in 1..(at'.item - 1) PROVE Done(dir'["gen"], j)
        <5>1. j \in DOMAIN Injector /\ (j = at.item \/ j \in 1..(at.item - 1))
          BY <3>2, <4>2, <4>3, InjectorItems
        <5> QED
          BY <3>2, <3>9, <5>1
      <4> QED
        BY <1>1, <3>2, <3>9, <4>1, <4>2, <4>3, <4>4 DEF EditInv
    <3>11. CASE ~(at.item < Len(Injector))
      <4>1. at'.do = "idle" /\ injected'
        <5>1. at' = Idle /\ injected' = (injected \/ at.where = "gen")
          BY <2>1, <3>11 DEF NextItem, End
        <5>2. injected'
          BY <2>3, <5>1
        <5> QED
          BY <5>1, <5>2 DEF Idle
      <4>2. ASSUME NEW j \in DOMAIN Injector PROVE Done(dir'["gen"], j)
        <5>1. j = at.item \/ j \in 1..(at.item - 1)
          BY <3>2, <3>11, InjectorItems
        <5> QED
          BY <3>2, <3>9, <5>1
      <4> QED
        BY <1>1, <3>9, <4>1, <4>2 DEF EditInv, AtGen
    <3> QED
      BY <3>10, <3>11
  <2> QED
    BY <2>2, <2>3
<1> QED
  BY <1>2, <1>3

LEMMA KillKeepsEdits ==
  ASSUME EditInv, CommandInv', Kill
  PROVE  EditInv'
<1>1. at' = Idle /\ UNCHANGED <<origin, injected>> /\ at.do # "idle"
  BY DEF Kill, End, EditInv, CommandInv
<1>2. CASE UNCHANGED dir
  BY <1>1, <1>2, ElsewhereKeepsEdits DEF AtGen, Idle
<1>3. ASSUME NEW f \in Target, dir' = [dir EXCEPT ![at.where] = Put(@, f, Torn)]
      PROVE  EditInv'
  <2>1. dir'["gen"] = IF at.where = "gen" THEN Put(dir["gen"], f, Torn) ELSE dir["gen"]
    BY <1>3, WrittenIs DEF EditInv
  <2>2. CASE at.where # "gen"
    BY <1>1, <2>1, <2>2, ElsewhereKeepsEdits DEF AtGen, Idle
  <2>3. CASE at.where = "gen"
    <3>1. AtGen
      BY <1>1, <2>3 DEF AtGen, EditInv, CommandInv
    <3>2. ~injected /\ at.item \in DOMAIN Injector
      BY <3>1 DEF EditInv
    <3>3. f = PageFile(at.item) \/ f = Toc
      BY <1>3, <3>1 DEF Target, AtGen, File, PageFile, Item
    <3>4. Grown(origin, dir'["gen"])
      BY <2>1, <2>3, <3>2, <3>3, PageFiles, PageIsPut, TocIsTorn DEF EditInv
    <3> QED
      BY <1>1, <3>2, <3>4 DEF EditInv, AtGen, Idle
  <2> QED
    BY <2>2, <2>3
<1> QED
  BY <1>2, <1>3 DEF Kill

LEMMA EditStep == RefusalInv /\ RefusalInv' /\ EditInv /\ [Next]_vars => EditInv'
<1> SUFFICES ASSUME RefusalInv, RefusalInv', EditInv, [Next]_vars PROVE EditInv'
  OBVIOUS
<1>1. CommandInv'
  BY DEF RefusalInv
<1>2. CASE UNCHANGED vars
  BY <1>2 DEF vars, EditInv, CommandInv, AtGen
<1>3. ASSUME NEW w \in Origins, StartInjector(w) PROVE EditInv'
  <2>1. /\ at'.do = "inject" /\ at'.where = w /\ at'.item = 1 /\ at'.step = "read"
        /\ UNCHANGED <<dir, origin>> /\ injected' = (injected /\ w # "gen")
    BY <1>3 DEF StartInjector, Begin
  <2>2. CASE w # "gen"
    BY <1>1, <2>1, <2>2, ElsewhereKeepsEdits DEF AtGen
  <2>3. CASE w = "gen"
    <3>1. 1 \in DOMAIN Injector /\ 1..(1 - 1) = {}
      BY InjectorItems
    <3> QED
      BY <1>1, <2>1, <2>3, <3>1 DEF EditInv
  <2> QED
    BY <2>2, <2>3
<1>4. ASSUME NEW w \in Origins, NEW strict, Pack(w, strict) PROVE EditInv'
  <2>1. UNCHANGED <<dir, at, origin, injected>> /\ at.do = "idle"
    BY <1>4 DEF Pack, Idle
  <2> QED
    BY <1>1, <2>1, ElsewhereKeepsEdits DEF AtGen
<1>5. CASE StartUnpack
  <2>1. dir'["gen"] = dir["gen"] /\ UNCHANGED <<origin, injected>> /\ at'.do = "unpack"
    BY <1>5 DEF StartUnpack, Begin, EditInv, CommandInv, Origins
  <2> QED
    BY <1>1, <2>1, ElsewhereKeepsEdits DEF AtGen
<1>6. CASE WriteOut
  <2>1. dir'["gen"] = dir["gen"] /\ UNCHANGED <<origin, injected>>
    BY <1>6 DEF WriteOut, EditInv, CommandInv, Origins
  <2>2. at'.do # "inject"
    BY <1>6 DEF WriteOut, End, Idle
  <2> QED
    BY <1>1, <2>1, <2>2, ElsewhereKeepsEdits DEF AtGen
<1>7. CASE ReadPage
  BY <1>1, <1>7, ReadKeepsEdits
<1>8. CASE WritePage
  BY <1>1, <1>8, WriteKeepsEdits
<1>9. CASE EnterPage
  BY <1>1, <1>9, EnterKeepsEdits
<1>10. CASE Kill
  BY <1>1, <1>10, KillKeepsEdits
<1> QED
  BY <1>2, <1>3, <1>4, <1>5, <1>6, <1>7, <1>8, <1>9, <1>10 DEF Next

LEMMA LintIs ==
  ASSUME NEW d, NEW x
  PROVE  x \in Lint(d) <=> \/ \E p \in PagesOf(d) : x \in p.flaws
                           \/ x = "asset" /\ \E p \in PagesOf(d) : p.figures \ Named(d, "assets") # {}
<1>1. x \in UNION {p.flaws : p \in PagesOf(d)} <=> \E p \in PagesOf(d) : x \in p.flaws
  OBVIOUS
<1> DEFINE lacks == \E p \in PagesOf(d) : p.figures \ Named(d, "assets") # {}
           named == UNION {p.flaws : p \in PagesOf(d)}
<1>2. Lint(d) = named \cup (IF lacks THEN {"asset"} ELSE {})
  BY DEF Lint
<1> HIDE DEF lacks, named
<1>3. x \in Lint(d) <=> x \in named \/ (x = "asset" /\ lacks)
  BY <1>2
<1> QED
  BY <1>1, <1>3 DEF lacks, named

\* A directory that has grown from a bundle fit for a strict pack is fit for one.
LEMMA GrownPacks ==
  ASSUME NEW b \in Bundles, NEW d, Grown(b, d), \A i \in DOMAIN Injector : Done(d, i),
         Check(b, TRUE) = "ok"
  PROVE  Check(d, TRUE) = "ok"
<1>1. /\ ~LayoutFails(b) /\ ~DecodeFails(b) /\ ~TocDangles(b) /\ ~LinkDangles(b) /\ ~HasOrphan(b)
      /\ Lint(b) \cap {"substitution", "sentinel"} = {} /\ "url" \notin Lint(b)
      /\ Lint(b) \cap {"asset", "role", "unimplemented"} = {}
  BY DEF Check
<1>2. /\ Manifest \in DOMAIN b /\ Manifest \in DOMAIN d /\ d[Manifest] = b[Manifest]
      /\ TocOf(d) # Torn /\ TocOf(d) \in Paths
  <2>1. Manifest \notin ItemFiles \cup {Toc}
    BY PageFiles, RankOfFiles
  <2>2. 1 \in DOMAIN Injector
    BY InjectorItems
  <2> QED
    BY <1>1, <2>1, <2>2 DEF LayoutFails, Grown, Done, TocGrows
<1>3. ~LayoutFails(d)
  BY <1>2 DEF LayoutFails
<1>4. ~DecodeFails(d)
  <2>1. ASSUME NEW f \in DOMAIN d PROVE d[f] # Torn
    <3>1. CASE f \in ItemFiles
      BY <2>1, <3>1 DEF Done, ItemFiles
    <3>2. CASE f = Toc
      BY <1>2, <2>1, <3>2 DEF TocOf
    <3>3. CASE f \notin ItemFiles \cup {Toc}
      <4>1. f \in DOMAIN b /\ d[f] = b[f]
        BY <2>1, <3>3 DEF Grown
      <4> QED
        BY <1>1, <4>1 DEF DecodeFails
    <3> QED
      BY <3>1, <3>2, <3>3
  <2> QED
    BY <1>1, <1>2, <2>1 DEF DecodeFails
<1>5. \A k : k \in Docs(b) => k \in Docs(d)
  BY DEF Docs, Named, Grown
<1>6. ~TocDangles(d)
  <2>1. ASSUME NEW p \in Range(TocOf(d)) PROVE Last(p) \in Docs(d)
    <3>1. Lists(TocOf(d), Last(p))
      BY <2>1 DEF Lists
    <3>2. CASE Lists(TocOf(b), Last(p))
      BY <1>1, <1>5, <3>2 DEF TocDangles, Lists
    <3>3. CASE <<"docs", Last(p)>> \in DOMAIN d
      <4>1. PICK f : f = <<"docs", Last(p)>>
        OBVIOUS
      <4>2. Len(f) = 2 /\ f[1] = "docs" /\ f[2] = Last(p) /\ f \in DOMAIN d
        BY <3>3, <4>1
      <4> QED
        BY <4>2 DEF Docs, Named
    <3> QED
      BY <1>2, <3>1, <3>2, <3>3 DEF Grown, TocGrows
  <2> QED
    BY <2>1 DEF TocDangles
\* What a page of the directory says, a page of the bundle has said before it.
<1>7. ASSUME NEW p \in PagesOf(d)
      PROVE  \/ p.flaws = {} /\ p.links = {} /\ p.figures = {}
             \/ \E q \in PagesOf(b) : p.flaws \subseteq q.flaws /\ p.links \subseteq q.links
                                      /\ p.figures \subseteq q.figures
  <2>1. PICK f \in DOMAIN d : Len(f) = 2 /\ f[1] # "assets" /\ p = d[f]
    BY <1>7 DEF PagesOf
  <2>2. CASE f \in ItemFiles
    <3>1. NoWorse(b, p, f)
      BY <2>1, <2>2 DEF Grown, Done, ItemFiles
    <3>2. CASE f \in DOMAIN b
      <4>1. b[f] \in PagesOf(b)
        BY <2>1, <3>2 DEF PagesOf
      <4> QED
        BY <3>1, <3>2, <4>1 DEF NoWorse
    <3>3. CASE f \notin DOMAIN b
      BY <3>1, <3>3 DEF NoWorse, NoPage
    <3> QED
      BY <3>2, <3>3
  <2>3. CASE f \notin ItemFiles
    <3>1. f # Toc
      BY <2>1, TopFiles
    <3>2. f \in DOMAIN b /\ d[f] = b[f]
      BY <2>1, <2>3, <3>1 DEF Grown
    <3>3. p \in PagesOf(b)
      BY <2>1, <3>2 DEF PagesOf
    <3> QED
      BY <3>3
  <2> QED
    BY <2>2, <2>3
<1>8. ~LinkDangles(d)
  <2>1. ASSUME NEW p \in PagesOf(d) PROVE p.links \ Docs(d) = {}
    <3>1. CASE p.links = {}
      BY <3>1
    <3>2. ASSUME NEW q \in PagesOf(b), p.links \subseteq q.links PROVE p.links \ Docs(d) = {}
      <4>1. q.links \ Docs(b) = {}
        BY <1>1, <3>2 DEF LinkDangles
      <4> QED
        BY <1>5, <3>2, <4>1
    <3> QED
      BY <1>7, <2>1, <3>1, <3>2
  <2> QED
    BY <2>1 DEF LinkDangles
<1>9. ~HasOrphan(d)
  <2>1. ASSUME NEW k \in Docs(d) PROVE Lists(TocOf(d), k)
    <3>1. PICK f \in DOMAIN d : Len(f) = 2 /\ f[1] = "docs" /\ k = f[2]
      BY <2>1 DEF Docs, Named
    <3>2. CASE f \in ItemFiles
      <4>1. PICK i \in DOMAIN Injector : f = PageFile(i)
        BY <3>2 DEF ItemFiles
      <4>2. k = Injector[i].key
        BY <3>1, <4>1 DEF PageFile
      <4> QED
        BY <4>1, <4>2 DEF Done
    <3>3. CASE f \notin ItemFiles
      <4>1. f \in DOMAIN b
        BY <3>1, <3>3, TopFiles DEF Grown
      <4>2. k \in Docs(b)
        BY <3>1, <4>1 DEF Docs, Named
      <4>3. Lists(TocOf(b), k)
        BY <1>1, <4>2 DEF HasOrphan
      <4> QED
        BY <1>2, <4>3 DEF Grown, TocGrows
    <3> QED
      BY <3>2, <3>3
  <2> QED
    BY <2>1 DEF HasOrphan
<1>10. Lint(d) \subseteq Lint(b)
  <2>1. \A a : a \in Named(b, "assets") => a \in Named(d, "assets")
    BY DEF Named, Grown
  <2>2. ASSUME NEW x \in Lint(d) PROVE x \in Lint(b)
    <3>1. ASSUME NEW p \in PagesOf(d), x \in p.flaws PROVE x \in Lint(b)
      BY <1>7, <3>1, LintIs
    <3>2. ASSUME NEW p \in PagesOf(d), p.figures \ Named(d, "assets") # {}, x = "asset"
          PROVE  x \in Lint(b)
      <4>1. PICK q \in PagesOf(b) : p.figures \subseteq q.figures
        BY <1>7, <3>2
      <4>2. q.figures \ Named(b, "assets") # {}
        BY <2>1, <3>2, <4>1
      <4> QED
        BY <3>2, <4>2, LintIs
    <3> QED
      BY <2>2, <3>1, <3>2, LintIs
  <2> QED
    BY <2>2
<1> QED
  BY <1>1, <1>3, <1>4, <1>6, <1>8, <1>9, <1>10 DEF Check

(* What gen left fit for a strict pack an injector that came to its end    *)
(* leaves fit for one, whatever runs of it were broken off before and at   *)
(* whichever file: its pages are in the navigation, every entry and every  *)
(* link leads to a page, and no flaw is new (bundle_edit.py).              *)
THEOREM InjectorsKeepBundlesPackable == Spec => []InjectionKeepsPackable
<1>1. Init => RefusalInv /\ EditInv
  BY RefusalInit, EditInit
<1>2. RefusalInv /\ EditInv /\ [Next]_vars => (RefusalInv /\ EditInv)'
  BY RefusalStep, EditStep
<1>3. RefusalInv /\ EditInv => InjectionKeepsPackable
  BY GrownPacks DEF EditInv, InjectionKeepsPackable
<1> QED
  BY <1>1, <1>2, <1>3, PTL DEF Spec

\* Replacing leaves the page with the block, provided the section that is found
\* is of no deeper level.
LEMMA ReplacedIsThere ==
  ASSUME NEW s \in Seq(Section), NEW title, NEW new, IsBlock(title, new),
         \A j \in 1..Len(s) : s[j].title = title /\ (\A i \in 1..(j - 1) : s[i].title # title)
                               => s[j].level <= new[1].level
  PROVE  HasBlock(ReplaceBlock(s, title, new), title, new)
<1>1. Len(s) \in Nat /\ new \in Seq(Section) /\ \A i \in 1..Len(s) : s[i] \in Section
  BY DEF IsBlock
<1>2. CASE \A i \in 1..Len(s) : s[i].title # title
  <2>1. <<>> \in Seq(Section)
    OBVIOUS
  <2>2. PICK r : r = s \o new
    OBVIOUS
  <2>3. r \in Seq(Section)
    BY <1>1, <2>2, ConcatProperties
  <2>4. r = r \o <<>>
    BY <2>3, ConcatEmptySeq
  <2>5. ReplaceBlock(s, title, new) = s \o new \o <<>>
    BY <1>2, <2>2, <2>4, ReplacingCuts
  <2> QED
    BY <1>2, <2>1, <2>5 DEF HasBlock
<1>3. CASE \E i \in 1..Len(s) : s[i].title = title
  <2>1. PICK i \in 1..Len(s) : s[i].title = title
    BY <1>3
  <2>2. PICK start : start = StartOf(s, title)
    OBVIOUS
  <2>3. /\ start \in 1..Len(s) /\ s[start].title = title
        /\ \A j \in 1..(start - 1) : s[j].title # title
    BY <2>1, <2>2, StartIsFirst
  <2>4. PICK end : end = EndOf(s, start)
    OBVIOUS
  <2>5. /\ end \in (start + 1)..(Len(s) + 1)
        /\ end # Len(s) + 1 => s[end].level <= s[start].level
    BY <2>3, <2>4, EndIsNext
  <2>6. PICK a : a = SubSeq(s, 1, start - 1)
    OBVIOUS
  <2>7. PICK z : z = SubSeq(s, end, Len(s))
    OBVIOUS
  <2>8. start \in 1..(Len(s) + 1) /\ end \in 1..(Len(s) + 1)
    BY <1>1, <2>3, <2>5
  <2>9. /\ a \in Seq(Section) /\ Len(a) = start - 1 /\ \A k \in 1..(start - 1) : a[k] = s[k]
        /\ z \in Seq(Section) /\ Len(z) = Len(s) - end + 1
        /\ \A k \in 1..(Len(s) - end + 1) : z[k] = s[end + k - 1]
    BY <2>6, <2>7, <2>8, CutSections
  <2>10. ReplaceBlock(s, title, new) = a \o new \o z
    BY <1>3, <2>2, <2>4, <2>6, <2>7, ReplacingCuts
  <2>11. \A k \in 1..Len(a) : a[k].title # title
    BY <2>3, <2>9
  <2>12. ASSUME z # <<>> PROVE z[1].level <= new[1].level
    <3>1. Len(z) \in Nat /\ Len(z) # 0
      BY <2>9, <2>12, EmptySeq
    <3>2. end # Len(s) + 1 /\ 1 \in 1..(Len(s) - end + 1) /\ end + 1 - 1 = end /\ end \in 1..Len(s)
      <4>1. end \in Nat /\ end >= 1 /\ end <= Len(s) + 1 /\ Len(s) - end + 1 # 0
        BY <1>1, <2>8, <2>9, <3>1
      <4>2. end # Len(s) + 1 /\ Len(s) - end + 1 \in Nat \ {0} /\ end + 1 - 1 = end
        BY <1>1, <4>1
      <4>3. 1 \in 1..(Len(s) - end + 1) /\ end \in 1..Len(s)
        BY <1>1, <4>1, <4>2
      <4> QED
        BY <4>2, <4>3
    <3>3. z[1] = s[end]
      BY <2>9, <3>2
    <3>4. 1 \in 1..Len(new)
      <4>1. Len(new) \in Nat \ {0}
        BY EmptySeq DEF IsBlock
      <4> QED
        BY <4>1
    <3>5. new[1].level \in Nat /\ s[end].level \in Nat /\ s[start].level \in Nat
      BY <1>1, <2>3, <3>2, <3>4, LevelsAreNumbers, ElementOfSeq
    <3>6. s[start].level <= new[1].level
      BY <2>3
    <3> QED
      BY <2>5, <3>2, <3>3, <3>5, <3>6
  <2> QED
    BY <2>9, <2>10, <2>11, <2>12 DEF HasBlock
<1> QED
  BY <1>2, <1>3

\* A second run finds the block where the first has left it.
LEMMA BlockStays ==
  ASSUME NEW s, NEW title, NEW new, IsBlock(title, new), HasBlock(s, title, new)
  PROVE  s \in Seq(Section) /\ ReplaceBlock(s, title, new) = s
<1>1. PICK a \in Seq(Section), z \in Seq(Section) :
        /\ s = a \o new \o z
        /\ \A i \in 1..Len(a) : a[i].title # title
        /\ z # <<>> => z[1].level <= new[1].level
  BY DEF HasBlock
<1>2. new \in Seq(Section) /\ Len(new) \in Nat \ {0} /\ new[1].title = title
      /\ \A j \in 2..Len(new) : new[j].level > new[1].level
  BY EmptySeq DEF IsBlock
<1>3. /\ s \in Seq(Section) /\ Len(s) = Len(a) + Len(new) + Len(z)
      /\ Len(a) \in Nat /\ Len(z) \in Nat
      /\ \A i \in 1..Len(a) : s[i] = a[i]
      /\ \A i \in 1..Len(new) : s[Len(a) + i] = new[i]
      /\ \A i \in 1..Len(z) : s[Len(a) + Len(new) + i] = z[i]
  BY <1>1, <1>2, JoinedSections
<1>4. PICK here : here = Len(a) + 1
  OBVIOUS
<1>5. here \in 1..Len(s) /\ s[here] = new[1]
  BY <1>2, <1>3, <1>4
<1>6. PICK start : start = StartOf(s, title)
  OBVIOUS
<1>7. start = here
  <2>0. s[here].title = title /\ here \in 1..Len(s) /\ s \in Seq(Section)
    BY <1>2, <1>3, <1>5
  <2>1. /\ start \in 1..Len(s) /\ s[start].title = title
        /\ \A j \in 1..(start - 1) : s[j].title # title
    BY <2>0, <1>6, StartIsFirst
  <2>2. start \notin 1..Len(a)
    BY <1>1, <1>3, <2>1
  <2>3. here \notin 1..(start - 1)
    BY <1>2, <1>5, <2>1
  <2> QED
    BY <1>3, <1>4, <1>5, <2>1, <2>2, <2>3
<1>8. PICK end : end = EndOf(s, start)
  OBVIOUS
<1>9. end = Len(a) + Len(new) + 1
  <2>1. /\ end \in (start + 1)..(Len(s) + 1)
        /\ end # Len(s) + 1 => s[end].level <= s[start].level
        /\ \A j \in (start + 1)..(end - 1) : ~(s[j].level <= s[start].level)
    BY <1>3, <1>5, <1>7, <1>8, EndIsNext
  <2>2. ASSUME end < Len(a) + Len(new) + 1 PROVE FALSE
    <3>1. PICK j : j = end - Len(a)
      OBVIOUS
    <3>2. j \in 2..Len(new) /\ end = Len(a) + j /\ j \in 1..Len(new) /\ end # Len(s) + 1
      BY <1>2, <1>3, <1>4, <1>7, <2>1, <2>2, <3>1
    <3>3. s[end] = new[j] /\ s[end].level <= new[1].level
      BY <1>3, <1>5, <1>7, <2>1, <3>2
    <3>4. new[j].level > new[1].level /\ new[j].level \in Nat /\ new[1].level \in Nat
      BY <1>2, <3>2, LevelsAreNumbers, ElementOfSeq
    <3> QED
      BY <3>3, <3>4
  <2>3. ASSUME end > Len(a) + Len(new) + 1 PROVE FALSE
    <3>1. /\ Len(z) # 0 /\ 1 \in 1..Len(z)
          /\ Len(a) + Len(new) + 1 \in (start + 1)..(end - 1)
      BY <1>2, <1>3, <1>4, <1>7, <2>1, <2>3
    <3>2. s[Len(a) + Len(new) + 1] = z[1]
      BY <1>3, <3>1
    <3>3. z # <<>>
      BY <3>1, EmptySeq
    <3> QED
      BY <1>1, <1>5, <1>7, <2>1, <3>1, <3>2, <3>3
  <2>4. end \in Nat /\ Len(a) + Len(new) + 1 \in Nat
    BY <1>2, <1>3, <1>5, <1>7, <2>1
  <2> QED
    BY <2>2, <2>3, <2>4
<1>10. SubSeq(s, 1, start - 1) = a
  <2>1. start \in 1..(Len(s) + 1)
    BY <1>3, <1>5, <1>7
  <2>2. /\ SubSeq(s, 1, start - 1) \in Seq(Section) /\ Len(SubSeq(s, 1, start - 1)) = start - 1
        /\ \A k \in 1..(start - 1) : SubSeq(s, 1, start - 1)[k] = s[k]
    BY <1>3, <2>1, CutSections
  <2>3. PICK c : c = SubSeq(s, 1, start - 1)
    OBVIOUS
  <2>4. c \in Seq(Section) /\ Len(c) = Len(a) /\ \A k \in 1..Len(c) : c[k] = a[k]
    BY <1>3, <1>4, <1>7, <2>2, <2>3
  <2> QED
    BY <2>3, <2>4, SeqEqual
<1>11. SubSeq(s, end, Len(s)) = z
  <2>1. end \in 1..(Len(s) + 1)
    BY <1>2, <1>3, <1>9
  <2>2. /\ SubSeq(s, end, Len(s)) \in Seq(Section) /\ Len(SubSeq(s, end, Len(s))) = Len(s) - end + 1
        /\ \A k \in 1..(Len(s) - end + 1) : SubSeq(s, end, Len(s))[k] = s[end + k - 1]
    BY <1>3, <2>1, CutSections
  <2>3. PICK c : c = SubSeq(s, end, Len(s))
    OBVIOUS
  <2>4. Len(s) - end + 1 = Len(z)
    BY <1>2, <1>3, <1>9
  <2>5. ASSUME NEW k \in 1..Len(z) PROVE c[k] = z[k]
    <3>1. end + k - 1 = Len(a) + Len(new) + k
      BY <1>2, <1>3, <1>9
    <3> QED
      BY <1>3, <2>2, <2>3, <2>4, <3>1
  <2>6. c \in Seq(Section) /\ Len(c) = Len(z) /\ \A k \in 1..Len(c) : c[k] = z[k]
    BY <2>2, <2>3, <2>4, <2>5
  <2> QED
    BY <2>3, <2>6, SeqEqual
<1>12. ~\A i \in 1..Len(s) : s[i].title # title
  BY <1>2, <1>5
<1>13. ReplaceBlock(s, title, new) = SubSeq(s, 1, start - 1) \o new \o SubSeq(s, end, Len(s))
  BY <1>3, <1>6, <1>8, <1>12, ReplacingCuts
<1>14. ReplaceBlock(s, title, new) = a \o new \o z
  BY <1>10, <1>11, <1>13
<1> QED
  BY <1>1, <1>3, <1>14

-----------------------------------------------------------------------------
(* Injectors may be run again                                               *)

\* The conditions: an injector patches a page with one block, the block is one
\* that can be found again, and the heading it takes the place of in what gen
\* wrote, if it is there, is of no deeper level.
OneBlockAPage == \A i, j \in DOMAIN Injector : Injector[i].key = Injector[j].key => i = j

BlocksAreHeaded ==
  \A i \in DOMAIN Injector : Injector[i].patch => IsBlock(Injector[i].title, Injector[i].sections)

BlocksFitIn ==
  \A b \in Bundles : \A i \in DOMAIN Injector :
    Injector[i].patch /\ PageFile(i) \in DOMAIN b =>
      LET s == b[PageFile(i)].sections
      IN  \A j \in 1..Len(s) :
            s[j].title = Injector[i].title /\ (\A k \in 1..(j - 1) : s[k].title # Injector[i].title)
              => s[j].level <= Injector[i].sections[1].level

\* The page that an item makes of a bundle's.
NewPage(b, i) ==
  IF Injector[i].patch
    THEN [b[PageFile(i)] EXCEPT
            !.sections = ReplaceBlock(@, Injector[i].title, Injector[i].sections)]
    ELSE [NoPage EXCEPT !.sections = Injector[i].sections]

\* A patched page was in the bundle.
Patched(b, i) == Injector[i].patch => PageFile(i) \in DOMAIN b

LEMMA NewPages ==
  ASSUME NEW b \in Bundles, NEW i \in DOMAIN Injector, Patched(b, i)
  PROVE  NewPage(b, i) \in Page /\ NewPage(b, i) # Torn
<1>1. Injector[i] \in Items /\ Injector[i].sections \in Seq(Section)
  BY InjectorItems DEF Items
<1>2. CASE ~Injector[i].patch
  <2>1. NewPage(b, i) = [NoPage EXCEPT !.sections = Injector[i].sections]
    BY <1>2 DEF NewPage
  <2>2. NewPage(b, i) \in Page
    BY <1>1, <2>1 DEF NoPage, Page
  <2> QED
    BY <2>2, ManifestAssumption
<1>3. CASE Injector[i].patch
  <2>1. PICK p : p = b[PageFile(i)]
    OBVIOUS
  <2>2. p \in Page /\ p.sections \in Seq(Section)
    <3>1. PageFile(i) \in DOMAIN b /\ PageFile(i)[1] = "docs"
      BY <1>3 DEF Patched, PageFile
    <3>2. p \in Page
      BY <2>1, <3>1, BundleAssumption
    <3> QED
      BY <3>2 DEF Page
  <2>3. PICK r : r = ReplaceBlock(p.sections, Injector[i].title, Injector[i].sections)
    OBVIOUS
  <2>4. r \in Seq(Section)
    BY <1>1, <2>2, <2>3, ReplacedSections
  <2>5. NewPage(b, i) = [p EXCEPT !.sections = r]
    BY <1>3, <2>1, <2>3 DEF NewPage
  <2>6. NewPage(b, i) \in Page
    BY <2>2, <2>4, <2>5 DEF Page
  <2> QED
    BY <2>6, ManifestAssumption
<1> QED
  BY <1>2, <1>3

\* A page that has its block is left as it is.
LEMMA NewPageStays ==
  ASSUME BlocksAreHeaded, BlocksFitIn,
         NEW b \in Bundles, NEW i \in DOMAIN Injector, Injector[i].patch, Patched(b, i)
  PROVE  [NewPage(b, i) EXCEPT
            !.sections = ReplaceBlock(@, Injector[i].title, Injector[i].sections)] = NewPage(b, i)
<1>1. PICK p : p = b[PageFile(i)]
  OBVIOUS
<1>2. PICK title : title = Injector[i].title
  OBVIOUS
<1>3. PICK new : new = Injector[i].sections
  OBVIOUS
<1>4. PICK s : s = p.sections
  OBVIOUS
<1>5. p \in Page /\ s \in Seq(Section)
  <2>1. PageFile(i) \in DOMAIN b /\ PageFile(i)[1] = "docs"
    BY DEF Patched, PageFile
  <2>2. p \in Page
    BY <1>1, <2>1, BundleAssumption
  <2> QED
    BY <1>4, <2>2 DEF Page
<1>6. IsBlock(title, new)
  BY <1>2, <1>3 DEF BlocksAreHeaded
<1>7. \A j \in 1..Len(s) : s[j].title = title /\ (\A k \in 1..(j - 1) : s[k].title # title)
                             => s[j].level <= new[1].level
  BY <1>1, <1>2, <1>3, <1>4 DEF BlocksFitIn, Patched
<1>8. PICK r : r = ReplaceBlock(s, title, new)
  OBVIOUS
<1>9. HasBlock(r, title, new)
  BY <1>5, <1>6, <1>7, <1>8, ReplacedIsThere
<1>10. ReplaceBlock(r, title, new) = r
  BY <1>6, <1>9, BlockStays
<1>11. NewPage(b, i) = [p EXCEPT !.sections = r]
  BY <1>1, <1>2, <1>3, <1>4, <1>8 DEF NewPage
<1>12. PICK q : q = NewPage(b, i)
  OBVIOUS
<1>13. q \in [{"sections", "flaws", "links", "figures"} -> {q.sections, q.flaws, q.links, q.figures}]
       /\ q.sections = r
  BY <1>5, <1>11, <1>12 DEF Page
<1>14. [q EXCEPT !.sections = ReplaceBlock(q.sections, title, new)] = q
  BY <1>10, <1>13
<1> QED
  BY <1>2, <1>3, <1>12, <1>14

\* A set of numbers that holds 0 and with each number the next holds all up to n.
LEMMA UpToAll ==
  ASSUME NEW n \in Nat, NEW T, 0 \in T, \A j \in 0..n : j < n /\ j \in T => j + 1 \in T
  PROVE  \A j \in 0..n : j \in T
<1> DEFINE U == {j \in 0..n : j \notin T}
<1> SUFFICES ASSUME U # {} PROVE FALSE
  OBVIOUS
<1>1. U \subseteq Nat
  OBVIOUS
<1>2. PICK k \in U : \A j \in U : k <= j
  <2> HIDE DEF U
  <2> QED
    BY <1>1, LeastOf
<1>3. k \in 1..n /\ k \notin T
  OBVIOUS
<1>4. k - 1 \in 0..n /\ k - 1 < n /\ (k - 1) + 1 = k /\ ~(k <= k - 1)
  BY <1>3
<1>5. k - 1 \in T
  BY <1>2, <1>4
<1> QED
  BY <1>3, <1>4, <1>5

\* f[k] is the directory after the first k items, up to n.
Stages(f, b, n) == \A k \in 0..n : f[k] = IF k = 0 THEN b ELSE EditedBy(Injector[k], f[k - 1])

LEMMA SomeStages ==
  ASSUME NEW b, NEW n \in Nat
  PROVE  \E f : Stages(f, b, n)
<1> DEFINE T == {m \in Nat : \E f : Stages(f, b, m)}
<1>1. 0 \in T
  <2>1. Stages([k \in {0} |-> b], b, 0)
    BY DEF Stages
  <2> QED
    BY <2>1
<1>2. ASSUME NEW j \in 0..n, j < n, j \in T PROVE j + 1 \in T
  <2>1. PICK f : Stages(f, b, j)
    BY <1>2
  <2>2. PICK d : d = EditedBy(Injector[j + 1], f[j])
    OBVIOUS
  <2> DEFINE g == [k \in 0..(j + 1) |-> IF k = j + 1 THEN d ELSE f[k]]
  <2>3. ASSUME NEW k \in 0..(j + 1)
        PROVE  g[k] = IF k = 0 THEN b ELSE EditedBy(Injector[k], g[k - 1])
    <3>1. CASE k = j + 1
      <4>1. g[k] = d /\ k # 0 /\ k - 1 = j /\ g[j] = f[j]
        BY <3>1
      <4> HIDE DEF g
      <4> QED
        BY <2>2, <3>1, <4>1
    <3>2. CASE k # j + 1
      <4>1. k \in 0..j /\ g[k] = f[k] /\ (k # 0 => g[k - 1] = f[k - 1])
        BY <3>2
      <4>2. f[k] = IF k = 0 THEN b ELSE EditedBy(Injector[k], f[k - 1])
        BY <2>1, <4>1 DEF Stages
      <4> HIDE DEF g
      <4> QED
        BY <4>1, <4>2
    <3> QED
      BY <3>1, <3>2
  <2> HIDE DEF g
  <2>4. Stages(g, b, j + 1)
    BY <2>3 DEF Stages
  <2>5. j + 1 \in Nat
    OBVIOUS
  <2> QED
    BY <2>4, <2>5
<1>3. n \in T
  <2> HIDE DEF T
  <2>1. n \in 0..n
    OBVIOUS
  <2> QED
    BY <1>1, <1>2, <2>1, UpToAll
<1> QED
  BY <1>3

\* An undisturbed run goes through the items in turn.
LEMMA EditedInStages ==
  ASSUME NEW b
  PROVE  \E f : Stages(f, b, Len(Injector)) /\ Edited(b) = f[Len(Injector)]
<1> DEFINE R(f) == [n \in 0..Len(Injector) |-> IF n = 0 THEN b ELSE EditedBy(Injector[n], f[n - 1])]
           F == CHOOSE f : f = R(f)
<1>1. PICK g : Stages(g, b, Len(Injector))
  <2>1. PICK n \in Nat : n = Len(Injector)
    BY InjectorItems
  <2> QED
    BY SMTT(30), <2>1, SomeStages
<1>2. PICK h : h = [k \in 0..Len(Injector) |-> g[k]]
  OBVIOUS
<1>3. ASSUME NEW k \in 0..Len(Injector)
      PROVE  h[k] = IF k = 0 THEN b ELSE EditedBy(Injector[k], h[k - 1])
  <2>1. h[k] = g[k] /\ (k # 0 => k - 1 \in 0..Len(Injector) /\ h[k - 1] = g[k - 1])
    BY <1>2, InjectorItems
  <2> QED
    BY <1>1, <2>1 DEF Stages
<1>4. h = R(h)
  BY <1>2, <1>3
<1>5. F = R(F)
  <2> HIDE DEF R
  <2> QED
    BY <1>4
<1>6. Edited(b) = F[Len(Injector)]
  BY DEF Edited
<1>7. Stages(F, b, Len(Injector))
  <2> HIDE DEF F
  <2> QED
    BY <1>5 DEF Stages
<1> QED
  BY <1>6, <1>7

\* After j items: their pages are the new ones, all else but the toc is as it was.
IsStage(b, d, j) ==
  /\ d = [f \in DOMAIN d |-> d[f]]
  /\ DOMAIN d = DOMAIN b \cup {PageFile(i) : i \in 1..j} \cup (IF j = 0 THEN {} ELSE {Toc})
  /\ \A i \in 1..j : d[PageFile(i)] = NewPage(b, i)
  /\ \A f \in DOMAIN b \ ({PageFile(i) : i \in 1..j} \cup {Toc}) : d[f] = b[f]

LEMMA StageFollows ==
  ASSUME OneBlockAPage, NEW b, NEW d, NEW j \in 0..Len(Injector), j < Len(Injector),
         Patched(b, j + 1), IsStage(b, d, j)
  PROVE  IsStage(b, EditedBy(Injector[j + 1], d), j + 1)
<1>1. /\ j \in Nat /\ j + 1 \in DOMAIN Injector /\ 1..j \subseteq DOMAIN Injector
      /\ \A i \in 1..(j + 1) : i = j + 1 \/ i \in 1..j
      /\ \A i \in 1..j : i # j + 1 /\ i \in 1..(j + 1)
      /\ j + 1 \in 1..(j + 1) /\ j + 1 # 0
  BY InjectorItems
<1>2. PICK k : k = PageFile(j + 1)
  OBVIOUS
<1>3. /\ k # Toc /\ k = <<"docs", Injector[j + 1].key>>
      /\ \A i \in 1..j : PageFile(i) # k /\ PageFile(i) # Toc
  <2>1. \A i \in 1..j : PageFile(i) # k
    BY <1>1, <1>2 DEF OneBlockAPage, PageFile
  <2> QED
    BY <1>1, <1>2, <2>1, PageFiles DEF PageFile
<1>4. PICK p : p = IF Injector[j + 1].patch
                     THEN [d[k] EXCEPT !.sections =
                             ReplaceBlock(@, Injector[j + 1].title, Injector[j + 1].sections)]
                     ELSE [NoPage EXCEPT !.sections = Injector[j + 1].sections]
  OBVIOUS
<1>5. p = NewPage(b, j + 1)
  <2>1. Injector[j + 1].patch => k \in DOMAIN b /\ d[k] = b[k]
    BY <1>2, <1>3 DEF Patched, IsStage
  <2> QED
    BY <1>2, <1>4, <2>1 DEF NewPage
<1>6. PICK toc : toc = AddEntry(TocOf(d), Injector[j + 1].key, Injector[j + 1].parent)
  OBVIOUS
<1>7. PICK e : e = EditedBy(Injector[j + 1], d)
  OBVIOUS
<1>8. e = Put(Put(d, k, p), Toc, toc)
  BY <1>3, <1>4, <1>6, <1>7 DEF EditedBy
<1>9. /\ DOMAIN e = DOMAIN d \cup {k, Toc} /\ e = [f \in DOMAIN e |-> e[f]]
      /\ e[k] = p /\ \A f \in DOMAIN d : f # k /\ f # Toc => e[f] = d[f]
  <2>1. PICK c : c = Put(d, k, p)
    OBVIOUS
  <2>2. DOMAIN c = DOMAIN d \cup {k} /\ c[k] = p /\ \A f \in DOMAIN d : f # k => c[f] = d[f]
    BY <2>1 DEF Put
  <2>3. /\ DOMAIN e = DOMAIN c \cup {Toc} /\ \A f \in DOMAIN c : f # Toc => e[f] = c[f]
        /\ e = [f \in DOMAIN e |-> e[f]]
    BY <1>8, <2>1 DEF Put
  <2> QED
    BY <1>3, <2>2, <2>3
<1>10. {PageFile(i) : i \in 1..(j + 1)} = {PageFile(i) : i \in 1..j} \cup {k}
  BY <1>1, <1>2
<1>11. DOMAIN e = DOMAIN b \cup {PageFile(i) : i \in 1..(j + 1)} \cup {Toc}
  BY <1>9, <1>10 DEF IsStage
<1>12. ASSUME NEW i \in 1..(j + 1) PROVE e[PageFile(i)] = NewPage(b, i)
  <2>1. CASE i = j + 1
    BY <1>2, <1>5, <1>9, <2>1
  <2>2. CASE i # j + 1
    <3>1. i \in 1..j /\ PageFile(i) \in DOMAIN d /\ d[PageFile(i)] = NewPage(b, i)
      BY <1>1, <2>2 DEF IsStage
    <3> QED
      BY <1>3, <1>9, <3>1
  <2> QED
    BY <2>1, <2>2
<1>13. ASSUME NEW f \in DOMAIN b \ ({PageFile(i) : i \in 1..(j + 1)} \cup {Toc})
       PROVE  e[f] = b[f]
  <2>1. f \notin {PageFile(i) : i \in 1..j} /\ f # k /\ f # Toc
    BY <1>10
  <2>2. f \in DOMAIN d /\ d[f] = b[f]
    BY <2>1 DEF IsStage
  <2> QED
    BY <1>9, <2>1, <2>2
<1>14. DOMAIN e = DOMAIN b \cup {PageFile(i) : i \in 1..(j + 1)} \cup (IF j + 1 = 0 THEN {} ELSE {Toc})
  BY <1>1, <1>11
<1> QED
  BY <1>7, <1>9, <1>12, <1>13, <1>14 DEF IsStage

LEMMA StagesAre ==
  ASSUME OneBlockAPage, NEW b, b = [f \in DOMAIN b |-> b[f]],
         \A i \in DOMAIN Injector : Patched(b, i), NEW F, Stages(F, b, Len(Injector))
  PROVE  \A j \in 0..Len(Injector) : IsStage(b, F[j], j)
<1>1. PICK n \in Nat : n = Len(Injector)
  BY InjectorItems
<1> DEFINE T == {j \in 0..n : IsStage(b, F[j], j)}
<1>2. 0 \in T
  <2>1. 0 \in 0..n /\ 1..0 = {}
    BY <1>1
  <2>2. F[0] = b
    BY <1>1, <2>1 DEF Stages
  <2>3. {PageFile(i) : i \in 1..0} = {}
    BY <2>1
  <2>4. IsStage(b, b, 0)
    BY <2>1, <2>3 DEF IsStage
  <2> QED
    BY <2>1, <2>2, <2>4
<1>3. ASSUME NEW j \in 0..n, j < n, j \in T PROVE j + 1 \in T
  <2>1. j + 1 \in 0..n /\ j + 1 # 0 /\ (j + 1) - 1 = j /\ j + 1 \in DOMAIN Injector
    BY <1>1, <1>3, InjectorItems
  <2>2. F[j + 1] = EditedBy(Injector[j + 1], F[j])
    BY <1>1, <2>1 DEF Stages
  <2>3. IsStage(b, F[j], j) /\ Patched(b, j + 1)
    BY <1>3, <2>1
  <2>4. IsStage(b, EditedBy(Injector[j + 1], F[j]), j + 1)
    BY <1>1, <1>3, <2>3, StageFollows
  <2> QED
    BY <2>1, <2>2, <2>4
<1> HIDE DEF T
<1>4. \A j \in 0..n : j \in T
  BY <1>2, <1>3, UpToAll
<1> QED
  BY <1>1, <1>4 DEF T

LEMMA StageTocs ==
  ASSUME NEW b, NEW F, Stages(F, b, Len(Injector)), NEW i \in DOMAIN Injector
  PROVE  TocOf(F[i]) = AddEntry(TocOf(F[i - 1]), Injector[i].key, Injector[i].parent)
<1>1. i \in 0..Len(Injector) /\ i # 0
  BY InjectorItems
<1>2. F[i] = EditedBy(Injector[i], F[i - 1])
  BY <1>1 DEF Stages
<1>3. PICK d : d = F[i - 1]
  OBVIOUS
<1>4. PICK c, toc : F[i] = Put(c, Toc, toc) /\ toc = AddEntry(TocOf(d), Injector[i].key, Injector[i].parent)
  BY <1>2, <1>3 DEF EditedBy
<1>5. TocOf(F[i]) = toc
  BY <1>4 DEF TocOf, Put
<1> QED
  BY <1>3, <1>4, <1>5

StagesOf(b) == CHOOSE f : Stages(f, b, Len(Injector)) /\ Edited(b) = f[Len(Injector)]

\* The toc has come to be that of a stage, and lists the pages of the items before.
TocAt(b, d, j) ==
  /\ TocOf(d) = TocOf(StagesOf(b)[j])
  /\ \A i \in 1..j : Lists(TocOf(d), Injector[i].key)

TocReaches(b, d, n) == TocOf(d) # Torn => \E j \in n..Len(Injector) : TocAt(b, d, j)

\* A page of an item is as gen left it, as the item makes it, or torn.
PagesKnown(b, d) ==
  /\ d = [f \in DOMAIN d |-> d[f]]
  /\ \A i \in DOMAIN Injector : PageFile(i) \in DOMAIN d =>
       /\ Patched(b, i)
       /\ \/ d[PageFile(i)] \in {Torn, NewPage(b, i)}
          \/ PageFile(i) \in DOMAIN b /\ d[PageFile(i)] = b[PageFile(i)]

RerunInv ==
  /\ PagesKnown(origin, dir["gen"])
  /\ TocReaches(origin, dir["gen"], IF AtGen THEN at.item - 1 ELSE IF injected THEN Len(Injector) ELSE 0)
  /\ AtGen => \A j \in 1..(at.item - 1) : dir["gen"][PageFile(j)] = NewPage(origin, j)
  /\ AtGen /\ at.step = "write" => Patched(origin, at.item) /\ draft = NewPage(origin, at.item)
  /\ AtGen /\ at.step = "enter" => dir["gen"][PageFile(at.item)] = NewPage(origin, at.item)
  /\ injected => \A j \in DOMAIN Injector : dir["gen"][PageFile(j)] = NewPage(origin, j)

LEMMA StagesOfIs ==
  ASSUME NEW b
  PROVE  Stages(StagesOf(b), b, Len(Injector)) /\ Edited(b) = StagesOf(b)[Len(Injector)]
BY EditedInStages DEF StagesOf

\* What is known of a later stage is known of an earlier one.
LEMMA ReachesLess ==
  ASSUME NEW b, NEW d, NEW n \in Nat, NEW m \in Nat, m <= n, TocReaches(b, d, n)
  PROVE  TocReaches(b, d, m)
<1>1. \A j \in n..Len(Injector) : j \in m..Len(Injector)
  BY InjectorItems
<1> QED
  BY <1>1 DEF TocReaches

LEMMA PageIsKnown ==
  ASSUME OneBlockAPage, NEW b, NEW d, PagesKnown(b, d), NEW i \in DOMAIN Injector, Patched(b, i),
         NEW x \in {Torn, NewPage(b, i)}
  PROVE  LET e == Put(d, PageFile(i), x)
         IN  /\ PagesKnown(b, e) /\ TocOf(e) = TocOf(d) /\ e[PageFile(i)] = x
             /\ \A j \in DOMAIN Injector : j # i => e[PageFile(j)] = d[PageFile(j)] \/ PageFile(j) \notin DOMAIN d
<1>1. PICK e : e = Put(d, PageFile(i), x)
  OBVIOUS
<1>2. /\ DOMAIN e = DOMAIN d \cup {PageFile(i)} /\ e[PageFile(i)] = x
      /\ e = [f \in DOMAIN e |-> e[f]]
      /\ \A f \in DOMAIN d : f # PageFile(i) => e[f] = d[f]
  BY <1>1 DEF Put
<1>3. \A j \in DOMAIN Injector : j # i => PageFile(j) # PageFile(i)
  BY DEF OneBlockAPage, PageFile
<1>4. PagesKnown(b, e)
  <2>1. ASSUME NEW j \in DOMAIN Injector, PageFile(j) \in DOMAIN e
        PROVE  /\ Patched(b, j)
               /\ \/ e[PageFile(j)] \in {Torn, NewPage(b, j)}
                  \/ PageFile(j) \in DOMAIN b /\ e[PageFile(j)] = b[PageFile(j)]
    <3>1. CASE j = i
      BY <1>2, <3>1
    <3>2. CASE j # i
      <4>1. PageFile(j) \in DOMAIN d /\ e[PageFile(j)] = d[PageFile(j)]
        BY <1>2, <1>3, <2>1, <3>2
      <4> QED
        BY <4>1 DEF PagesKnown
    <3> QED
      BY <3>1, <3>2
  <2> QED
    BY <1>2, <2>1 DEF PagesKnown
<1>5. TocOf(e) = TocOf(d)
  BY <1>2, PageFiles DEF TocOf
<1> QED
  BY <1>1, <1>2, <1>3, <1>4, <1>5

LEMMA TocLeavesPages ==
  ASSUME NEW b, NEW d, PagesKnown(b, d), NEW toc
  PROVE  LET e == Put(d, Toc, toc)
         IN  /\ PagesKnown(b, e) /\ TocOf(e) = toc
             /\ \A j \in DOMAIN Injector : e[PageFile(j)] = d[PageFile(j)] \/ PageFile(j) \notin DOMAIN d
<1>1. PICK e : e = Put(d, Toc, toc)
  OBVIOUS
<1>2. /\ DOMAIN e = DOMAIN d \cup {Toc} /\ e[Toc] = toc
      /\ e = [f \in DOMAIN e |-> e[f]]
      /\ \A f \in DOMAIN d : f # Toc => e[f] = d[f]
  BY <1>1 DEF Put
<1>3. \A j \in DOMAIN Injector : PageFile(j) # Toc
  BY PageFiles
<1>4. ASSUME NEW j \in DOMAIN Injector, PageFile(j) \in DOMAIN e
      PROVE  PageFile(j) \in DOMAIN d /\ e[PageFile(j)] = d[PageFile(j)]
  BY <1>2, <1>3, <1>4
<1>5. PagesKnown(b, e)
  BY <1>2, <1>4 DEF PagesKnown
<1>6. TocOf(e) = toc
  BY <1>2 DEF TocOf
<1>7. \A j \in DOMAIN Injector : e[PageFile(j)] = d[PageFile(j)] \/ PageFile(j) \notin DOMAIN d
  BY <1>2, <1>3
<1> QED
  BY <1>1, <1>5, <1>6, <1>7

\* Entering the page of an item takes the toc to the item's stage, or finds it beyond.
LEMMA EntryReaches ==
  ASSUME NEW b, NEW d, NEW i \in DOMAIN Injector, TocOf(d) # Torn, TocReaches(b, d, i - 1),
         NEW toc, toc = AddEntry(TocOf(d), Injector[i].key, Injector[i].parent),
         ListsMore(TocOf(d), toc, Injector[i].key), NEW e, TocOf(e) = toc
  PROVE  TocReaches(b, e, i)
<1>1. PICK j \in (i - 1)..Len(Injector) : TocAt(b, d, j)
  BY DEF TocReaches
<1>2. i \in Nat /\ i <= Len(Injector) /\ Len(Injector) \in Nat /\ 1 <= i
  BY InjectorItems
<1>3. CASE j = i - 1
  <2>1. toc = TocOf(StagesOf(b)[i])
    BY <1>1, <1>3, StageTocs, StagesOfIs DEF TocAt
  <2>2. ASSUME NEW k \in 1..i PROVE Lists(toc, Injector[k].key)
    <3>1. k = i \/ k \in 1..(i - 1)
      BY <1>2
    <3> QED
      BY <1>1, <1>3, <3>1 DEF TocAt, ListsMore
  <2>3. TocAt(b, e, i) /\ i \in i..Len(Injector)
    BY <1>2, <2>1, <2>2 DEF TocAt
  <2> QED
    BY <2>3 DEF TocReaches
<1>4. CASE j # i - 1
  <2>1. j \in i..Len(Injector) /\ i \in 1..j
    BY <1>1, <1>2, <1>4
  <2>2. toc = TocOf(d)
    BY <1>1, <2>1 DEF TocAt, AddEntry
  <2>3. TocAt(b, e, j)
    BY <1>1, <2>2 DEF TocAt
  <2> QED
    BY <2>1, <2>3 DEF TocReaches
<1> QED
  BY <1>3, <1>4

LEMMA RerunInit == Init => RerunInv
<1> SUFFICES ASSUME Init PROVE RerunInv
  OBVIOUS
<1>1. origin \in Bundles /\ dir["gen"] = origin /\ at.do = "idle" /\ ~injected
  BY DEF Init, Idle
<1>2. PagesKnown(origin, origin)
  BY <1>1, BundleAssumption DEF PagesKnown, Patched
<1>3. TocReaches(origin, origin, 0)
  <2>1. 0 \in 0..Len(Injector) /\ 1..0 = {}
    BY InjectorItems
  <2>2. StagesOf(origin)[0] = origin
    BY <2>1, StagesOfIs DEF Stages
  <2>3. TocAt(origin, origin, 0)
    BY <2>1, <2>2 DEF TocAt
  <2> QED
    BY <2>1, <2>3 DEF TocReaches
<1> QED
  BY <1>1, <1>2, <1>3 DEF RerunInv, AtGen

\* Steps that are not an injector's at gen's directory leave it alone.
LEMMA ElsewhereKeepsRerun ==
  ASSUME EditInv, RerunInv, dir'["gen"] = dir["gen"], origin' = origin,
         ~AtGen', injected' = injected \/ ~injected'
  PROVE  RerunInv'
<1>1. TocReaches(origin, dir["gen"], 0)
  <2>1. (IF AtGen THEN at.item - 1 ELSE IF injected THEN Len(Injector) ELSE 0) \in Nat
    BY InjectorItems DEF EditInv
  <2> QED
    BY <2>1, ReachesLess DEF RerunInv
<1>2. injected' => injected /\ ~AtGen
  BY DEF EditInv
<1>3. TocReaches(origin, dir["gen"], IF AtGen' THEN at'.item - 1 ELSE IF injected' THEN Len(Injector) ELSE 0)
  <2>1. CASE injected'
    BY <1>2, <2>1 DEF RerunInv
  <2>2. CASE ~injected'
    BY <1>1, <2>2
  <2> QED
    BY <2>1, <2>2
<1> QED
  BY <1>2, <1>3 DEF RerunInv

LEMMA ReadKeepsRerun ==
  ASSUME BlocksAreHeaded, BlocksFitIn, EditInv, RerunInv, ReadPage
  PROVE  RerunInv'
<1>1. UNCHANGED <<dir, origin, injected>> /\ at.do = "inject" /\ at.step = "read"
  BY DEF ReadPage
<1>2. CASE ~AtGen'
  BY <1>1, <1>2, ElsewhereKeepsRerun
<1>3. CASE AtGen'
  <2>1. /\ at' = [at EXCEPT !.step = "write"]
        /\ Item.patch => File \in DOMAIN Here /\ Here[File] # Torn
        /\ draft' = IF ~Item.patch THEN [NoPage EXCEPT !.sections = Item.sections]
                    ELSE [Here[File] EXCEPT !.sections = ReplaceBlock(@, Item.title, Item.sections)]
    BY <1>3 DEF ReadPage, End, Idle, AtGen
  <2>2. at'.step = "write" /\ at'.item = at.item /\ at'.where = at.where /\ at'.do = at.do /\ AtGen
    BY <1>1, <1>3, <2>1 DEF EditInv, CommandInv, AtGen
  <2>3. ~injected /\ at.item \in DOMAIN Injector /\ origin \in Bundles
    BY <2>2 DEF EditInv
  <2>4. PICK d : d = dir["gen"]
    OBVIOUS
  <2>5. PICK i : i = at.item
    OBVIOUS
  <2>6. Item = Injector[i] /\ File = PageFile(i) /\ Here = d /\ i \in DOMAIN Injector
    BY <2>2, <2>3, <2>4, <2>5 DEF Item, File, PageFile, Here, AtGen
  <2>7. Patched(origin, i) /\ draft' = NewPage(origin, i)
    <3>1. CASE ~Item.patch
      BY <2>1, <2>6, <3>1 DEF Patched, NewPage
    <3>2. CASE Item.patch
      <4>1. PICK p : p = d[PageFile(i)]
        OBVIOUS
      <4>2. /\ Patched(origin, i) /\ PageFile(i) \in DOMAIN origin
            /\ p = NewPage(origin, i) \/ p = origin[PageFile(i)]
        BY <2>1, <2>4, <2>6, <3>2, <4>1 DEF RerunInv, PagesKnown, Patched
      <4>3. draft' = [p EXCEPT !.sections = ReplaceBlock(@, Injector[i].title, Injector[i].sections)]
        BY <2>1, <2>6, <3>2, <4>1
      <4>4. CASE p = NewPage(origin, i)
        <5>1. [NewPage(origin, i) EXCEPT
                 !.sections = ReplaceBlock(@, Injector[i].title, Injector[i].sections)] = NewPage(origin, i)
          BY <2>3, <2>6, <3>2, <4>2, NewPageStays
        <5>2. PICK q : q = NewPage(origin, i)
          OBVIOUS
        <5>3. q = [p EXCEPT !.sections = ReplaceBlock(@, Injector[i].title, Injector[i].sections)]
          BY <4>4, <5>1, <5>2
        <5> QED
          BY <4>2, <4>3, <5>2, <5>3
      <4>5. CASE p = origin[PageFile(i)]
        <5>1. NewPage(origin, i) = [origin[PageFile(i)] EXCEPT
                !.sections = ReplaceBlock(@, Injector[i].title, Injector[i].sections)]
          BY <2>6, <3>2 DEF NewPage
        <5>2. PICK q : q = NewPage(origin, i)
          OBVIOUS
        <5>3. q = [p EXCEPT !.sections = ReplaceBlock(@, Injector[i].title, Injector[i].sections)]
          BY <4>5, <5>1, <5>2
        <5> QED
          BY <4>2, <4>3, <5>2, <5>3
      <4> QED
        BY <4>2, <4>4, <4>5
    <3> QED
      BY <3>1, <3>2
  <2>8. /\ PagesKnown(origin, dir["gen"]) /\ TocReaches(origin, dir["gen"], at.item - 1)
        /\ \A j \in 1..(at.item - 1) : dir["gen"][PageFile(j)] = NewPage(origin, j)
    BY <2>2 DEF RerunInv
  <2> QED
    BY <1>1, <1>3, <2>2, <2>3, <2>5, <2>7, <2>8 DEF RerunInv
<1> QED
  BY <1>2, <1>3

LEMMA WriteKeepsRerun ==
  ASSUME OneBlockAPage, EditInv, RerunInv, WritePage
  PROVE  RerunInv'
<1>1. /\ UNCHANGED <<origin, injected>> /\ at.do = "inject" /\ at.step = "write"
      /\ dir' = [dir EXCEPT ![at.where] = Put(@, File, draft)]
      /\ at' = [at EXCEPT !.step = "enter"]
  BY DEF WritePage
<1>2. at'.step = "enter" /\ at'.item = at.item /\ at'.where = at.where /\ at'.do = at.do
  BY <1>1 DEF EditInv, CommandInv
<1>3. dir'["gen"] = IF at.where = "gen" THEN Put(dir["gen"], File, draft) ELSE dir["gen"]
  BY <1>1, WrittenIs DEF EditInv
<1>4. CASE at.where # "gen"
  BY <1>1, <1>2, <1>3, <1>4, ElsewhereKeepsRerun DEF AtGen
<1>5. CASE at.where = "gen"
  <2>1. AtGen /\ AtGen'
    BY <1>1, <1>2, <1>5 DEF AtGen
  <2>2. PICK i : i = at.item
    OBVIOUS
  <2>3. /\ ~injected /\ i \in DOMAIN Injector /\ File = PageFile(i)
        /\ \A j \in 1..(i - 1) : Done(dir["gen"], j)
    BY <2>1, <2>2 DEF EditInv, File, PageFile, Item
  <2>4. PICK d : d = dir["gen"]
    OBVIOUS
  <2>5. /\ PagesKnown(origin, d) /\ Patched(origin, i) /\ draft = NewPage(origin, i)
        /\ TocReaches(origin, d, i - 1)
        /\ \A j \in 1..(i - 1) : d[PageFile(j)] = NewPage(origin, j)
    BY <1>1, <2>1, <2>2, <2>4 DEF RerunInv
  <2>6. PICK e : e = Put(d, PageFile(i), draft)
    OBVIOUS
  <2>7. /\ PagesKnown(origin, e) /\ TocOf(e) = TocOf(d) /\ e[PageFile(i)] = draft
        /\ \A j \in DOMAIN Injector : j # i => e[PageFile(j)] = d[PageFile(j)] \/ PageFile(j) \notin DOMAIN d
    BY <2>3, <2>5, <2>6, PageIsKnown
  <2>8. TocReaches(origin, e, i - 1)
    BY <2>5, <2>7 DEF TocReaches, TocAt
  <2>9. ASSUME NEW j \in 1..(i - 1) PROVE e[PageFile(j)] = NewPage(origin, j)
    <3>1. j \in DOMAIN Injector /\ j # i
      BY <2>3, InjectorItems
    <3>2. PageFile(j) \in DOMAIN d
      BY <2>3, <2>4 DEF Done
    <3> QED
      BY <2>5, <2>7, <3>1, <3>2
  <2>10. dir'["gen"] = e
    BY <1>3, <1>5, <2>3, <2>4, <2>6
  <2> QED
    BY <1>1, <1>2, <2>1, <2>2, <2>3, <2>5, <2>7, <2>8, <2>9, <2>10 DEF RerunInv
<1> QED
  BY <1>4, <1>5

LEMMA EnterKeepsRerun ==
  ASSUME EditInv, RerunInv, EnterPage
  PROVE  RerunInv'
<1>1. UNCHANGED origin /\ at.do = "inject" /\ at.step = "enter"
  BY DEF EnterPage
<1>2. CASE EntryFails
  <2>1. UNCHANGED <<dir, injected>> /\ at' = Idle
    BY <1>2 DEF EnterPage, End
  <2> QED
    BY <1>1, <2>1, ElsewhereKeepsRerun DEF AtGen, Idle
<1>3. CASE ~EntryFails
  <2>1. /\ dir' = IF Entered = TocOf(Here) THEN dir ELSE [dir EXCEPT ![at.where] = Put(@, Toc, Entered)]
        /\ NextItem
    BY <1>3 DEF EnterPage
  <2>2. CASE at.where # "gen"
    <3>1. dir'["gen"] = dir["gen"]
      BY <2>1, <2>2, WrittenIs DEF EditInv
    <3>2. ~AtGen' /\ (injected' = injected \/ ~injected')
      <4>1. CASE at.item < Len(Injector)
        <5>1. at' = [at EXCEPT !.item = @ + 1, !.step = "read"] /\ injected' = injected
          BY <2>1, <4>1 DEF NextItem
        <5>2. at'.where = at.where
          BY <5>1 DEF EditInv, CommandInv
        <5> QED
          BY <2>2, <5>1, <5>2 DEF AtGen
      <4>2. CASE ~(at.item < Len(Injector))
        <5>1. at' = Idle /\ injected' = (injected \/ at.where = "gen")
          BY <2>1, <4>2 DEF NextItem, End
        <5>2. at'.do # "inject"
          BY <5>1 DEF Idle
        <5>3. injected' <=> injected
          BY <2>2, <5>1
        <5> QED
          BY <5>2, <5>3 DEF AtGen
      <4> QED
        BY <4>1, <4>2
    <3> QED
      BY <1>1, <3>1, <3>2, ElsewhereKeepsRerun
  <2>3. CASE at.where = "gen"
    <3>1. AtGen
      BY <1>1, <2>3 DEF AtGen
    <3>2. PICK i : i = at.item
      OBVIOUS
    <3>3. PICK d : d = dir["gen"]
      OBVIOUS
    <3>4. PICK toc : toc = TocOf(d)
      OBVIOUS
    <3>5. /\ ~injected /\ i \in DOMAIN Injector /\ \A j \in 1..(i - 1) : Done(d, j)
          /\ PageFile(i) \in DOMAIN d
      BY <1>1, <3>1, <3>2, <3>3 DEF EditInv
    <3>6. /\ PagesKnown(origin, d) /\ TocReaches(origin, d, i - 1)
          /\ \A j \in 1..(i - 1) : d[PageFile(j)] = NewPage(origin, j)
          /\ d[PageFile(i)] = NewPage(origin, i)
      BY <1>1, <3>1, <3>2, <3>3 DEF RerunInv
    <3>7. Item = Injector[i] /\ Here = d
      BY <2>3, <3>2, <3>3 DEF Item, Here
    <3>8. toc # Torn /\ toc \in Paths
      BY <1>3, <3>3, <3>4, <3>7 DEF EntryFails, EditInv, Grown, TocGrows
    <3>9. PICK new : new = AddEntry(toc, Injector[i].key, Injector[i].parent)
      OBVIOUS
    <3>10. Entered = new
      BY <3>4, <3>7, <3>9 DEF Entered
    <3>11. ListsMore(toc, new, Injector[i].key)
      <4>1. Injector[i].key \in Key
        BY <3>5, InjectorItems DEF Items
      <4>2. Injector[i].parent # "none" => Lists(toc, Injector[i].key) \/ Lists(toc, Injector[i].parent)
        BY <1>3, <3>4, <3>7 DEF EntryFails
      <4> QED
        BY <3>8, <3>9, <4>1, <4>2, EntryIsMade
    <3>12. PICK e : e = dir'["gen"]
      OBVIOUS
    <3>13. /\ PagesKnown(origin, e) /\ TocOf(e) = new
           /\ \A j \in DOMAIN Injector : e[PageFile(j)] = d[PageFile(j)] \/ PageFile(j) \notin DOMAIN d
      <4>1. CASE new = toc
        BY <2>1, <3>3, <3>4, <3>6, <3>7, <3>10, <3>12, <4>1
      <4>2. CASE new # toc
        <5>1. e = Put(d, Toc, new)
          BY <2>1, <2>3, <3>3, <3>4, <3>7, <3>10, <3>12, <4>2, WrittenIs DEF EditInv
        <5> QED
          BY <3>6, <5>1, TocLeavesPages
      <4> QED
        BY <4>1, <4>2
    <3>14. TocReaches(origin, e, i)
      BY <3>4, <3>5, <3>6, <3>8, <3>9, <3>11, <3>13, EntryReaches
    <3>15. ASSUME NEW j \in 1..i PROVE e[PageFile(j)] = NewPage(origin, j)
      <4>1. j \in DOMAIN Injector /\ (j = i \/ j \in 1..(i - 1))
        BY <3>5, InjectorItems
      <4>2. PageFile(j) \in DOMAIN d
        BY <3>5, <4>1 DEF Done
      <4>3. d[PageFile(j)] = NewPage(origin, j)
        BY <3>6, <4>1
      <4> QED
        BY <3>13, <4>1, <4>2, <4>3
    <3>16. CASE i < Len(Injector)
      <4>1. at' = [at EXCEPT !.item = @ + 1, !.step = "read"] /\ UNCHANGED injected
        BY <2>1, <3>2, <3>16 DEF NextItem
      <4>2. at'.item = i + 1 /\ at'.step = "read" /\ at'.do = at.do /\ at'.where = at.where
        BY <3>2, <4>1 DEF EditInv, CommandInv
      <4>3. AtGen' /\ at'.item - 1 = i
        BY <3>1, <3>5, <4>2, InjectorItems DEF AtGen
      <4> QED
        BY <1>1, <3>5, <3>12, <3>13, <3>14, <3>15, <4>1, <4>2, <4>3 DEF RerunInv
    <3>17. CASE ~(i < Len(Injector))
      <4>1. at'.do = "idle"
        BY <2>1, <3>2, <3>17 DEF NextItem, End, Idle
      <4>2. i = Len(Injector) /\ DOMAIN Injector = 1..i
        BY <3>5, <3>17, InjectorItems
      <4>3. TocReaches(origin, e, 0)
        BY <3>5, <3>14, <4>2, InjectorItems, ReachesLess
      <4> QED
        BY <1>1, <3>12, <3>13, <3>14, <3>15, <4>1, <4>2, <4>3 DEF RerunInv, AtGen
    <3> QED
      BY <3>16, <3>17
  <2> QED
    BY <2>2, <2>3
<1> QED
  BY <1>2, <1>3

LEMMA KillKeepsRerun ==
  ASSUME OneBlockAPage, EditInv, RerunInv, Kill
  PROVE  RerunInv'
<1>1. at' = Idle /\ UNCHANGED <<origin, injected>> /\ at.do # "idle"
  BY DEF Kill, End, EditInv, CommandInv
<1>2. CASE UNCHANGED dir
  BY <1>1, <1>2, ElsewhereKeepsRerun DEF AtGen, Idle
<1>3. ASSUME NEW f \in Target, dir' = [dir EXCEPT ![at.where] = Put(@, f, Torn)]
      PROVE  RerunInv'
  <2>1. dir'["gen"] = IF at.where = "gen" THEN Put(dir["gen"], f, Torn) ELSE dir["gen"]
    BY <1>3, WrittenIs DEF EditInv
  <2>2. CASE at.where # "gen"
    BY <1>1, <2>1, <2>2, ElsewhereKeepsRerun DEF AtGen, Idle
  <2>3. CASE at.where = "gen"
    <3>1. AtGen
      BY <1>1, <2>3 DEF AtGen, EditInv, CommandInv
    <3>2. PICK i : i = at.item
      OBVIOUS
    <3>3. PICK d : d = dir["gen"]
      OBVIOUS
    <3>4. ~injected /\ i \in DOMAIN Injector /\ i - 1 \in Nat
      BY <3>1, <3>2, InjectorItems DEF EditInv
    <3>5. /\ PagesKnown(origin, d) /\ TocReaches(origin, d, i - 1)
      BY <3>1, <3>2, <3>3 DEF RerunInv
    <3>6. PICK e : e = Put(d, f, Torn)
      OBVIOUS
    <3>7. dir'["gen"] = e
      BY <2>1, <2>3, <3>3, <3>6
    <3>8. PagesKnown(origin, e) /\ TocReaches(origin, e, 0)
      <4>1. CASE f = Toc
        BY <3>5, <3>6, <4>1, TocLeavesPages DEF TocReaches
      <4>2. CASE f # Toc
        <5>1. f = PageFile(i) /\ at.step = "write"
          BY <1>3, <3>1, <3>2, <4>2 DEF Target, AtGen, File, PageFile, Item
        <5>2. Patched(origin, i)
          BY <3>1, <3>2, <5>1 DEF RerunInv
        <5>3. PagesKnown(origin, e) /\ TocOf(e) = TocOf(d)
          BY <3>4, <3>5, <3>6, <5>1, <5>2, PageIsKnown
        <5>4. TocReaches(origin, d, 0)
          BY <3>4, <3>5, ReachesLess
        <5> QED
          BY <5>3, <5>4 DEF TocReaches, TocAt
      <4> QED
        BY <4>1, <4>2
    <3> QED
      BY <1>1, <3>4, <3>7, <3>8 DEF RerunInv, AtGen, Idle
  <2> QED
    BY <2>2, <2>3
<1> QED
  BY <1>2, <1>3 DEF Kill

LEMMA RerunStep ==
  ASSUME OneBlockAPage, BlocksAreHeaded, BlocksFitIn
  PROVE  EditInv /\ RerunInv /\ [Next]_vars => RerunInv'
<1> SUFFICES ASSUME EditInv, RerunInv, [Next]_vars PROVE RerunInv'
  OBVIOUS
<1>1. CASE UNCHANGED vars
  BY <1>1 DEF vars, RerunInv, AtGen
<1>2. ASSUME NEW w \in Origins, StartInjector(w) PROVE RerunInv'
  <2>1. /\ at'.do = "inject" /\ at'.where = w /\ at'.item = 1 /\ at'.step = "read"
        /\ UNCHANGED <<dir, origin>> /\ injected' = (injected /\ w # "gen") /\ at.do = "idle"
    BY <1>2 DEF StartInjector, Begin, Idle
  <2>2. CASE w # "gen"
    <3>1. ~AtGen' /\ (injected' = injected \/ ~injected')
      BY <2>1, <2>2 DEF AtGen
    <3> QED
      BY <2>1, <3>1, ElsewhereKeepsRerun
  <2>3. CASE w = "gen"
    <3>1. TocReaches(origin, dir["gen"], 0)
      <4>1. (IF AtGen THEN at.item - 1 ELSE IF injected THEN Len(Injector) ELSE 0) \in Nat
        BY <2>1, InjectorItems DEF AtGen
      <4> QED
        BY <4>1, ReachesLess DEF RerunInv
    <3>2. AtGen' /\ ~injected' /\ at'.item - 1 = 0 /\ 1..(at'.item - 1) = {}
      <4>1. 1 - 1 = 0 /\ 1..0 = {}
        OBVIOUS
      <4>2. at'.item - 1 = 0
        BY <2>1, <4>1
      <4>3. AtGen' /\ ~injected'
        BY <2>1, <2>3 DEF AtGen
      <4> QED
        BY <4>1, <4>2, <4>3
    <3>3. PagesKnown(origin, dir["gen"])
      BY DEF RerunInv
    <3> QED
      BY <2>1, <3>1, <3>2, <3>3 DEF RerunInv
  <2> QED
    BY <2>2, <2>3
<1>3. ASSUME NEW w \in Origins, NEW strict, Pack(w, strict) PROVE RerunInv'
  <2>1. UNCHANGED <<dir, at, origin, injected>> /\ at.do = "idle"
    BY <1>3 DEF Pack, Idle
  <2> QED
    BY <2>1, ElsewhereKeepsRerun DEF AtGen
<1>4. CASE StartUnpack
  <2>1. dir'["gen"] = dir["gen"] /\ UNCHANGED <<origin, injected>> /\ at'.do = "unpack"
    BY <1>4 DEF StartUnpack, Begin, EditInv, CommandInv, Origins
  <2> QED
    BY <2>1, ElsewhereKeepsRerun DEF AtGen
<1>5. CASE WriteOut
  <2>1. dir'["gen"] = dir["gen"] /\ UNCHANGED <<origin, injected>>
    BY <1>5 DEF WriteOut, EditInv, CommandInv, Origins
  <2>2. at'.do # "inject"
    BY <1>5 DEF WriteOut, End, Idle
  <2> QED
    BY <2>1, <2>2, ElsewhereKeepsRerun DEF AtGen
<1>6. CASE ReadPage
  BY <1>6, ReadKeepsRerun
<1>7. CASE WritePage
  BY <1>7, WriteKeepsRerun
<1>8. CASE EnterPage
  BY <1>8, EnterKeepsRerun
<1>9. CASE Kill
  BY <1>9, KillKeepsRerun
<1> QED
  BY <1>1, <1>2, <1>3, <1>4, <1>5, <1>6, <1>7, <1>8, <1>9 DEF Next

\* After a complete run the directory is what one undisturbed run makes of the bundle.
LEMMA RerunIsOneRun ==
  ASSUME OneBlockAPage, EditInv, RerunInv, injected
  PROVE  dir["gen"] = Edited(origin)
<1>1. PICK d : d = dir["gen"]
  OBVIOUS
<1>2. PICK b : b = origin
  OBVIOUS
<1>3. PICK n \in Nat \ {0} : n = Len(Injector)
  BY SMTT(30), ZenonT(30), InjectorItems
<1>4. /\ b \in Bundles /\ Grown(b, d) /\ \A i \in DOMAIN Injector : Done(d, i)
      /\ PagesKnown(b, d) /\ \A i \in DOMAIN Injector : d[PageFile(i)] = NewPage(b, i)
      /\ ~AtGen
  BY <1>1, <1>2 DEF EditInv, RerunInv
<1>5. TocReaches(b, d, n)
  BY <1>1, <1>2, <1>3, <1>4 DEF RerunInv
<1>6. DOMAIN Injector = 1..n /\ 1 \in DOMAIN Injector /\ n \in 0..n /\ n..n = {n}
  BY <1>3, InjectorItems
<1>7. PICK c : c = StagesOf(b)[n]
  OBVIOUS
<1>8. IsStage(b, c, n) /\ Edited(b) = c
  <2>1. \A i \in DOMAIN Injector : Patched(b, i)
    BY <1>4 DEF PagesKnown, Done
  <2>2. b = [f \in DOMAIN b |-> b[f]]
    BY <1>4, BundleAssumption
  <2>3. Stages(StagesOf(b), b, Len(Injector)) /\ Edited(b) = c
    BY <1>3, <1>7, StagesOfIs
  <2>4. \A j \in 0..Len(Injector) : IsStage(b, StagesOf(b)[j], j)
    BY <2>1, <2>2, <2>3, StagesAre
  <2> QED
    BY <1>3, <1>6, <1>7, <2>3, <2>4
<1>9. {PageFile(i) : i \in 1..n} = ItemFiles
  BY <1>6 DEF ItemFiles
<1>10. TocOf(d) # Torn /\ Lists(TocOf(d), Injector[1].key)
  BY <1>4, <1>6 DEF Done
<1>11. TocOf(d) = TocOf(c)
  BY <1>3, <1>5, <1>6, <1>7, <1>10 DEF TocReaches, TocAt
<1>12. Toc \in DOMAIN d /\ Toc \in DOMAIN c
  <2>1. Range(<<>>) = {}
    BY DEF Range
  <2>2. TocOf(d) # <<>>
    BY <1>10, <2>1 DEF Lists
  <2> QED
    BY <1>11, <2>2 DEF TocOf
<1>13. DOMAIN d = DOMAIN b \cup ItemFiles \cup {Toc}
  <2>1. \A f \in ItemFiles : f \in DOMAIN d
    BY <1>4 DEF ItemFiles, Done
  <2> QED
    BY <1>4, <1>12, <2>1 DEF Grown
<1>14. DOMAIN c = DOMAIN d
  BY <1>3, <1>8, <1>9, <1>13 DEF IsStage
<1>15. ASSUME NEW f \in DOMAIN d PROVE d[f] = c[f]
  <2>1. CASE f = Toc
    BY <1>11, <1>12, <2>1 DEF TocOf
  <2>2. CASE f \in ItemFiles
    <3>1. PICK i \in 1..n : f = PageFile(i)
      BY <1>9, <2>2
    <3> QED
      BY <1>4, <1>6, <1>8, <3>1 DEF IsStage
  <2>3. CASE f \notin ItemFiles \cup {Toc}
    <3>1. f \in DOMAIN b /\ d[f] = b[f]
      BY <1>4, <1>13, <2>3 DEF Grown
    <3>2. c[f] = b[f]
      BY <1>8, <1>9, <2>3, <3>1 DEF IsStage
    <3> QED
      BY <3>1, <3>2
  <2> QED
    BY <2>1, <2>2, <2>3
<1>16. d = [f \in DOMAIN d |-> d[f]] /\ c = [f \in DOMAIN c |-> c[f]]
  BY <1>4, <1>8 DEF PagesKnown, IsStage
<1>17. d = c
  BY <1>14, <1>15, <1>16
<1> QED
  BY <1>1, <1>2, <1>8, <1>17

(* Injectors may be run again (bundle_edit.py): however many runs were     *)
(* broken off before, at whichever file, a run that comes to its end       *)
(* leaves exactly what one undisturbed run makes of gen's output, provided *)
(* it patches each page with one block, the rest of a block is deeper than *)
(* its heading, and the heading it replaces is of no deeper level.         *)
THEOREM InjectorsMayBeRerun ==
  ASSUME OneBlockAPage, BlocksAreHeaded, BlocksFitIn
  PROVE  Spec => []InjectionIsIdempotent
<1>1. Init => RefusalInv /\ EditInv /\ RerunInv
  BY RefusalInit, EditInit, RerunInit
<1>2. RefusalInv /\ EditInv /\ RerunInv /\ [Next]_vars => (RefusalInv /\ EditInv /\ RerunInv)'
  BY RefusalStep, EditStep, RerunStep
<1>3. RefusalInv /\ EditInv /\ RerunInv => InjectionIsIdempotent
  BY RerunIsOneRun DEF InjectionIsIdempotent
<1> QED
  BY <1>1, <1>2, <1>3, PTL DEF Spec
=============================================================================
