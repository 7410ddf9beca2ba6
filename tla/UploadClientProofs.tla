------------------------- MODULE UploadClientProofs -------------------------
(***************************************************************************)
(* What the exit status of `papyri upload' means, for any number of runs,  *)
(* paths, bundles and artifacts, and any amount of trouble.                *)
(***************************************************************************)
EXTENDS UploadClient, TLAPS

\* A path of the list that the run was given is the place of an upload.
LEMMA PlacesAreJobs ==
    ASSUME TypeOK, NEW r \in Run, NEW i \in DOMAIN paths[r]
    PROVE  <<r, i>> \in Job
  <1>1. paths[r] # <<>>
    OBVIOUS
  <1>2. paths[r] \in Lists[r]
    BY <1>1 DEF TypeOK
  <1>3. i \in Place(r)
    BY <1>2 DEF Place
  <1> QED
    BY <1>3 DEF Job

LEMMA JobsArePairs ==
    ASSUME NEW j \in Job
    PROVE  j = <<j[1], j[2]>> /\ j[1] \in Run
  BY DEF Job

-----------------------------------------------------------------------------
(* Type correctness.                                                        *)

Loaded(r) == pc[r] \in {"asking", "deciding", "sending", "reading", "escaped"}

\* A run that has loaded an artifact is at a path of its list.
LoadedInv == \A r \in Run : Loaded(r) =>
    at[r] \in DOMAIN paths[r] /\ This(r) \in Artifact

IdleInv == \A r \in Run : pc[r] = "idle" => paths[r] = <<>> /\ at[r] = 1

\* What the server works on is an artifact on some command line.
JobInv == \A j \in Job : job[j] # "none" =>
    j[2] \in DOMAIN paths[j[1]] /\ Content(j) \in Artifact

TypeInv == TypeOK /\ LoadedInv /\ IdleInv /\ JobInv

LEMMA InitTypeInv == Init => TypeInv
  <1> SUFFICES ASSUME Init
               PROVE  TypeInv
    OBVIOUS
  <1>1. /\ paths \in [Run -> Seq(Input)]
        /\ \A r \in Run : paths[r] \in Lists[r] \cup {<<>>}
        /\ \A r \in Run : at[r] \in 1 .. (Len(paths[r]) + 1)
    BY DEF Init
  <1>2. row \in [Bundle -> Artifact \cup {Nothing}] /\ trouble \in 0 .. MaxTrouble
    BY UploadAssumption DEF Init
  <1>3. TypeOK
    BY <1>1, <1>2 DEF Init, TypeOK
  <1>4. LoadedInv /\ IdleInv /\ JobInv
    BY DEF Init, LoadedInv, Loaded, IdleInv, JobInv
  <1> QED
    BY <1>3, <1>4 DEF TypeInv

\* Every way on to the next path keeps a run within its list.
LEMMA NextPathTyped ==
    ASSUME TypeInv, NEW r \in Run, NEW good \in BOOLEAN,
           at[r] <= Len(paths[r]), NextPath(r, good), UNCHANGED <<paths, force>>
    PROVE  /\ pc' \in [Run -> {"idle", "loading", "asking", "deciding",
                               "sending", "reading", "exited", "escaped"}]
           /\ at' \in [Run -> Nat]
           /\ \A q \in Run : at'[q] \in 1 .. (Len(paths'[q]) + 1)
           /\ ok' \in [Run -> BOOLEAN] /\ exists' \in [Run -> BOOLEAN]
           /\ final' \in [Run -> BOOLEAN] /\ err' \in [Run -> BOOLEAN]
           /\ pc[r] # "idle" => LoadedInv' /\ IdleInv'
  <1> USE DEF TypeInv, TypeOK, NextPath
  <1>1. \A q \in Run : Len(paths[q]) \in Nat
    OBVIOUS
  <1>2. at' \in [Run -> Nat] /\ \A q \in Run : at'[q] \in 1 .. (Len(paths'[q]) + 1)
    BY <1>1
  <1>3. pc[r] # "idle" => LoadedInv' /\ IdleInv'
    BY DEF LoadedInv, IdleInv, Loaded, This
  <1> QED
    BY <1>2, <1>3

LEMMA TroubleTyped ==
    ASSUME TypeInv, GoesWrong \/ trouble' = trouble
    PROVE  trouble' \in 0 .. MaxTrouble
  BY UploadAssumption DEF GoesWrong, TypeInv, TypeOK

LEMMA NextTypeInv == TypeInv /\ [Next]_vars => TypeInv'
  <1> SUFFICES ASSUME TypeInv, [Next]_vars
               PROVE  TypeInv'
    OBVIOUS
  <1> USE DEF TypeInv, TypeOK
  <1>1. ASSUME NEW r \in Run, NEW forced \in BOOLEAN, NEW list \in Lists[r],
               Begin(r, list, forced)
        PROVE  TypeInv'
    <2>1. list \in Seq(Input) /\ Len(list) \in Nat
      BY UploadAssumption
    <2>2. paths' \in [Run -> Seq(Input)] /\ paths'[r] = list
      BY <1>1, <2>1 DEF Begin
    <2>3. at[r] = 1 /\ paths[r] = <<>>
      BY <1>1 DEF Begin, IdleInv
    <2>4. \A q \in Run : /\ paths'[q] \in Lists[q] \cup {<<>>}
                         /\ at'[q] \in 1 .. (Len(paths'[q]) + 1)
      BY <1>1, <2>1, <2>3 DEF Begin
    <2>5. Matching(r, list) \subseteq Job
      <3>1. DOMAIN list \subseteq Place(r)
        BY DEF Place
      <3> QED
        BY <3>1 DEF Matching, Job
    <2>6. TypeOK'
      BY <1>1, <2>2, <2>4, <2>5 DEF Begin, locals, server
    <2>7. LoadedInv' /\ IdleInv'
      BY <1>1 DEF Begin, locals, LoadedInv, Loaded, IdleInv, This
    <2>8. JobInv'
      <3> SUFFICES ASSUME NEW j \in Job, job'[j] # "none"
                   PROVE  (j[2] \in DOMAIN paths[j[1]] /\ Content(j) \in Artifact)'
        BY DEF JobInv
      <3>1. j[2] \in DOMAIN paths[j[1]] /\ Content(j) \in Artifact
        BY <1>1 DEF Begin, server, JobInv
      <3>2. j[1] # r
        BY <2>3, <3>1
      <3> QED
        BY <1>1, <3>1, <3>2, JobsArePairs DEF Begin, Content
    <2> QED
      BY <2>6, <2>7, <2>8
  <1>2. ASSUME NEW r \in Run, NEW good \in BOOLEAN, pc[r] # "idle",
               at[r] <= Len(paths[r]), NextPath(r, good),
               UNCHANGED <<paths, force, row, job, word, wire, ghosts>>,
               gone' \in [Job -> BOOLEAN], trouble' \in 0 .. MaxTrouble
        PROVE  TypeInv'
    <2>1. TypeOK' /\ LoadedInv' /\ IdleInv'
      <3>1. /\ pc' \in [Run -> {"idle", "loading", "asking", "deciding",
                               "sending", "reading", "exited", "escaped"}]
            /\ at' \in [Run -> Nat]
            /\ \A q \in Run : at'[q] \in 1 .. (Len(paths'[q]) + 1)
            /\ ok' \in [Run -> BOOLEAN] /\ exists' \in [Run -> BOOLEAN]
            /\ final' \in [Run -> BOOLEAN] /\ err' \in [Run -> BOOLEAN]
            /\ LoadedInv' /\ IdleInv'
        <4> HIDE DEF TypeInv, TypeOK
        <4> QED
          BY <1>2, NextPathTyped
      <3>2. paths' \in [Run -> Seq(Input)] /\ \A q \in Run : paths'[q] \in Lists[q] \cup {<<>>}
        BY <1>2
      <3>3. /\ force' \in [Run -> BOOLEAN] /\ row' \in [Bundle -> Artifact \cup {Nothing}]
            /\ job' = job /\ word' = word /\ wire' = wire
            /\ held' \in SUBSET Job /\ withdrawn' \in SUBSET Bundle
        BY <1>2 DEF ghosts
      <3> QED
        BY <1>2, <3>1, <3>2, <3>3
    <2>2. JobInv'
      BY <1>2 DEF JobInv, Content
    <2> QED
      BY <2>1, <2>2
  <1>3. ASSUME NEW r \in Run, Load(r)
        PROVE  TypeInv'
    <2>1. at[r] \in DOMAIN paths[r] /\ This(r) \in Input
      BY <1>3 DEF Load, This
    <2>2. CASE This(r) \in Unloadable
      BY <1>2, <1>3, <2>2 DEF Load, server
    <2>3. CASE This(r) \notin Unloadable
      <3>1. TypeOK'
        BY <1>3, <2>3 DEF Load, server, locals, ghosts
      <3>2. LoadedInv' /\ IdleInv'
        BY <1>3, <2>1, <2>3 DEF Load, LoadedInv, IdleInv, Loaded, This, Input
      <3>3. JobInv'
        BY <1>3 DEF Load, server, JobInv, Content
      <3> QED
        BY <3>1, <3>2, <3>3
    <2> QED
      BY <2>2, <2>3
  <1>4. ASSUME NEW r \in Run, Ask(r) \/ AskInVain(r)
        PROVE  TypeInv'
    <2>1. TypeOK'
      BY <1>4 DEF Ask, AskInVain, server, ghosts
    <2>2. LoadedInv' /\ IdleInv'
      BY <1>4 DEF Ask, AskInVain, LoadedInv, IdleInv, Loaded, This
    <2>3. JobInv'
      BY <1>4 DEF Ask, AskInVain, server, JobInv, Content
    <2> QED
      BY <2>1, <2>2, <2>3
  <1>5. ASSUME NEW r \in Run, Decide(r)
        PROVE  TypeInv'
    <2>1. at[r] <= Len(paths[r])
      BY <1>5 DEF Decide, LoadedInv, Loaded
    <2>2. CASE exists[r]
      BY <1>2, <1>5, <2>1, <2>2 DEF Decide, server
    <2>3. CASE ~exists[r]
      <3>1. TypeOK'
        BY <1>5, <2>3 DEF Decide, server, locals, ghosts
      <3>2. LoadedInv' /\ IdleInv'
        BY <1>5, <2>3 DEF Decide, LoadedInv, IdleInv, Loaded, This
      <3>3. JobInv'
        BY <1>5 DEF Decide, server, JobInv, Content
      <3> QED
        BY <3>1, <3>2, <3>3
    <2> QED
      BY <2>2, <2>3
  <1>6. ASSUME NEW r \in Run, Send(r)
        PROVE  TypeInv'
    <2>1. at[r] \in DOMAIN paths[r] /\ This(r) \in Artifact
      BY <1>6 DEF Send, LoadedInv, Loaded
    <2>2. Upload(r) \in Job
      BY <2>1, PlacesAreJobs DEF Upload
    <2>3. TypeOK'
      BY <1>6 DEF Send, locals, ghosts
    <2>4. LoadedInv' /\ IdleInv'
      BY <1>6 DEF Send, LoadedInv, IdleInv, Loaded, This
    <2>5. JobInv'
      BY <1>6, <2>1, <2>2 DEF Send, JobInv, Content, Upload, This
    <2> QED
      BY <2>3, <2>4, <2>5
  <1>7. ASSUME NEW r \in Run, Refused(r)
        PROVE  TypeInv'
    <2>1. at[r] <= Len(paths[r])
      BY <1>7 DEF Refused, LoadedInv, Loaded
    <2> QED
      BY <1>2, <1>7, <2>1 DEF Refused, server
  <1>8. ASSUME NEW r \in Run, ReadLine(r)
        PROVE  TypeInv'
    <2>1. TypeOK'
      BY <1>8 DEF ReadLine, ghosts
    <2>2. LoadedInv' /\ IdleInv' /\ JobInv'
      BY <1>8 DEF ReadLine, LoadedInv, IdleInv, Loaded, This, JobInv, Content
    <2> QED
      BY <2>1, <2>2
  <1>9. ASSUME NEW r \in Run, Verdict(r) \/ Unparseable(r) \/ IdleTimeout(r)
        PROVE  TypeInv'
    <2> HIDE DEF TypeInv, TypeOK
    <2>0. pc[r] = "reading"
      BY <1>9 DEF Verdict, Unparseable, IdleTimeout
    <2>1. at[r] <= Len(paths[r])
      BY <2>0 DEF LoadedInv, Loaded, TypeInv, TypeOK
    <2>2. gone' \in [Job -> BOOLEAN]
      BY <1>9 DEF Verdict, Unparseable, IdleTimeout, Hangup, TypeInv, TypeOK
    <2>3. trouble' \in 0 .. MaxTrouble
      <3>1. GoesWrong \/ trouble' = trouble
        BY <1>9 DEF Verdict, Unparseable, IdleTimeout
      <3> QED
        BY <3>1, TroubleTyped
    <2>4. PICK good \in BOOLEAN : NextPath(r, good)
      BY <1>9 DEF Verdict, Unparseable, IdleTimeout
    <2> QED
      BY <1>2, <1>9, <2>0, <2>1, <2>2, <2>3, <2>4 DEF Verdict, Unparseable, IdleTimeout
  <1>10. ASSUME NEW r \in Run, Escape(r) \/ Exit(r)
         PROVE  TypeInv'
    <2>1. TypeOK'
      BY <1>10 DEF Escape, Exit, Hangup, locals, server, ghosts
    <2>2. LoadedInv' /\ IdleInv' /\ JobInv'
      BY <1>10 DEF Escape, Exit, server, LoadedInv, IdleInv, Loaded, This, JobInv,
                  Content
    <2> QED
      BY <2>1, <2>2
  <1>11. ASSUME NEW j \in Job, Serve(j)
         PROVE  TypeInv'
    <2> USE DEF run, locals, ghosts
    <2>1. Serve(j) => job[j] # "none"
      BY DEF Serve, Start, WarnNobody, Record, Fail, Say, Cut
    <2>2. Content(j) \in Artifact /\ BundleOf[Content(j)] \in Bundle
      BY <1>11, <2>1, UploadAssumption DEF JobInv
    <2>3. TypeOK'
      <3>0. CASE Start(j) \/ Say(j)
        <4>1. /\ job' = [job EXCEPT ![j] = job'[j]]
              /\ job'[j] \in {"none", "accepted", "ingesting", "recorded", "failed", "over"}
          BY <3>0 DEF Start, Say
        <4>2. /\ word' = [word EXCEPT ![j] = word'[j]]
              /\ word'[j] \in {"none", "done", "error"}
          BY <3>0 DEF Start, Say
        <4>3. UNCHANGED <<run, row, wire, gone, trouble, ghosts>>
          BY <3>0 DEF Start, Say
        <4> QED
          BY <4>1, <4>2, <4>3
      <3>1. CASE WarnNobody(j) \/ Fail(j) \/ Cut(j)
        <4>1. trouble' \in 0 .. MaxTrouble
          BY <3>1, TroubleTyped DEF WarnNobody, Fail, Cut
        <4>2. job' \in [Job -> {"none", "accepted", "ingesting", "recorded",
                               "failed", "over"}]
          <5>1. \/ job' = [job EXCEPT ![j] = "over"]
                \/ job' = [job EXCEPT ![j] = "failed"]
                \/ job' = job
            BY <3>1 DEF WarnNobody, Fail, Cut
          <5>2. job \in [Job -> {"none", "accepted", "ingesting", "recorded",
                                "failed", "over"}]
            OBVIOUS
          <5> HIDE DEF TypeInv, TypeOK
          <5> QED
            BY <5>1, <5>2
        <4>3. /\ wire' \in [Job -> {"whole", "broken", "closed"}]
              /\ gone' \in [Job -> BOOLEAN]
          <5>1. CASE WarnNobody(j) \/ Fail(j)
            BY <5>1 DEF WarnNobody, Fail
          <5>2. CASE Cut(j)
            <6>1. PICK how \in {"broken", "closed"} :
                    wire' = [wire EXCEPT ![j] = how]
              BY <5>2 DEF Cut
            <6> QED
              BY <5>2, <6>1 DEF Cut
          <5> QED
            BY <3>1, <5>1, <5>2
        <4> QED
          BY <3>1, <4>1, <4>2, <4>3 DEF WarnNobody, Fail, Cut
      <3>2. CASE Record(j)
        BY <3>2, <2>2 DEF Record
      <3> QED
        BY <1>11, <3>0, <3>1, <3>2 DEF Serve
    <2>4. UNCHANGED run
      BY <1>11 DEF Serve, Start, WarnNobody, Record, Fail, Say, Cut
    <2>5. LoadedInv' /\ IdleInv'
      BY <2>4 DEF LoadedInv, IdleInv, Loaded, This
    <2>6. \A k \in Job : job'[k] # "none" => job[k] # "none"
      BY <1>11, <2>1 DEF Serve, Start, WarnNobody, Record, Fail, Say, Cut
    <2>7. JobInv'
      BY <2>4, <2>6 DEF JobInv, Content
    <2> QED
      BY <2>3, <2>5, <2>7
  <1>12. ASSUME NEW b \in Bundle, Withdraw(b)
         PROVE  TypeInv'
    <2>1. TypeOK'
      BY <1>12, UploadAssumption DEF Withdraw, GoesWrong, run, locals
    <2>2. LoadedInv' /\ IdleInv' /\ JobInv'
      BY <1>12 DEF Withdraw, run, LoadedInv, IdleInv, Loaded, This, JobInv, Content
    <2> QED
      BY <2>1, <2>2
  <1>13. ASSUME Crash
         PROVE  TypeInv'
    <2>1. TypeOK'
      BY <1>13, UploadAssumption DEF Crash, GoesWrong, run, locals, ghosts
    <2>2. LoadedInv' /\ IdleInv'
      BY <1>13 DEF Crash, run, LoadedInv, IdleInv, Loaded, This
    <2>3. JobInv'
      BY <1>13 DEF Crash, Live, run, JobInv, Content
    <2> QED
      BY <2>1, <2>2, <2>3
  <1>14. CASE UNCHANGED vars
    BY <1>14 DEF vars, run, locals, server, ghosts, LoadedInv, IdleInv, Loaded,
                 This, JobInv, Content
  <1> QED
    BY <1>1, <1>3, <1>4, <1>5, <1>6, <1>7, <1>8, <1>9, <1>10, <1>11, <1>12, <1>13,
       <1>14 DEF Next, Client

\* No run, however its connections and the server fare, leaves its list, and
\* the server is never left with anything but artifacts.
THEOREM UploadTypeCorrect == Spec => []TypeOK
  <1>1. Init => TypeInv
    BY InitTypeInv
  <1>2. TypeInv /\ [Next]_vars => TypeInv'
    BY NextTypeInv
  <1>3. TypeInv => TypeOK
    BY DEF TypeInv
  <1> QED
    BY <1>1, <1>2, <1>3, PTL DEF Spec

-----------------------------------------------------------------------------
(* Exit status 0 means that everything was stored.                          *)

\* `bundles' has had what it has now.
RowInv == \A r \in Run : \A i \in DOMAIN paths[r] :
    paths[r][i] \in Artifact /\ row[BundleOf[paths[r][i]]] = paths[r][i]
        => <<r, i>> \in held

\* The server says `done' of what it has recorded only.
OutcomeInv == \A j \in Job :
    job[j] = "recorded" \/ word[j] = "done" => j \in held

\* A run has been told of the path it is at.
KnownInv == \A r \in Run : exists[r] \/ final[r] =>
    /\ pc[r] \in {"deciding", "sending", "reading", "escaped"}
    /\ Upload(r) \in held

\* As long as nothing has failed, every path that is behind was stored.
PrefixInv == \A r \in Run : ok[r] =>
    \A i \in DOMAIN paths[r] : i < at[r] => <<r, i>> \in held

ExitInv == \A r \in Run : pc[r] = "exited" => at[r] > Len(paths[r])

HeldInv == RowInv /\ OutcomeInv /\ KnownInv /\ PrefixInv /\ ExitInv

LEMMA InitHeldInv == Init => HeldInv
  BY DEF Init, HeldInv, RowInv, OutcomeInv, KnownInv, PrefixInv, ExitInv

\* Going on to the next path, for the reasons there are to call it good.
LEMMA NextPathHeld ==
    ASSUME TypeInv, HeldInv, NEW r \in Run, NEW good \in BOOLEAN,
           good => Upload(r) \in held, pc[r] # "idle",
           NextPath(r, good), UNCHANGED <<paths, row, job, word, held>>
    PROVE  HeldInv'
  <1>1. RowInv' /\ OutcomeInv'
    BY DEF HeldInv, RowInv, OutcomeInv
  <1>2. KnownInv' /\ ExitInv'
    BY DEF HeldInv, KnownInv, ExitInv, NextPath, Upload, TypeInv, TypeOK
  <1>3. PrefixInv'
    <2> SUFFICES ASSUME NEW q \in Run, ok'[q], NEW i \in DOMAIN paths[q], i < at'[q]
                 PROVE  <<q, i>> \in held
      BY DEF PrefixInv
    <2>1. CASE q # r
      BY <2>1 DEF NextPath, HeldInv, PrefixInv, TypeInv, TypeOK
    <2>2. CASE q = r
      <3>1. at'[r] = at[r] + 1 /\ ok[r] /\ good /\ at[r] \in Nat
        BY <2>2 DEF NextPath, TypeInv, TypeOK
      <3>2. i \in Nat
        BY DEF TypeInv, TypeOK
      <3>3. CASE i < at[r]
        BY <2>2, <3>1, <3>3 DEF HeldInv, PrefixInv
      <3>4. CASE i = at[r]
        BY <2>2, <3>1, <3>4 DEF Upload
      <3> QED
        BY <2>2, <3>1, <3>2, <3>3, <3>4
    <2> QED
      BY <2>1, <2>2
  <1> QED
    BY <1>1, <1>2, <1>3 DEF HeldInv

LEMMA NextHeldInv == TypeInv /\ HeldInv /\ [Next]_vars => HeldInv'
  <1> SUFFICES ASSUME TypeInv, HeldInv, [Next]_vars
               PROVE  HeldInv'
    OBVIOUS
  <1> USE DEF HeldInv
  <1>1. ASSUME NEW r \in Run, NEW forced \in BOOLEAN, NEW list \in Lists[r],
               Begin(r, list, forced)
        PROVE  HeldInv'
    <2> USE DEF Begin, server, locals
    <2>1. paths[r] = <<>> /\ at[r] = 1
      BY <1>1 DEF TypeInv, IdleInv
    <2>2. list \in Seq(Input)
      BY UploadAssumption
    <2>3. paths' = [paths EXCEPT ![r] = list] /\ DOMAIN paths = Run
      BY <1>1 DEF TypeInv, TypeOK
    <2>4. RowInv'
      <3> SUFFICES ASSUME NEW q \in Run, NEW i \in DOMAIN paths'[q],
                          paths'[q][i] \in Artifact,
                          row[BundleOf[paths'[q][i]]] = paths'[q][i]
                   PROVE  <<q, i>> \in held'
        BY <1>1 DEF RowInv
      <3>1. CASE q = r
        BY <1>1, <2>3, <3>1 DEF Matching
      <3>2. CASE q # r
        BY <1>1, <2>3, <3>2 DEF RowInv
      <3> QED
        BY <3>1, <3>2
    <2>5. OutcomeInv'
      BY <1>1 DEF OutcomeInv
    <2>6. KnownInv'
      BY <1>1 DEF KnownInv, Upload, TypeInv, TypeOK
    <2>7. PrefixInv'
      <3> SUFFICES ASSUME NEW q \in Run, ok[q], NEW i \in DOMAIN paths'[q], i < at[q]
                   PROVE  <<q, i>> \in held'
        BY <1>1 DEF PrefixInv
      <3>1. CASE q = r
        BY <2>1, <2>2, <2>3, <3>1
      <3>2. CASE q # r
        BY <1>1, <2>3, <3>2 DEF PrefixInv
      <3> QED
        BY <3>1, <3>2
    <2>8. ExitInv'
      BY <1>1, <2>3 DEF ExitInv, TypeInv, TypeOK
    <2> QED
      BY <2>4, <2>5, <2>6, <2>7, <2>8
  <1>2. ASSUME NEW r \in Run,
               \/ Load(r) /\ This(r) \notin Unloadable
               \/ AskInVain(r)
               \/ Decide(r) /\ ~exists[r]
               \/ Send(r) \/ Escape(r) \/ Exit(r)
        PROVE  HeldInv'
    <2> USE DEF server, locals, ghosts
    <2>1. RowInv'
      BY <1>2 DEF RowInv, Load, AskInVain, Decide, Send, Escape, Exit
    <2>2. OutcomeInv'
      BY <1>2 DEF OutcomeInv, Load, AskInVain, Decide, Send, Escape, Exit, TypeInv,
                  TypeOK
    <2>3. KnownInv'
      <3>1. \A q \in Run : exists'[q] \/ final'[q] => exists[q] \/ final[q]
        BY <1>2 DEF Load, AskInVain, Decide, Send, Escape, Exit, TypeInv, TypeOK
      <3>2. at' = at /\ held' = held /\ \A q \in Run : q # r => pc'[q] = pc[q]
        BY <1>2 DEF Load, AskInVain, Decide, Send, Escape, Exit, TypeInv, TypeOK
      <3>3. pc[r] = "loading" \/ pc'[r] \in {"deciding", "sending", "reading", "escaped"}
        BY <1>2 DEF Load, AskInVain, Decide, Send, Escape, Exit, TypeInv, TypeOK
      <3> QED
        BY <3>1, <3>2, <3>3 DEF KnownInv, Upload
    <2>4. PrefixInv'
      BY <1>2 DEF PrefixInv, Load, AskInVain, Decide, Send, Escape, Exit
    <2>5. ExitInv'
      <3> SUFFICES ASSUME NEW q \in Run, pc'[q] = "exited"
                   PROVE  at'[q] > Len(paths'[q])
        BY DEF ExitInv
      <3>1. at' = at /\ paths' = paths
        BY <1>2 DEF Load, AskInVain, Decide, Send, Escape, Exit
      <3>2. CASE q = r
        BY <1>2, <3>1, <3>2 DEF Load, AskInVain, Decide, Send, Escape, Exit, TypeInv, TypeOK
      <3>3. CASE q # r
        <4>1. pc'[q] = pc[q]
          BY <1>2, <3>3 DEF Load, AskInVain, Decide, Send, Escape, Exit, TypeInv, TypeOK
        <4> QED
          BY <3>1, <4>1 DEF ExitInv
      <3> QED
        BY <3>2, <3>3
    <2> QED
      BY <2>1, <2>2, <2>3, <2>4, <2>5
  <1>3. ASSUME NEW r \in Run, Ask(r)
        PROVE  HeldInv'
    <2> USE DEF Ask, server, ghosts
    <2>1. at[r] \in DOMAIN paths[r] /\ This(r) \in Artifact
      BY <1>3 DEF TypeInv, LoadedInv, Loaded
    <2>2. exists'[r] => Upload(r) \in held
      BY <1>3, <2>1 DEF RowInv, This, Upload, TypeInv, TypeOK
    <2>3. KnownInv'
      BY <1>3, <2>2 DEF KnownInv, Upload, TypeInv, TypeOK
    <2>4. RowInv' /\ OutcomeInv' /\ PrefixInv' /\ ExitInv'
      BY <1>3 DEF RowInv, OutcomeInv, PrefixInv, ExitInv, TypeInv, TypeOK
    <2> QED
      BY <2>3, <2>4
  <1>4. ASSUME NEW r \in Run,
               \/ Load(r) /\ This(r) \in Unloadable
               \/ Decide(r) /\ exists[r]
               \/ Refused(r) \/ Verdict(r) \/ Unparseable(r) \/ IdleTimeout(r)
        PROVE  HeldInv'
    <2>1. PICK good \in BOOLEAN :
             NextPath(r, good) /\ (good => exists[r] \/ final[r])
      BY <1>4 DEF Load, Decide, Refused, Verdict, Unparseable, IdleTimeout, TypeInv,
                  TypeOK
    <2>2. pc[r] # "idle" /\ UNCHANGED <<paths, row, job, word, held>>
      BY <1>4 DEF Load, Decide, Refused, Verdict, Unparseable, IdleTimeout, server,
                  ghosts
    <2> QED
      BY <2>1, <2>2, NextPathHeld DEF KnownInv
  <1>5. ASSUME NEW r \in Run, ReadLine(r)
        PROVE  HeldInv'
    <2> USE DEF ReadLine, ghosts
    <2>1. at[r] \in DOMAIN paths[r]
      BY <1>5 DEF TypeInv, LoadedInv, Loaded
    <2>2. Upload(r) \in Job
      BY <2>1, PlacesAreJobs DEF Upload, TypeInv
    <2>3. final'[r] => Upload(r) \in held
      BY <1>5, <2>2 DEF KnownInv, OutcomeInv, TypeInv, TypeOK
    <2>4. KnownInv'
      BY <1>5, <2>3 DEF KnownInv, Upload, TypeInv, TypeOK
    <2>5. OutcomeInv'
      BY <1>5, <2>2 DEF OutcomeInv, TypeInv, TypeOK
    <2>6. RowInv' /\ PrefixInv' /\ ExitInv'
      BY <1>5 DEF RowInv, PrefixInv, ExitInv
    <2> QED
      BY <2>4, <2>5, <2>6
  <1>6. ASSUME NEW j \in Job, Record(j)
        PROVE  HeldInv'
    <2> USE DEF Record, run, locals
    <2>1. j[2] \in DOMAIN paths[j[1]] /\ Content(j) \in Artifact
      BY <1>6 DEF TypeInv, JobInv
    <2>2. held \subseteq held' /\ j \in held'
      BY <1>6, <2>1
    <2>3. RowInv'
      <3> SUFFICES ASSUME NEW r \in Run, NEW i \in DOMAIN paths[r],
                          paths[r][i] \in Artifact,
                          row'[BundleOf[paths[r][i]]] = paths[r][i]
                   PROVE  <<r, i>> \in held'
        BY <1>6 DEF RowInv
      <3>1. <<r, i>> \in Job
        BY PlacesAreJobs DEF TypeInv
      <3>2. CASE paths[r][i] = Content(j)
        BY <1>6, <3>1, <3>2 DEF Content
      <3>3. CASE paths[r][i] # Content(j)
        <4>1. row[BundleOf[paths[r][i]]] = paths[r][i]
          BY <1>6, <3>3, UploadAssumption DEF TypeInv, TypeOK
        <4> QED
          BY <2>2, <4>1 DEF RowInv
      <3> QED
        BY <3>2, <3>3
    <2>4. OutcomeInv'
      BY <1>6, <2>2 DEF OutcomeInv, TypeInv, TypeOK
    <2>5. KnownInv' /\ PrefixInv' /\ ExitInv'
      BY <1>6, <2>2 DEF KnownInv, PrefixInv, ExitInv, Upload
    <2> QED
      BY <2>3, <2>4, <2>5
  <1>7. ASSUME UNCHANGED <<run, held>>, TypeOK',
               row' = row \/ \E b \in Bundle : row' = [row EXCEPT ![b] = Nothing],
               \A j \in Job : job'[j] = "recorded" => job[j] = "recorded",
               \A j \in Job : word'[j] = "done" =>
                                 word[j] = "done" \/ job[j] = "recorded"
        PROVE  HeldInv'
    <2> USE DEF run, locals
    <2>1. \A b \in Bundle : row'[b] = row[b] \/ row'[b] = Nothing
      BY <1>7 DEF TypeInv, TypeOK
    <2>2. RowInv'
      BY <1>7, <2>1, UploadAssumption DEF RowInv
    <2>3. OutcomeInv'
      BY <1>7 DEF OutcomeInv
    <2>4. KnownInv' /\ PrefixInv' /\ ExitInv'
      BY <1>7 DEF KnownInv, PrefixInv, ExitInv, Upload
    <2> QED
      BY <2>2, <2>3, <2>4
  <1>8. TypeOK'
    BY NextTypeInv DEF TypeInv
  <1>9. ASSUME NEW j \in Job, Serve(j), ~Record(j)
        PROVE  HeldInv'
    <2>1. UNCHANGED <<run, held>> /\ row' = row
      BY <1>9 DEF Serve, Start, WarnNobody, Fail, Say, Cut, ghosts
    <2>2. \A k \in Job : job'[k] = "recorded" => job[k] = "recorded"
      BY <1>9 DEF Serve, Start, WarnNobody, Fail, Say, Cut, TypeInv, TypeOK
    <2>3. \A k \in Job : word'[k] = "done" => word[k] = "done" \/ job[k] = "recorded"
      BY <1>9 DEF Serve, Start, WarnNobody, Fail, Say, Cut, TypeInv, TypeOK
    <2> QED
      BY <1>7, <1>8, <2>1, <2>2, <2>3
  <1>10. ASSUME NEW b \in Bundle, Withdraw(b)
         PROVE  HeldInv'
    BY <1>7, <1>8, <1>10 DEF Withdraw
  <1>11. ASSUME Crash
         PROVE  HeldInv'
    BY <1>7, <1>8, <1>11 DEF Crash, ghosts
  <1>12. CASE UNCHANGED vars
    BY <1>7, <1>8, <1>12 DEF vars, server, ghosts
  <1>13. ASSUME NEW r \in Run, Client(r) \/ Unparseable(r)
         PROVE  HeldInv'
    <2>1. exists[r] \in BOOLEAN
      BY DEF TypeInv, TypeOK
    <2> QED
      BY <1>2, <1>3, <1>4, <1>5, <1>13, <2>1 DEF Client
  <1> QED
    BY <1>1, <1>6, <1>9, <1>10, <1>11, <1>12, <1>13 DEF Next

\* When `papyri upload' exits with status 0, everything on its command line has
\* been in the server's `bundles' since it began: no lost connection, timeout,
\* failure, restart or deletion makes it report more than the server had.
THEOREM ExitZeroIsTrue == Spec => []ExitZeroIsStored
  <1>1. Init => TypeInv /\ HeldInv
    BY InitTypeInv, InitHeldInv
  <1>2. TypeInv /\ HeldInv /\ [Next]_vars => (TypeInv /\ HeldInv)'
    BY NextTypeInv, NextHeldInv
  <1>3. TypeInv /\ HeldInv => ExitZeroIsStored
    <2> SUFFICES ASSUME TypeInv, HeldInv, NEW r \in Run, pc[r] = "exited", ok[r],
                        NEW i \in DOMAIN paths[r]
                 PROVE  <<r, i>> \in held
      BY DEF ExitZeroIsStored
    <2>1. i \in Nat /\ i <= Len(paths[r]) /\ at[r] \in Nat
      BY DEF TypeInv, TypeOK
    <2>2. at[r] > Len(paths[r]) /\ Len(paths[r]) \in Nat
      BY DEF HeldInv, ExitInv, TypeInv, TypeOK
    <2> QED
      BY <2>1, <2>2 DEF HeldInv, PrefixInv
  <1> QED
    BY <1>1, <1>2, <1>3, PTL DEF Spec

-----------------------------------------------------------------------------
(* Exit status 0 means that the last artifact stays.                        *)

Unsettled == {"accepted", "ingesting"}

\* A run for which nothing has failed has left no upload behind that could
\* still be recorded.
BehindInv == \A r \in Run : ok[r] =>
    \A i \in DOMAIN paths[r] : i < at[r] => job[<<r, i>>] \notin Unsettled

\* And it has none ahead.
AheadInv == \A r \in Run : \A i \in DOMAIN paths[r] :
    /\ i >= at[r]
    /\ i = at[r] => pc[r] \notin {"reading", "escaped"}
    => job[<<r, i>>] = "none"

\* What a run knows of an upload, the server has said last.
SaidInv ==
    /\ \A j \in Job : word[j] # "none" => job[j] = "over"
    /\ \A r \in Run : final[r] =>
          pc[r] \in {"reading", "escaped"} /\ job[Upload(r)] = "over"
    /\ \A r \in Run : exists[r] => pc[r] = "deciding"

SettledInv == BehindInv /\ AheadInv /\ SaidInv

LEMMA InitSettledInv == Init => SettledInv
  BY DEF Init, SettledInv, BehindInv, AheadInv, SaidInv

LEMMA NextSettledInv == TypeInv /\ SettledInv /\ [Next]_vars => SettledInv'
  <1> SUFFICES ASSUME TypeInv, SettledInv, [Next]_vars
               PROVE  SettledInv'
    OBVIOUS
  <1> USE DEF SettledInv
  <1>1. ASSUME NEW r \in Run, NEW forced \in BOOLEAN, NEW list \in Lists[r],
               Begin(r, list, forced)
        PROVE  SettledInv'
    <2> USE DEF Begin, server, locals
    <2>1. paths[r] = <<>> /\ at[r] = 1
      BY <1>1 DEF TypeInv, IdleInv
    <2>2. \A j \in Job : j[1] = r => job[j] = "none"
      BY <2>1 DEF TypeInv, JobInv
    <2>3. TypeOK'
      BY NextTypeInv DEF TypeInv
    <2>4. ASSUME NEW i \in DOMAIN paths'[r]
          PROVE  job[<<r, i>>] = "none"
      <3>1. <<r, i>> \in Job
        BY <1>1, <2>3 DEF TypeOK, Place, Job
      <3> QED
        BY <2>2, <3>1
    <2>5. \A q \in Run : q # r => paths'[q] = paths[q] /\ pc'[q] = pc[q]
      BY <1>1 DEF TypeInv, TypeOK
    <2>6. BehindInv'
      BY <1>1, <2>4, <2>5 DEF BehindInv, Unsettled
    <2>7. AheadInv'
      BY <1>1, <2>4, <2>5 DEF AheadInv
    <2>8. SaidInv'
      BY <1>1, <2>5 DEF SaidInv, Upload
    <2> QED
      BY <2>6, <2>7, <2>8
  <1>2. ASSUME NEW r \in Run, NEW good \in BOOLEAN, NextPath(r, good),
               UNCHANGED <<paths, job, word>>,
               good => job[Upload(r)] \notin Unsettled
        PROVE  SettledInv'
    <2>1. BehindInv'
      <3> SUFFICES ASSUME NEW q \in Run, ok'[q], NEW i \in DOMAIN paths[q], i < at'[q]
                   PROVE  job[<<q, i>>] \notin Unsettled
        BY <1>2 DEF BehindInv
      <3>1. CASE q # r
        BY <1>2, <3>1 DEF NextPath, BehindInv, TypeInv, TypeOK
      <3>2. CASE q = r
        <4>1. ok[r] /\ good /\ i \in Nat /\ at[r] \in Nat /\ i < at[r] + 1
          BY <1>2, <3>2 DEF NextPath, TypeInv, TypeOK
        <4>2. CASE i < at[r]
          BY <3>2, <4>1, <4>2 DEF BehindInv
        <4>3. CASE i = at[r]
          BY <1>2, <3>2, <4>1, <4>3 DEF Upload
        <4> QED
          BY <4>1, <4>2, <4>3
      <3> QED
        BY <3>1, <3>2
    <2>2. AheadInv'
      <3> SUFFICES ASSUME NEW q \in Run, NEW i \in DOMAIN paths[q], i >= at'[q],
                          i = at'[q] => pc'[q] \notin {"reading", "escaped"}
                   PROVE  job[<<q, i>>] = "none"
        BY <1>2 DEF AheadInv
      <3>1. CASE q # r
        BY <1>2, <3>1 DEF NextPath, AheadInv, TypeInv, TypeOK
      <3>2. CASE q = r
        <4>1. i \in Nat /\ at[r] \in Nat /\ i >= at[r] + 1
          BY <1>2, <3>2 DEF NextPath, TypeInv, TypeOK
        <4> QED
          BY <3>2, <4>1 DEF AheadInv
      <3> QED
        BY <3>1, <3>2
    <2>3. SaidInv'
      BY <1>2 DEF SaidInv, NextPath, Upload, TypeInv, TypeOK
    <2> QED
      BY <2>1, <2>2, <2>3
  <1>3. ASSUME NEW r \in Run,
               \/ Load(r) /\ This(r) \in Unloadable
               \/ Refused(r) \/ Unparseable(r) \/ IdleTimeout(r)
        PROVE  SettledInv'
    <2>1. NextPath(r, FALSE) /\ UNCHANGED <<paths, job, word>>
      BY <1>3 DEF Load, Refused, Unparseable, IdleTimeout, server
    <2> QED
      BY <1>2, <2>1
  <1>4. ASSUME NEW r \in Run, Decide(r), exists[r]
        PROVE  SettledInv'
    <2>1. at[r] \in DOMAIN paths[r] /\ at[r] \in Nat
      BY <1>4 DEF Decide, TypeInv, LoadedInv, Loaded, TypeOK
    <2>2. job[Upload(r)] = "none"
      BY <1>4, <2>1 DEF Decide, AheadInv, Upload
    <2> QED
      BY <1>2, <1>4, <2>2 DEF Decide, server, Unsettled
  <1>5. ASSUME NEW r \in Run, Verdict(r)
        PROVE  SettledInv'
    <2>1. PICK good \in BOOLEAN : NextPath(r, good) /\ (good => final[r])
      BY <1>5 DEF Verdict, TypeInv, TypeOK
    <2>2. UNCHANGED <<paths, job, word>>
      BY <1>5 DEF Verdict
    <2> QED
      BY <1>2, <2>1, <2>2 DEF SaidInv, Unsettled
  <1>6. ASSUME NEW r \in Run,
               \/ Load(r) /\ This(r) \notin Unloadable
               \/ Ask(r) \/ AskInVain(r)
               \/ Decide(r) /\ ~exists[r]
               \/ Escape(r) \/ Exit(r)
        PROVE  SettledInv'
    <2> USE DEF Load, Ask, AskInVain, Decide, Escape, Exit, server, locals
    <2>1. UNCHANGED <<paths, at, ok, job, word>> /\ final' = final
      BY <1>6
    <2>2. \A q \in Run : q # r => pc'[q] = pc[q] /\ exists'[q] = exists[q]
      BY <1>6 DEF TypeInv, TypeOK
    <2>3. \/ pc[r] \notin {"reading", "escaped"}
          \/ pc[r] = "reading" /\ pc'[r] = "escaped"
      BY <1>6 DEF TypeInv, TypeOK
    <2>4. exists'[r] => pc'[r] = "deciding"
      <3>1. exists[r] => pc[r] = "deciding"
        BY DEF SaidInv
      <3>2. CASE Ask(r) \/ AskInVain(r)
        BY <3>2 DEF TypeInv, TypeOK
      <3>3. CASE ~(Ask(r) \/ AskInVain(r))
        <4>1. exists' = exists
          BY <1>6, <3>3
        <4> QED
          BY <1>6, <3>1, <3>3, <4>1
      <3> QED
        BY <3>2, <3>3
    <2>5. BehindInv'
      BY <2>1 DEF BehindInv
    <2>6. AheadInv'
      BY <2>1, <2>2, <2>3 DEF AheadInv
    <2>7. SaidInv'
      BY <2>1, <2>2, <2>3, <2>4 DEF SaidInv, Upload
    <2> QED
      BY <2>5, <2>6, <2>7
  <1>7. ASSUME NEW r \in Run, Send(r)
        PROVE  SettledInv'
    <2> USE DEF Send, locals
    <2>1. at[r] \in DOMAIN paths[r] /\ at[r] \in Nat
      BY <1>7 DEF TypeInv, LoadedInv, Loaded, TypeOK
    <2>2. Upload(r) \in Job /\ job[Upload(r)] = "none"
      BY <1>7, <2>1, PlacesAreJobs DEF Upload, AheadInv, TypeInv
    <2>3. \A q \in Run : \A i \in DOMAIN paths[q] :
            q # r \/ i # at[r] => job'[<<q, i>>] = job[<<q, i>>]
      BY <1>7, PlacesAreJobs DEF Upload, TypeInv, TypeOK
    <2>4. BehindInv'
      <3> SUFFICES ASSUME NEW q \in Run, ok'[q], NEW i \in DOMAIN paths[q], i < at'[q]
                   PROVE  job'[<<q, i>>] \notin Unsettled
        BY <1>7 DEF BehindInv
      <3>1. ok[q] /\ i < at[q] /\ i \in Nat
        BY <1>7 DEF TypeInv, TypeOK
      <3>2. q # r \/ i # at[r]
        BY <2>1, <3>1
      <3> QED
        BY <2>3, <3>1, <3>2 DEF BehindInv
    <2>5. AheadInv'
      BY <1>7, <2>3 DEF AheadInv, TypeInv, TypeOK
    <2>6. SaidInv'
      <3>1. \A q \in Run : final[q] => q # r /\ Upload(q) \in Job
        BY <1>7, PlacesAreJobs DEF SaidInv, Upload, TypeInv, LoadedInv, Loaded
      <3>2. \A q \in Run : final[q] => pc'[q] = pc[q] /\ job'[Upload(q)] = job[Upload(q)]
        BY <1>7, <3>1 DEF Upload, TypeInv, TypeOK
      <3>3. \A j \in Job : word'[j] # "none" => job'[j] = "over"
        BY <1>7, <2>2 DEF SaidInv, TypeInv, TypeOK
      <3>4. \A q \in Run : exists'[q] => pc'[q] = "deciding"
        BY <1>7 DEF SaidInv, TypeInv, TypeOK
      <3>5. \A q \in Run : Upload(q)' = Upload(q) /\ final'[q] = final[q]
        BY <1>7 DEF Upload
      <3> QED
        BY <3>2, <3>3, <3>4, <3>5 DEF SaidInv
    <2> QED
      BY <2>4, <2>5, <2>6
  <1>8. ASSUME NEW r \in Run, ReadLine(r)
        PROVE  SettledInv'
    <2> USE DEF ReadLine
    <2>1. at[r] \in DOMAIN paths[r]
      BY <1>8 DEF TypeInv, LoadedInv, Loaded
    <2>2. Upload(r) \in Job
      BY <2>1, PlacesAreJobs DEF Upload, TypeInv
    <2>3. job[Upload(r)] = "over"
      BY <1>8, <2>2 DEF SaidInv
    <2>4. SaidInv'
      <3>1. UNCHANGED <<paths, pc, at, exists, job>>
        BY <1>8
      <3>2. \A j \in Job : word'[j] # "none" => word[j] # "none"
        BY <1>8, <2>2 DEF TypeInv, TypeOK
      <3>3. \A q \in Run : final'[q] => final[q] \/ q = r
        BY <1>8 DEF TypeInv, TypeOK
      <3>4. pc[r] = "reading" /\ \A q \in Run : Upload(q)' = Upload(q)
        BY <1>8, <3>1 DEF Upload
      <3> QED
        BY <2>3, <3>1, <3>2, <3>3, <3>4 DEF SaidInv
    <2>5. BehindInv' /\ AheadInv'
      BY <1>8 DEF BehindInv, AheadInv
    <2> QED
      BY <2>4, <2>5
  <1>9. ASSUME UNCHANGED run,
               \A j \in Job :
                  /\ job'[j] \in Unsettled => job[j] \in Unsettled
                  /\ job[j] = "none" => job'[j] = "none"
                  /\ job[j] = "over" => job'[j] = "over"
                  /\ word'[j] # "none" => job'[j] = "over"
        PROVE  SettledInv'
    <2> USE DEF run, locals
    <2>1. \A q \in Run : \A i \in DOMAIN paths[q] : <<q, i>> \in Job
      BY PlacesAreJobs DEF TypeInv
    <2>2. \A q \in Run : final[q] => Upload(q) \in Job
      BY <2>1 DEF SaidInv, Upload, TypeInv, LoadedInv, Loaded
    <2>3. UNCHANGED <<paths, pc, at, ok, exists, final>>
      BY <1>9
    <2>4. ASSUME NEW k \in Job
          PROVE  /\ job'[k] \in Unsettled => job[k] \in Unsettled
                 /\ job[k] = "none" => job'[k] = "none"
                 /\ job[k] = "over" => job'[k] = "over"
                 /\ word'[k] # "none" => job'[k] = "over"
      BY <1>9
    <2>5. BehindInv'
      BY <2>1, <2>3, <2>4 DEF BehindInv
    <2>6. AheadInv'
      BY <2>1, <2>3, <2>4 DEF AheadInv
    <2>7. SaidInv'
      BY <2>2, <2>3, <2>4 DEF SaidInv, Upload
    <2> QED
      BY <2>5, <2>6, <2>7
  <1>10. ASSUME NEW j \in Job, Serve(j)
         PROVE  SettledInv'
    <2> USE DEF Start, WarnNobody, Record, Fail, Say, Cut, ghosts
    <2>1. UNCHANGED run
      BY <1>10 DEF Serve
    <2>2. \A k \in Job : k # j => job'[k] = job[k] /\ word'[k] = word[k]
      BY <1>10 DEF Serve, TypeInv, TypeOK
    <2>3. /\ job'[j] \in Unsettled => job[j] \in Unsettled
          /\ job[j] = "none" => job'[j] = "none"
          /\ job[j] = "over" => job'[j] = "over"
          /\ word'[j] # "none" => job'[j] = "over"
      BY <1>10 DEF Serve, SaidInv, Unsettled, TypeInv, TypeOK
    <2> QED
      BY <1>9, <2>1, <2>2, <2>3 DEF SaidInv
  <1>11. ASSUME NEW b \in Bundle, Withdraw(b)
         PROVE  SettledInv'
    BY <1>9, <1>11 DEF Withdraw, SaidInv
  <1>12. ASSUME Crash
         PROVE  SettledInv'
    BY <1>9, <1>12 DEF Crash, Live, SaidInv, Unsettled
  <1>13. CASE UNCHANGED vars
    BY <1>9, <1>13 DEF vars, server, SaidInv
  <1>14. ASSUME NEW r \in Run, Client(r) \/ Unparseable(r)
         PROVE  SettledInv'
    <2>1. exists[r] \in BOOLEAN
      BY DEF TypeInv, TypeOK
    <2> QED
      BY <1>3, <1>4, <1>5, <1>6, <1>7, <1>8, <1>14, <2>1 DEF Client
  <1> QED
    BY <1>1, <1>10, <1>11, <1>12, <1>13, <1>14 DEF Next

-----------------------------------------------------------------------------
(* The row of a bundle that one run has to itself.                          *)

Of(r, b) == {i \in DOMAIN paths[r] :
                paths[r][i] \in Artifact /\ BundleOf[paths[r][i]] = b}

Alone(r, b) == \A q \in Run \ {r} : Of(q, b) = {}

\* The path a run is at has been recorded, and the run knows or will be told.
Stored(r) ==
    exists[r] \/ final[r] \/ job[Upload(r)] = "recorded" \/ word[Upload(r)] = "done"

Behind(r, i) == i < at[r] \/ (i = at[r] /\ Stored(r))

\* Nothing has gone wrong with the path a run is at, that the run knows of or
\* will come to know of.
GoesWell(r) ==
    /\ ok[r] /\ pc[r] # "escaped"
    /\ pc[r] = "reading" => job[Upload(r)] \in Unsettled \/ Stored(r)

\* The row is the last of the run's artifacts of the bundle that are stored.
LastIsRow(r, b) == \A i \in Of(r, b) :
    /\ Behind(r, i)
    /\ \A k \in Of(r, b) : Behind(r, k) => k <= i
    => row[b] = paths[r][i]

ServedInv == \A r \in Run, b \in Bundle \ withdrawn :
    GoesWell(r) /\ Alone(r, b) => LastIsRow(r, b)

LEMMA InitServedInv == Init => ServedInv
  BY DEF Init, ServedInv, LastIsRow, Of

\* A step that moves neither the row nor the boundary of what is stored.
LEMMA LastIsKept ==
    ASSUME ServedInv, NEW r \in Run, NEW b \in Bundle \ withdrawn,
           GoesWell(r), Alone(r, b), row'[b] = row[b], paths'[r] = paths[r],
           \A i \in Of(r, b) : Behind(r, i)' <=> Behind(r, i)
    PROVE  LastIsRow(r, b)'
  <1>1. Of(r, b)' = Of(r, b)
    BY DEF Of
  <1>2. LastIsRow(r, b)
    BY DEF ServedInv
  <1> QED
    BY <1>1, <1>2 DEF LastIsRow

\* A step of another run.
LEMMA OthersKeep ==
    ASSUME TypeInv, ServedInv, NEW r \in Run, NEW b \in Bundle \ withdrawn,
           GoesWell(r)', Alone(r, b), row'[b] = row[b], paths'[r] = paths[r],
           pc'[r] = pc[r], at'[r] = at[r], ok'[r] = ok[r],
           exists'[r] = exists[r], final'[r] = final[r],
           \A i \in DOMAIN paths[r] : /\ job'[<<r, i>>] = job[<<r, i>>]
                                      /\ word'[<<r, i>>] = word[<<r, i>>]
    PROVE  LastIsRow(r, b)'
  <1>1. pc[r] = "reading" => at[r] \in DOMAIN paths[r]
    BY DEF TypeInv, LoadedInv, Loaded
  <1>2. at[r] \in DOMAIN paths[r] => (Stored(r)' <=> Stored(r))
    BY DEF Stored, Upload
  <1>3. GoesWell(r)
    BY <1>1, <1>2 DEF GoesWell, Upload
  <1>4. \A i \in Of(r, b) : Behind(r, i)' <=> Behind(r, i)
    BY <1>2 DEF Behind, Of
  <1> QED
    BY <1>3, <1>4, LastIsKept

\* A step of the server that does not record.
LEMMA ServerKeeps ==
    ASSUME TypeInv, SettledInv, SettledInv', ServedInv, NEW r \in Run,
           NEW b \in Bundle \ withdrawn, GoesWell(r)', Alone(r, b),
           row'[b] = row[b], UNCHANGED run,
           \A j \in Job :
              /\ job'[j] \in Unsettled => job[j] \in Unsettled
              /\ job'[j] = "recorded" => job[j] = "recorded"
              /\ job[j] = "none" => job'[j] = "none"
              /\ word'[j] = "done" => word[j] = "done" \/ job[j] = "recorded"
    PROVE  LastIsRow(r, b)'
  <1>1. UNCHANGED <<paths, pc, at, ok, exists, final>>
    BY DEF run, locals
  <1>2. Upload(r)' = Upload(r)
    BY <1>1 DEF Upload
  <1>3. at[r] \in DOMAIN paths[r] => Upload(r) \in Job
    BY PlacesAreJobs DEF Upload, TypeInv
  <1>4. at[r] \in DOMAIN paths[r] => (Stored(r)' <=> Stored(r)) /\ GoesWell(r)
    <2> SUFFICES ASSUME at[r] \in DOMAIN paths[r]
                 PROVE  (Stored(r)' <=> Stored(r)) /\ GoesWell(r)
      OBVIOUS
    <2> DEFINE u == Upload(r)
    <2>1. u \in Job
      BY <1>3
    <2>2. /\ word[u] # "none" => job[u] = "over"
          /\ word'[u] # "none" => job'[u] = "over"
      BY <2>1 DEF SettledInv, SaidInv
    <2>3. ok[r] /\ pc[r] # "escaped"
      BY <1>1 DEF GoesWell
    <2>4. CASE pc[r] = "reading" /\ job'[u] \in Unsettled
      <3>1. job[u] \in Unsettled
        BY <2>1, <2>4
      <3>2. /\ job[u] \notin {"recorded", "over"}
            /\ job'[u] \notin {"recorded", "over"}
        BY <2>4, <3>1 DEF Unsettled
      <3>3. word[u] # "done" /\ word'[u] # "done"
        BY <2>2, <3>2
      <3>4. Stored(r)' <=> Stored(r)
        BY <1>1, <1>2, <3>2, <3>3 DEF Stored
      <3> QED
        BY <2>3, <3>1, <3>4 DEF GoesWell
    <2>5. CASE pc[r] = "reading" /\ job'[u] \notin Unsettled
      <3>1. Stored(r)'
        BY <1>1, <1>2, <2>5 DEF GoesWell
      <3>2. Stored(r)
        BY <1>1, <1>2, <2>1, <3>1 DEF Stored
      <3> QED
        BY <2>3, <3>1, <3>2 DEF GoesWell
    <2>6. CASE pc[r] # "reading"
      <3>1. job[u] = "none"
        BY <2>3, <2>6 DEF SettledInv, AheadInv, Upload, TypeInv, TypeOK
      <3>2. job'[u] = "none"
        BY <2>1, <3>1
      <3>3. word[u] # "done" /\ word'[u] # "done"
        BY <2>2, <3>1, <3>2
      <3>4. Stored(r)' <=> Stored(r)
        BY <1>1, <1>2, <3>1, <3>2, <3>3 DEF Stored
      <3> QED
        BY <2>3, <2>6, <3>4 DEF GoesWell
    <2> QED
      BY <2>4, <2>5, <2>6
  <1>5. GoesWell(r)
    <2>1. CASE pc[r] = "reading"
      BY <1>4, <2>1 DEF TypeInv, LoadedInv, Loaded
    <2>2. CASE pc[r] # "reading"
      BY <1>1, <2>2 DEF GoesWell
    <2> QED
      BY <2>1, <2>2
  <1>6. \A i \in Of(r, b) : Behind(r, i)' <=> Behind(r, i)
    BY <1>1, <1>4 DEF Behind, Of
  <1> QED
    BY <1>1, <1>5, <1>6, LastIsKept

LEMMA NextServedInv ==
    TypeInv /\ SettledInv /\ ServedInv /\ [Next]_vars => ServedInv'
  <1> SUFFICES ASSUME TypeInv, SettledInv, ServedInv, [Next]_vars
               PROVE  ServedInv'
    OBVIOUS
  <1>1. SettledInv' /\ TypeInv'
    BY NextSettledInv, NextTypeInv
  <1>2. withdrawn \subseteq withdrawn'
    BY DEF Next, vars, Begin, Client, Load, Ask, AskInVain, Decide, Send, Refused,
           ReadLine, Verdict, Unparseable, IdleTimeout, Escape, Exit, Serve, Start,
           WarnNobody, Record, Fail, Say, Cut, Withdraw, Crash, ghosts
  <1> SUFFICES ASSUME NEW r \in Run, NEW b \in Bundle \ withdrawn, b \notin withdrawn',
                      GoesWell(r)', Alone(r, b)'
               PROVE  LastIsRow(r, b)'
    BY <1>2 DEF ServedInv
  <1>3. UNCHANGED paths => Alone(r, b)
    BY DEF Alone, Of
  <1>4. ok'[r] /\ pc'[r] # "escaped"
    BY DEF GoesWell
  <1>5. \A i \in DOMAIN paths[r] : <<r, i>> \in Job
    BY PlacesAreJobs DEF TypeInv
  <1>6. ASSUME NEW q \in Run, NEW forced \in BOOLEAN, NEW list \in Lists[q],
               Begin(q, list, forced)
        PROVE  LastIsRow(r, b)'
    <2> USE DEF Begin, server, locals
    <2>1. paths[q] = <<>> /\ at[q] = 1
      BY <1>6 DEF TypeInv, IdleInv
    <2>2. UNCHANGED <<at, ok, exists, final, row, job, word>>
      BY <1>6
    <2>3. CASE q = r
      <3>1. \A j \in Job : j[1] = r => job[j] = "none"
        BY <2>1, <2>3 DEF TypeInv, JobInv
      <3>2. ~exists[r] /\ ~final[r]
        BY <1>6, <2>3 DEF SettledInv, SaidInv
      <3>3. \A i \in DOMAIN paths'[r] : <<r, i>> \in Job
        BY <1>1, PlacesAreJobs DEF TypeInv, TypeOK, Place, Job
      <3>4. \A i \in DOMAIN paths'[r] :
              job[<<r, i>>] = "none" /\ word[<<r, i>>] = "none"
        BY <3>1, <3>3 DEF SettledInv, SaidInv, TypeInv, TypeOK
      <3>5. ASSUME NEW i \in Of(r, b)'
            PROVE  ~ Behind(r, i)'
        <4>1. i \in DOMAIN paths'[r] /\ i \in Nat /\ i >= 1
          BY SMTT(30), <1>1 DEF Of, TypeInv, TypeOK
        <4>2. at'[r] = 1
          BY <2>1, <2>2, <2>3
        <4>3. job'[<<r, i>>] = "none" /\ word'[<<r, i>>] = "none"
          BY <2>2, <3>4, <4>1
        <4>4. ~(i < at'[r])
          BY <4>1, <4>2
        <4>5. i = at'[r] => ~ Stored(r)'
          BY <2>2, <3>2, <4>3 DEF Stored, Upload
        <4> QED
          BY <4>4, <4>5 DEF Behind
      <3> QED
        BY <3>5 DEF LastIsRow
    <2>4. CASE q # r
      <3>1. paths'[r] = paths[r] /\ pc'[r] = pc[r]
        BY <1>6, <2>4 DEF TypeInv, TypeOK
      <3>2. Alone(r, b)
        <4> SUFFICES ASSUME NEW p \in Run \ {r}
                     PROVE  Of(p, b) = {}
          BY DEF Alone
        <4>1. CASE p = q
          BY <2>1, <4>1 DEF Of
        <4>2. CASE p # q
          <5>1. paths'[p] = paths[p]
            BY <1>6, <4>2 DEF TypeInv, TypeOK
          <5> QED
            BY <5>1 DEF Alone, Of
        <4> QED
          BY <4>1, <4>2
      <3> QED
        BY <2>2, <3>1, <3>2, OthersKeep
    <2> QED
      BY <2>3, <2>4
  <1>7. ASSUME NEW q \in Run, q # r, Client(q) \/ Unparseable(q)
        PROVE  LastIsRow(r, b)'
    <2> USE DEF locals, server, ghosts
    <2>1. UNCHANGED <<paths, row>>
      BY <1>7 DEF Client, Load, Ask, AskInVain, Decide, Send, Refused, ReadLine,
                  Verdict, Unparseable, IdleTimeout, Escape, Exit
    <2>2. /\ pc'[r] = pc[r] /\ at'[r] = at[r] /\ ok'[r] = ok[r]
          /\ exists'[r] = exists[r] /\ final'[r] = final[r]
      BY <1>7 DEF Client, Load, Ask, AskInVain, Decide, Send, Refused, ReadLine,
                  Verdict, Unparseable, IdleTimeout, Escape, Exit, NextPath,
                  TypeInv, TypeOK
    <2>3. \A i \in DOMAIN paths[r] : /\ job'[<<r, i>>] = job[<<r, i>>]
                                     /\ word'[<<r, i>>] = word[<<r, i>>]
      BY <1>5, <1>7 DEF Client, Load, Ask, AskInVain, Decide, Send, Refused, ReadLine,
                  Verdict, Unparseable, IdleTimeout, Escape, Exit, Upload,
                  TypeInv, TypeOK
    <2> QED
      BY <1>3, <2>1, <2>2, <2>3, OthersKeep
  <1>8. ASSUME NextPath(r, FALSE)
        PROVE  FALSE
    BY <1>4, <1>8 DEF NextPath, TypeInv, TypeOK
  <1>9. ASSUME NextPath(r, TRUE), Stored(r), pc[r] # "escaped",
               UNCHANGED <<paths, row, job, word>>
        PROVE  LastIsRow(r, b)'
    <2>1. GoesWell(r)
      BY <1>4, <1>9 DEF NextPath, GoesWell, TypeInv, TypeOK
    <2>2. at'[r] = at[r] + 1 /\ ~exists'[r] /\ ~final'[r] /\ at[r] \in Nat
      BY <1>9 DEF NextPath, TypeInv, TypeOK
    <2>3. ASSUME NEW i \in Of(r, b)
          PROVE  Behind(r, i)' <=> Behind(r, i)
      <3>1. i \in DOMAIN paths[r] /\ i \in Nat
        BY DEF Of, TypeInv, TypeOK
      <3>2. i = at'[r] => job[<<r, i>>] = "none"
        BY <2>2, <3>1 DEF SettledInv, AheadInv
      <3>3. i = at'[r] => word[<<r, i>>] = "none"
        BY <1>5, <3>1, <3>2 DEF SettledInv, SaidInv
      <3>4. Behind(r, i)' <=> i < at'[r]
        BY <1>9, <2>2, <3>2, <3>3 DEF Behind, Stored, Upload
      <3>5. Behind(r, i) <=> i <= at[r]
        BY <1>9, <2>2, <3>1 DEF Behind
      <3> QED
        BY <2>2, <3>1, <3>4, <3>5
    <2> QED
      BY <1>3, <1>9, <2>1, <2>3, LastIsKept
  <1>10. CASE \/ Load(r) /\ This(r) \notin Unloadable
              \/ AskInVain(r)
              \/ Decide(r) /\ ~exists[r]
              \/ Exit(r)
    <2> USE DEF Load, AskInVain, Decide, Exit, server, locals
    <2>1. UNCHANGED <<paths, at, ok, final, row, job, word>>
      BY <1>10
    <2>2. exists'[r] <=> exists[r]
      <3>1. CASE AskInVain(r)
        <4>1. ~exists[r]
          BY <3>1 DEF SettledInv, SaidInv
        <4>2. ~exists'[r]
          BY <3>1 DEF TypeInv, TypeOK
        <4> QED
          BY <4>1, <4>2
      <3>2. CASE ~AskInVain(r)
        BY <1>10, <3>2
      <3> QED
        BY <3>1, <3>2
    <2>3. GoesWell(r)
      BY <1>10, <2>1, <1>4 DEF GoesWell
    <2>4. \A i \in Of(r, b) : Behind(r, i)' <=> Behind(r, i)
      BY <2>1, <2>2 DEF Behind, Stored, Upload
    <2> QED
      BY <1>3, <2>1, <2>3, <2>4, LastIsKept
  <1>11. CASE Ask(r)
    <2> USE DEF Ask, server
    <2>1. UNCHANGED <<paths, at, ok, final, row, job, word>>
      BY <1>11
    <2>2. at[r] \in DOMAIN paths[r] /\ This(r) \in Artifact /\ at[r] \in Nat
      BY <1>11 DEF TypeInv, LoadedInv, Loaded, TypeOK
    <2>3. GoesWell(r)
      BY <1>11, <2>1, <1>4 DEF GoesWell
    <2>4. CASE ~exists'[r] \/ BundleOf[This(r)] # b
      <3>1. \A i \in Of(r, b) : Behind(r, i)' <=> Behind(r, i)
        <4>1. CASE ~exists'[r]
          <5>1. ~exists[r]
            BY <1>11 DEF SettledInv, SaidInv
          <5> QED
            BY <2>1, <4>1, <5>1 DEF Behind, Stored, Upload
        <4>2. CASE BundleOf[This(r)] # b
          <5>1. \A i \in Of(r, b) : i # at[r]
            BY <4>2 DEF Of, This
          <5> QED
            BY <2>1, <5>1 DEF Behind
        <4> QED
          BY <2>4, <4>1, <4>2
      <3> QED
        BY <1>3, <2>1, <2>3, <3>1, LastIsKept
    <2>5. CASE exists'[r] /\ BundleOf[This(r)] = b
      <3>1. row[b] = This(r)
        BY <1>11, <2>5 DEF TypeInv, TypeOK
      <3>2. at[r] \in Of(r, b) /\ Behind(r, at[r])'
        BY <2>1, <2>2, <2>5 DEF Of, This, Behind, Stored
      <3>3. \A i \in Of(r, b) : i \in Nat /\ (Behind(r, i)' => i <= at[r])
        BY <2>1, <2>2 DEF Of, Behind, TypeInv, TypeOK
      <3>4. Of(r, b)' = Of(r, b)
        BY <2>1 DEF Of
      <3> QED
        BY <2>1, <2>2, <3>1, <3>2, <3>3, <3>4 DEF LastIsRow, This
    <2> QED
      BY <2>4, <2>5
  <1>12. CASE Send(r)
    <2> USE DEF Send, locals
    <2>1. at[r] \in DOMAIN paths[r] /\ Upload(r) \in Job /\ at[r] \in Nat
      BY <1>12, <1>5 DEF TypeInv, LoadedInv, Loaded, Upload, TypeOK
    <2>2. UNCHANGED <<paths, at, ok, exists, final, row, word>>
      BY <1>12
    <2>3. job[Upload(r)] = "none" /\ job'[Upload(r)] = "accepted"
      <3>1. job[Upload(r)] = "none"
        BY <1>12, <2>1 DEF SettledInv, AheadInv, Upload
      <3>2. job'[Upload(r)] = "accepted"
        BY <1>12, <2>1 DEF TypeInv, TypeOK
      <3> QED
        BY <3>1, <3>2
    <2>4. GoesWell(r)
      BY <1>12, <2>2, <1>4 DEF GoesWell
    <2>5. Stored(r)' <=> Stored(r)
      BY <2>2, <2>3 DEF Stored, Upload
    <2>6. \A i \in Of(r, b) : Behind(r, i)' <=> Behind(r, i)
      BY <2>2, <2>5 DEF Behind
    <2> QED
      BY <1>3, <2>2, <2>4, <2>6, LastIsKept
  <1>13. CASE ReadLine(r)
    <2> USE DEF ReadLine
    <2>1. Upload(r) \in Job
      BY <1>13, <1>5 DEF TypeInv, LoadedInv, Loaded, Upload
    <2>2. UNCHANGED <<paths, at, ok, exists, row, job, pc>>
      BY <1>13
    <2>3. job[Upload(r)] = "over"
      BY <1>13, <2>1 DEF SettledInv, SaidInv
    <2>4. /\ final'[r] <=> final[r] \/ word[Upload(r)] = "done"
          /\ word'[Upload(r)] = "none"
      BY <1>13, <2>1 DEF TypeInv, TypeOK
    <2>5. Stored(r)' <=> Stored(r)
      BY <2>2, <2>4 DEF Stored, Upload
    <2>6. GoesWell(r)
      BY <1>13, <2>2, <2>3, <2>5 DEF GoesWell, Upload, Unsettled
    <2>7. \A i \in Of(r, b) : Behind(r, i)' <=> Behind(r, i)
      BY <2>2, <2>5 DEF Behind
    <2> QED
      BY <1>3, <2>2, <2>6, <2>7, LastIsKept
  <1>14. CASE Client(r) \/ Unparseable(r)
    <2>1. CASE \/ Load(r) /\ This(r) \in Unloadable
               \/ Refused(r) \/ Unparseable(r) \/ IdleTimeout(r)
      BY <1>8, <2>1 DEF Load, Refused, Unparseable, IdleTimeout
    <2>2. CASE Decide(r) /\ exists[r]
      <3>1. NextPath(r, TRUE) /\ Stored(r) /\ pc[r] # "escaped"
        BY <2>2 DEF Decide, Stored
      <3> QED
        BY <1>9, <2>2, <3>1 DEF Decide, server
    <2>3. CASE Verdict(r)
      <3>1. CASE final[r] /\ ~err[r]
        <4>1. NextPath(r, TRUE) /\ Stored(r) /\ pc[r] # "escaped"
          BY <2>3, <3>1 DEF Verdict, Stored, TypeInv, TypeOK
        <4> QED
          BY <1>9, <2>3, <4>1 DEF Verdict
      <3>2. CASE ~(final[r] /\ ~err[r])
        <4>1. NextPath(r, FALSE)
          BY <2>3, <3>2 DEF Verdict, TypeInv, TypeOK
        <4> QED
          BY <1>8, <4>1
      <3> QED
        BY <3>1, <3>2
    <2>4. CASE Escape(r)
      BY <1>4, <2>4 DEF Escape, TypeInv, TypeOK
    <2>5. exists[r] \in BOOLEAN
      BY DEF TypeInv, TypeOK
    <2> QED
      BY <1>10, <1>11, <1>12, <1>13, <1>14, <2>1, <2>2, <2>3, <2>4, <2>5 DEF Client
  <1>15. ASSUME NEW j \in Job, Record(j)
         PROVE  LastIsRow(r, b)'
    <2> USE DEF Record, run, locals
    <2>1. UNCHANGED <<paths, pc, at, ok, exists, final, word>>
      BY <1>15
    <2>2. j[2] \in DOMAIN paths[j[1]] /\ Content(j) \in Artifact
      BY <1>15 DEF TypeInv, JobInv
    <2>3. Alone(r, b)
      BY <1>3, <2>1
    <2>4. CASE j[1] # r
      <3>1. BundleOf[Content(j)] # b
        BY <2>2, <2>3, <2>4, JobsArePairs DEF Alone, Of, Content
      <3>2. row'[b] = row[b]
        BY <1>15, <3>1 DEF TypeInv, TypeOK
      <3>3. \A i \in DOMAIN paths[r] : job'[<<r, i>>] = job[<<r, i>>]
        BY <1>5, <1>15, <2>4 DEF TypeInv, TypeOK
      <3> QED
        BY <2>1, <2>3, <3>2, <3>3, OthersKeep
    <2>5. CASE j[1] = r
      <3>1. j = <<r, j[2]>> /\ j[2] \in DOMAIN paths[r]
        BY <2>2, <2>5, JobsArePairs
      <3>2. j[2] \in Nat /\ at[r] \in Nat /\ ok[r]
        BY <1>4, <2>1, <3>1 DEF TypeInv, TypeOK
      <3>3. j[2] = at[r] /\ pc[r] = "reading"
        <4>1. ~(j[2] < at[r])
          BY <1>15, <3>1, <3>2 DEF SettledInv, BehindInv, Unsettled
        <4>2. ~(j[2] > at[r]) /\ pc[r] \in {"reading", "escaped"}
          BY <1>15, <3>1, <3>2, <4>1 DEF SettledInv, AheadInv
        <4> QED
          BY <1>4, <2>1, <3>2, <4>1, <4>2
      <3>4. Upload(r) = j /\ Content(j) = paths[r][at[r]]
        BY <3>1, <3>3 DEF Upload, Content
      <3>5. GoesWell(r)
        BY <1>15, <3>2, <3>3, <3>4 DEF GoesWell, Unsettled
      <3>6. CASE BundleOf[Content(j)] # b
        <4>1. row'[b] = row[b]
          BY <1>15, <3>6 DEF TypeInv, TypeOK
        <4>2. \A i \in Of(r, b) : i # at[r]
          BY <3>4, <3>6 DEF Of
        <4>3. \A i \in Of(r, b) : Behind(r, i)' <=> Behind(r, i)
          BY <2>1, <4>2 DEF Behind
        <4> QED
          BY <2>1, <2>3, <3>5, <4>1, <4>3, LastIsKept
      <3>7. CASE BundleOf[Content(j)] = b
        <4>1. row'[b] = paths[r][at[r]]
          BY <1>15, <3>4, <3>7 DEF TypeInv, TypeOK
        <4>2. job'[Upload(r)] = "recorded"
          BY <1>15, <3>4 DEF TypeInv, TypeOK
        <4>3. at[r] \in Of(r, b) /\ Behind(r, at[r])'
          BY <2>1, <2>2, <3>1, <3>3, <3>4, <3>7, <4>2 DEF Of, Behind, Stored, Upload
        <4>4. \A i \in Of(r, b) : i \in Nat /\ (Behind(r, i)' => i <= at[r])
          BY <2>1, <3>2 DEF Of, Behind, TypeInv, TypeOK
        <4>5. Of(r, b)' = Of(r, b)
          BY <2>1 DEF Of
        <4> QED
          BY <2>1, <3>2, <4>1, <4>3, <4>4, <4>5 DEF LastIsRow
      <3> QED
        BY <3>6, <3>7
    <2> QED
      BY <2>4, <2>5
  <1>16. ASSUME UNCHANGED run, row'[b] = row[b],
                \A j \in Job :
                   /\ job'[j] \in Unsettled => job[j] \in Unsettled
                   /\ job'[j] = "recorded" => job[j] = "recorded"
                   /\ job[j] = "none" => job'[j] = "none"
                   /\ word'[j] = "done" => word[j] = "done" \/ job[j] = "recorded"
         PROVE  LastIsRow(r, b)'
    <2>1. Alone(r, b)
      BY <1>3, <1>16 DEF run
    <2> QED
      BY <1>1, <1>16, <2>1, ServerKeeps
  <1>17. ASSUME NEW j \in Job, Serve(j), ~Record(j)
         PROVE  LastIsRow(r, b)'
    <2> USE DEF Start, WarnNobody, Fail, Say, Cut, ghosts
    <2>1. UNCHANGED <<run, row>>
      BY <1>17 DEF Serve
    <2>2. \A k \in Job : k # j => job'[k] = job[k] /\ word'[k] = word[k]
      BY <1>17 DEF Serve, TypeInv, TypeOK
    <2>3. /\ job'[j] \in Unsettled => job[j] \in Unsettled
          /\ job'[j] = "recorded" => job[j] = "recorded"
          /\ job[j] = "none" => job'[j] = "none"
          /\ word'[j] = "done" => word[j] = "done" \/ job[j] = "recorded"
      BY <1>17 DEF Serve, Unsettled, TypeInv, TypeOK
    <2> QED
      BY <1>16, <2>1, <2>2, <2>3
  <1>18. ASSUME NEW c \in Bundle, Withdraw(c)
         PROVE  LastIsRow(r, b)'
    <2>1. row'[b] = row[b]
      BY <1>18 DEF Withdraw, TypeInv, TypeOK
    <2> QED
      BY <1>16, <1>18, <2>1 DEF Withdraw
  <1>19. CASE Crash
    BY <1>16, <1>19 DEF Crash, Live, Unsettled
  <1>20. CASE UNCHANGED vars
    BY <1>16, <1>20 DEF vars, server
  <1> QED
    BY <1>6, <1>7, <1>14, <1>15, <1>17, <1>18, <1>19, <1>20 DEF Next

\* Exit status 0 of a run that has a bundle to itself means that the last
\* artifact of it on the command line is what the server has from then on,
\* unless the bundle is deleted: no upload that was cut off, timed out or
\* refused comes in after it.
THEOREM LastPathStays == Spec => []LastPathIsServed
  <1> DEFINE Inv == TypeInv /\ HeldInv /\ SettledInv /\ ServedInv
  <1>1. Init => Inv
    BY InitTypeInv, InitHeldInv, InitSettledInv, InitServedInv
  <1>2. Inv /\ [Next]_vars => Inv'
    BY NextTypeInv, NextHeldInv, NextSettledInv, NextServedInv
  <1>3. Inv => LastPathIsServed
    <2> SUFFICES ASSUME Inv, NEW r \in Run, NEW b \in Bundle \ withdrawn,
                        pc[r] = "exited", ok[r],
                        \A q \in Run \ {r} : Of(q, b) = {}, NEW i \in Of(r, b),
                        \A k \in Of(r, b) : k <= i
                 PROVE  row[b] = paths[r][i]
      BY DEF LastPathIsServed, Of
    <2>1. GoesWell(r) /\ Alone(r, b)
      BY DEF GoesWell, Alone
    <2>2. i \in Nat /\ i <= Len(paths[r]) /\ Len(paths[r]) \in Nat /\ at[r] \in Nat
      BY DEF Of, TypeInv, TypeOK
    <2>3. at[r] > Len(paths[r])
      BY DEF HeldInv, ExitInv
    <2>4. Behind(r, i)
      BY <2>2, <2>3 DEF Behind
    <2> QED
      BY <2>1, <2>4 DEF ServedInv, LastIsRow
  <1> QED
    BY <1>1, <1>2, <1>3, PTL DEF Spec
=============================================================================
