---------------------------- MODULE UploadClient ----------------------------
(***************************************************************************)
(* Runs of `papyri upload' (papyri/cli/upload.py) against one server       *)
(* (viewer/src/pages/api/bundle.ts).  A run takes its paths in turn: it    *)
(* loads or packs the artifact, asks the server whether it has that        *)
(* content already, sends it if not, and reads the event stream until it   *)
(* knows what became of it.  What it reports is its exit status.           *)
(*                                                                         *)
(* The two ends know different things: an ingest goes on when the run has  *)
(* given up on it, a line may be cut with the outcome on it, and the       *)
(* server may die or drop the bundle at any moment.  Of the server, only   *)
(* what a run can tell of it is here: the content hash in `bundles' and    *)
(* the last word of each stream (IngestStore has the rest).                *)
(***************************************************************************)
EXTENDS Integers, Sequences

CONSTANTS
    Run,         \* the runs of the command; each happens once
    Bundle,      \* the <<module, version>> pairs
    Artifact,    \* what there is to upload, told apart by its hash
    BundleOf,    \* the bundle that an artifact is of
    Unloadable,  \* the paths that do not load or pack
    Nothing,     \* no row in `bundles'
    Lists,       \* the lists of paths a run may be given
    MaxTrouble   \* how often a connection, an ingest or the server fails,
                 \* or a bundle is deleted

Input == Artifact \cup Unloadable

ASSUME UploadAssumption ==
    /\ BundleOf \in [Artifact -> Bundle]
    /\ Nothing \notin Artifact
    /\ Artifact \cap Unloadable = {}
    /\ Lists \in [Run -> SUBSET Seq(Input)]
    /\ MaxTrouble \in Nat

Place(r) == UNION {DOMAIN l : l \in Lists[r]}
Job == UNION {{r} \X Place(r) : r \in Run}

VARIABLES
    paths, force,  \* the command line of a run
    pc,            \* where it is
    at,            \* the path it has come to
    ok,            \* no path has failed so far
    exists,        \* what _bundle_already_uploaded returned
    final, err     \* the stream said `done', or `error'

VARIABLES
    row,   \* content_hash in `bundles', Nothing without a row
    job,   \* what the server does with an upload
    word,  \* the outcome on its way to the run
    wire,  \* the connection: whole, broken off, or closed without a sign
    gone,  \* the server can no longer write to the run
    trouble  \* what has gone wrong so far

VARIABLES
    held,      \* ghost: uploads whose hash `bundles' had since their run began
    withdrawn  \* ghost: bundles that were deleted

locals == <<exists, final, err>>
run == <<paths, force, pc, at, ok, locals>>
server == <<row, job, word, wire, gone, trouble>>
ghosts == <<held, withdrawn>>
vars == <<run, server, ghosts>>

TypeOK ==
    /\ paths \in [Run -> Seq(Input)]
    /\ \A r \in Run : paths[r] \in Lists[r] \cup {<<>>}
    /\ force \in [Run -> BOOLEAN]
    /\ pc \in [Run -> {"idle", "loading", "asking", "deciding", "sending",
                       "reading", "exited", "escaped"}]
    /\ at \in [Run -> Nat]
    /\ \A r \in Run : at[r] \in 1..(Len(paths[r]) + 1)
    /\ ok \in [Run -> BOOLEAN]
    /\ exists \in [Run -> BOOLEAN]
    /\ final \in [Run -> BOOLEAN]
    /\ err \in [Run -> BOOLEAN]
    /\ row \in [Bundle -> Artifact \cup {Nothing}]
    /\ job \in [Job -> {"none", "accepted", "ingesting", "recorded", "failed",
                        "over"}]
    /\ word \in [Job -> {"none", "done", "error"}]
    /\ wire \in [Job -> {"whole", "broken", "closed"}]
    /\ gone \in [Job -> BOOLEAN]
    /\ trouble \in 0..MaxTrouble
    /\ held \in SUBSET Job
    /\ withdrawn \in SUBSET Bundle

\* The server's store is empty: what it has, runs have sent there.
Init ==
    /\ paths = [r \in Run |-> <<>>]
    /\ force = [r \in Run |-> FALSE]
    /\ pc = [r \in Run |-> "idle"]
    /\ at = [r \in Run |-> 1]
    /\ ok = [r \in Run |-> TRUE]
    /\ exists = [r \in Run |-> FALSE]
    /\ final = [r \in Run |-> FALSE]
    /\ err = [r \in Run |-> FALSE]
    /\ row = [b \in Bundle |-> Nothing]
    /\ job = [j \in Job |-> "none"]
    /\ word = [j \in Job |-> "none"]
    /\ wire = [j \in Job |-> "whole"]
    /\ gone = [j \in Job |-> FALSE]
    /\ trouble = 0
    /\ held = {}
    /\ withdrawn = {}

-----------------------------------------------------------------------------
(* The run.                                                                 *)

\* One more failure, if the bound allows it.
GoesWrong == trouble < MaxTrouble /\ trouble' = trouble + 1

This(r) == paths[r][at[r]]
Upload(r) == <<r, at[r]>>

\* The uploads of a list whose hash is in `bundles' now.
Matching(r, list) ==
    {<<r, i>> : i \in {i \in DOMAIN list :
        list[i] \in Artifact /\ row[BundleOf[list[i]]] = list[i]}}

Begin(r, list, forced) ==
    /\ pc[r] = "idle"
    /\ paths' = [paths EXCEPT ![r] = list]
    /\ force' = [force EXCEPT ![r] = forced]
    /\ pc' = [pc EXCEPT ![r] = "loading"]
    /\ held' = held \cup Matching(r, list)
    /\ UNCHANGED <<at, ok, locals, server, withdrawn>>

\* Mutant of NextPath: the handler counts the path, and so does the loop.
NextPathTwice(r, good) ==
    /\ ok' = [ok EXCEPT ![r] = @ /\ good]
    /\ at' = [at EXCEPT ![r] = @ + IF good THEN 1 ELSE 2]
    /\ exists' = [exists EXCEPT ![r] = FALSE]
    /\ final' = [final EXCEPT ![r] = FALSE]
    /\ err' = [err EXCEPT ![r] = FALSE]
    /\ pc' = [pc EXCEPT ![r] = "loading"]

\* On to the next path of the list, with new locals.
NextPath(r, good) ==
    /\ ok' = [ok EXCEPT ![r] = @ /\ good]
    /\ at' = [at EXCEPT ![r] = @ + 1]
    /\ exists' = [exists EXCEPT ![r] = FALSE]
    /\ final' = [final EXCEPT ![r] = FALSE]
    /\ err' = [err EXCEPT ![r] = FALSE]
    /\ pc' = [pc EXCEPT ![r] = "loading"]

Load(r) ==
    /\ pc[r] = "loading" /\ at[r] <= Len(paths[r])
    /\ IF This(r) \in Unloadable
       THEN NextPath(r, FALSE)
       ELSE /\ pc' = [pc EXCEPT ![r] = IF force[r] THEN "sending" ELSE "asking"]
            /\ UNCHANGED <<ok, at, locals>>
    /\ UNCHANGED <<paths, force, server, ghosts>>

\* GET /api/bundle, answered from `bundles' ...
Ask(r) ==
    /\ pc[r] = "asking"
    /\ exists' = [exists EXCEPT ![r] = row[BundleOf[This(r)]] = This(r)]
    /\ pc' = [pc EXCEPT ![r] = "deciding"]
    /\ UNCHANGED <<paths, force, at, ok, final, err, server, ghosts>>

\* ... or not: a refusal, an answer that does not parse, none in time.
AskInVain(r) ==
    /\ pc[r] = "asking"
    /\ exists' = [exists EXCEPT ![r] = FALSE]
    /\ pc' = [pc EXCEPT ![r] = "deciding"]
    /\ UNCHANGED <<paths, force, at, ok, final, err, server, ghosts>>

Decide(r) ==
    /\ pc[r] = "deciding"
    /\ IF exists[r]
       THEN NextPath(r, TRUE)
       ELSE pc' = [pc EXCEPT ![r] = "sending"] /\ UNCHANGED <<ok, at, locals>>
    /\ UNCHANGED <<paths, force, server, ghosts>>

\* PUT /api/bundle: the server takes the artifact and starts its stream ...
Send(r) ==
    /\ pc[r] = "sending"
    /\ job' = [job EXCEPT ![Upload(r)] = "accepted"]
    /\ pc' = [pc EXCEPT ![r] = "reading"]
    /\ UNCHANGED <<paths, force, at, ok, locals, row, word, wire, gone, trouble,
                   ghosts>>

\* ... or answers 4xx or 5xx (HTTPError), or cannot be reached (URLError).
Refused(r) ==
    /\ pc[r] = "sending"
    /\ NextPath(r, FALSE)
    /\ UNCHANGED <<paths, force, server, ghosts>>

\* A line that counts; "start", "progress" and "warning" are echoed only.
ReadLine(r) ==
    /\ pc[r] = "reading" /\ word[Upload(r)] # "none"
    /\ final' = [final EXCEPT ![r] = @ \/ word[Upload(r)] = "done"]
    /\ err' = [err EXCEPT ![r] = @ \/ word[Upload(r)] = "error"]
    /\ word' = [word EXCEPT ![Upload(r)] = "none"]
    /\ UNCHANGED <<paths, force, pc, at, ok, exists, row, job, wire, gone,
                   trouble, ghosts>>

\* Nothing more comes, as far as the run can see.
Ended(j) ==
    \/ wire[j] = "closed"
    \/ wire[j] = "whole" /\ job[j] = "over" /\ word[j] = "none"

Hangup(r) == gone' = [gone EXCEPT ![Upload(r)] = TRUE]

\* Mutant of Verdict: a stream that ends is one that went well.
VerdictOnEnd(r) ==
    /\ pc[r] = "reading" /\ Ended(Upload(r))
    /\ NextPath(r, ~err[r])
    /\ Hangup(r)
    /\ UNCHANGED <<paths, force, row, job, word, wire, trouble, ghosts>>

\* End of file: an error was reported, or no outcome at all, or `done'.
Verdict(r) ==
    /\ pc[r] = "reading" /\ Ended(Upload(r))
    /\ NextPath(r, final[r] /\ ~err[r])
    /\ Hangup(r)
    /\ UNCHANGED <<paths, force, row, job, word, wire, trouble, ghosts>>

\* A line that is not JSON: the run reads no further.
Unparseable(r) ==
    /\ pc[r] = "reading"
    /\ NextPath(r, FALSE)
    /\ Hangup(r)
    /\ GoesWrong
    /\ UNCHANGED <<paths, force, row, job, word, wire, ghosts>>

\* Mutant of IdleTimeout: urlopen is given no timeout.
IdleTimeoutNot(r) == FALSE

\* Mutant of IdleTimeout: the ingest that goes on is trusted to finish.
IdleTimeoutTrusting(r) ==
    /\ pc[r] = "reading"
    /\ NextPath(r, TRUE)
    /\ Hangup(r)
    /\ UNCHANGED <<paths, force, row, job, word, wire, trouble, ghosts>>

\* No byte for _UPLOAD_IDLE_TIMEOUT_S, or a proxy answers 504 for a server that
\* takes too long.  The ingest knows nothing of it.
IdleTimeout(r) ==
    /\ pc[r] = "reading"
    /\ NextPath(r, FALSE)
    /\ Hangup(r)
    /\ UNCHANGED <<paths, force, row, job, word, wire, trouble, ghosts>>

\* ConnectionResetError, RemoteDisconnected or IncompleteRead: none of the
\* three handlers is for it.
Escape(r) ==
    /\ pc[r] = "reading" /\ wire[Upload(r)] = "broken"
    /\ pc' = [pc EXCEPT ![r] = "escaped"]
    /\ Hangup(r)
    /\ UNCHANGED <<paths, force, at, ok, locals, row, job, word, wire, trouble,
                   ghosts>>

\* Exit status 0 if ok, 1 if not.
Exit(r) ==
    /\ pc[r] = "loading" /\ at[r] > Len(paths[r])
    /\ pc' = [pc EXCEPT ![r] = "exited"]
    /\ UNCHANGED <<paths, force, at, ok, locals, server, ghosts>>

-----------------------------------------------------------------------------
(* The server.                                                              *)

Content(j) == paths[j[1]][j[2]]

\* The `start' event: it cannot be sent to a run that has gone.
Start(j) ==
    /\ job[j] = "accepted"
    /\ job' = [job EXCEPT ![j] = IF gone[j] THEN "over" ELSE "ingesting"]
    /\ UNCHANGED <<run, row, word, wire, gone, trouble, ghosts>>

\* The raw archive write fails and there is nobody to warn.
WarnNobody(j) ==
    /\ job[j] = "ingesting" /\ gone[j]
    /\ job' = [job EXCEPT ![j] = "over"]
    /\ GoesWrong
    /\ UNCHANGED <<run, row, word, wire, gone, ghosts>>

\* The row in `bundles': the uploads of this content have been stored.
Record(j) ==
    /\ job[j] = "ingesting"
    /\ row' = [row EXCEPT ![BundleOf[Content(j)]] = Content(j)]
    /\ job' = [job EXCEPT ![j] = "recorded"]
    /\ held' = held \cup {k \in Job : k[2] \in DOMAIN paths[k[1]]
                                     /\ Content(k) = Content(j)}
    /\ UNCHANGED <<run, word, wire, gone, trouble, withdrawn>>

Fail(j) ==
    /\ job[j] \in {"ingesting", "recorded"}
    /\ job' = [job EXCEPT ![j] = "failed"]
    /\ GoesWrong
    /\ UNCHANGED <<run, row, word, wire, gone, ghosts>>

\* The last event, and the end of the stream.
Say(j) ==
    /\ job[j] \in {"recorded", "failed"}
    /\ word' = [word EXCEPT ![j] =
                  IF gone[j] THEN "none"
                  ELSE IF job[j] = "recorded" THEN "done" ELSE "error"]
    /\ job' = [job EXCEPT ![j] = "over"]
    /\ UNCHANGED <<run, row, wire, gone, trouble, ghosts>>

\* A bundle is deleted, or the store is cleared.
Withdraw(b) ==
    /\ row[b] # Nothing
    /\ row' = [row EXCEPT ![b] = Nothing]
    /\ withdrawn' = withdrawn \cup {b}
    /\ GoesWrong
    /\ UNCHANGED <<run, job, word, wire, gone, held>>

\* The connection is lost on the way; a proxy may make it look like its end.
Cut(j) ==
    /\ job[j] # "none" /\ wire[j] = "whole" /\ ~gone[j]
    /\ \E how \in {"broken", "closed"} : wire' = [wire EXCEPT ![j] = how]
    /\ gone' = [gone EXCEPT ![j] = TRUE]
    /\ GoesWrong
    /\ UNCHANGED <<run, row, job, word, ghosts>>

\* The server dies, and is started again.
Live(j) == job[j] \notin {"none", "over"}

Crash ==
    /\ \E j \in Job : Live(j)
    /\ job' = [j \in Job |-> IF Live(j) THEN "over" ELSE job[j]]
    /\ wire' = [j \in Job |-> IF Live(j) /\ wire[j] = "whole"
                              THEN "broken" ELSE wire[j]]
    /\ GoesWrong
    /\ UNCHANGED <<run, row, word, gone, ghosts>>

-----------------------------------------------------------------------------
Client(r) ==
    \/ Load(r) \/ Ask(r) \/ AskInVain(r) \/ Decide(r) \/ Send(r) \/ Refused(r)
    \/ ReadLine(r) \/ Verdict(r) \/ IdleTimeout(r) \/ Escape(r) \/ Exit(r)

Serve(j) ==
    \/ Start(j) \/ WarnNobody(j) \/ Record(j) \/ Fail(j) \/ Say(j)
    \/ Cut(j)

Next ==
    \/ \E r \in Run, forced \in BOOLEAN :
          \E list \in Lists[r] : Begin(r, list, forced)
    \/ \E r \in Run : Client(r) \/ Unparseable(r)
    \/ \E j \in Job : Serve(j)
    \/ \E b \in Bundle : Withdraw(b)
    \/ Crash

Spec == Init /\ [][Next]_vars

\* A run that can go on does; nothing is assumed of the server, which may hang.
FairSpec == Spec /\ \A r \in Run : WF_vars(Client(r))

-----------------------------------------------------------------------------
(* What the exit status means.                                              *)

\* Exit status 0: every path of the command loaded, and the server has had that
\* content in `bundles' at some moment since the run began, whether it was
\* sent or skipped, and whatever was lost, deleted or restarted on the way.
ExitZeroIsStored ==
    \A r \in Run : pc[r] = "exited" /\ ok[r] =>
        \A i \in DOMAIN paths[r] : <<r, i>> \in held

\* Exit status 0 of the only run that has to do with a bundle nobody deletes:
\* the server is left with the last artifact of it on the command line, and no
\* upload the run gave up on comes in after that.
LastPathIsServed ==
    \A r \in Run, b \in Bundle \ withdrawn :
        LET of(q) == {i \in DOMAIN paths[q] :
                        paths[q][i] \in Artifact /\ BundleOf[paths[q][i]] = b}
        IN  /\ pc[r] = "exited" /\ ok[r]
            /\ \A q \in Run \ {r} : of(q) = {}
            => \A i \in of(r) :
                  (\A k \in of(r) : k <= i) => row[b] = paths[r][i]

\* A run comes to an end, even when the server accepts an upload and then
\* hangs: every wait of the client has a timeout.
RunsEnd ==
    \A r \in Run : pc[r] # "idle" ~> pc[r] \in {"exited", "escaped"}

=============================================================================
