---------------------------- MODULE Transcription ----------------------------
(***************************************************************************)
(* The passes of process_content over one content item: captions, an       *)
(* existing transcript, AssemblyAI, and the GPU over downloaded audio, cut *)
(* into segments when it is long.  A worker claims a row of the item and   *)
(* executes it; a slow execution goes on when its row is reclaimed, beside *)
(* the next one of the same row, and each reports to the row in the end.   *)
(* Workers die, tools and requests fail, and temporary files may not go.   *)
(***************************************************************************)
EXTENDS Integers, FiniteSets

CONSTANTS
    TextJobs,   \* the process_content rows of the item
    Segments,   \* into how many segments long audio is cut
    TextTries,  \* each row's max_attempts
    Episodes,   \* the items considered
    MaxMishaps  \* bound on workers lost, partial files and failed unlinks

ASSUME TextAssumption ==
    /\ Episodes \subseteq [channel : BOOLEAN, pattern : BOOLEAN, long : BOOLEAN]
    /\ IsFiniteSet(TextJobs) /\ Segments \in Nat \ {0}
    /\ TextTries \in [TextJobs -> Nat \ {0}] /\ MaxMishaps \in Nat

VARIABLES
    item,     \* what the item and its source are: a channel, with a transcript pattern, long
    apiOn,    \* transcription_api_enabled
    rows,     \* each row: status and attempts
    passes,   \* each execution: its stage, what it holds, the files its clean-up knows
    disk,     \* temporary files: the execution that made them, and which
    body,     \* content: the transcript's method, its segments, its execution
    remote,   \* AssemblyAI's transcript for each execution
    costs,    \* the executions with an api_usage row
    embeds,   \* embed_content jobs enqueued
    mishaps,
    orphans   \* history: files left by dead workers, by tools that failed inside
              \* one, and by unlinks that failed

storeVars == <<body, costs, embeds>>
fileVars == <<disk, orphans, mishaps>>
textVars == <<item, apiOn, rows, passes, remote, storeVars, fileVars>>

\* An execution is its row and the attempts its claim counted.
Attempts == UNION {{j} \X (1..TextTries[j]) : j \in TextJobs}

NoText == [method |-> "none", parts |-> {}, by |-> <<>>]
Over == [at |-> "over", method |-> "none", parts |-> {}, files |-> {}]
Whole == 1..Segments
File(a, name) == <<a, name, 0>>
Part(a, i) == <<a, "segment", i>>

InStage(a, stage) == passes[a].at = stage
Becomes(a, e) == passes' = [passes EXCEPT ![a] = e]
Goes(a, stage) == Becomes(a, [passes[a] EXCEPT !.at = stage])
Has(a, method) == Becomes(a, [passes[a] EXCEPT !.at = "store", !.method = method, !.parts = Whole])
Asks(a) == remote' = [remote EXCEPT ![a] = "queued"]

Mishap == mishaps < MaxMishaps /\ mishaps' = mishaps + 1

-----------------------------------------------------------------------------
(* The row.                                                                *)

TextStarts(j) ==
    /\ rows[j].at = "queued"
    /\ rows' = [rows EXCEPT ![j] = [at |-> "running", tries |-> @.tries + 1]]
    /\ Becomes(<<j, rows[j].tries + 1>>, [Over EXCEPT !.at = IF item.channel THEN "captions" ELSE "existing"])
    /\ UNCHANGED <<item, apiOn, remote, storeVars, fileVars>>

Requeued(j, tries) == [at |-> IF tries < TextTries[j] THEN "queued" ELSE "failed", tries |-> tries]

\* Running for too long: the row is queued again, or failed; whoever executes
\* it is not told.
RowReclaimed(j) ==
    /\ rows[j].at = "running"
    /\ rows' = [rows EXCEPT ![j] = Requeued(j, @.tries + 1)]
    /\ UNCHANGED <<item, apiOn, passes, remote, storeVars, fileVars>>

\* complete_job and fail_job, by primary key, whatever became of the row.
Reports(a) ==
    /\ \/ /\ InStage(a, "stored")
          /\ rows' = [rows EXCEPT ![a[1]] = [at |-> "done", tries |-> @.tries]]
       \/ /\ InStage(a, "raised")
          /\ rows' = [rows EXCEPT ![a[1]] = Requeued(a[1], @.tries)]
    /\ Becomes(a, Over)
    /\ UNCHANGED <<item, apiOn, remote, storeVars, fileVars>>

\* The worker dies: no finally runs; the row is running until it is reclaimed.
TextDies(a) ==
    /\ ~InStage(a, "over") /\ Mishap
    /\ Becomes(a, Over)
    /\ orphans' = orphans \cup {f \in disk : f[1] = a}
    /\ UNCHANGED <<item, apiOn, rows, remote, storeVars, disk>>

-----------------------------------------------------------------------------
(* Temporary files.                                                        *)

\* A tool returns the files it made.
Made(a, stage, files) ==
    /\ disk' = disk \cup files
    /\ Becomes(a, [passes[a] EXCEPT !.at = stage, !.files = @ \cup files])
    /\ UNCHANGED <<orphans, mishaps>>

\* A tool fails, and leaves nothing or a partial file that nobody is told of.
ToolFails(a, partial) ==
    /\ Goes(a, "cleanup")
    /\ \/ UNCHANGED fileVars
       \/ Mishap /\ disk' = disk \cup {partial} /\ orphans' = orphans \cup {partial}

\* Faulty variant: the clean-up of a pass that succeeded.
Cleaned_Success(a) == IF passes[a].parts = Whole THEN passes[a].files ELSE {}

\* The files that the finally of an upload, of transcribe_with_chunking and of
\* transcribe_via_gpu know of.
Cleaned(a) == passes[a].files

\* Each is unlinked; an OSError is logged, and the file stays.
CleansUp(a, stage) ==
    /\ \E kept \in SUBSET Cleaned(a) :
          /\ disk' = disk \ (Cleaned(a) \ kept) /\ orphans' = orphans \cup kept
          /\ IF kept = {} THEN UNCHANGED mishaps ELSE Mishap
    /\ Becomes(a, [passes[a] EXCEPT !.at = stage, !.files = {}])

-----------------------------------------------------------------------------
(* The passes.                                                             *)

\* Captions of a hundred words or more; every error is a None.
CaptionsPass(a) ==
    /\ InStage(a, "captions")
    /\ Has(a, "youtube_captions") \/ Goes(a, "existing")
    /\ UNCHANGED <<item, apiOn, rows, remote, storeVars, fileVars>>

ExistingPass(a) ==
    /\ InStage(a, "existing")
    /\ \/ item.pattern /\ Has(a, "existing_transcript")
       \/ Goes(a, IF ~item.channel /\ apiOn THEN "submit" ELSE "download")
    /\ UNCHANGED <<item, apiOn, rows, remote, storeVars, fileVars>>

\* The submission, by URL; refused, the audio goes through a temporary file
\* that is unlinked whatever happens, and is submitted again.
ApiSubmit(a) ==
    /\ InStage(a, "submit")
    /\ \/ Goes(a, "poll") /\ Asks(a) /\ UNCHANGED fileVars
       \/ Made(a, "upload", {File(a, "upload")}) /\ UNCHANGED remote
       \/ Goes(a, "download") /\ UNCHANGED <<fileVars, remote>>
    /\ UNCHANGED <<item, apiOn, rows, storeVars>>

ApiUpload(a) ==
    /\ InStage(a, "upload")
    /\ \/ CleansUp(a, "poll") /\ Asks(a)
       \/ CleansUp(a, "download") /\ UNCHANGED remote
    /\ UNCHANGED <<item, apiOn, rows, storeVars>>

RemoteCompletes(a) ==
    /\ remote[a] = "queued"
    /\ remote' = [remote EXCEPT ![a] = "completed"]
    /\ UNCHANGED <<item, apiOn, rows, passes, storeVars, fileVars>>

\* Completed, with the cost row added to the session; or an error, a failing
\* poll, an empty text or the hour's timeout, and the GPU takes over.
ApiPoll(a) ==
    /\ InStage(a, "poll")
    /\ \/ remote[a] = "completed" /\ Has(a, "assemblyai")
       \/ Goes(a, "download")
    /\ UNCHANGED <<item, apiOn, rows, remote, storeVars, fileVars>>

Download(a) ==
    /\ InStage(a, "download")
    /\ Made(a, "convert", {File(a, "audio")}) \/ ToolFails(a, File(a, "audio"))
    /\ UNCHANGED <<item, apiOn, rows, remote, storeVars>>

ConvertToWav(a) ==
    /\ InStage(a, "convert")
    /\ \/ Made(a, IF item.long THEN "split" ELSE "send", {File(a, "wav")})
       \/ ToolFails(a, File(a, "wav"))
    /\ UNCHANGED <<item, apiOn, rows, remote, storeVars>>

SplitAudio(a) ==
    /\ InStage(a, "split")
    /\ Made(a, "send", {Part(a, i) : i \in Whole}) \/ ToolFails(a, Part(a, 1))
    /\ UNCHANGED <<item, apiOn, rows, remote, storeVars>>

\* One request per segment, in order; the first that fails fails the pass.
SendSegment(a) ==
    LET left == {i \in Whole : Part(a, i) \in passes[a].files /\ i \notin passes[a].parts} IN
    /\ InStage(a, "send") /\ item.long
    /\ \/ left = {} /\ Becomes(a, [passes[a] EXCEPT !.at = "cleanup", !.method = "parakeet"])
       \/ \E i \in left : /\ \A k \in left : i <= k
                          /\ Becomes(a, [passes[a] EXCEPT !.parts = @ \cup {i}])
       \/ left # {} /\ Goes(a, "cleanup")
    /\ UNCHANGED <<item, apiOn, rows, remote, storeVars, fileVars>>

SendWhole(a) ==
    /\ InStage(a, "send") /\ ~item.long
    /\ \/ Becomes(a, [passes[a] EXCEPT !.at = "cleanup", !.method = "parakeet", !.parts = Whole])
       \/ Goes(a, "cleanup")
    /\ UNCHANGED <<item, apiOn, rows, remote, storeVars, fileVars>>

\* With no text from any pass the handler raises.
GpuEnds(a) ==
    /\ InStage(a, "cleanup")
    /\ CleansUp(a, IF passes[a].method = "parakeet" THEN "store" ELSE "raised")
    /\ UNCHANGED <<item, apiOn, rows, remote, storeVars>>

CostsAfter(a) == IF passes[a].method = "assemblyai" THEN costs \cup {a} ELSE costs

\* The transcript, its cost and the embed job in one transaction.
Store(a) ==
    /\ InStage(a, "store")
    /\ body' = [method |-> passes[a].method, parts |-> passes[a].parts, by |-> a]
    /\ costs' = CostsAfter(a) /\ embeds' = embeds + 1
    /\ Goes(a, "stored")
    /\ UNCHANGED <<item, apiOn, rows, remote, fileVars>>

-----------------------------------------------------------------------------
ToggleApi == apiOn' = ~apiOn /\ UNCHANGED <<item, rows, passes, remote, storeVars, fileVars>>

TextInit ==
    /\ item \in Episodes /\ apiOn \in BOOLEAN
    /\ rows = [j \in TextJobs |-> [at |-> "queued", tries |-> 0]]
    /\ passes = [a \in Attempts |-> Over] /\ remote = [a \in Attempts |-> "none"]
    /\ disk = {} /\ orphans = {} /\ mishaps = 0
    /\ body = NoText /\ costs = {} /\ embeds = 0

TextStep(a) ==
    \/ CaptionsPass(a) \/ ExistingPass(a) \/ ApiSubmit(a) \/ ApiUpload(a) \/ ApiPoll(a)
    \/ Download(a) \/ ConvertToWav(a) \/ SplitAudio(a) \/ SendSegment(a) \/ SendWhole(a)
    \/ GpuEnds(a) \/ Store(a) \/ Reports(a)

TextNext ==
    \/ \E j \in TextJobs : TextStarts(j) \/ RowReclaimed(j)
    \/ \E a \in Attempts : TextStep(a) \/ TextDies(a) \/ RemoteCompletes(a)
    \/ ToggleApi

TextSpec == TextInit /\ [][TextNext]_textVars

-----------------------------------------------------------------------------
TextStages == {"over", "captions", "existing", "submit", "upload", "poll", "download", "convert",
               "split", "send", "cleanup", "store", "stored", "raised"}
Methods == {"none", "youtube_captions", "existing_transcript", "assemblyai", "parakeet"}
Files == Attempts \X {"audio", "wav", "upload", "segment"} \X Nat
Executions == [at : TextStages, method : Methods, parts : SUBSET Whole, files : SUBSET Files]

\* From these stages a finally that deletes the execution's files is still to come.
CleanUpAhead == {"upload", "convert", "split", "send", "cleanup"}

TextTypeOK ==
    /\ item \in Episodes /\ apiOn \in BOOLEAN
    /\ rows \in [TextJobs -> [at : {"queued", "running", "done", "failed"}, tries : Nat]]
    /\ passes \in [Attempts -> Executions]
    /\ remote \in [Attempts -> {"none", "queued", "completed"}]
    /\ disk \subseteq Files /\ orphans \subseteq Files /\ mishaps \in 0..MaxMishaps
    /\ body = NoText \/ body \in [method : Methods, parts : SUBSET Whole, by : Attempts]
    /\ costs \subseteq Attempts /\ embeds \in Nat

\* "Audio never persisted" (audio.py:163): a file is on disk while its execution
\* has the clean-up ahead of it, and no longer, over failing passes, requests
\* and tools and executions of one row that overlap.  Left for good are only a
\* dead worker's files, the one a tool broke off in, and one that cannot be
\* unlinked, for all of which the code makes no provision.
AudioGone == \A f \in disk \ orphans : passes[f[1]].at \in CleanUpAhead
=============================================================================
