------------------------------ MODULE Transfer ------------------------------
(***************************************************************************)
(* What becomes of the bytes of a file: the transfer of one file by the    *)
(* edge client, and of a large file by several of them.                    *)
(*                                                                         *)
(*   "single"  /upload: UploadFunc splits the range, its workers upload    *)
(*             the chunks, ComposeFile makes the object of them            *)
(*   "large"   /large-upload: the range is shared out among VMs by weight, *)
(*             each does a "single" transfer of its share, ComposeFile     *)
(*             makes the object of the shares                              *)
(*                                                                         *)
(* The goroutines of UploadFunc are in ChunkUpload; here an attempt to     *)
(* upload a chunk has an outcome, may be repeated, and an earlier attempt  *)
(* may still be on its way when a later one succeeded.                     *)
(***************************************************************************)
EXTENDS Split, Compose

CONSTANTS Requests, MaxLate

ASSUME RequestsAssumption ==
  \A r \in Requests :
    /\ r.mode \in {"single", "large"} /\ r.client \in BOOLEAN
    /\ r.source \in {"s3", "gcs", "local", "remote"} /\ r.dest \in Dests
    /\ r.size \in Nat \ {0} /\ r.claimed \in Nat /\ r.start \in Nat /\ r.length \in Nat
    /\ Len(r.vms) \in Nat /\ \A i \in 1..Len(r.vms) : r.vms[i].weight \in Nat
ASSUME LateAssumption == MaxLate \in Nat
ASSUME NoneAssumption == None \notin Seq({"part", "share"} \cup Nat)  \* no name, no content

VARIABLES
  req,         \* the request; client: straight to the store, else by the proxies;
               \* claimed: the size its X-File-Size header gives, 0 without one
  phase,       \* "start", "upload", "compose"; "ok", "error": it has been answered
  done,        \* chunks acknowledged, or VMs that have answered
  failed,      \* some VM answered with an error
  late,        \* old attempts that had an effect after a newer one succeeded
  named,       \* which of its names of a file the request gives to ComposeFile
  uncomposed,  \* history: a VM answered with success but composed nothing
  torn         \* history: something acknowledged was left there in part only

flowVars == <<done, failed, late, named, uncomposed, torn>>
vars == <<composeVars, req, phase, flowVars>>

Init ==
  /\ InitCompose
  /\ req \in Requests /\ req.dest = dest
  /\ phase = "start"
  /\ done = {} /\ failed = FALSE /\ late = 0 /\ named = "none" /\ uncomposed = FALSE
  /\ torn = FALSE

-----------------------------------------------------------------------------
(* One file: chunks.                                                       *)

(* The header is believed: the source is only asked without it.            *)
FileSize == IF req.claimed > 0 THEN req.claimed ELSE req.size
Chunks == SplitFilebyRange(FileSize, req.start, req.length, FALSE)
Part(i) == <<"part", i>>
Fetched(i) == DownloadFile(req.source, req.size, Chunks[i].offset, Chunks[i].size)
ReadsOf(i) == Reads(req.source, req.size, Chunks[i].offset, Chunks[i].size)

(* SortPartStrings: by the number at the end of the name, in whatever      *)
(* order the chunk table gave them.                                        *)
SortPartStrings(indexes) ==
  [k \in 1..Cardinality(indexes) |->
     Part(CHOOSE i \in indexes : Cardinality({j \in indexes : j <= i}) = k)]

Refuse ==
  /\ phase' = "error"
  /\ UNCHANGED <<composeVars, req, flowVars>>

(* HeadObject, Attrs, Stat or a command over ssh: the size, or an error.   *)
GetFileSize == {FileSize} \cup (IF req.claimed > 0 THEN {} ELSE {None})

(* UploadFunc until its workers run.                                       *)
StartSingle ==
  /\ phase = "start" /\ req.mode = "single"
  /\ \E size \in GetFileSize :
       IF size = None \/ SplitFails(FileSize, req.start)
       THEN Refuse
       ELSE phase' = "upload" /\ UNCHANGED <<composeVars, req, flowVars>>

Ok(content) == [stored |-> content, ok |-> TRUE]
Fail(content) == [stored |-> content, ok |-> FALSE]

(* What the upload adaptors may leave at the destination and return.  S3   *)
(* gets a length with the body and stores nothing of another length, from  *)
(* the client as from the last proxy.                                      *)
S3Client(content, size) ==
  IF Len(content) = size THEN {Ok(content), Fail(content), Fail(None)} ELSE {Fail(None)}
S3Proxy(content, size) ==
  {Fail(None)} \cup (IF Len(content) = size THEN {Ok(content), Fail(content)} ELSE {})

(* The writer's Close is what stores an object in GCS: an error of it is   *)
(* only logged, and it is closed after a failed copy too.                  *)
GCSClient(content) ==
  {Ok(content), Ok(None), Fail(None)} \cup {Fail(c) : c \in Beginnings(content)}
(* The proxies stream the body; an aborted one is not stored.              *)
GCSProxy(content) == {Ok(content), Fail(content), Fail(None)}

(* A form for the chunk server, which answers when it has written it; the  *)
(* adaptor for the proxies sends no form, and is refused.                  *)
DiskClient(content) ==
  {Ok(content), Fail(None)} \cup {Fail(c) : c \in Beginnings(content)}
DiskProxy == {Fail(None)}

UploadFile(content, size) ==
  CASE dest = "s3"   -> IF req.client THEN S3Client(content, size) ELSE S3Proxy(content, size)
    [] dest = "gcs"  -> IF req.client THEN GCSClient(content) ELSE GCSProxy(content)
    [] dest = "disk" -> IF req.client THEN DiskClient(content) ELSE DiskProxy

Store(name, content) == objects' = IF content = None THEN objects ELSE With(name, content)
LeavesTorn(name, whole) == name \in DOMAIN objects' /\ objects'[name] # whole

UploadChunk(i) ==
  /\ phase = "upload" /\ req.mode = "single" /\ i \in DOMAIN Chunks \ done /\ ~expired
  /\ \E content \in ReadsOf(i) : \E o \in UploadFile(content, Chunks[i].size) :
       /\ Store(Part(i), o.stored)
       /\ done' = IF o.ok THEN done \cup {i} ELSE done
       /\ torn' = (torn \/ (o.ok /\ LeavesTorn(Part(i), Fetched(i))))
  /\ UNCHANGED <<dest, expired, call, server, saving, req, phase, failed, late, named, uncomposed>>

(* An earlier attempt of a chunk that was sent again.  The chunk server    *)
(* truncates the file first and then writes it.                            *)
LateAttempt(i) ==
  /\ late < MaxLate /\ req.mode = "single" /\ i \in done
  /\ IF dest = "disk"
     THEN /\ req.client /\ saving = None
          /\ objects' = With(Part(i), <<>>) /\ saving' = Part(i)
     ELSE /\ \E content \in ReadsOf(i) : \E o \in UploadFile(content, Chunks[i].size) :
               Store(Part(i), o.stored)
          /\ UNCHANGED saving
  /\ late' = late + 1
  /\ torn' = (torn \/ LeavesTorn(Part(i), Fetched(i)))
  /\ UNCHANGED <<dest, expired, call, server, req, phase, done, failed, named, uncomposed>>

EndSave ==
  /\ saving # None
  /\ \E i \in done :
       /\ saving \in {Part(i), Target}
       /\ \E c \in Beginnings(Fetched(i)) : objects' = With(saving, c)
  /\ saving' = None
  /\ UNCHANGED <<dest, expired, call, server, req, phase, done, failed, late, named, uncomposed, torn>>

(* The event loop composes what is to be the NewFileName of the request.   *)
FinishChunks ==
  /\ phase = "upload" /\ req.mode = "single" /\ done = DOMAIN Chunks
  /\ BeginCompose(SortPartStrings(done))
  /\ phase' = "compose" /\ named' = "new_file_name"
  /\ UNCHANGED <<req, done, failed, late, uncomposed, torn>>

(* The deadline of the engine.  Before the composition the event loop      *)
(* closes done for it too, so that UploadFunc may as well see that it is   *)
(* done; during the composition the caller is answered and nobody waits    *)
(* for the composition any more.                                           *)
SingleTimeout ==
  /\ req.mode = "single" /\ expired
  /\ \/ phase = "upload" /\ phase' \in {"ok", "error"}
     \/ phase = "compose" /\ phase' = "error"
  /\ UNCHANGED <<composeVars, req, flowVars>>

(* LargeFileUploadTimeout, for the answers of the VMs.                     *)
LargeTimeout == phase = "upload" /\ req.mode = "large" /\ Refuse

-----------------------------------------------------------------------------
(* A large file: shares.                                                   *)

N == Len(req.vms)
FileLength == IF req.length = 0 THEN req.size ELSE req.length
SumTo(n, a) == LET sum[i \in 0..N] == IF i = 0 THEN 0 ELSE sum[i - 1] + a[i] IN sum[n]
TotalWeight == SumTo(N, [i \in 1..N |-> req.vms[i].weight])
Rounded(i) == RoundedDiv(FileLength * req.vms[i].weight, TotalWeight)
Before(i) == SumTo(i - 1, [j \in 1..N |-> Rounded(j)])
ShareStart(i) == req.start + Before(i)

(* allocatedLength: 0, or less, asks a VM for all from its start on. *)
ShareLength(i) == IF i < N THEN Rounded(i) ELSE FileLength - Before(i)

Share(i) == <<"share", i>>
(* vmTasks is keyed by address: of two VMs with the same the last remains. *)
Tasks == {i \in 1..N : \A j \in (i + 1)..N : req.vms[j].ip # req.vms[i].ip}

StartLarge ==
  /\ phase = "start" /\ req.mode = "large"
  /\ \/ Refuse
     \/ /\ N > 0 /\ TotalWeight > 0
        /\ phase' = "upload"
        /\ UNCHANGED <<composeVars, req, flowVars>>

(* The transfer of one VM, and its answer.  UploadFunc succeeds also when  *)
(* its ComposeFile failed: then its object is missing, or, merged by a     *)
(* chunk server, not complete.                                             *)
UploadShare(i) ==
  LET whole == DownloadRange(req.source, req.size, ShareStart(i), ShareLength(i), FALSE)
      reads == RangeReads(req.source, req.size, ShareStart(i), ShareLength(i), FALSE)
  IN
  /\ phase = "upload" /\ req.mode = "large" /\ i \in Tasks \ done
  /\ done' = done \cup {i}
  /\ \/ failed' = TRUE /\ UNCHANGED <<objects, uncomposed, torn>>
     \/ /\ ~SplitFails(req.size, ShareStart(i)) /\ (dest = "disk" => req.client)
        /\ \E content \in reads :
             \/ Store(Share(i), content) /\ UNCHANGED uncomposed
             \/ /\ \E c \in {None} \cup (IF dest = "disk" THEN Beginnings(content) ELSE {}) :
                     Store(Share(i), c)
                /\ uncomposed' = TRUE
        /\ torn' = (torn \/ LeavesTorn(Share(i), whole))
        /\ UNCHANGED failed
  /\ UNCHANGED <<dest, expired, call, server, saving, req, phase, late, named>>

(* All names go to ComposeFile, in the order of the VMs, if there are two  *)
(* at least; SortPartStrings finds no numbers in them.  The object is to   *)
(* have the name of the source, FileName.                                  *)
FinishShares ==
  /\ phase = "upload" /\ req.mode = "large" /\ done = Tasks
  /\ IF ~failed /\ N > 1
     THEN /\ BeginCompose([i \in 1..N |-> Share(i)])
          /\ phase' = "compose" /\ named' = "file_name"
     ELSE /\ phase' = (IF failed THEN "error" ELSE "ok")
          /\ UNCHANGED <<composeVars, named>>
  /\ UNCHANGED <<req, done, failed, late, uncomposed, torn>>

-----------------------------------------------------------------------------
(* The end of ComposeFile.                                                 *)

(* The event loop logs an error of it and closes done: UploadFunc returns  *)
(* nil, and the handler answers with success.                              *)
EndSingle ==
  /\ phase = "compose" /\ req.mode = "single" /\ call.at \in {"ok", "error"}
  /\ phase' = "ok"
  /\ UNCHANGED <<composeVars, req, flowVars>>

(* The handler of a large file answers with it.                            *)
EndLarge ==
  /\ phase = "compose" /\ req.mode = "large" /\ call.at \in {"ok", "error"}
  /\ phase' = call.at
  /\ UNCHANGED <<composeVars, req, flowVars>>

-----------------------------------------------------------------------------
Ended == phase \in {"ok", "error"}
Timeout == SingleTimeout \/ LargeTimeout
EndCompose == EndSingle \/ EndLarge
ContextDone == ~Ended /\ Expire /\ UNCHANGED <<req, phase, flowVars>>
Composing == ComposeStep /\ UNCHANGED <<req, phase, flowVars>>
Merging == ServerStep /\ UNCHANGED <<req, phase, flowVars>>

Next ==
  \/ StartSingle \/ (\E i \in DOMAIN Chunks : UploadChunk(i) \/ LateAttempt(i))
  \/ EndSave \/ FinishChunks
  \/ StartLarge \/ (\E i \in 1..N : UploadShare(i)) \/ FinishShares
  \/ Timeout \/ ContextDone \/ Composing \/ Merging \/ EndCompose

Spec == Init /\ [][Next]_vars

(* The size of a remote file is asked by a command over ssh, which has no  *)
(* deadline: the timeout of its configuration is that of the connection.   *)
AsksOverSsh ==
  req.source = "remote" /\ ~(req.mode = "single" /\ req.claimed > 0)

(* Deadlines come, and a client that has something to do does it, but for  *)
(* that command: the other requests have a timeout or end with the         *)
(* context.  The chunk server and the VMs need not do anything.            *)
Fairness ==
  /\ WF_vars(~AsksOverSsh /\ (StartSingle \/ StartLarge))
  /\ WF_vars(Timeout) /\ WF_vars(ContextDone)
  /\ WF_vars(FinishShares) /\ WF_vars(Composing) /\ WF_vars(EndCompose)
FairSpec == Spec /\ Fairness

-----------------------------------------------------------------------------
TypeOK ==
  /\ req \in Requests /\ dest = req.dest
  /\ phase \in {"start", "upload", "compose", "ok", "error"}
  /\ done \subseteq (IF req.mode = "single" THEN DOMAIN Chunks ELSE Tasks)
  /\ {failed, uncomposed, torn, expired, call.warned} \subseteq BOOLEAN /\ late \in 0..MaxLate
  /\ named \in {"none", "file_name", "new_file_name"}
  /\ \A name \in DOMAIN objects : objects[name] \in Seq(0..(req.size - 1))
  /\ call.at \in {"idle", "group", "copy", "final", "clean", "post", "wait", "ok", "error"}
  /\ server.at \in {"idle", "asked", "merge", "merged", "failed"}
  /\ phase \in {"start", "upload"} => call = Idle
  /\ call.at = "group" => call.i < Len(call.current)
  /\ saving # None => Stored(saving)

Result == IF req.mode = "large" /\ N = 1 THEN Share(1) ELSE Target
Requested ==
  IF req.mode = "single" THEN Bytes(req.start, RangeEnd(req.size, req.start, req.length))
  ELSE Bytes(req.start, Least(req.start + FileLength, req.size))
WholeFile == req.mode = "single" /\ req.start = 0 /\ RangeEnd(req.size, 0, req.length) = req.size

(* Nobody reported an error of making the object: ComposeFile returned     *)
(* nil, or the only VM of a large file answered with success.  An answer   *)
(* of success says less, see ObjectAnswered.                               *)
Delivered == call.at = "ok" \/ (req.mode = "large" /\ N = 1 /\ phase = "ok")

(* Where that says something: the README gives for each conjunct what the  *)
(* code does without it.                                                   *)
Reliable ==
  /\ req.mode = "single" => req.claimed \in {0, req.size}
  /\ req.source = "remote" => WholeFile
  /\ req.mode = "large" => \A i \in 1..N : ShareLength(i) > 0
  /\ dest = "disk" /\ Result = Target => server.at = "merged"
  /\ N = 1 => ~uncomposed
  /\ ~torn

(* An object that was delivered holds exactly the bytes that were asked    *)
(* for, in their order: whatever attempts failed or were repeated, and     *)
(* however many levels the composition took.                               *)
WholeObject == Delivered /\ Reliable => Stored(Result) /\ objects[Result] = Requested

Includes(whole, piece) ==
  \E k \in 0..(Len(whole) - Len(piece)) : SubSeq(whole, k + 1, k + Len(piece)) = piece

(* A part or a share leaves the destination only when its bytes are in the *)
(* final object: a composition that fails at any point, client or chunk    *)
(* server, has lost nothing that was uploaded whole.  What a late or a     *)
(* short upload left of a part may be lost.                                *)
NothingLost ==
  [][~torn => \A name \in DOMAIN objects \ DOMAIN objects' :
       name \in Range(call.parts) =>
         Target \in DOMAIN objects' /\ Includes(objects'[Target], objects[name])]_vars

(* Beside an object that was delivered no temporary object, part or share  *)
(* is left, unless a deletion failed, which is only warned about, or a     *)
(* late attempt brought a part back.                                       *)
NoLitter ==
  Delivered /\ late = 0 /\ ~call.warned /\ ~uncomposed
      /\ (dest = "disk" /\ Result = Target => server.at = "merged")
    => DOMAIN objects = {Result}

(* Every request for a transfer is answered, unless it waits for the size  *)
(* of a remote file.                                                       *)
TransferAnswered == <>(Ended \/ (phase = "start" /\ AsksOverSsh))

(* The answer of success to an upload gives its NewFileName as the "Stored *)
(* object name" (upload-handler.go:100).  It is sent too when the          *)
(* composition failed, and when the deadline was over before it.           *)
ObjectAnswered == phase = "ok" /\ req.mode = "single" => Stored(Target)
=============================================================================
