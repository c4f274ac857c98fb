----------------------------- MODULE ChunkUpload -----------------------------
(***************************************************************************)
(* The upload engine of the edge client: one call of UploadFunc            *)
(* (client-plugin/upload/upload.go) and the goroutines it starts.          *)
(*                                                                         *)
(*   "caller"   UploadFunc itself: setup, select on done / ctx, deferred   *)
(*              workerPool.Stop() and cancel()                             *)
(*   "checker"  StartChunkTimeoutChecker                                   *)
(*   "loop"     ChunkEventLoop, resubmission passes included               *)
(*   "initial"  the first StartChunkSubmitLoop                             *)
(*   Workers    runWorker with the handler DirectImp or RedirectImp        *)
(*                                                                         *)
(* They share the chunk table, the task channel, the events channel, the   *)
(* done channel and two contexts.  The chunk table holds pointers that     *)
(* are read and written without a lock; every read or write of one chunk   *)
(* is a step of its own.  The clock counts ticks of CheckInterval.  The    *)
(* deadline of ctx is UploadTimeout; nothing looks at the clock after it,  *)
(* so the clock stops there.                                               *)
(***************************************************************************)
EXTENDS Integers, Sequences, FiniteSets

CONSTANTS
  Chunks,         \* indexes SplitFilebyRange put into the chunk table
  Workers,        \* the MaxConcurrency workers of the pool
  TaskBuffer,     \* capacity of WorkerPool.TaskCh
  EventBuffer,    \* capacity of the events channel
  ExpireTime,     \* ChunkExpireTime, in ticks
  UploadTimeout,  \* UploadTimeout, in ticks
  Redirect,       \* TRUE: handler RedirectImp, FALSE: handler DirectImp
  None            \* no chunk

Control == {"caller", "checker", "loop", "initial"}
Procs == Workers \cup Control
Iterators == {"checker", "loop", "initial"}  \* those that loop over the table

ASSUME ChunksAssumption == Chunks # {} /\ None \notin Chunks /\ IsFiniteSet(Chunks)
ASSUME WorkersAssumption == Workers \cap Control = {}
ASSUME TimeAssumption ==
  /\ ExpireTime \in Nat
  /\ UploadTimeout \in Nat
  /\ ExpireTime < UploadTimeout
\* 5 min - 2 min is 90 ticks of 2 s, and the channel holds 100 events.
ASSUME BufferAssumption ==
  /\ TaskBuffer \in Nat
  /\ EventBuffer \in Nat
  /\ UploadTimeout - ExpireTime <= EventBuffer
ASSUME RedirectAssumption == Redirect \in BOOLEAN

VARIABLES
  now,        \* ticks since the upload context was created
  tick,       \* the ticker's one-slot channel holds a tick
  acked,      \* ChunkState.Acked
  lastSend,   \* ChunkState.LastSend, NeverSent for the zero time
  taskCh,     \* buffered tasks, each the index of its chunk
  events,     \* buffered ChunkEvents
  done,       \* the done channel is closed
  stopped,    \* workerPool.Stop() ran: worker context cancelled, TaskCh closed
  cancelled,  \* the deferred cancel() of ctx ran
  pc,         \* where each goroutine is
  todo,       \* chunks a goroutine has still to visit in its loop over the table
  expired,    \* CollectExpiredChunks: expired chunks found so far
  finished,   \* CollectExpiredChunks: no unfinished chunk found so far
  at,         \* CollectExpiredChunks: time.Now() at its start
  serving,    \* chunk whose status a worker has still to settle
  began,      \* startTime of that handler call
  result,     \* what UploadFunc returned
  acknowledged, \* parts for which a call of UploadFile has returned nil
  composed,   \* the ComposeFile call
  resent      \* history: an expired event was sent

chunkVars == <<acked, lastSend>>
scanVars == <<expired, finished, at>>
workerVars == <<serving, began>>
flagVars == <<done, stopped, cancelled, result>>
storeVars == <<acknowledged, composed>>
vars == <<now, tick, chunkVars, taskCh, events, flagVars, pc, todo, scanVars,
          workerVars, storeVars, resent>>

NeverSent == -1
\* Mutant: the context has no deadline.
CtxWithoutDeadline == cancelled
CtxDone == cancelled \/ now = UploadTimeout

EventType == [type : {"expired", "finished"}, indexes : SUBSET Chunks]
ExpiredEvent(S) == [type |-> "expired", indexes |-> S]
FinishedEvent == [type |-> "finished", indexes |-> {}]

Goto(p, label) == pc' = [pc EXCEPT ![p] = label]

Init ==
  /\ now = 0
  /\ tick = FALSE
  /\ acked = [c \in Chunks |-> "Init"]
  /\ lastSend = [c \in Chunks |-> NeverSent]
  /\ taskCh = <<>>
  /\ events = <<>>
  /\ done = FALSE
  /\ stopped = FALSE
  /\ cancelled = FALSE
  /\ pc = [p \in Procs |-> IF p = "caller" THEN "setup" ELSE "off"]
  /\ todo = [p \in Iterators |-> {}]
  /\ expired = {}
  /\ finished = TRUE
  /\ at = 0
  /\ serving = [w \in Workers |-> None]
  /\ began = [w \in Workers |-> 0]
  /\ result = "none"
  /\ acknowledged = {}
  /\ composed = "no"
  /\ resent = FALSE

-----------------------------------------------------------------------------
(* Time: the context's clock and the checker's ticker, which drops a tick  *)
(* when the previous one has not been received.                            *)

Tick ==
  /\ now < UploadTimeout
  /\ now' = now + 1
  /\ tick' = (pc["checker"] \in {"select", "scan", "send"})
  /\ UNCHANGED <<chunkVars, taskCh, events, flagVars, pc, todo, scanVars,
                 workerVars, storeVars, resent>>

-----------------------------------------------------------------------------
(* "caller": UploadFunc *)

\* GetFileSize or SplitFilebyRange fails: return, and run the deferred cancel.
SetupFails ==
  /\ pc["caller"] = "setup"
  /\ Goto("caller", "returned")
  /\ result' = "err"
  /\ cancelled' = TRUE
  /\ UNCHANGED <<now, tick, chunkVars, taskCh, events, done, stopped, todo,
                 scanVars, workerVars, storeVars, resent>>

\* The table is filled; checker, pool, event loop and first pass are started.
StartGoroutines ==
  /\ pc["caller"] = "setup"
  /\ pc' = [p \in Procs |-> CASE p = "caller"  -> "waiting"
                              [] p = "initial" -> "passCheck"
                              [] OTHER         -> "select"]
  /\ todo' = [todo EXCEPT !["initial"] = Chunks]
  /\ UNCHANGED <<now, tick, chunkVars, taskCh, events, flagVars, scanVars,
                 workerVars, storeVars, resent>>

\* The select of UploadFunc: either ready case may be taken.
SelectResult ==
  /\ pc["caller"] = "waiting"
  /\ \/ done /\ result' = "nil"
     \/ CtxDone /\ result' = "err"
  /\ Goto("caller", "stopping")
  /\ UNCHANGED <<now, tick, chunkVars, taskCh, events, done, stopped,
                 cancelled, todo, scanVars, workerVars, storeVars, resent>>

\* Deferred calls run last-in first-out: Stop, then cancel.
\* Mutant: the deferred Stop is missing.
StopForgotten ==
  /\ pc["caller"] = "stopping"
  /\ Goto("caller", "cancelling")
  /\ UNCHANGED <<now, tick, chunkVars, taskCh, events, flagVars, todo, scanVars,
                 workerVars, storeVars, resent>>

Stop ==
  /\ pc["caller"] = "stopping"
  /\ stopped' = TRUE
  /\ Goto("caller", "cancelling")
  /\ UNCHANGED <<now, tick, chunkVars, taskCh, events, done, cancelled, result,
                 todo, scanVars, workerVars, storeVars, resent>>

Cancel ==
  /\ pc["caller"] = "cancelling"
  /\ cancelled' = TRUE
  /\ Goto("caller", "returned")
  /\ UNCHANGED <<now, tick, chunkVars, taskCh, events, done, stopped, result,
                 todo, scanVars, workerVars, storeVars, resent>>

CallerStep ==
  SetupFails \/ StartGoroutines \/ SelectResult \/ Stop \/ Cancel

-----------------------------------------------------------------------------
(* "checker": StartChunkTimeoutChecker and CollectExpiredChunks *)

\* Mutant: the checker polls the table without waiting for a tick.
StartScanAtOnce ==
  /\ pc["checker"] = "select"
  /\ tick' = FALSE
  /\ at' = now
  /\ expired' = {}
  /\ finished' = TRUE
  /\ todo' = [todo EXCEPT !["checker"] = Chunks]
  /\ Goto("checker", "scan")
  /\ UNCHANGED <<now, chunkVars, taskCh, events, flagVars, workerVars,
                 storeVars, resent>>

\* case <-ticker.C: CollectExpiredChunks begins.
StartScan ==
  /\ pc["checker"] = "select"
  /\ tick
  /\ tick' = FALSE
  /\ at' = now
  /\ expired' = {}
  /\ finished' = TRUE
  /\ todo' = [todo EXCEPT !["checker"] = Chunks]
  /\ Goto("checker", "scan")
  /\ UNCHANGED <<now, chunkVars, taskCh, events, flagVars, workerVars,
                 storeVars, resent>>

IsExpired(c) ==
  /\ lastSend[c] # NeverSent
  /\ at - lastSend[c] > ExpireTime

\* One chunk of the scan; a chunk never sent ends it with nothing to report.
ScanChunk(c) ==
  /\ pc["checker"] = "scan"
  /\ c \in todo["checker"]
  /\ \/ /\ acked[c] = "Init"
        /\ todo' = [todo EXCEPT !["checker"] = {}]
        /\ expired' = {}
        /\ finished' = FALSE
     \/ /\ acked[c] \in {"Transferring", "TransferFailed"}
        /\ todo' = [todo EXCEPT !["checker"] = @ \ {c}]
        /\ expired' = IF IsExpired(c) THEN expired \cup {c} ELSE expired
        /\ finished' = FALSE
     \/ /\ acked[c] = "Completed"
        /\ todo' = [todo EXCEPT !["checker"] = @ \ {c}]
        /\ UNCHANGED <<expired, finished>>
  /\ UNCHANGED <<now, tick, chunkVars, taskCh, events, flagVars, pc, at,
                 workerVars, storeVars, resent>>

EndScan ==
  /\ pc["checker"] = "scan"
  /\ todo["checker"] = {}
  /\ Goto("checker", IF finished \/ expired # {} THEN "send" ELSE "select")
  /\ UNCHANGED <<now, tick, chunkVars, taskCh, events, flagVars, todo, scanVars,
                 workerVars, storeVars, resent>>

\* A send on the buffered channel; it is not in a select with ctx.
SendEvent ==
  /\ pc["checker"] = "send"
  /\ Len(events) < EventBuffer
  /\ events' = Append(events, IF finished THEN FinishedEvent
                                          ELSE ExpiredEvent(expired))
  /\ resent' = (resent \/ ~finished)
  /\ Goto("checker", IF finished THEN "exited" ELSE "select")
  /\ UNCHANGED <<now, tick, chunkVars, taskCh, flagVars, todo, scanVars,
                 workerVars, storeVars>>

CheckerCtxDone ==
  /\ pc["checker"] = "select"
  /\ CtxDone
  /\ Goto("checker", "exited")
  /\ UNCHANGED <<now, tick, chunkVars, taskCh, events, flagVars, todo, scanVars,
                 workerVars, storeVars, resent>>

CheckerStep ==
  \/ StartScan
  \/ \E c \in Chunks : ScanChunk(c)
  \/ EndScan
  \/ SendEvent
  \/ CheckerCtxDone

-----------------------------------------------------------------------------
(* StartChunkSubmitLoop, run by "initial" and, for resubmission, by "loop". *)
(* A resubmission only ever acts on the expired chunks of its event, so     *)
(* the other chunks of the table are not visited.                           *)

\* What follows a pass: the goroutine "initial" ends, the event loop goes on.
AfterPass(p) == IF p = "loop" THEN "select" ELSE "exited"

\* Top of an iteration: the ctx check, then the ChunkSubmitDelay sleep.
PassCheck(p) ==
  /\ pc[p] = "passCheck"
  /\ IF todo[p] = {} \/ CtxDone
     THEN /\ Goto(p, AfterPass(p))
          /\ todo' = [todo EXCEPT ![p] = {}]
     ELSE /\ Goto(p, "passSubmit")
          /\ UNCHANGED todo
  /\ UNCHANGED <<now, tick, chunkVars, taskCh, events, flagVars, scanVars,
                 workerVars, storeVars, resent>>

Submittable(p, c) ==
  IF p = "loop" THEN acked[c] # "Completed" ELSE acked[c] = "Init"

\* WorkerPool.Submit: a send that gives up when the channel is full.
\* Mutants: one slot is never used; a submission is retried that was made.
ChannelFullEarly == Len(taskCh) + 1 >= TaskBuffer
ChannelFull == Len(taskCh) >= TaskBuffer

SubmitTwice(c) == taskCh' = taskCh \o <<c, c>>
Submit(c) == taskCh' = Append(taskCh, c)

\* After the sleep: skip the chunk, submit it, or give up on a full channel.
\* Sending on a closed channel panics and takes the whole process down.
PassSubmit(p, c) ==
  /\ pc[p] = "passSubmit"
  /\ c \in todo[p]
  /\ \/ /\ ~Submittable(p, c)
        /\ Goto(p, "passCheck")
        /\ todo' = [todo EXCEPT ![p] = @ \ {c}]
        /\ UNCHANGED taskCh
     \/ /\ Submittable(p, c) /\ stopped
        /\ pc' = [q \in Procs |-> "panicked"]
        /\ UNCHANGED <<todo, taskCh>>
     \/ /\ Submittable(p, c) /\ ~stopped /\ ~ChannelFull
        /\ Submit(c)
        /\ Goto(p, "passCheck")
        /\ todo' = [todo EXCEPT ![p] = @ \ {c}]
     \/ /\ Submittable(p, c) /\ ~stopped /\ ChannelFull
        /\ Goto(p, AfterPass(p))
        /\ todo' = [todo EXCEPT ![p] = {}]
        /\ UNCHANGED taskCh
  /\ UNCHANGED <<now, tick, chunkVars, events, flagVars, scanVars, workerVars,
                 storeVars, resent>>

PassStep(p) == PassCheck(p) \/ \E c \in Chunks : PassSubmit(p, c)

-----------------------------------------------------------------------------
(* "loop": ChunkEventLoop.  InitInterface sets UploadFile and ComposeFile   *)
(* together, so a finished event implies a ComposeFile; inMemory is TRUE.   *)

ReceiveExpired ==
  /\ pc["loop"] = "select"
  /\ events # <<>>
  /\ Head(events).type = "expired"
  /\ events' = Tail(events)
  /\ todo' = [todo EXCEPT !["loop"] = Head(events).indexes]
  /\ Goto("loop", "passCheck")
  /\ UNCHANGED <<now, tick, chunkVars, taskCh, flagVars, scanVars, workerVars,
                 storeVars, resent>>

ReceiveFinished ==
  /\ pc["loop"] = "select"
  /\ events # <<>>
  /\ Head(events).type = "finished"
  /\ events' = Tail(events)
  /\ todo' = [todo EXCEPT !["loop"] = Chunks]
  /\ Goto("loop", "verify")
  /\ UNCHANGED <<now, tick, chunkVars, taskCh, flagVars, scanVars, workerVars,
                 storeVars, resent>>

\* Re-read one chunk; one that is not completed ends the loop without composing.
VerifyChunk(c) ==
  /\ pc["loop"] = "verify"
  /\ c \in todo["loop"]
  /\ \/ /\ acked[c] = "Completed"
        /\ todo' = [todo EXCEPT !["loop"] = @ \ {c}]
        /\ UNCHANGED <<pc, done>>
     \/ /\ acked[c] # "Completed"
        /\ todo' = [todo EXCEPT !["loop"] = {}]
        /\ done' = TRUE
        /\ Goto("loop", "exited")
  /\ UNCHANGED <<now, tick, chunkVars, taskCh, events, stopped, cancelled,
                 result, scanVars, workerVars, storeVars, resent>>

CallCompose ==
  /\ pc["loop"] = "verify"
  /\ todo["loop"] = {}
  /\ composed' = "running"
  /\ Goto("loop", "compose")
  /\ UNCHANGED <<now, tick, chunkVars, taskCh, events, flagVars, todo, scanVars,
                 workerVars, acknowledged, resent>>

\* Mutant: a failed composition is tried again.
ComposeRetried ==
  /\ pc["loop"] = "compose"
  /\ \/ composed' = "ok" /\ done' = TRUE /\ Goto("loop", "exited")
     \/ composed' = "no" /\ UNCHANGED done /\ Goto("loop", "verify")
  /\ UNCHANGED <<now, tick, chunkVars, taskCh, events, stopped, cancelled,
                 result, todo, scanVars, workerVars, acknowledged, resent>>

\* A failed composition is logged, and done is closed all the same.
ComposeReturns ==
  /\ pc["loop"] = "compose"
  /\ composed' \in {"ok", "failed"}
  /\ done' = TRUE
  /\ Goto("loop", "exited")
  /\ UNCHANGED <<now, tick, chunkVars, taskCh, events, stopped, cancelled,
                 result, todo, scanVars, workerVars, acknowledged, resent>>

LoopCtxDone ==
  /\ pc["loop"] = "select"
  /\ CtxDone
  /\ done' = TRUE
  /\ Goto("loop", "exited")
  /\ UNCHANGED <<now, tick, chunkVars, taskCh, events, stopped, cancelled,
                 result, todo, scanVars, workerVars, storeVars, resent>>

LoopStep ==
  \/ ReceiveExpired
  \/ ReceiveFinished
  \/ PassStep("loop")
  \/ \E c \in Chunks : VerifyChunk(c)
  \/ CallCompose
  \/ ComposeReturns
  \/ LoopCtxDone

-----------------------------------------------------------------------------
(* Workers: runWorker and the handlers DirectImp and RedirectImp.           *)

\* Mutant: a failed handler writes a status that the enumeration does not have.
SetChunkUnknown(c, status, time) ==
  /\ acked' = [acked EXCEPT ![c] = IF status = "TransferFailed" THEN "Failed"
                                                                ELSE status]
  /\ lastSend' = [lastSend EXCEPT ![c] = time]

SetChunk(c, status, time) ==
  /\ acked' = [acked EXCEPT ![c] = status]
  /\ lastSend' = [lastSend EXCEPT ![c] = time]

Leave(w) ==
  /\ Goto(w, "select")
  /\ serving' = [serving EXCEPT ![w] = None]
  /\ began' = [began EXCEPT ![w] = 0]

\* Receive a task and mark its chunk, whatever the chunk's status is; a
\* context that is already done fails the chunk before anything is read.
BeginTask(w) ==
  /\ pc[w] = "select"
  /\ taskCh # <<>>
  /\ taskCh' = Tail(taskCh)
  /\ LET c == Head(taskCh) IN
       IF CtxDone
       THEN /\ SetChunk(c, "TransferFailed", now)
            /\ UNCHANGED <<pc, workerVars>>
       ELSE /\ SetChunk(c, "Transferring", now)
            /\ Goto(w, "reading")
            /\ serving' = [serving EXCEPT ![w] = c]
            /\ began' = [began EXCEPT ![w] = now]
  /\ UNCHANGED <<now, tick, events, flagVars, todo, scanVars, storeVars, resent>>

\* GetTransferReader fails: DirectImp records it, RedirectImp does not.
ReadFails(w) ==
  /\ pc[w] = "reading"
  /\ IF Redirect
     THEN UNCHANGED chunkVars
     ELSE SetChunk(serving[w], "TransferFailed", began[w])
  /\ Leave(w)
  /\ UNCHANGED <<now, tick, taskCh, events, flagVars, todo, scanVars, storeVars,
                 resent>>

\* The reader is there; ctx is checked once more before the upload.
ReadSucceeds(w) ==
  /\ pc[w] = "reading"
  /\ Goto(w, IF CtxDone THEN "closing" ELSE "uploading")
  /\ UNCHANGED <<now, tick, chunkVars, taskCh, events, flagVars, todo, scanVars,
                 workerVars, storeVars, resent>>

\* The status of the chunk is settled; the deferred Close of the reader is left.
Settle(w) ==
  /\ Goto(w, "closing")
  /\ serving' = [serving EXCEPT ![w] = None]
  /\ began' = [began EXCEPT ![w] = 0]

\* Mutant: the error of UploadFile is not looked at.
UploadFailsUnnoticed(w) ==
  /\ pc[w] = "uploading"
  /\ SetChunk(serving[w], "Completed", began[w])
  /\ Settle(w)
  /\ UNCHANGED <<now, tick, taskCh, events, flagVars, todo, scanVars, storeVars,
                 resent>>

\* UploadFile returns an error, which neither handler records in the chunk.
UploadFails(w) ==
  /\ pc[w] = "uploading"
  /\ Settle(w)
  /\ UNCHANGED <<now, tick, chunkVars, taskCh, events, flagVars, todo, scanVars,
                 storeVars, resent>>

\* UploadFile returns nil, which is all this client knows of the part: the GCS
\* client also returns nil when the Close that stores the part has failed, and a
\* chunk server may truncate it in a later attempt.  The last ctx check decides
\* what the chunk becomes; a failure is only recorded after the reader's Close.
UploadSucceeds(w) ==
  /\ pc[w] = "uploading"
  /\ acknowledged' = acknowledged \cup {serving[w]}
  /\ IF CtxDone
     THEN Goto(w, "closing") /\ UNCHANGED <<chunkVars, workerVars>>
     ELSE SetChunk(serving[w], "Completed", began[w]) /\ Settle(w)
  /\ UNCHANGED <<now, tick, taskCh, events, flagVars, todo, scanVars, composed,
                 resent>>

\* Deferred calls run last-in first-out: the reader is closed, and then the
\* failure of an attempt that ended with the context is recorded.
CloseReader(w) ==
  /\ pc[w] = "closing"
  /\ IF serving[w] # None
     THEN SetChunk(serving[w], "TransferFailed", began[w])
     ELSE UNCHANGED chunkVars
  /\ Leave(w)
  /\ UNCHANGED <<now, tick, taskCh, events, flagVars, todo, scanVars, storeVars,
                 resent>>

\* Stop cancelled the pool's context and closed the channel.
WorkerExits(w) ==
  /\ pc[w] = "select"
  /\ stopped
  /\ Goto(w, "exited")
  /\ UNCHANGED <<now, tick, chunkVars, taskCh, events, flagVars, todo, scanVars,
                 workerVars, storeVars, resent>>

WorkerStep(w) ==
  \/ BeginTask(w)
  \/ ReadFails(w)
  \/ ReadSucceeds(w)
  \/ UploadFails(w)
  \/ UploadSucceeds(w)
  \/ CloseReader(w)
  \/ WorkerExits(w)

-----------------------------------------------------------------------------
Panicked == pc["caller"] = "panicked"

AllExited ==
  /\ pc["caller"] = "returned"
  /\ \A p \in Procs \ {"caller"} : pc[p] \in {"off", "exited"}

\* Nothing is left to run, so that TLC's deadlock check finds stuck goroutines.
Terminated == (AllExited \/ Panicked) /\ now = UploadTimeout /\ UNCHANGED vars

Next ==
  \/ Tick
  \/ CallerStep
  \/ CheckerStep
  \/ LoopStep
  \/ PassStep("initial")
  \/ \E w \in Workers : WorkerStep(w)
  \/ Terminated

\* The Go scheduler runs every goroutine that can run, time passes, and the
\* calls of the event loop return: a composition takes ctx or has a client
\* timeout.  The calls to the source may never return.  When it is a remote disk
\* they are commands over ssh, whose timeout bounds only the dial: the size
\* (get-size.go:135, 159), the read, and the Close of the reader, which waits
\* for dd (download.go:267) while nobody empties its pipe.
CallerProceeds == SelectResult \/ Stop \/ Cancel
WorkerProceeds(w) == BeginTask(w) \/ WorkerExits(w)

Fairness ==
  /\ WF_vars(Tick)
  /\ WF_vars(CallerProceeds)
  /\ WF_vars(CheckerStep)
  /\ WF_vars(LoopStep)
  /\ WF_vars(PassStep("initial"))
  /\ \A w \in Workers : WF_vars(WorkerProceeds(w))

Spec == Init /\ [][Next]_vars
FairSpec == Spec /\ Fairness

-----------------------------------------------------------------------------
(* Properties *)

Labels ==
  {"off", "setup", "waiting", "stopping", "cancelling", "returned", "select",
   "scan", "send", "passCheck", "passSubmit", "verify", "compose", "reading",
   "uploading", "closing", "exited", "panicked"}

\* Every variable keeps its type.
TypeOK ==
  /\ now \in 0..UploadTimeout
  /\ tick \in BOOLEAN
  /\ acked \in [Chunks -> {"Init", "Transferring", "TransferFailed", "Completed"}]
  /\ lastSend \in [Chunks -> 0..UploadTimeout \cup {NeverSent}]
  /\ taskCh \in Seq(Chunks)
  /\ events \in Seq(EventType)
  /\ done \in BOOLEAN
  /\ stopped \in BOOLEAN
  /\ cancelled \in BOOLEAN
  /\ pc \in [Procs -> Labels]
  /\ todo \in [Iterators -> SUBSET Chunks]
  /\ expired \in SUBSET Chunks
  /\ finished \in BOOLEAN
  /\ at \in 0..UploadTimeout
  /\ serving \in [Workers -> Chunks \cup {None}]
  /\ began \in [Workers -> 0..UploadTimeout]
  /\ result \in {"none", "nil", "err"}
  /\ acknowledged \in SUBSET Chunks
  /\ composed \in {"no", "running", "ok", "failed"}
  /\ resent \in BOOLEAN

\* ComposeFile is only called when UploadFile has returned nil for every part of
\* the file, although the status table is read and written without locks, parts
\* are re-sent, and a completed part may be marked transferring again.
ComposeOnlyAcknowledged == composed # "no" => acknowledged = Chunks

Waiting(c) == \E i \in DOMAIN taskCh : taskCh[i] = c
Served(c) == \E w \in Workers : serving[w] = c

\* Until the checker reports an expired chunk, a chunk has one task at most:
\* it is yet to be submitted, in the channel or with one worker, never two of
\* these, and no chunk is worked on again after its attempt ended.
SingleTaskUntilResent ==
  ~resent =>
    /\ \A i, j \in DOMAIN taskCh : taskCh[i] = taskCh[j] => i = j
    /\ \A w, v \in Workers : serving[w] = serving[v] /\ serving[w] # None => w = v
    /\ \A c \in Chunks : Waiting(c) => acked[c] = "Init" /\ c \notin todo["initial"]
    /\ \A c \in Chunks : Served(c) => acked[c] = "Transferring"

\* A first pass that ended before the deadline has submitted every chunk, as
\* long as the channel has a slot for each.  With fewer slots a full channel
\* ends the pass ("break" after the sleep of TaskSubmitRetryInterval), and what
\* it did not reach is never submitted: the checker reports nothing as long as
\* a chunk was never sent.
FirstPassComplete ==
  Cardinality(Chunks) <= TaskBuffer /\ pc["initial"] = "exited" /\ ~CtxDone =>
    \A c \in Chunks : acked[c] = "Init" => Waiting(c)

\* The events channel has room whenever the checker sends, although the event loop
\* may be busy in a resubmission pass or a composition till the deadline: the send
\* is in no select (upload.go:125, 130), so a full channel would keep the checker
\* beyond the end of the context.
SendNeverBlocks == pc["checker"] = "send" => Len(events) < EventBuffer

\* The upload implements its abstract promise.
Job == INSTANCE UploadJob
         WITH Parts <- Chunks, disturbed <- (resent \/ now = UploadTimeout)
ImplementsJob == Job!Spec

\* Once the goroutines are started UploadFunc returns, at the latest after its
\* deadline (or the process dies), though every worker may hang in a read.
CallReturns ==
  pc["caller"] = "waiting" ~> pc["caller"] = "returned" \/ Panicked

\* Calls on the source or with its reader as the body, which may never return.
InSourceCall(w) == pc[w] \in {"reading", "uploading", "closing"}

\* Whatever happened, all goroutines of a call end, but for workers that hang
\* with the source: the deferred Stop and cancel reach the idle workers, the
\* checker, the event loop and the submit loops.  (Or the process dies.)
GoroutinesExit ==
  pc["caller"] # "setup" ~>
    \/ Panicked
    \/ /\ pc["caller"] = "returned"
       /\ \A p \in Procs \ {"caller"} :
            pc[p] \in {"off", "exited"} \/ (p \in Workers /\ InSourceCall(p))

=============================================================================
