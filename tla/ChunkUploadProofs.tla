-------------------------- MODULE ChunkUploadProofs --------------------------
(***************************************************************************)
(* What TLAPS proves of ChunkUpload for any number of chunks and workers,   *)
(* any buffer sizes and any deadline.                                      *)
(***************************************************************************)
EXTENDS ChunkUpload, FiniteSetTheorems, TLAPS

\* A worker inside a handler serves a chunk of the table.
BusyServes ==
  \A w \in Workers : pc[w] \in {"reading", "uploading"} => serving[w] \in Chunks

TypeInv == TypeOK /\ BusyServes

LEMMA ProcsFacts ==
  /\ Workers \subseteq Procs
  /\ {"caller", "checker", "loop", "initial"} \subseteq Procs
  /\ \A w \in Workers : w \notin {"caller", "checker", "loop", "initial"}
  BY WorkersAssumption DEF Procs, Control

LEMMA InitTypeInv == Init => TypeInv
  <1> SUFFICES ASSUME Init
               PROVE  TypeInv
    OBVIOUS
  <1> USE ProcsFacts, ChunksAssumption, TimeAssumption DEF Init, NeverSent
  <1>1. now \in 0..UploadTimeout /\ at \in 0..UploadTimeout
    OBVIOUS
  <1>2. began \in [Workers -> 0..UploadTimeout]
    OBVIOUS
  <1>3. taskCh \in Seq(Chunks)
    OBVIOUS
  <1>4. events \in Seq(EventType)
    OBVIOUS
  <1>5. acked \in [Chunks -> {"Init", "Transferring", "TransferFailed", "Completed"}]
    OBVIOUS
  <1>6. lastSend \in [Chunks -> 0..UploadTimeout \cup {NeverSent}]
    OBVIOUS
  <1>7. pc \in [Procs -> {"off", "setup"}]
    OBVIOUS
  <1>8. BusyServes
    BY <1>7 DEF BusyServes
  <1>9. QED
    BY <1>1, <1>2, <1>3, <1>4, <1>5, <1>6, <1>7, <1>8 DEF TypeInv, TypeOK, Labels, Iterators

\* What the updates the actions are made of do to the types.
LEMMA TodoUpdate ==
  ASSUME TypeOK, NEW p \in Iterators, NEW S \in SUBSET Chunks,
         todo' = [todo EXCEPT ![p] = S]
  PROVE  todo' \in [Iterators -> SUBSET Chunks]
  BY DEF TypeOK

LEMMA TodoSubset ==
  ASSUME TypeOK, NEW p \in Iterators, NEW c
  PROVE  todo[p] \ {c} \in SUBSET Chunks
  BY DEF TypeOK

LEMMA ChannelTypes ==
  ASSUME TypeOK
  PROVE  /\ \A c \in Chunks : Append(taskCh, c) \in Seq(Chunks)
         /\ events # <<>> => /\ Head(events).indexes \in SUBSET Chunks
                            /\ Tail(events) \in Seq(EventType)
         /\ \A e \in EventType : Append(events, e) \in Seq(EventType)
  <1>1. taskCh \in Seq(Chunks) /\ events \in Seq(EventType)
    BY DEF TypeOK
  <1>2. events # <<>> => Head(events) \in EventType /\ Tail(events) \in Seq(EventType)
    BY <1>1
  <1>3. \A e \in EventType : e.indexes \in SUBSET Chunks
    BY DEF EventType
  <1>4. QED
    BY <1>1, <1>2, <1>3

LEMMA ChunkUpdate ==
  ASSUME TypeOK, NEW c \in Chunks,
         NEW status \in {"Init", "Transferring", "TransferFailed", "Completed"},
         NEW t \in 0..UploadTimeout, SetChunk(c, status, t)
  PROVE  /\ acked' \in [Chunks -> {"Init", "Transferring", "TransferFailed", "Completed"}]
         /\ lastSend' \in [Chunks -> 0..UploadTimeout \cup {NeverSent}]
  BY DEF TypeOK, SetChunk

LEMMA WorkerUpdate ==
  ASSUME TypeInv, NEW w \in Workers, Leave(w) \/ Settle(w)
  PROVE  /\ pc' \in [Procs -> Labels]
         /\ serving' \in [Workers -> Chunks \cup {None}]
         /\ began' \in [Workers -> 0..UploadTimeout]
         /\ BusyServes'
  <1>1. /\ pc' = [pc EXCEPT ![w] = "select"] \/ pc' = [pc EXCEPT ![w] = "closing"]
        /\ pc \in [Procs -> Labels] /\ w \in Procs
        /\ serving' = [serving EXCEPT ![w] = None]
        /\ began' = [began EXCEPT ![w] = 0]
    BY ProcsFacts DEF TypeInv, TypeOK, Leave, Settle, Goto
  <1>2. pc' \in [Procs -> Labels]
    BY <1>1 DEF Labels
  <1>3. serving' \in [Workers -> Chunks \cup {None}]
    BY <1>1 DEF TypeInv, TypeOK
  <1>4. began' \in [Workers -> 0..UploadTimeout]
    BY <1>1, TimeAssumption DEF TypeInv, TypeOK
  <1>5. BusyServes'
    BY <1>1, ProcsFacts DEF TypeInv, TypeOK, BusyServes
  <1>6. QED
    BY <1>2, <1>3, <1>4, <1>5

LEMMA GotoUpdate ==
  ASSUME TypeInv, NEW p \in Procs,
         NEW label \in Labels \ {"reading", "uploading"}, Goto(p, label), UNCHANGED serving
  PROVE  pc' \in [Procs -> Labels] /\ BusyServes'
  BY ProcsFacts DEF TypeInv, TypeOK, BusyServes, Goto, Labels

LEMMA StepTypeInv == TypeInv /\ [Next]_vars => TypeInv'
  <1> SUFFICES ASSUME TypeInv, [Next]_vars
               PROVE  TypeInv'
    OBVIOUS
  <1> USE ProcsFacts, TimeAssumption
      DEF TypeInv, TypeOK, chunkVars, scanVars, workerVars, flagVars, storeVars
  <1>1. CASE Tick
    BY <1>1 DEF Tick, BusyServes
  <1>2. CASE CallerStep
    <2>1. CASE SetupFails
      <3>1. pc' \in [Procs -> Labels] /\ BusyServes'
        BY <2>1, GotoUpdate DEF SetupFails, Labels
      <3>2. QED
        BY <2>1, <3>1 DEF SetupFails
    <2>2. CASE StartGoroutines
      <3>1. pc' \in [Procs -> {"waiting", "passCheck", "select"}]
        BY <2>2 DEF StartGoroutines
      <3>2. pc' \in [Procs -> Labels] /\ BusyServes'
        BY <3>1 DEF Labels, BusyServes
      <3>3. todo' \in [Iterators -> SUBSET Chunks]
        BY <2>2, TodoUpdate DEF StartGoroutines, Iterators
      <3>4. QED
        BY <2>2, <3>2, <3>3 DEF StartGoroutines
    <2>3. CASE SelectResult
      <3>1. pc' \in [Procs -> Labels] /\ BusyServes'
        BY <2>3, GotoUpdate DEF SelectResult, Labels
      <3>2. QED
        BY <2>3, <3>1 DEF SelectResult
    <2>4. CASE Stop
      <3>1. pc' \in [Procs -> Labels] /\ BusyServes'
        BY <2>4, GotoUpdate DEF Stop, Labels
      <3>2. QED
        BY <2>4, <3>1 DEF Stop
    <2>5. CASE Cancel
      <3>1. pc' \in [Procs -> Labels] /\ BusyServes'
        BY <2>5, GotoUpdate DEF Cancel, Labels
      <3>2. QED
        BY <2>5, <3>1 DEF Cancel
    <2>6. QED
      BY <1>2, <2>1, <2>2, <2>3, <2>4, <2>5 DEF CallerStep
  <1>3. CASE CheckerStep
    <2>1. CASE StartScan
      <3>1. todo' \in [Iterators -> SUBSET Chunks]
        BY <2>1, TodoUpdate DEF StartScan, Iterators
      <3>2. pc' \in [Procs -> Labels] /\ BusyServes'
        BY <2>1, GotoUpdate DEF StartScan, Labels
      <3>3. QED
        BY <2>1, <3>1, <3>2 DEF StartScan
    <2>2. ASSUME NEW c \in Chunks, ScanChunk(c)
          PROVE  TypeInv'
      <3>1. todo' = [todo EXCEPT !["checker"] = {}]
              \/ todo' = [todo EXCEPT !["checker"] = todo["checker"] \ {c}]
        BY <2>2 DEF ScanChunk
      <3>2. todo' \in [Iterators -> SUBSET Chunks]
        BY <3>1, TodoUpdate, TodoSubset DEF Iterators
      <3>3. expired' \in SUBSET Chunks
        BY <2>2 DEF ScanChunk
      <3>4. finished' \in BOOLEAN
        BY <2>2 DEF ScanChunk
      <3>5. QED
        BY <2>2, <3>2, <3>3, <3>4 DEF ScanChunk, BusyServes
    <2>3. CASE EndScan
      <3>1. pc' \in [Procs -> Labels] /\ BusyServes'
        BY <2>3, GotoUpdate DEF EndScan, Labels
      <3>2. QED
        BY <2>3, <3>1 DEF EndScan
    <2>4. CASE SendEvent
      <3>1. events' \in Seq(EventType)
        BY <2>4, ChannelTypes DEF SendEvent, FinishedEvent, ExpiredEvent, EventType
      <3>2. pc' \in [Procs -> Labels] /\ BusyServes'
        BY <2>4, GotoUpdate DEF SendEvent, Labels
      <3>3. resent' \in BOOLEAN
        BY <2>4 DEF SendEvent
      <3>4. QED
        BY <2>4, <3>1, <3>2, <3>3 DEF SendEvent
    <2>5. CASE CheckerCtxDone
      <3>1. pc' \in [Procs -> Labels] /\ BusyServes'
        BY <2>5, GotoUpdate DEF CheckerCtxDone, Labels
      <3>2. QED
        BY <2>5, <3>1 DEF CheckerCtxDone
    <2>6. QED
      BY <1>3, <2>1, <2>2, <2>3, <2>4, <2>5 DEF CheckerStep
  <1>4. ASSUME NEW p \in {"loop", "initial"}, PassStep(p)
        PROVE  TypeInv'
    <2> p \in Iterators /\ p \in Procs /\ AfterPass(p) \in Labels \ {"reading", "uploading"}
      BY DEF Iterators, AfterPass, Labels
    <2>1. CASE PassCheck(p)
      <3>1. pc' \in [Procs -> Labels] /\ BusyServes'
        BY <2>1, GotoUpdate DEF PassCheck, Labels
      <3>2. todo' \in [Iterators -> SUBSET Chunks]
        BY <2>1, TodoUpdate DEF PassCheck
      <3>3. QED
        BY <2>1, <3>1, <3>2 DEF PassCheck
    <2>2. ASSUME NEW c \in Chunks, PassSubmit(p, c)
          PROVE  TypeInv'
      <3>1. \/ todo' = todo
            \/ todo' = [todo EXCEPT ![p] = {}]
            \/ todo' = [todo EXCEPT ![p] = todo[p] \ {c}]
        BY <2>2 DEF PassSubmit, Submit
      <3>2. todo' \in [Iterators -> SUBSET Chunks]
        <4> todo[p] \ {c} \in SUBSET Chunks /\ {} \in SUBSET Chunks
          BY TodoSubset
        <4> QED
          BY <3>1, TodoUpdate
      <3>3. taskCh' = taskCh \/ taskCh' = Append(taskCh, c)
        BY <2>2 DEF PassSubmit, Submit
      <3>4. taskCh' \in Seq(Chunks)
        BY <3>3, ChannelTypes
      <3>5. /\ UNCHANGED serving
            /\ \/ Goto(p, "passCheck")
               \/ Goto(p, AfterPass(p))
               \/ pc' = [q \in Procs |-> "panicked"]
        BY <2>2 DEF PassSubmit, Submit
      <3>6. pc' \in [Procs -> Labels] /\ BusyServes'
        BY <3>5, GotoUpdate DEF Labels, BusyServes
      <3>7. QED
        BY <2>2, <3>2, <3>4, <3>6 DEF PassSubmit, Submit
    <2>3. QED
      BY <1>4, <2>1, <2>2 DEF PassStep
  <1>5. CASE LoopStep
    <2>1. CASE ReceiveExpired
      <3>1. Head(events).indexes \in SUBSET Chunks
        BY <2>1, ChannelTypes DEF ReceiveExpired
      <3>2. events' \in Seq(EventType)
        BY <2>1, ChannelTypes DEF ReceiveExpired
      <3>3. todo' \in [Iterators -> SUBSET Chunks]
        BY <2>1, <3>1, TodoUpdate DEF ReceiveExpired, Iterators
      <3>4. pc' \in [Procs -> Labels] /\ BusyServes'
        BY <2>1, GotoUpdate DEF ReceiveExpired, Labels
      <3>5. QED
        BY <2>1, <3>2, <3>3, <3>4 DEF ReceiveExpired
    <2>2. CASE ReceiveFinished
      <3>1. events' \in Seq(EventType)
        BY <2>2, ChannelTypes DEF ReceiveFinished
      <3>2. todo' \in [Iterators -> SUBSET Chunks]
        BY <2>2, TodoUpdate DEF ReceiveFinished, Iterators
      <3>3. pc' \in [Procs -> Labels] /\ BusyServes'
        BY <2>2, GotoUpdate DEF ReceiveFinished, Labels
      <3>4. QED
        BY <2>2, <3>1, <3>2, <3>3 DEF ReceiveFinished
    <2>3. ASSUME NEW c \in Chunks, VerifyChunk(c)
          PROVE  TypeInv'
      <3>1. \/ todo' = [todo EXCEPT !["loop"] = {}]
            \/ todo' = [todo EXCEPT !["loop"] = todo["loop"] \ {c}]
        BY <2>3 DEF VerifyChunk
      <3>2. todo' \in [Iterators -> SUBSET Chunks]
        BY <3>1, TodoUpdate, TodoSubset DEF Iterators
      <3>3. UNCHANGED serving /\ (pc' = pc \/ Goto("loop", "exited"))
        BY <2>3 DEF VerifyChunk
      <3>4. pc' \in [Procs -> Labels] /\ BusyServes'
        BY <3>3, GotoUpdate DEF Labels, BusyServes
      <3>5. done' \in BOOLEAN
        BY <2>3 DEF VerifyChunk
      <3>6. QED
        BY <2>3, <3>2, <3>4, <3>5 DEF VerifyChunk
    <2>4. CASE CallCompose
      <3>1. pc' \in [Procs -> Labels] /\ BusyServes'
        BY <2>4, GotoUpdate DEF CallCompose, Labels
      <3>2. QED
        BY <2>4, <3>1 DEF CallCompose
    <2>5. CASE ComposeReturns
      <3>1. pc' \in [Procs -> Labels] /\ BusyServes'
        BY <2>5, GotoUpdate DEF ComposeReturns, Labels
      <3>2. QED
        BY <2>5, <3>1 DEF ComposeReturns
    <2>6. CASE LoopCtxDone
      <3>1. pc' \in [Procs -> Labels] /\ BusyServes'
        BY <2>6, GotoUpdate DEF LoopCtxDone, Labels
      <3>2. QED
        BY <2>6, <3>1 DEF LoopCtxDone
    <2>7. QED
      BY <1>4, <1>5, <2>1, <2>2, <2>3, <2>4, <2>5, <2>6 DEF LoopStep
  <1>6. ASSUME NEW w \in Workers, WorkerStep(w)
        PROVE  TypeInv'
    <2>1. CASE BeginTask(w)
      <3> DEFINE c == Head(taskCh)
      <3>1. c \in Chunks /\ taskCh' \in Seq(Chunks)
        BY <2>1 DEF BeginTask
      <3>2. CASE CtxDone
        <4>1. SetChunk(c, "TransferFailed", now) /\ UNCHANGED <<pc, workerVars>>
          BY <2>1, <3>2 DEF BeginTask
        <4>2. QED
          BY <2>1, <3>1, <4>1, ChunkUpdate DEF BeginTask, BusyServes
      <3>3. CASE ~CtxDone
        <4>1. /\ SetChunk(c, "Transferring", now)
              /\ pc' = [pc EXCEPT ![w] = "reading"]
              /\ serving' = [serving EXCEPT ![w] = c]
              /\ began' = [began EXCEPT ![w] = now]
          BY <2>1, <3>3 DEF BeginTask, Goto
        <4> HIDE DEF c
        <4>2. pc' \in [Procs -> Labels]
          BY <4>1 DEF Labels
        <4>3. serving' \in [Workers -> Chunks \cup {None}] /\ BusyServes'
          BY <4>1, <3>1 DEF BusyServes
        <4>4. began' \in [Workers -> 0..UploadTimeout]
          BY <4>1
        <4>5. QED
          BY <2>1, <3>1, <4>1, <4>2, <4>3, <4>4, ChunkUpdate DEF BeginTask
      <3>4. QED
        BY <3>2, <3>3
    <2>2. ASSUME Leave(w) \/ Settle(w), serving[w] \in Chunks,
                 \/ UNCHANGED chunkVars
                 \/ \E status \in {"TransferFailed", "Completed"} :
                      SetChunk(serving[w], status, began[w]),
                 acknowledged' \in {acknowledged, acknowledged \cup {serving[w]}},
                 UNCHANGED <<now, tick, taskCh, events, flagVars, todo, scanVars,
                             composed, resent>>
          PROVE  TypeInv'
      <3>1. serving[w] \in Chunks /\ began[w] \in 0..UploadTimeout
        BY <2>2
      <3>2. /\ acked' \in [Chunks -> {"Init", "Transferring", "TransferFailed", "Completed"}]
            /\ lastSend' \in [Chunks -> 0..UploadTimeout \cup {NeverSent}]
        BY <2>2, <3>1, ChunkUpdate
      <3>3. QED
        BY <2>2, <3>1, <3>2, WorkerUpdate
    <2>3. CASE ReadFails(w)
      BY <2>2, <2>3 DEF ReadFails, BusyServes
    <2>4. CASE ReadSucceeds(w)
      <3>1. CASE CtxDone
        <4>1. Goto(w, "closing") /\ UNCHANGED serving
          BY <2>4, <3>1 DEF ReadSucceeds
        <4>2. pc' \in [Procs -> Labels] /\ BusyServes'
          BY <4>1, GotoUpdate, Zenon DEF Labels
        <4>3. QED
          BY <2>4, <4>2 DEF ReadSucceeds
      <3>2. CASE ~CtxDone
        <4>1. pc[w] = "reading" /\ pc' = [pc EXCEPT ![w] = "uploading"] /\ UNCHANGED serving
          BY <2>4, <3>2 DEF ReadSucceeds, Goto
        <4>2. pc' \in [Procs -> Labels]
          BY <4>1 DEF Labels
        <4>3. BusyServes'
          BY <4>1 DEF BusyServes
        <4>4. QED
          BY <2>4, <3>2, <4>2, <4>3 DEF ReadSucceeds
      <3>3. QED
        BY <3>1, <3>2
    <2>5. CASE UploadFails(w)
      BY <2>2, <2>5 DEF UploadFails, BusyServes
    <2>6. CASE UploadSucceeds(w)
      <3>1. serving[w] \in Chunks
        BY <2>6 DEF UploadSucceeds, BusyServes
      <3>2. CASE CtxDone
        <4>1. pc' \in [Procs -> Labels] /\ BusyServes'
          BY <2>6, <3>2, GotoUpdate DEF UploadSucceeds, Labels
        <4>2. QED
          BY <2>6, <3>1, <3>2, <4>1 DEF UploadSucceeds
      <3>3. CASE ~CtxDone
        BY <2>2, <2>6, <3>1, <3>3 DEF UploadSucceeds
      <3>4. QED
        BY <3>2, <3>3
    <2>9. CASE CloseReader(w)
      <3>1. CASE serving[w] # None
        BY <2>2, <2>9, <3>1 DEF CloseReader
      <3>2. CASE serving[w] = None
        BY <2>9, <3>2, WorkerUpdate DEF CloseReader
      <3>3. QED
        BY <3>1, <3>2
    <2>7. CASE WorkerExits(w)
      <3>1. pc' \in [Procs -> Labels] /\ BusyServes'
        BY <2>7, GotoUpdate DEF WorkerExits, Labels
      <3>2. QED
        BY <2>7, <3>1 DEF WorkerExits
    <2>8. QED
      BY <1>6, <2>1, <2>3, <2>4, <2>5, <2>6, <2>7, <2>9 DEF WorkerStep
  <1>7. CASE UNCHANGED vars
    BY <1>7 DEF vars, BusyServes
  <1>8. QED
    BY <1>1, <1>2, <1>3, <1>4, <1>5, <1>6, <1>7 DEF Next, Terminated

\* Every variable keeps its type in every behavior of the upload engine.
THEOREM TypeCorrect == Spec => []TypeOK
  <1>1. Spec => []TypeInv
    BY InitTypeInv, StepTypeInv, PTL DEF Spec
  <1>2. TypeInv => TypeOK
    BY DEF TypeInv
  <1>3. QED
    BY <1>1, <1>2, PTL

-----------------------------------------------------------------------------
(* Composition.  A completed chunk is acknowledged, and what the event loop *)
(* has re-read as completed stays so whatever happens to the table later.   *)

BeforeCompose == {"off", "select", "passCheck", "passSubmit", "verify"}

AcknowledgedInv ==
  /\ \A c \in Chunks : acked[c] = "Completed" => c \in acknowledged
  /\ pc["loop"] = "verify" => \A c \in Chunks : c \in todo["loop"] \/ c \in acknowledged
  /\ ComposeOnlyAcknowledged
  /\ pc["caller"] = "setup" => pc["loop"] = "off"
  /\ pc["loop"] \in BeforeCompose => composed = "no"
  /\ pc["loop"] = "compose" => composed = "running"

LEMMA InitAcknowledgedInv == Init => AcknowledgedInv
  BY ProcsFacts DEF Init, AcknowledgedInv, ComposeOnlyAcknowledged, BeforeCompose

LEMMA StepAcknowledgedInv == TypeInv /\ AcknowledgedInv /\ [Next]_vars => AcknowledgedInv'
  <1> SUFFICES ASSUME TypeInv, AcknowledgedInv, [Next]_vars
               PROVE  AcknowledgedInv'
    OBVIOUS
  <1> USE ProcsFacts
      DEF AcknowledgedInv, ComposeOnlyAcknowledged, BeforeCompose, chunkVars, scanVars, workerVars, flagVars,
          storeVars
  <1> pc \in [Procs -> Labels] /\ todo \in [Iterators -> SUBSET Chunks]
    BY DEF TypeInv, TypeOK
  <1> acknowledged \in SUBSET Chunks /\ acked \in [Chunks -> {"Init", "Transferring", "TransferFailed", "Completed"}]
    BY DEF TypeInv, TypeOK
  <1>1. CASE Tick
    BY <1>1 DEF Tick
  <1>2. CASE CallerStep
    <2>1. CASE StartGoroutines
      BY <2>1 DEF StartGoroutines
    <2>2. CASE SetupFails \/ SelectResult \/ Stop \/ Cancel
      BY <2>2 DEF SetupFails, SelectResult, Stop, Cancel, Goto
    <2>3. QED
      BY <1>2, <2>1, <2>2 DEF CallerStep
  <1>3. CASE CheckerStep
    <2>1. /\ UNCHANGED <<acked, acknowledged, composed>>
          /\ pc'["loop"] = pc["loop"] /\ pc'["caller"] = pc["caller"]
      BY <1>3 DEF CheckerStep, StartScan, ScanChunk, EndScan, SendEvent, CheckerCtxDone, Goto
    <2>2. todo'["loop"] = todo["loop"]
      BY <1>3 DEF CheckerStep, StartScan, ScanChunk, EndScan, SendEvent, CheckerCtxDone, Iterators
    <2>3. QED
      BY <2>1, <2>2
  <1>4. ASSUME NEW p \in {"loop", "initial"}, PassStep(p)
        PROVE  AcknowledgedInv'
    <2>1. /\ UNCHANGED <<acked, acknowledged, composed>>
          /\ pc'["caller"] \in {pc["caller"], "panicked"}
          /\ \/ pc'["loop"] = pc["loop"] /\ p = "initial"
             \/ pc'["loop"] = "panicked"
             \/ /\ pc["loop"] \in {"passCheck", "passSubmit"}
                /\ pc'["loop"] \in {"select", "passCheck", "passSubmit"}
      BY <1>4 DEF PassStep, PassCheck, PassSubmit, Submit, AfterPass, Goto
    <2>2. p = "initial" => todo'["loop"] = todo["loop"]
      BY <1>4 DEF PassStep, PassCheck, PassSubmit, Submit, Iterators
    <2>3. pc["loop"] \in {"passCheck", "passSubmit"} => pc["caller"] # "setup"
      OBVIOUS
    <2>4. CASE pc'["loop"] = pc["loop"] /\ p = "initial"
      BY <2>1, <2>2, <2>4
    <2>5. CASE /\ pc["loop"] \in {"passCheck", "passSubmit"}
               /\ pc'["loop"] \in {"select", "passCheck", "passSubmit"}
      BY <2>1, <2>3, <2>5
    <2>6. CASE pc'["loop"] = "panicked"
      <3>1. pc'["caller"] = "panicked" \/ pc["loop"] = "panicked"
        BY <1>4, <2>6 DEF PassStep, PassCheck, PassSubmit, Submit, AfterPass, Goto
      <3>2. QED
        BY <2>1, <2>6, <3>1
    <2>7. QED
      BY <2>1, <2>4, <2>5, <2>6
  <1>5. CASE LoopStep
    <2>1. CASE ReceiveExpired \/ ComposeReturns \/ LoopCtxDone
      BY <2>1 DEF ReceiveExpired, ComposeReturns, LoopCtxDone, Goto
    <2>2. CASE ReceiveFinished
      <3>1. UNCHANGED <<acked, acknowledged, composed>> /\ todo'["loop"] = Chunks
        BY <2>2 DEF ReceiveFinished, Iterators
      <3>2. composed = "no" /\ pc'["loop"] = "verify" /\ pc'["caller"] # "setup"
        BY <2>2 DEF ReceiveFinished, Goto
      <3>3. QED
        BY <3>1, <3>2
    <2>3. ASSUME NEW c \in Chunks, VerifyChunk(c)
          PROVE  AcknowledgedInv'
      <3>1. UNCHANGED <<acked, acknowledged, composed>>
        BY <2>3 DEF VerifyChunk
      <3>2. CASE acked[c] = "Completed"
        <4>1. c \in acknowledged /\ todo'["loop"] = todo["loop"] \ {c} /\ pc["loop"] = "verify"
          BY <2>3, <3>2 DEF VerifyChunk, Iterators
        <4>2. pc' = pc
          BY <2>3, <3>2 DEF VerifyChunk
        <4>3. QED
          BY <3>1, <4>1, <4>2
      <3>3. CASE acked[c] # "Completed"
        BY <2>3, <3>1, <3>3 DEF VerifyChunk, Goto
      <3>4. QED
        BY <3>2, <3>3
    <2>4. CASE CallCompose
      <3>1. acknowledged = Chunks
        BY <2>4 DEF CallCompose
      <3>2. UNCHANGED <<acked, acknowledged>> /\ composed' = "running"
        BY <2>4 DEF CallCompose
      <3>3. pc'["loop"] = "compose" /\ pc'["caller"] # "setup"
        BY <2>4 DEF CallCompose, Goto
      <3>4. QED
        BY <3>1, <3>2, <3>3
    <2>5. QED
      BY <1>4, <1>5, <2>1, <2>2, <2>3, <2>4 DEF LoopStep
  <1>6. ASSUME NEW w \in Workers, WorkerStep(w)
        PROVE  AcknowledgedInv'
    <2>1. /\ UNCHANGED <<todo, composed>>
          /\ pc'["loop"] = pc["loop"] /\ pc'["caller"] = pc["caller"]
          /\ acknowledged \subseteq acknowledged'
      BY <1>6 DEF WorkerStep, BeginTask, ReadFails, ReadSucceeds, UploadFails,
                  UploadSucceeds, CloseReader, Settle, WorkerExits, Leave, Goto
    <2>2. acknowledged' \in SUBSET Chunks
      BY <1>6, StepTypeInv DEF TypeInv, TypeOK
    <2>3. \A c \in Chunks : acked'[c] = "Completed" => acked[c] = "Completed" \/ c \in acknowledged'
      <3>1. CASE UploadSucceeds(w)
        BY <3>1 DEF UploadSucceeds, SetChunk
      <3>2. CASE UNCHANGED acked
        BY <3>2
      <3>3. ASSUME NEW d \in Chunks, acked' = [acked EXCEPT ![d] = "TransferFailed"]
                              \/ acked' = [acked EXCEPT ![d] = "Transferring"]
            PROVE  (\A c \in Chunks : acked'[c] = "Completed" => acked[c] = "Completed" \/ c \in acknowledged')
        BY <3>3
      <3>4. BeginTask(w) => Head(taskCh) \in Chunks
        BY DEF BeginTask, TypeInv, TypeOK
      <3>5. /\ pc[w] = "reading" => serving[w] \in Chunks
            /\ serving[w] # None => serving[w] \in Chunks
        BY DEF TypeInv, TypeOK, BusyServes
      <3>6. QED
        BY <1>6, <3>1, <3>2, <3>3, <3>4, <3>5
           DEF WorkerStep, BeginTask, ReadFails, ReadSucceeds, UploadFails,
               CloseReader, WorkerExits, SetChunk, chunkVars
    <2>4. QED
      BY <2>1, <2>2, <2>3
  <1>7. CASE UNCHANGED vars
    BY <1>7 DEF vars
  <1>8. QED
    BY <1>1, <1>2, <1>3, <1>4, <1>5, <1>6, <1>7 DEF Next, Terminated

\* ComposeFile is only called when every part of the file is acknowledged.
THEOREM ComposeSafe == Spec => []ComposeOnlyAcknowledged
  <1>1. Spec => [](TypeInv /\ AcknowledgedInv)
    BY InitTypeInv, StepTypeInv, InitAcknowledgedInv, StepAcknowledgedInv, PTL DEF Spec
  <1>2. AcknowledgedInv => ComposeOnlyAcknowledged
    BY DEF AcknowledgedInv
  <1>3. QED
    BY <1>1, <1>2, PTL

-----------------------------------------------------------------------------
(* Tasks.  Until an expired chunk is reported, the event loop submits      *)
(* nothing, so that every chunk has the one task of the first pass.        *)

Distinct == \A i, j \in DOMAIN taskCh : taskCh[i] = taskCh[j] => i = j

\* Nothing runs before the table is filled.
OffInv ==
  pc["caller"] = "setup" => taskCh = <<>> /\ \A p \in Procs \ {"caller"} : pc[p] = "off"

SingleInv ==
  ~resent =>
    /\ pc["loop"] \notin {"passCheck", "passSubmit"}
    /\ \A i \in DOMAIN events : events[i].type = "finished"
    /\ Distinct
    /\ \A w, v \in Workers : serving[w] = serving[v] /\ serving[w] # None => w = v
    /\ \A c \in Chunks : Waiting(c) => acked[c] = "Init" /\ c \notin todo["initial"]
    /\ \A w \in Workers : serving[w] # None => acked[serving[w]] = "Transferring"

TaskInv == OffInv /\ SingleInv

LEMMA InitTaskInv == Init => TaskInv
  BY ProcsFacts DEF Init, TaskInv, OffInv, SingleInv, Distinct, Waiting, Iterators

LEMMA SubmitTask ==
  ASSUME taskCh \in Seq(Chunks), NEW c \in Chunks, Submit(c)
  PROVE  /\ \A d \in Chunks : Waiting(d)' <=> Waiting(d) \/ d = c
         /\ Distinct /\ ~Waiting(c) => Distinct'
  BY DEF Submit, Waiting, Distinct

LEMMA TakeTask ==
  ASSUME taskCh \in Seq(Chunks), taskCh # <<>>, taskCh' = Tail(taskCh)
  PROVE  /\ Head(taskCh) \in Chunks /\ Waiting(Head(taskCh))
         /\ \A d \in Chunks : Waiting(d)' => Waiting(d)
         /\ \A d \in Chunks : Waiting(d) => Waiting(d)' \/ d = Head(taskCh)
         /\ Distinct => Distinct' /\ \A i \in DOMAIN taskCh' : taskCh'[i] # Head(taskCh)
  <1>1. /\ Len(taskCh) \in Nat /\ Len(taskCh) >= 1 /\ Head(taskCh) = taskCh[1]
        /\ Len(taskCh') = Len(taskCh) - 1 /\ DOMAIN taskCh' = 1 .. Len(taskCh) - 1
        /\ DOMAIN taskCh = 1 .. Len(taskCh)
        /\ \A i \in DOMAIN taskCh' : taskCh'[i] = taskCh[i + 1]
    OBVIOUS
  <1>2. \A i \in DOMAIN taskCh : i = 1 \/ (i - 1 \in DOMAIN taskCh' /\ taskCh'[i - 1] = taskCh[i])
    BY <1>1
  <1>3. \A i \in DOMAIN taskCh' : i + 1 \in DOMAIN taskCh /\ i \in Nat
    BY <1>1
  <1>4. Head(taskCh) \in Chunks /\ Waiting(Head(taskCh))
    BY <1>1 DEF Waiting
  <1>5. \A d \in Chunks : Waiting(d)' => Waiting(d)
    BY <1>1, <1>3 DEF Waiting
  <1>6. \A d \in Chunks : Waiting(d) => Waiting(d)' \/ d = Head(taskCh)
    BY <1>1, <1>2 DEF Waiting
  <1>7. Distinct => Distinct'
    <2> SUFFICES ASSUME Distinct, NEW i \in DOMAIN taskCh', NEW j \in DOMAIN taskCh',
                        taskCh'[i] = taskCh'[j]
                 PROVE  i = j
      BY DEF Distinct
    <2>1. taskCh[i + 1] = taskCh[j + 1] /\ i + 1 \in DOMAIN taskCh /\ j + 1 \in DOMAIN taskCh
      BY <1>1, <1>3
    <2>2. i + 1 = j + 1
      BY <2>1 DEF Distinct
    <2>3. QED
      BY <1>3, <2>2
  <1>8. Distinct => \A i \in DOMAIN taskCh' : taskCh'[i] # Head(taskCh)
    <2> SUFFICES ASSUME Distinct, NEW i \in DOMAIN taskCh', taskCh'[i] = taskCh[1]
                 PROVE  FALSE
      BY <1>1
    <2>1. taskCh[i + 1] = taskCh[1] /\ i + 1 \in DOMAIN taskCh /\ 1 \in DOMAIN taskCh
      BY <1>1, <1>3
    <2>2. i + 1 = 1
      BY <2>1 DEF Distinct
    <2>3. QED
      BY <1>3, <2>2
  <1>9. QED
    BY <1>4, <1>5, <1>6, <1>7, <1>8

LEMMA StepOffInv == TypeInv /\ OffInv /\ [Next]_vars => OffInv'
  <1> SUFFICES ASSUME TypeInv, OffInv, [Next]_vars, pc'["caller"] = "setup"
               PROVE  taskCh' = <<>> /\ \A p \in Procs \ {"caller"} : pc'[p] = "off"
    BY DEF OffInv
  <1> pc \in [Procs -> Labels]
    BY DEF TypeInv, TypeOK
  <1> USE ProcsFacts DEF Goto, chunkVars, scanVars, workerVars, flagVars, storeVars
  <1>1. pc["caller"] = "setup" /\ taskCh = <<>> /\ \A p \in Procs \ {"caller"} : pc[p] = "off"
    <2>1. pc["caller"] = "setup"
      <3>1. CASE CallerStep
        BY <3>1 DEF CallerStep, SetupFails, StartGoroutines, SelectResult, Stop, Cancel
      <3>2. CASE CheckerStep
        BY <3>2 DEF CheckerStep, StartScan, ScanChunk, EndScan, SendEvent, CheckerCtxDone
      <3>3. ASSUME NEW p \in {"loop", "initial"}, PassStep(p) PROVE pc["caller"] = "setup"
        BY <3>3 DEF PassStep, PassCheck, PassSubmit, AfterPass
      <3>4. CASE LoopStep
        BY <3>3, <3>4 DEF LoopStep, ReceiveExpired, ReceiveFinished, VerifyChunk, CallCompose,
                          ComposeReturns, LoopCtxDone
      <3>5. ASSUME NEW w \in Workers, WorkerStep(w) PROVE pc["caller"] = "setup"
        BY <3>5 DEF WorkerStep, BeginTask, ReadFails, ReadSucceeds, UploadFails,
                    UploadSucceeds, CloseReader, Settle, WorkerExits, Leave
      <3>6. CASE Tick \/ UNCHANGED vars
        BY <3>6 DEF Tick, vars
      <3>7. QED
        BY <3>1, <3>2, <3>3, <3>4, <3>5, <3>6 DEF Next, Terminated
    <2>2. QED
      BY <2>1 DEF OffInv
  <1>2. CASE CallerStep
    BY <1>1, <1>2 DEF CallerStep, SetupFails, StartGoroutines, SelectResult, Stop, Cancel
  <1>3. CASE CheckerStep
    BY <1>1, <1>3 DEF CheckerStep, StartScan, ScanChunk, EndScan, SendEvent, CheckerCtxDone
  <1>4. ASSUME NEW p \in {"loop", "initial"}, PassStep(p) PROVE FALSE
    BY <1>1, <1>4 DEF PassStep, PassCheck, PassSubmit
  <1>5. CASE LoopStep
    BY <1>1, <1>4, <1>5 DEF LoopStep, ReceiveExpired, ReceiveFinished, VerifyChunk, CallCompose,
                            ComposeReturns, LoopCtxDone
  <1>6. ASSUME NEW w \in Workers, WorkerStep(w) PROVE FALSE
    BY <1>1, <1>6 DEF WorkerStep, BeginTask, ReadFails, ReadSucceeds, UploadFails,
                      UploadSucceeds, CloseReader, Settle, WorkerExits
  <1>7. CASE Tick \/ UNCHANGED vars
    BY <1>1, <1>7 DEF Tick, vars
  <1>8. QED
    BY <1>2, <1>3, <1>4, <1>5, <1>6, <1>7 DEF Next, Terminated

LEMMA StepSingleInv == TypeInv /\ TaskInv /\ [Next]_vars => SingleInv'
  <1> SUFFICES ASSUME TypeInv, TaskInv, [Next]_vars, ~resent'
               PROVE  /\ pc'["loop"] \notin {"passCheck", "passSubmit"}
                      /\ \A i \in DOMAIN events' : events'[i].type = "finished"
                      /\ Distinct'
                      /\ \A w, v \in Workers : serving'[w] = serving'[v] /\ serving'[w] # None => w = v
                      /\ \A c \in Chunks : Waiting(c)' => acked'[c] = "Init" /\ c \notin todo'["initial"]
                      /\ \A w \in Workers : serving'[w] # None => acked'[serving'[w]] = "Transferring"
    BY DEF SingleInv
  <1> DEFINE Goal == /\ pc'["loop"] \notin {"passCheck", "passSubmit"}
                     /\ \A i \in DOMAIN events' : events'[i].type = "finished"
                     /\ Distinct'
                     /\ \A w, v \in Workers : serving'[w] = serving'[v] /\ serving'[w] # None => w = v
                     /\ \A c \in Chunks : Waiting(c)' => acked'[c] = "Init" /\ c \notin todo'["initial"]
                     /\ \A w \in Workers : serving'[w] # None => acked'[serving'[w]] = "Transferring"
  <1>a. /\ pc \in [Procs -> Labels] /\ todo \in [Iterators -> SUBSET Chunks]
        /\ taskCh \in Seq(Chunks) /\ events \in Seq(EventType)
        /\ serving \in [Workers -> Chunks \cup {None}]
        /\ acked \in [Chunks -> {"Init", "Transferring", "TransferFailed", "Completed"}]
        /\ None \notin Chunks /\ {"checker", "loop", "initial"} = Iterators
    BY ChunksAssumption DEF TypeInv, TypeOK, Iterators
  <1>b. ~resent
    BY DEF Next, Tick, CallerStep, SetupFails, StartGoroutines, SelectResult, Stop, Cancel,
           CheckerStep, StartScan, ScanChunk, EndScan, SendEvent, CheckerCtxDone, LoopStep,
           ReceiveExpired, ReceiveFinished, VerifyChunk, CallCompose, ComposeReturns, LoopCtxDone,
           PassStep, PassCheck, PassSubmit, WorkerStep, BeginTask, ReadFails, ReadSucceeds,
           UploadFails, UploadSucceeds, CloseReader, Settle, WorkerExits, Terminated, vars
  <1>c. /\ pc["loop"] \notin {"passCheck", "passSubmit"}
        /\ \A i \in DOMAIN events : events[i].type = "finished"
        /\ Distinct
        /\ \A w, v \in Workers : serving[w] = serving[v] /\ serving[w] # None => w = v
        /\ \A c \in Chunks : Waiting(c) => acked[c] = "Init" /\ c \notin todo["initial"]
        /\ \A w \in Workers : serving[w] # None => acked[serving[w]] = "Transferring"
    BY <1>b DEF TaskInv, SingleInv
  <1> USE ProcsFacts DEF Goto, chunkVars, scanVars, workerVars, flagVars, storeVars
  \* Steps that only move a goroutine, or another loop over the table.
  <1>1. ASSUME UNCHANGED <<taskCh, acked, serving>>, todo'["initial"] \subseteq todo["initial"],
               pc'["loop"] \notin {"passCheck", "passSubmit"},
               \A i \in DOMAIN events' : events'[i].type = "finished"
        PROVE  Goal
    <2>1. Distinct' /\ \A c \in Chunks : Waiting(c)' <=> Waiting(c)
      BY <1>1, <1>c DEF Distinct, Waiting
    <2>2. QED
      BY <1>1, <1>c, <2>1
  <1>2. CASE Tick \/ UNCHANGED vars
    BY <1>1, <1>2, <1>c DEF Tick, vars
  <1>3. CASE CallerStep
    <2>1. CASE StartGoroutines
      <3>1. taskCh = <<>> /\ taskCh' = <<>> /\ pc'["loop"] = "select"
            /\ UNCHANGED <<acked, serving, events>>
        BY <2>1 DEF StartGoroutines, TaskInv, OffInv
      <3>2. Distinct' /\ \A c \in Chunks : ~Waiting(c)'
        BY <3>1 DEF Distinct, Waiting
      <3>3. QED
        BY <1>c, <3>1, <3>2
    <2>2. CASE SetupFails \/ SelectResult \/ Stop \/ Cancel
      <3>1. UNCHANGED <<taskCh, acked, serving, events, todo>> /\ pc'["loop"] = pc["loop"]
        BY <1>a, <2>2 DEF SetupFails, SelectResult, Stop, Cancel
      <3>2. QED
        BY <1>1, <1>c, <3>1
    <2>3. QED
      BY <1>3, <2>1, <2>2 DEF CallerStep
  <1>4. CASE CheckerStep
    <2>1. /\ UNCHANGED <<taskCh, acked, serving>> /\ pc'["loop"] = pc["loop"]
          /\ todo'["initial"] = todo["initial"]
      BY <1>a, <1>4 DEF CheckerStep, StartScan, ScanChunk, EndScan, SendEvent, CheckerCtxDone, Iterators
    <2>2. \A i \in DOMAIN events' : events'[i].type = "finished"
      <3>1. CASE SendEvent
        <4>1. events' = Append(events, FinishedEvent)
          BY <3>1 DEF SendEvent
        <4>2. FinishedEvent.type = "finished"
          BY DEF FinishedEvent
        <4> HIDE DEF FinishedEvent
        <4>3. QED
          BY <1>a, <1>c, <4>1, <4>2
      <3>2. CASE ~SendEvent
        <4>1. events' = events
          BY <1>4, <3>2 DEF CheckerStep, StartScan, ScanChunk, EndScan, CheckerCtxDone
        <4>2. QED
          BY <1>c, <4>1
      <3>3. QED
        BY <3>1, <3>2
    <2>3. QED
      BY <1>1, <1>c, <2>1, <2>2
  <1>5. CASE PassStep("initial")
    <2>1. CASE PassCheck("initial")
      <3>1. /\ UNCHANGED <<taskCh, acked, serving, events>> /\ pc'["loop"] = pc["loop"]
            /\ todo'["initial"] \subseteq todo["initial"]
        BY <1>a, <2>1 DEF PassCheck
      <3>2. QED
        BY <1>1, <1>c, <3>1
    <2>2. ASSUME NEW c \in Chunks, PassSubmit("initial", c) PROVE Goal
      <3>1. /\ UNCHANGED <<acked, serving, events>> /\ pc'["loop"] \in {pc["loop"], "panicked"}
            /\ todo'["initial"] \subseteq todo["initial"] /\ c \in todo["initial"]
            /\ \/ taskCh' = taskCh
               \/ /\ Submit(c) /\ acked[c] = "Init"
                  /\ todo'["initial"] = todo["initial"] \ {c}
        <4> DEFINE Rest == [todo EXCEPT !["initial"] = @ \ {c}]
        <4>1. /\ UNCHANGED <<acked, serving, events>> /\ c \in todo["initial"]
              /\ \/ taskCh' = taskCh /\ todo' \in {todo, Rest, [todo EXCEPT !["initial"] = {}]}
                 \/ Submit(c) /\ acked[c] = "Init" /\ todo' = Rest
          <5>1. Submittable("initial", c) <=> acked[c] = "Init"
            BY DEF Submittable
          <5>2. UNCHANGED <<acked, serving, events>> /\ c \in todo["initial"]
            BY <2>2 DEF PassSubmit
          <5>3. \/ ~Submittable("initial", c) /\ todo' = Rest /\ UNCHANGED taskCh
                \/ UNCHANGED <<todo, taskCh>>
                \/ Submittable("initial", c) /\ Submit(c) /\ todo' = Rest
                \/ todo' = [todo EXCEPT !["initial"] = {}] /\ UNCHANGED taskCh
            BY <2>2, Zenon DEF PassSubmit
          <5> HIDE DEF Rest
          <5>4. QED
            BY <5>1, <5>2, <5>3
        <4>2. pc'["loop"] \in {pc["loop"], "panicked"}
          BY <1>a, <2>2 DEF PassSubmit
        <4>3. /\ Rest["initial"] = todo["initial"] \ {c}
              /\ [todo EXCEPT !["initial"] = {}]["initial"] = {}
          BY <1>a
        <4> HIDE DEF Rest
        <4>4. todo'["initial"] \subseteq todo["initial"]
          BY <4>1, <4>3
        <4>5. \/ taskCh' = taskCh
              \/ /\ Submit(c) /\ acked[c] = "Init"
                 /\ todo'["initial"] = todo["initial"] \ {c}
          BY <4>1, <4>3
        <4>6. QED
          BY <4>1, <4>2, <4>4, <4>5
      <3>2. CASE taskCh' = taskCh
        BY <1>1, <1>c, <3>1, <3>2
      <3>3. CASE Submit(c) /\ acked[c] = "Init" /\ todo'["initial"] = todo["initial"] \ {c}
        <4>1. ~Waiting(c)
          BY <1>c, <3>1
        <4>2. Distinct' /\ \A d \in Chunks : Waiting(d)' <=> Waiting(d) \/ d = c
          BY <1>a, <1>c, <3>3, <4>1, SubmitTask
        <4>3. QED
          BY <1>c, <3>1, <3>3, <4>2
      <3>4. QED
        BY <3>1, <3>2, <3>3
    <2>3. QED
      BY <1>5, <2>1, <2>2 DEF PassStep
  <1>6. CASE LoopStep
    <2>1. ~PassStep("loop") /\ ~ReceiveExpired
      BY <1>a, <1>c DEF PassStep, PassCheck, PassSubmit, ReceiveExpired
    <2>2. /\ UNCHANGED <<taskCh, acked, serving>> /\ todo'["initial"] = todo["initial"]
          /\ pc'["loop"] \notin {"passCheck", "passSubmit"}
          /\ events' = events \/ (events # <<>> /\ events' = Tail(events))
      BY <1>a, <1>c, <1>6, <2>1 DEF LoopStep, ReceiveFinished, VerifyChunk, CallCompose,
                                    ComposeReturns, LoopCtxDone, Iterators
    <2>3. \A i \in DOMAIN events' : events'[i].type = "finished"
      <3>1. CASE events # <<>> /\ events' = Tail(events)
        <4>1. \A i \in DOMAIN events' : i + 1 \in DOMAIN events /\ events'[i] = events[i + 1]
          BY <1>a, <3>1
        <4>2. QED
          BY <1>c, <4>1
      <3>2. QED
        BY <1>c, <2>2, <3>1
    <2>4. QED
      BY <1>1, <2>2, <2>3
  <1>7. ASSUME NEW w \in Workers, WorkerStep(w) PROVE Goal
    <2>1. UNCHANGED <<events, todo>> /\ pc'["loop"] = pc["loop"]
      BY <1>a, <1>7 DEF WorkerStep, BeginTask, ReadFails, ReadSucceeds, UploadFails,
                        UploadSucceeds, CloseReader, Settle, WorkerExits, Leave
    <2>2. CASE BeginTask(w)
      <3> DEFINE c == Head(taskCh)
      <3>1. taskCh # <<>> /\ taskCh' = Tail(taskCh)
        BY <2>2 DEF BeginTask
      <3>2. /\ c \in Chunks /\ Waiting(c) /\ Distinct'
            /\ \A i \in DOMAIN taskCh' : taskCh'[i] # c
            /\ \A d \in Chunks : Waiting(d)' => Waiting(d)
        BY <1>a, <1>c, <3>1, TakeTask
      <3>3. \/ acked' = [acked EXCEPT ![c] = "TransferFailed"] /\ serving' = serving
            \/ /\ acked' = [acked EXCEPT ![c] = "Transferring"]
               /\ serving' = [serving EXCEPT ![w] = c]
        BY <2>2 DEF BeginTask, SetChunk
      <3> HIDE DEF c
      <3>4. acked[c] = "Init" /\ \A v \in Workers : serving[v] # c
        BY <1>a, <1>c, <3>2
      <3>5. \A d \in Chunks : Waiting(d)' => acked'[d] = "Init" /\ d \notin todo'["initial"]
        <4>1. \A d \in Chunks : Waiting(d)' => d # c /\ Waiting(d)
          BY <3>2 DEF Waiting
        <4>2. QED
          BY <1>a, <1>c, <2>1, <3>2, <3>3, <4>1
      <3>6. \A v \in Workers : serving'[v] # None => acked'[serving'[v]] = "Transferring"
        BY <1>a, <1>c, <3>2, <3>3, <3>4
      <3>7. \A u, v \in Workers : serving'[u] = serving'[v] /\ serving'[u] # None => u = v
        BY <1>a, <1>c, <3>3, <3>4, SMTT(30)
      <3>8. QED
        BY <1>c, <2>1, <3>2, <3>5, <3>6, <3>7
    <2>3. CASE \/ ReadFails(w) \/ ReadSucceeds(w) \/ UploadFails(w) \/ UploadSucceeds(w)
               \/ CloseReader(w) \/ WorkerExits(w)
      <3>1. /\ taskCh' = taskCh
            /\ \/ acked' = acked /\ serving' = serving
               \/ acked' = acked /\ serving' = [serving EXCEPT ![w] = None]
               \/ /\ serving[w] \in Chunks /\ serving' = [serving EXCEPT ![w] = None]
                  /\ \E status \in {"TransferFailed", "Completed"} :
                       acked' = [acked EXCEPT ![serving[w]] = status]
        BY <2>3 DEF ReadFails, ReadSucceeds, UploadFails, UploadSucceeds, CloseReader, Settle, WorkerExits,
                    SetChunk, Leave, TypeInv, TypeOK, BusyServes
      <3>2. Distinct' /\ \A c \in Chunks : Waiting(c)' <=> Waiting(c)
        BY <1>c, <3>1 DEF Distinct, Waiting
      <3>3. \A c \in Chunks : Waiting(c) => acked'[c] = "Init"
        BY <1>a, <1>c, <3>1
      <3>4. \A v \in Workers : serving'[v] # None => acked'[serving'[v]] = "Transferring"
        BY <1>a, <1>c, <3>1
      <3>5. \A u, v \in Workers : serving'[u] = serving'[v] /\ serving'[u] # None => u = v
        BY <1>a, <1>c, <3>1
      <3>6. QED
        BY <1>c, <2>1, <3>2, <3>3, <3>4, <3>5
    <2>4. QED
      BY <1>7, <2>2, <2>3 DEF WorkerStep
  <1>8. QED
    BY <1>2, <1>3, <1>4, <1>5, <1>6, <1>7 DEF Next, Terminated

\* Until the checker reports an expired chunk, no chunk has two tasks.
THEOREM SingleTask == Spec => []SingleTaskUntilResent
  <1>1. TaskInv /\ [Next]_vars /\ TypeInv => TaskInv'
    BY StepOffInv, StepSingleInv DEF TaskInv
  <1>2. TaskInv => SingleTaskUntilResent
    BY ChunksAssumption DEF TaskInv, SingleInv, SingleTaskUntilResent, Distinct, Served
  <1>3. QED
    BY <1>1, <1>2, InitTypeInv, StepTypeInv, InitTaskInv, PTL DEF Spec

-----------------------------------------------------------------------------
(* The scan and the first pass.  An expired event is only sent when every   *)
(* chunk was submitted, so that until then a first pass always finds a free *)
(* slot in a channel that has one for each chunk.                          *)

\* A scan gave up at a chunk never sent, or has met none so far.
ScanInv ==
  /\ resent => \A c \in Chunks : acked[c] # "Init"
  /\ pc["checker"] \in {"scan", "send"} =>
       \/ ~finished /\ expired = {} /\ todo["checker"] = {}
       \/ \A c \in Chunks \ todo["checker"] : acked[c] # "Init"
  /\ pc["checker"] = "send" => todo["checker"] = {} /\ (finished \/ expired # {})

FirstInv ==
  Cardinality(Chunks) <= TaskBuffer =>
    /\ pc["initial"] = "exited" => todo["initial"] = {}
    /\ pc["caller"] # "setup" /\ ~CtxDone =>
         \A c \in Chunks : acked[c] = "Init" => Waiting(c) \/ c \in todo["initial"]

\* Until a chunk is re-sent, a finished event, and the check of it, find every
\* chunk completed.
FinishedInv ==
  ~resent =>
    /\ pc["checker"] \in {"scan", "send"} /\ finished =>
         \A c \in Chunks \ todo["checker"] : acked[c] = "Completed"
    /\ events # <<>> \/ pc["loop"] = "verify" => \A c \in Chunks : acked[c] = "Completed"

\* The caller's own progress, and why done was closed.
CallerInv ==
  /\ pc["caller"] \in {"setup", "waiting"} => result = "none"
  /\ cancelled => pc["caller"] \in {"returned", "panicked"}
  /\ done => pc["loop"] \in {"exited", "panicked"}
  /\ done => composed \in {"ok", "failed"} \/ resent \/ CtxDone

UploadInv == ScanInv /\ FirstInv /\ FinishedInv /\ CallerInv

\* What every step leaves alone, or changes in one direction only.
LEMMA Monotone ==
  ASSUME TypeInv, [Next]_vars
  PROVE  /\ \A c \in Chunks : acked'[c] = "Init" => acked[c] = "Init"
         /\ resent => resent'
         /\ CtxDone => CtxDone'
  <1> USE DEF chunkVars, scanVars, workerVars, flagVars, storeVars
  <1>a. acked \in [Chunks -> {"Init", "Transferring", "TransferFailed", "Completed"}]
    BY DEF TypeInv, TypeOK
  <1>1. CASE Tick \/ UNCHANGED vars
    BY <1>1, <1>a, TimeAssumption DEF Tick, vars, CtxDone
  <1>2. CASE CallerStep
    BY <1>2, <1>a DEF CallerStep, SetupFails, StartGoroutines, SelectResult, Stop, Cancel, CtxDone
  <1>3. CASE CheckerStep
    <2>1. UNCHANGED <<acked, cancelled, now>>
      BY <1>3 DEF CheckerStep, StartScan, ScanChunk, EndScan, SendEvent, CheckerCtxDone
    <2>2. resent' = (resent \/ ~finished) \/ resent' = resent
      BY <1>3, Zenon DEF CheckerStep, StartScan, ScanChunk, EndScan, SendEvent, CheckerCtxDone
    <2>3. resent => resent'
      BY <2>2, Zenon
    <2>4. QED
      BY <2>1, <2>3, Zenon DEF CtxDone
  <1>4. ASSUME NEW p \in {"loop", "initial"}, PassStep(p)
        PROVE  UNCHANGED <<acked, resent, cancelled, now>>
    BY <1>4 DEF PassStep, PassCheck, PassSubmit
  <1>5. CASE LoopStep
    BY <1>4, <1>5, <1>a DEF LoopStep, ReceiveExpired, ReceiveFinished, VerifyChunk, CallCompose,
                            ComposeReturns, LoopCtxDone, CtxDone
  <1>6. ASSUME NEW w \in Workers, WorkerStep(w)
        PROVE  /\ UNCHANGED <<resent, cancelled, now>>
               /\ \A c \in Chunks : acked'[c] = "Init" => acked[c] = "Init"
    <2>1. UNCHANGED <<resent, cancelled, now>>
      BY <1>6 DEF WorkerStep, BeginTask, ReadFails, ReadSucceeds, UploadFails,
                  UploadSucceeds, CloseReader, Settle, WorkerExits
    <2>2. \/ acked' = acked
          \/ \E c, status : status # "Init" /\ acked' = [acked EXCEPT ![c] = status]
      BY <1>6 DEF WorkerStep, BeginTask, ReadFails, ReadSucceeds, UploadFails,
                  UploadSucceeds, CloseReader, Settle, WorkerExits, SetChunk
    <2>3. QED
      BY <1>a, <2>1, <2>2
  <1>7. QED
    BY <1>1, <1>2, <1>3, <1>4, <1>5, <1>6, <1>a DEF Next, Terminated, CtxDone

\* Until a chunk is re-sent, only a chunk without a task is completed.
LEMMA CompletedStays ==
  ASSUME TypeInv, SingleInv, [Next]_vars, ~resent
  PROVE  \A c \in Chunks : acked[c] = "Completed" => acked'[c] = "Completed"
  <1> SUFFICES ASSUME NEW c \in Chunks, acked[c] = "Completed"
               PROVE  acked'[c] = "Completed"
    OBVIOUS
  <1> USE DEF chunkVars, scanVars, workerVars, flagVars, storeVars
  <1>a. /\ acked \in [Chunks -> {"Init", "Transferring", "TransferFailed", "Completed"}]
        /\ taskCh \in Seq(Chunks) /\ None \notin Chunks
    BY ChunksAssumption DEF TypeInv, TypeOK
  <1>1. ASSUME NEW w \in Workers, WorkerStep(w)
        PROVE  acked'[c] = acked[c]
    <2>1. \/ acked' = acked
          \/ /\ taskCh # <<>> /\ taskCh' = Tail(taskCh)
             /\ \E status : acked' = [acked EXCEPT ![Head(taskCh)] = status]
          \/ /\ serving[w] \in Chunks
             /\ \E status : acked' = [acked EXCEPT ![serving[w]] = status]
      BY <1>1 DEF WorkerStep, BeginTask, ReadFails, ReadSucceeds, UploadFails,
                  UploadSucceeds, CloseReader, Settle, WorkerExits, SetChunk, TypeInv, TypeOK, BusyServes
    <2>2. CASE taskCh # <<>> /\ taskCh' = Tail(taskCh)
               /\ \E status : acked' = [acked EXCEPT ![Head(taskCh)] = status]
      <3>1. Head(taskCh) \in Chunks /\ Waiting(Head(taskCh))
        BY <1>a, <2>2, TakeTask
      <3>2. c # Head(taskCh)
        BY <3>1 DEF SingleInv
      <3>3. QED
        BY <1>a, <2>2, <3>2
    <2>3. CASE serving[w] \in Chunks /\ \E status : acked' = [acked EXCEPT ![serving[w]] = status]
      <3>1. c # serving[w]
        BY <1>a, <2>3 DEF SingleInv
      <3>2. QED
        BY <1>a, <2>3, <3>1
    <2>4. QED
      BY <2>1, <2>2, <2>3
  <1>2. CASE ~\E w \in Workers : WorkerStep(w)
    <2>1. UNCHANGED acked
      BY <1>2 DEF Next, Terminated, Tick, vars, CallerStep, SetupFails, StartGoroutines,
              SelectResult, Stop, Cancel, CheckerStep, StartScan, ScanChunk, EndScan, SendEvent,
              CheckerCtxDone, LoopStep, ReceiveExpired, ReceiveFinished, VerifyChunk,
              CallCompose, ComposeReturns, LoopCtxDone, PassStep, PassCheck, PassSubmit
    <2>2. QED
      BY <2>1
  <1>3. QED
    BY <1>1, <1>2

LEMMA InitUploadInv == Init => UploadInv
  BY ProcsFacts DEF Init, UploadInv, ScanInv, FirstInv, FinishedInv, CallerInv, CtxDone

\* What the goroutines other than the checker do to the checker's state.
LEMMA CheckerFrame ==
  ASSUME TypeInv, [Next]_vars, ~CheckerStep
  PROVE  /\ UNCHANGED <<at, expired, finished, resent>> /\ todo'["checker"] = todo["checker"]
         /\ pc'["checker"] \in {pc["checker"], "panicked"} \/ (StartGoroutines /\ pc'["checker"] = "select")
         /\ events' = events \/ (events # <<>> /\ events' = Tail(events))
         /\ Tick \/ UNCHANGED <<now, tick>>
  <1> USE ProcsFacts DEF chunkVars, scanVars, workerVars, flagVars, storeVars, Goto
  <1>a. /\ pc \in [Procs -> Labels] /\ todo \in [Iterators -> SUBSET Chunks]
        /\ {"checker", "loop", "initial"} = Iterators
    BY DEF TypeInv, TypeOK, Iterators
  <1>1. CASE Tick \/ UNCHANGED vars
    BY <1>1 DEF Tick, vars
  <1>2. CASE CallerStep
    BY <1>2, <1>a DEF CallerStep, SetupFails, StartGoroutines, SelectResult, Stop, Cancel
  <1>3. ASSUME NEW p \in {"loop", "initial"}, PassStep(p)
        PROVE  /\ UNCHANGED <<at, expired, finished, resent, events, now, tick>>
               /\ todo'["checker"] = todo["checker"]
               /\ pc'["checker"] \in {pc["checker"], "panicked"}
    <2>1. UNCHANGED <<at, expired, finished, resent, events, now, tick>>
      BY <1>3 DEF PassStep, PassCheck, PassSubmit
    <2>2. todo' = todo \/ \E S : todo' = [todo EXCEPT ![p] = S]
      BY <1>3 DEF PassStep, PassCheck, PassSubmit
    <2>3. pc' = [q \in Procs |-> "panicked"] \/ \E l : pc' = [pc EXCEPT ![p] = l]
      BY <1>3 DEF PassStep, PassCheck, PassSubmit
    <2>4. QED
      BY <1>a, <2>1, <2>2, <2>3
  <1>4. CASE LoopStep
    BY <1>a, <1>3, <1>4 DEF LoopStep, ReceiveExpired, ReceiveFinished, VerifyChunk, CallCompose,
                            ComposeReturns, LoopCtxDone
  <1>5. ASSUME NEW w \in Workers, WorkerStep(w)
        PROVE  /\ UNCHANGED <<at, expired, finished, resent, events, todo, now, tick>>
               /\ pc'["checker"] = pc["checker"]
    BY <1>a, <1>5 DEF WorkerStep, BeginTask, ReadFails, ReadSucceeds, UploadFails,
                UploadSucceeds, CloseReader, Settle, WorkerExits, Leave
  <1>6. QED
    BY <1>1, <1>2, <1>3, <1>4, <1>5 DEF Next, Terminated

LEMMA StepScanInv == TypeInv /\ ScanInv /\ [Next]_vars => ScanInv'
  <1> SUFFICES ASSUME TypeInv, ScanInv, [Next]_vars
               PROVE  ScanInv'
    OBVIOUS
  <1>a. /\ pc \in [Procs -> Labels] /\ todo \in [Iterators -> SUBSET Chunks]
        /\ "checker" \in Iterators /\ finished \in BOOLEAN /\ resent \in BOOLEAN
    BY DEF TypeInv, TypeOK, Iterators
  <1>b. \A c \in Chunks : acked'[c] = "Init" => acked[c] = "Init"
    BY Monotone
  <1>1. CASE ~CheckerStep
    <2>1. /\ UNCHANGED <<expired, finished, resent>> /\ todo'["checker"] = todo["checker"]
          /\ pc'["checker"] \in {pc["checker"], "panicked", "select"}
      BY <1>1, CheckerFrame
    <2>2. QED
      BY <1>b, <2>1, Zenon DEF ScanInv
  <1>2. CASE CheckerStep
    <2> USE ProcsFacts DEF chunkVars, scanVars, workerVars, flagVars, storeVars, Goto
    <2>1. acked' = acked
      BY <1>2 DEF CheckerStep, StartScan, ScanChunk, EndScan, SendEvent, CheckerCtxDone
    <2>2. CASE StartScan
      BY <1>a, <2>1, <2>2 DEF StartScan, ScanInv
    <2>3. ASSUME NEW c \in Chunks, ScanChunk(c) PROVE ScanInv'
      BY <1>a, <2>1, <2>3 DEF ScanChunk, ScanInv
    <2>4. CASE EndScan
      BY <1>a, <2>1, <2>4 DEF EndScan, ScanInv
    <2>5. CASE SendEvent
      <3>1. /\ pc["checker"] = "send" /\ pc'["checker"] \notin {"scan", "send"}
            /\ UNCHANGED todo
        BY <1>a, <2>5 DEF SendEvent
      <3>2. resent' = (resent \/ ~finished)
        BY <2>5 DEF SendEvent
      <3>3. resent' => \A c \in Chunks : acked[c] # "Init"
        BY <3>1, <3>2 DEF ScanInv
      <3>4. QED
        BY <2>1, <3>1, <3>3 DEF ScanInv
    <2>6. CASE CheckerCtxDone
      BY <1>a, <2>1, <2>6 DEF CheckerCtxDone, ScanInv
    <2>7. QED
      BY <1>2, <2>2, <2>3, <2>4, <2>5, <2>6 DEF CheckerStep
  <1>3. QED
    BY <1>1, <1>2

\* Tasks of different chunks fit into a channel with a slot for each chunk.
LEMMA ChannelHasSlot ==
  ASSUME taskCh \in Seq(Chunks), Distinct, NEW c \in Chunks, ~Waiting(c)
  PROVE  Len(taskCh) < Cardinality(Chunks)
  <1> DEFINE Others == Chunks \ {c}
  <1>1. /\ IsFiniteSet(Others) /\ Cardinality(Others) = Cardinality(Chunks) - 1
        /\ Cardinality(Chunks) \in Nat
    BY ChunksAssumption, FS_RemoveElement, FS_CardinalityType
  <1>2. Len(taskCh) \in Nat /\ DOMAIN taskCh = 1 .. Len(taskCh)
    OBVIOUS
  <1>3. taskCh \in Injection(1 .. Len(taskCh), Others)
    BY <1>2 DEF Injection, IsInjective, Distinct, Waiting
  <1>4. Cardinality(1 .. Len(taskCh)) <= Cardinality(Others)
    BY <1>1, <1>3, FS_Injection
  <1>5. Cardinality(1 .. Len(taskCh)) = Len(taskCh)
    BY <1>2, FS_Interval
  <1>6. QED
    BY <1>1, <1>2, <1>4, <1>5

LEMMA StepFirstInv == TypeInv /\ TaskInv /\ ScanInv /\ FirstInv /\ [Next]_vars => FirstInv'
  <1> DEFINE Pending(c) == acked[c] = "Init" => Waiting(c) \/ c \in todo["initial"]
  <1> DEFINE Goal == /\ pc'["initial"] = "exited" => todo'["initial"] = {}
                     /\ pc'["caller"] # "setup" /\ ~CtxDone' => \A c \in Chunks : Pending(c)'
  <1> SUFFICES ASSUME TypeInv, TaskInv, ScanInv, FirstInv, [Next]_vars,
                      Cardinality(Chunks) <= TaskBuffer
               PROVE  Goal
    BY DEF FirstInv
  <1>a. /\ pc \in [Procs -> Labels] /\ todo \in [Iterators -> SUBSET Chunks]
        /\ {"checker", "loop", "initial"} = Iterators /\ taskCh \in Seq(Chunks)
        /\ acked \in [Chunks -> {"Init", "Transferring", "TransferFailed", "Completed"}]
    BY DEF TypeInv, TypeOK, Iterators
  <1>b. /\ pc["initial"] = "exited" => todo["initial"] = {}
        /\ pc["caller"] # "setup" /\ ~CtxDone => \A c \in Chunks : Pending(c)
    BY DEF FirstInv
  <1>c. /\ CtxDone => CtxDone'
        /\ \A c \in Chunks : acked'[c] = "Init" => acked[c] = "Init"
    BY Monotone
  <1>d. pc["caller"] = "setup" => \A p \in Procs \ {"caller"} : pc[p] = "off"
    BY DEF TaskInv, OffInv
  <1> USE ProcsFacts DEF chunkVars, scanVars, workerVars, flagVars, storeVars, Goto
  \* A step of another goroutine that takes no task.
  <1>1. ASSUME todo'["initial"] = todo["initial"],
               pc'["initial"] \in {pc["initial"], "off", "panicked"},
               pc'["caller"] # "setup" => pc["caller"] # "setup" \/ CtxDone',
               \A c \in Chunks : acked'[c] = "Init" /\ Waiting(c) => Waiting(c)'
        PROVE  Goal
    <2>1. pc'["initial"] = "exited" => todo'["initial"] = {}
      BY <1>1, <1>b
    <2>2. ASSUME pc'["caller"] # "setup", ~CtxDone', NEW c \in Chunks, acked'[c] = "Init"
          PROVE  Waiting(c)' \/ c \in todo'["initial"]
      BY <1>1, <1>b, <1>c, <2>2
    <2>3. QED
      BY <2>1, <2>2
  <1>2. taskCh' = taskCh => \A c \in Chunks : Waiting(c) => Waiting(c)'
    BY DEF Waiting
  <1> HIDE DEF Goal
  <1>3. CASE Tick \/ UNCHANGED vars
    BY <1>1, <1>2, <1>3 DEF Tick, vars
  <1>4. CASE CallerStep
    <2>1. CASE StartGoroutines
      <3>1. pc'["initial"] = "passCheck" /\ todo'["initial"] = Chunks
        BY <1>a, <2>1 DEF StartGoroutines
      <3>2. QED
        BY <3>1 DEF Goal
    <2>2. CASE SetupFails
      <3>1. CtxDone' /\ UNCHANGED <<taskCh, todo>> /\ pc'["initial"] = pc["initial"]
        BY <1>a, <2>2 DEF SetupFails, CtxDone
      <3>2. QED
        BY <1>1, <1>2, <3>1
    <2>3. CASE SelectResult \/ Stop \/ Cancel
      <3>1. UNCHANGED <<taskCh, todo>> /\ pc'["initial"] = pc["initial"] /\ pc["caller"] # "setup"
        BY <1>a, <2>3 DEF SelectResult, Stop, Cancel
      <3>2. QED
        BY <1>1, <1>2, <3>1
    <2>4. QED
      BY <1>4, <2>1, <2>2, <2>3 DEF CallerStep
  <1>5. CASE CheckerStep
    <2>1. /\ UNCHANGED taskCh /\ todo'["initial"] = todo["initial"]
          /\ pc'["initial"] = pc["initial"] /\ pc'["caller"] = pc["caller"]
      BY <1>a, <1>5 DEF CheckerStep, StartScan, ScanChunk, EndScan, SendEvent, CheckerCtxDone
    <2>2. QED
      BY <1>1, <1>2, <2>1
  \* A submission, or a pass that goes on without one.
  <1>6. ASSUME NEW p \in {"loop", "initial"}, PassStep(p)
        PROVE  /\ \A c \in Chunks : Waiting(c) => Waiting(c)'
               /\ acked' = acked /\ pc["caller"] # "setup"
               /\ p = "loop" => /\ todo'["initial"] = todo["initial"]
                               /\ pc'["initial"] \in {pc["initial"], "panicked"}
    <2>1. taskCh' = taskCh \/ \E c \in Chunks : taskCh' = Append(taskCh, c)
      BY <1>6 DEF PassStep, PassCheck, PassSubmit, Submit
    <2>2. \A c \in Chunks : Waiting(c) => Waiting(c)'
      BY <1>a, <2>1 DEF Waiting
    <2>3. acked' = acked /\ pc["caller"] # "setup"
      BY <1>6, <1>d DEF PassStep, PassCheck, PassSubmit
    <2>4. todo' = todo \/ \E S : todo' = [todo EXCEPT ![p] = S]
      BY <1>6 DEF PassStep, PassCheck, PassSubmit
    <2>5. pc' = [q \in Procs |-> "panicked"] \/ \E l : pc' = [pc EXCEPT ![p] = l]
      BY <1>6 DEF PassStep, PassCheck, PassSubmit
    <2>6. QED
      BY <1>a, <2>2, <2>3, <2>4, <2>5
  <1>7. CASE LoopStep
    <2>1. CASE PassStep("loop")
      BY <1>1, <1>6, <2>1
    <2>2. CASE ~PassStep("loop")
      <3>1. /\ UNCHANGED taskCh /\ todo'["initial"] = todo["initial"]
            /\ pc'["initial"] = pc["initial"] /\ pc'["caller"] = pc["caller"]
        BY <1>a, <1>7, <2>2 DEF LoopStep, ReceiveExpired, ReceiveFinished, VerifyChunk,
                                CallCompose, ComposeReturns, LoopCtxDone
      <3>2. QED
        BY <1>1, <1>2, <3>1
    <2>3. QED
      BY <2>1, <2>2
  <1>8. CASE PassStep("initial")
    <2> USE DEF AfterPass
    <2>1. CASE PassCheck("initial")
      <3>1. CASE todo["initial"] = {} \/ CtxDone
        <4>1. todo'["initial"] = {} /\ (CtxDone \/ todo["initial"] = {})
          BY <1>a, <2>1, <3>1 DEF PassCheck
        <4>2. QED
          BY <1>6, <1>8, <1>b, <1>c, <4>1 DEF Goal
      <3>2. CASE ~(todo["initial"] = {} \/ CtxDone)
        <4>1. todo' = todo /\ pc'["initial"] = "passSubmit"
          BY <1>a, <2>1, <3>2 DEF PassCheck
        <4>2. QED
          BY <1>6, <1>8, <1>b, <1>c, <4>1 DEF Goal
      <3>3. QED
        BY <3>1, <3>2
    <2>2. ASSUME NEW c \in Chunks, PassSubmit("initial", c) PROVE Goal
      <3> DEFINE Rest == [todo EXCEPT !["initial"] = @ \ {c}]
      <3>a. /\ \A S : [todo EXCEPT !["initial"] = S]["initial"] = S
            /\ Rest["initial"] = todo["initial"] \ {c}
        BY <1>a
      <3> HIDE DEF Rest
      <3>1. CASE acked[c] # "Init" /\ todo' = Rest /\ pc'["initial"] = "passCheck"
        BY <1>6, <1>8, <1>b, <1>c, <3>1, <3>a DEF Goal
      <3>2. CASE todo' = todo /\ pc'["initial"] = "panicked"
        BY <1>6, <1>8, <1>b, <1>c, <3>2 DEF Goal
      <3>3. CASE Submit(c) /\ todo' = Rest /\ pc'["initial"] = "passCheck"
        <4>1. Waiting(c)'
          BY <1>a, <3>3, SubmitTask
        <4>2. QED
          BY <1>6, <1>8, <1>b, <1>c, <3>3, <3>a, <4>1 DEF Goal
      <3>4. CASE acked[c] = "Init" /\ ChannelFull
        <4>1. ~resent
          BY <3>4 DEF ScanInv
        <4>2. c \in todo["initial"]
          BY <2>2 DEF PassSubmit
        <4>3. Distinct /\ ~Waiting(c)
          BY <4>1, <4>2 DEF TaskInv, SingleInv
        <4>4. Len(taskCh) < Cardinality(Chunks)
          BY <1>a, <4>3, ChannelHasSlot
        <4>5. Cardinality(Chunks) \in Nat /\ Len(taskCh) \in Nat
          BY <1>a, ChunksAssumption, FS_CardinalityType
        <4>6. QED
          BY <3>4, <4>4, <4>5, BufferAssumption DEF ChannelFull
      <3>5. QED
        <4>1. Submittable("initial", c) <=> acked[c] = "Init"
          BY DEF Submittable
        <4>2. \/ ~Submittable("initial", c) /\ todo' = Rest /\ Goto("initial", "passCheck")
              \/ todo' = todo /\ pc' = [q \in Procs |-> "panicked"]
              \/ Submit(c) /\ todo' = Rest /\ Goto("initial", "passCheck")
              \/ Submittable("initial", c) /\ ChannelFull
          BY <2>2, Zenon DEF PassSubmit, Rest
        <4>3. /\ Goto("initial", "passCheck") => pc'["initial"] = "passCheck"
              /\ pc' = [q \in Procs |-> "panicked"] => pc'["initial"] = "panicked"
          BY <1>a
        <4>4. QED
          BY <3>1, <3>2, <3>3, <3>4, <4>1, <4>2, <4>3
    <2>3. QED
      BY <1>8, <2>1, <2>2 DEF PassStep
  <1>9. ASSUME NEW w \in Workers, WorkerStep(w) PROVE Goal
    <2>1. UNCHANGED todo /\ pc'["initial"] = pc["initial"] /\ pc'["caller"] = pc["caller"]
      BY <1>a, <1>9 DEF WorkerStep, BeginTask, ReadFails, ReadSucceeds, UploadFails,
                        UploadSucceeds, CloseReader, Settle, WorkerExits, Leave
    <2>2. \A c \in Chunks : acked'[c] = "Init" /\ Waiting(c) => Waiting(c)'
      <3>1. CASE taskCh' = taskCh
        BY <1>2, <3>1
      <3>2. CASE BeginTask(w)
        <4>1. /\ taskCh # <<>> /\ taskCh' = Tail(taskCh)
              /\ \E status : status # "Init" /\ acked' = [acked EXCEPT ![Head(taskCh)] = status]
          BY <3>2 DEF BeginTask, SetChunk
        <4>2. /\ Head(taskCh) \in Chunks
              /\ \A c \in Chunks : Waiting(c) => Waiting(c)' \/ c = Head(taskCh)
          BY <1>a, <4>1, TakeTask
        <4>3. acked'[Head(taskCh)] # "Init"
          BY <1>a, <4>1, <4>2
        <4>4. QED
          BY <4>2, <4>3
      <3>3. QED
        BY <1>9, <3>1, <3>2 DEF WorkerStep, ReadFails, ReadSucceeds, UploadFails,
                                UploadSucceeds, CloseReader, Settle, WorkerExits
    <2>3. QED
      BY <1>1, <2>1, <2>2
  <1>10. QED
    BY <1>3, <1>4, <1>5, <1>7, <1>8, <1>9 DEF Next, Terminated

\* A first pass that is over has submitted every chunk, unless the deadline
\* passed, when the channel has a slot for each.
THEOREM FirstPass == Spec => []FirstPassComplete
  <1>1. TaskInv /\ [Next]_vars /\ TypeInv => TaskInv'
    BY StepOffInv, StepSingleInv DEF TaskInv
  <1>2. Init => ScanInv /\ FirstInv
    BY InitUploadInv DEF UploadInv
  <1>3. TypeInv /\ TaskInv /\ FirstInv => FirstPassComplete
    <2> SUFFICES ASSUME TypeInv, TaskInv, FirstInv, Cardinality(Chunks) <= TaskBuffer,
                        pc["initial"] = "exited", ~CtxDone
                 PROVE  \A c \in Chunks : acked[c] = "Init" => Waiting(c)
      BY DEF FirstPassComplete
    <2>1. pc["caller"] # "setup"
      BY ProcsFacts DEF TaskInv, OffInv
    <2>2. QED
      BY <2>1 DEF FirstInv
  <1>4. QED
    BY <1>1, <1>2, <1>3, InitTypeInv, StepTypeInv, InitTaskInv, StepScanInv, StepFirstInv,
       PTL DEF Spec

-----------------------------------------------------------------------------
(* The events channel.  A scan takes place once per clock tick at most, and *)
(* a chunk is expired only in scans later than ExpireTime, so that each     *)
(* waiting event is counted by the time of a scan after ExpireTime.         *)

\* No more than n events wait; none if n is negative.
Backlog(n) == Len(events) = 0 \/ Len(events) <= n

BacklogInv ==
  /\ at <= now
  /\ tick => at < now
  /\ pc["checker"] \in {"off", "select"} => Backlog(at - ExpireTime)
  /\ pc["checker"] \in {"scan", "send"} => Backlog(at - 1 - ExpireTime)
  /\ pc["checker"] \in {"scan", "send"} /\ expired # {} => at > ExpireTime

LEMMA InitBacklog == Init => BacklogInv
  BY DEF Init, BacklogInv, Backlog

\* Receiving shortens the channel, and the other goroutines do not touch the scan.
LEMMA BacklogFrame ==
  ASSUME TypeInv, OffInv, BacklogInv, [Next]_vars, ~CheckerStep
  PROVE  BacklogInv'
  <1>1. /\ UNCHANGED <<at, expired>>
        /\ pc'["checker"] \in {pc["checker"], "panicked"}
             \/ (pc["checker"] = "off" /\ pc'["checker"] = "select")
    BY CheckerFrame, ProcsFacts DEF StartGoroutines, OffInv
  <1>2. /\ events \in Seq(EventType) /\ now \in Nat /\ at \in Nat /\ tick \in BOOLEAN
        /\ ExpireTime \in Nat /\ UploadTimeout \in Nat
    BY TimeAssumption DEF TypeInv, TypeOK
  <1>3. Len(events) \in Nat /\ Len(events') \in Nat /\ Len(events') <= Len(events)
    BY <1>2, CheckerFrame
  <1>4. \A n \in Int : Backlog(n) => Backlog(n)'
    BY <1>3 DEF Backlog
  <1>5. now' \in Nat /\ now <= now' /\ (tick' => at < now')
    BY <1>2, CheckerFrame DEF Tick, BacklogInv
  <1>6. QED
    BY <1>1, <1>2, <1>4, <1>5 DEF BacklogInv

LEMMA StepBacklog == TypeInv /\ OffInv /\ ScanInv /\ BacklogInv /\ [Next]_vars => BacklogInv'
  <1> SUFFICES ASSUME TypeInv, OffInv, ScanInv, BacklogInv, [Next]_vars
               PROVE  BacklogInv'
    OBVIOUS
  <1>1. CASE ~CheckerStep
    BY <1>1, BacklogFrame
  <1>2. CASE CheckerStep
    <2> USE ProcsFacts DEF Goto, scanVars
    <2>1. /\ events \in Seq(EventType) /\ now \in Nat /\ at \in Nat /\ ExpireTime \in Nat
          /\ pc \in [Procs -> Labels] /\ Len(events) \in Nat
          /\ lastSend \in [Chunks -> Nat \cup {NeverSent}]
      BY TimeAssumption DEF TypeInv, TypeOK
    <2>2. CASE StartScan
      BY <2>1, <2>2 DEF StartScan, BacklogInv, Backlog
    <2>3. ASSUME NEW c \in Chunks, ScanChunk(c) PROVE BacklogInv'
      <3>1. /\ UNCHANGED <<now, tick, at, events, pc>> /\ pc["checker"] = "scan"
            /\ expired' \in {{}, expired, expired \cup {c}}
            /\ expired' = expired \cup {c} => IsExpired(c) \/ expired' = expired
        BY <2>3 DEF ScanChunk
      <3>2. IsExpired(c) => at > ExpireTime
        BY <2>1 DEF IsExpired
      <3>3. expired' # {} => at > ExpireTime
        BY <3>1, <3>2 DEF BacklogInv
      <3>4. QED
        BY <3>1, <3>3 DEF BacklogInv, Backlog
    <2>4. CASE EndScan
      BY <2>1, <2>4 DEF EndScan, BacklogInv, Backlog
    <2>5. CASE SendEvent
      <3>1. /\ pc["checker"] = "send" /\ UNCHANGED <<now, tick, at>> /\ Len(events') = Len(events) + 1
            /\ pc'["checker"] = IF finished THEN "exited" ELSE "select"
        BY <2>1, <2>5 DEF SendEvent
      <3>2. ~finished => at > ExpireTime /\ Backlog(at - 1 - ExpireTime)
        BY <3>1 DEF ScanInv, BacklogInv
      <3>3. ~finished => Backlog(at - ExpireTime)'
        BY <2>1, <3>1, <3>2 DEF Backlog
      <3>4. QED
        BY <3>1, <3>3 DEF BacklogInv
    <2>6. CASE CheckerCtxDone
      BY <2>1, <2>6 DEF CheckerCtxDone, BacklogInv, Backlog
    <2>7. QED
      BY <1>2, <2>2, <2>3, <2>4, <2>5, <2>6 DEF CheckerStep
  <1>3. QED
    BY <1>1, <1>2

\* The channel has room for an event of every tick between the first expiry and the
\* deadline, so the checker never waits in its send, whatever the event loop does.
THEOREM RoomForEvents == Spec => []SendNeverBlocks
  <1>1. Spec => [](TypeInv /\ OffInv /\ ScanInv /\ BacklogInv)
    <2>1. Init => ScanInv
      BY InitUploadInv DEF UploadInv
    <2>2. Init => OffInv
      BY InitTaskInv DEF TaskInv
    <2>3. QED
      BY <2>1, <2>2, InitTypeInv, StepTypeInv, StepOffInv, StepScanInv, InitBacklog, StepBacklog, PTL
         DEF Spec
  <1>2. TypeInv /\ BacklogInv => SendNeverBlocks
    <2> SUFFICES ASSUME TypeInv, BacklogInv, pc["checker"] = "send"
                 PROVE  Len(events) < EventBuffer
      BY DEF SendNeverBlocks
    <2>1. /\ at \in 0..UploadTimeout /\ events \in Seq(EventType) /\ Len(events) \in Nat
      BY DEF TypeInv, TypeOK
    <2>2. Backlog(at - 1 - ExpireTime)
      BY DEF BacklogInv
    <2>3. QED
      BY <2>1, <2>2, TimeAssumption, BufferAssumption DEF Backlog
  <1>3. QED
    BY <1>1, <1>2, PTL

LEMMA StepFinishedInv ==
  TypeInv /\ TaskInv /\ ScanInv /\ FinishedInv /\ [Next]_vars => FinishedInv'
  <1> DEFINE AllCompleted == \A c \in Chunks : acked[c] = "Completed"
  <1> DEFINE Seen == \A c \in Chunks \ todo["checker"] : acked[c] = "Completed"
  <1> DEFINE Goal == /\ pc'["checker"] \in {"scan", "send"} /\ finished' => Seen'
                     /\ events' # <<>> \/ pc'["loop"] = "verify" => AllCompleted'
  <1> SUFFICES ASSUME TypeInv, TaskInv, ScanInv, FinishedInv, [Next]_vars, ~resent'
               PROVE  Goal
    BY DEF FinishedInv
  <1>a. /\ pc \in [Procs -> Labels] /\ todo \in [Iterators -> SUBSET Chunks]
        /\ "checker" \in Iterators /\ finished \in BOOLEAN /\ resent \in BOOLEAN
        /\ events \in Seq(EventType)
    BY DEF TypeInv, TypeOK, Iterators
  <1>b. ~resent
    BY Monotone
  <1>c. /\ pc["checker"] \in {"scan", "send"} /\ finished => Seen
        /\ events # <<>> \/ pc["loop"] = "verify" => AllCompleted
    BY <1>b DEF FinishedInv
  <1>d. \A c \in Chunks : acked[c] = "Completed" => acked'[c] = "Completed"
    BY <1>b, CompletedStays DEF TaskInv
  <1> USE ProcsFacts DEF chunkVars, scanVars, workerVars, flagVars, storeVars, Goto
  <1>1. events' # <<>> \/ pc'["loop"] = "verify" =>
          AllCompleted \/ (SendEvent /\ finished)
    <2>1. CASE Tick \/ UNCHANGED vars
      BY <1>c, <2>1 DEF Tick, vars
    <2>2. CASE CallerStep
      <3>1. events' = events /\ pc'["loop"] \in {pc["loop"], "select"}
        BY <1>a, <2>2 DEF CallerStep, SetupFails, StartGoroutines, SelectResult, Stop, Cancel
      <3>2. QED
        BY <1>c, <3>1
    <2>3. CASE CheckerStep
      <3>1. pc'["loop"] = pc["loop"] /\ (events' = events \/ SendEvent)
        BY <1>a, <2>3 DEF CheckerStep, StartScan, ScanChunk, EndScan, SendEvent, CheckerCtxDone
      <3>2. SendEvent => finished
        BY DEF SendEvent
      <3>3. QED
        BY <1>c, <3>1, <3>2
    <2>4. ASSUME NEW p \in {"loop", "initial"}, PassStep(p)
          PROVE  events' = events /\ pc'["loop"] \in {pc["loop"], "select", "exited", "passCheck", "passSubmit", "panicked"}
      <3>1. events' = events
        BY <2>4 DEF PassStep, PassCheck, PassSubmit
      <3>2. \/ pc' = [q \in Procs |-> "panicked"]
            \/ \E l \in {"select", "exited", "passCheck", "passSubmit"} : pc' = [pc EXCEPT ![p] = l]
        BY <2>4 DEF PassStep, PassCheck, PassSubmit, AfterPass
      <3>3. QED
        BY <1>a, <3>1, <3>2
    <2>5. CASE LoopStep
      <3>1. \/ events # <<>>
            \/ events' = events /\ pc'["loop"] \in {pc["loop"], "compose", "exited"}
            \/ PassStep("loop")
        BY <1>a, <2>5 DEF LoopStep, ReceiveExpired, ReceiveFinished, VerifyChunk, CallCompose,
                          ComposeReturns, LoopCtxDone
      <3>2. QED
        BY <1>c, <2>4, <3>1
    <2>6. ASSUME NEW w \in Workers, WorkerStep(w)
          PROVE  events' = events /\ pc'["loop"] = pc["loop"]
      BY <1>a, <2>6 DEF WorkerStep, BeginTask, ReadFails, ReadSucceeds, UploadFails,
                        UploadSucceeds, CloseReader, Settle, WorkerExits, Leave
    <2>7. QED
      BY <1>c, <2>1, <2>2, <2>3, <2>4, <2>5, <2>6 DEF Next, Terminated
  <1>2. SendEvent /\ finished => AllCompleted
    BY <1>c DEF SendEvent, ScanInv
  <1>3. events' # <<>> \/ pc'["loop"] = "verify" => AllCompleted'
    BY <1>1, <1>2, <1>d
  <1>4. pc'["checker"] \in {"scan", "send"} /\ finished' => Seen'
    <2> SUFFICES ASSUME pc'["checker"] \in {"scan", "send"}, finished',
                        NEW c \in Chunks, c \notin todo'["checker"]
                 PROVE  acked[c] = "Completed"
      BY <1>d
    <2>1. CASE ~CheckerStep
      <3>1. /\ UNCHANGED finished /\ todo'["checker"] = todo["checker"]
            /\ pc'["checker"] = pc["checker"]
        BY <2>1, CheckerFrame
      <3>2. QED
        BY <1>c, <3>1
    <2>2. CASE CheckerStep
      <3>1. CASE StartScan
        BY <1>a, <3>1 DEF StartScan
      <3>2. ASSUME NEW d \in Chunks, ScanChunk(d) PROVE acked[c] = "Completed"
        BY <1>a, <1>c, <3>2 DEF ScanChunk
      <3>3. CASE EndScan
        BY <1>a, <1>c, <3>3 DEF EndScan
      <3>4. CASE SendEvent \/ CheckerCtxDone
        BY <1>a, <3>4 DEF SendEvent, CheckerCtxDone
      <3>5. QED
        BY <2>2, <3>1, <3>2, <3>3, <3>4 DEF CheckerStep
    <2>3. QED
      BY <2>1, <2>2
  <1>5. QED
    BY <1>3, <1>4

LEMMA StepCallerInv ==
  TypeInv /\ AcknowledgedInv /\ TaskInv /\ FinishedInv /\ CallerInv /\ [Next]_vars => CallerInv'
  <1> SUFFICES ASSUME TypeInv, AcknowledgedInv, TaskInv, FinishedInv, CallerInv, [Next]_vars
               PROVE  CallerInv'
    OBVIOUS
  <1>a. /\ pc \in [Procs -> Labels] /\ done \in BOOLEAN /\ cancelled \in BOOLEAN
        /\ resent \in BOOLEAN
    BY DEF TypeInv, TypeOK
  <1>b. (resent => resent') /\ (CtxDone => CtxDone')
    BY Monotone
  <1> USE ProcsFacts DEF chunkVars, scanVars, workerVars, flagVars, storeVars, Goto
  \* The result, the context and done are left alone, and so are those that set them.
  <1>1. ASSUME UNCHANGED <<result, cancelled, done>>,
               pc'["caller"] \in {pc["caller"], "panicked"},
               done => pc'["loop"] \in {pc["loop"], "panicked"} /\ composed' = composed
        PROVE  CallerInv'
    <2>1. /\ pc'["caller"] \in {"setup", "waiting"} => result' = "none"
          /\ cancelled' => pc'["caller"] \in {"returned", "panicked"}
          /\ done' => pc'["loop"] \in {"exited", "panicked"}
      BY <1>1 DEF CallerInv
    <2>2. done' => composed' \in {"ok", "failed"} \/ resent' \/ CtxDone'
      BY <1>1, <1>b DEF CallerInv
    <2>3. QED
      BY <2>1, <2>2 DEF CallerInv
  <1>2. CASE Tick \/ UNCHANGED vars
    BY <1>1, <1>2 DEF Tick, vars
  <1>3. CASE CallerStep
    <2>1. /\ UNCHANGED <<composed, resent, done>>
          /\ \/ pc'["loop"] = pc["loop"]
             \/ StartGoroutines
      BY <1>a, <1>3 DEF CallerStep, SetupFails, StartGoroutines, SelectResult, Stop, Cancel
    <2>2. StartGoroutines => ~done
      BY DEF StartGoroutines, TaskInv, OffInv, CallerInv
    <2>3. /\ done' => pc'["loop"] \in {"exited", "panicked"}
          /\ done' => composed' \in {"ok", "failed"} \/ resent' \/ CtxDone'
      BY <1>b, <2>1, <2>2 DEF CallerInv
    <2>4. /\ pc'["caller"] \in {"setup", "waiting"} => result' = "none"
          /\ cancelled' => pc'["caller"] \in {"returned", "panicked"}
      BY <1>a, <1>3 DEF CallerStep, SetupFails, StartGoroutines, SelectResult, Stop, Cancel, CallerInv
    <2>5. QED
      BY <2>3, <2>4 DEF CallerInv
  <1>4. CASE CheckerStep
    <2>1. /\ UNCHANGED <<result, cancelled, done, composed>>
          /\ pc'["caller"] = pc["caller"] /\ pc'["loop"] = pc["loop"]
      BY <1>a, <1>4 DEF CheckerStep, StartScan, ScanChunk, EndScan, SendEvent, CheckerCtxDone
    <2>2. QED
      BY <1>1, <2>1
  <1>5. ASSUME NEW p \in {"loop", "initial"}, PassStep(p) PROVE CallerInv'
    <2>1. UNCHANGED <<result, cancelled, done, composed>> /\ pc[p] \in {"passCheck", "passSubmit"}
      BY <1>5 DEF PassStep, PassCheck, PassSubmit
    <2>2. pc' = [q \in Procs |-> "panicked"] \/ \E l : pc' = [pc EXCEPT ![p] = l]
      BY <1>5 DEF PassStep, PassCheck, PassSubmit
    <2>3. p = "loop" => ~done
      BY <2>1 DEF CallerInv
    <2>4. QED
      BY <1>1, <1>a, <2>1, <2>2, <2>3
  <1>6. CASE LoopStep
    <2>1. CASE PassStep("loop")
      BY <1>5, <2>1
    <2>2. CASE ReceiveExpired \/ ReceiveFinished \/ CallCompose
      <3>1. /\ UNCHANGED <<result, cancelled, done>> /\ pc'["caller"] = pc["caller"]
            /\ pc["loop"] \in {"select", "verify"}
        BY <1>a, <2>2 DEF ReceiveExpired, ReceiveFinished, CallCompose
      <3>2. ~done
        BY <3>1 DEF CallerInv
      <3>3. QED
        BY <1>1, <3>1, <3>2
    <2>3. ASSUME NEW c \in Chunks, VerifyChunk(c) PROVE CallerInv'
      <3>1. CASE acked[c] = "Completed"
        BY <1>1, <2>3, <3>1 DEF VerifyChunk
      <3>2. CASE acked[c] # "Completed"
        <4>1. resent
          BY <2>3, <3>2 DEF VerifyChunk, FinishedInv
        <4>2. /\ UNCHANGED <<result, cancelled>> /\ pc'["caller"] = pc["caller"]
              /\ pc'["loop"] = "exited"
          BY <1>a, <2>3, <3>2 DEF VerifyChunk
        <4>3. QED
          BY <1>b, <4>1, <4>2 DEF CallerInv
      <3>3. QED
        BY <3>1, <3>2
    <2>4. CASE ComposeReturns
      <3>1. /\ UNCHANGED <<result, cancelled>> /\ pc'["caller"] = pc["caller"]
            /\ pc'["loop"] = "exited" /\ composed' \in {"ok", "failed"}
        BY <1>a, <2>4 DEF ComposeReturns
      <3>2. QED
        BY <3>1 DEF CallerInv
    <2>5. CASE LoopCtxDone
      <3>1. /\ UNCHANGED <<result, cancelled>> /\ pc'["caller"] = pc["caller"]
            /\ pc'["loop"] = "exited" /\ CtxDone
        BY <1>a, <2>5 DEF LoopCtxDone
      <3>2. QED
        BY <1>b, <3>1 DEF CallerInv
    <2>6. QED
      BY <1>6, <2>1, <2>2, <2>3, <2>4, <2>5 DEF LoopStep
  <1>7. ASSUME NEW w \in Workers, WorkerStep(w) PROVE CallerInv'
    <2>1. /\ UNCHANGED <<result, cancelled, done, composed>>
          /\ pc'["caller"] = pc["caller"] /\ pc'["loop"] = pc["loop"]
      BY <1>a, <1>7 DEF WorkerStep, BeginTask, ReadFails, ReadSucceeds, UploadFails,
                        UploadSucceeds, CloseReader, Settle, WorkerExits, Leave
    <2>2. QED
      BY <1>1, <2>1
  <1>8. QED
    BY <1>2, <1>3, <1>4, <1>5, <1>6, <1>7 DEF Next, Terminated

-----------------------------------------------------------------------------
(* Refinement.  Every step is one of the abstract upload's, or leaves what  *)
(* that specification talks about alone.                                   *)

IInv == TypeInv /\ AcknowledgedInv /\ TaskInv /\ ScanInv /\ FinishedInv /\ CallerInv

LEMMA InitIInv == Init => IInv
  BY InitTypeInv, InitAcknowledgedInv, InitTaskInv, InitUploadInv DEF IInv, UploadInv

LEMMA StepIInv == IInv /\ [Next]_vars => IInv'
  BY StepTypeInv, StepAcknowledgedInv, StepOffInv, StepSingleInv, StepScanInv, StepFinishedInv,
     StepCallerInv DEF IInv, TaskInv

LEMMA InitJob == Init => Job!Init
  BY TimeAssumption DEF Init, Job!Init

LEMMA StepJob == IInv /\ [Next]_vars => [Job!Next]_Job!vars
  <1> DEFINE disturbed == resent \/ now = UploadTimeout
  <1> SUFFICES ASSUME IInv, [Next]_vars
               PROVE  Job!Next \/ UNCHANGED <<acknowledged, composed, result, disturbed>>
    BY DEF Job!vars
  <1>a. TypeInv /\ AcknowledgedInv /\ CallerInv
    BY DEF IInv
  <1> USE ProcsFacts DEF chunkVars, scanVars, workerVars, flagVars, storeVars, Goto
  <1>1. ASSUME UNCHANGED <<acknowledged, composed, result>>, disturbed => disturbed'
        PROVE  Job!Disturb \/ UNCHANGED <<acknowledged, composed, result, disturbed>>
    BY <1>1, Zenon DEF Job!Disturb
  <1>2. CASE Tick \/ UNCHANGED vars
    <2>1. UNCHANGED <<acknowledged, composed, result>>
      BY <1>2 DEF Tick, vars
    <2>2. disturbed => disturbed'
      BY <1>2, TimeAssumption DEF Tick, vars
    <2>3. QED
      BY <1>1, <2>1, <2>2 DEF Job!Next
  <1>3. CASE CallerStep
    <2>1. UNCHANGED <<acknowledged, composed, resent, now>>
      BY <1>3 DEF CallerStep, SetupFails, StartGoroutines, SelectResult, Stop, Cancel
    <2>2. CASE StartGoroutines \/ Stop \/ Cancel
      BY <2>1, <2>2 DEF StartGoroutines, Stop, Cancel
    <2>3. CASE SetupFails
      BY <1>a, <2>1, <2>3 DEF SetupFails, CallerInv, Job!Next, Job!Return
    <2>4. CASE SelectResult
      <3>1. pc["caller"] = "waiting" /\ result = "none" /\ ~cancelled
        BY <1>a, <2>4 DEF SelectResult, CallerInv
      <3>2. done => composed \in {"ok", "failed"} \/ disturbed
        BY <1>a, <3>1 DEF CallerInv, CtxDone
      <3>3. result' = "err" \/ (result' = "nil" /\ done)
        BY <2>4 DEF SelectResult
      <3>4. Job!Return
        BY <2>1, <3>1, <3>2, <3>3 DEF Job!Return
      <3>5. QED
        BY <3>4 DEF Job!Next
    <2>5. QED
      BY <1>3, <2>2, <2>3, <2>4 DEF CallerStep
  <1>4. CASE CheckerStep
    <2>1. UNCHANGED <<acknowledged, composed, result, now>>
      BY <1>4 DEF CheckerStep, StartScan, ScanChunk, EndScan, SendEvent, CheckerCtxDone
    <2>2. disturbed => disturbed'
      BY <2>1, Monotone, <1>a
    <2>3. QED
      BY <1>1, <2>1, <2>2 DEF Job!Next
  <1>5. ASSUME NEW p \in {"loop", "initial"}, PassStep(p)
        PROVE  UNCHANGED <<acknowledged, composed, result, disturbed>>
    BY <1>5 DEF PassStep, PassCheck, PassSubmit
  <1>6. CASE LoopStep
    <2>1. CASE CallCompose
      <3>1. composed = "no" /\ acknowledged = Chunks
        <4>1. pc["loop"] = "verify" /\ todo["loop"] = {}
          BY <2>1 DEF CallCompose
        <4>2. acknowledged \in SUBSET Chunks
          BY <1>a DEF TypeInv, TypeOK
        <4>3. QED
          BY <1>a, <4>1, <4>2 DEF AcknowledgedInv, BeforeCompose
      <3>2. Job!StartCompose
        BY <2>1, <3>1 DEF CallCompose, Job!StartCompose
      <3>3. QED
        BY <3>2 DEF Job!Next
    <2>2. CASE ComposeReturns
      <3>1. Job!EndCompose
        BY <1>a, <2>2 DEF ComposeReturns, Job!EndCompose, AcknowledgedInv
      <3>2. QED
        BY <3>1 DEF Job!Next
    <2>3. CASE ~CallCompose /\ ~ComposeReturns
      BY <1>5, <1>6, <2>3 DEF LoopStep, ReceiveExpired, ReceiveFinished, VerifyChunk, LoopCtxDone
    <2>4. QED
      BY <2>1, <2>2, <2>3
  <1>7. ASSUME NEW w \in Workers, WorkerStep(w)
        PROVE  Job!Next \/ UNCHANGED <<acknowledged, composed, result, disturbed>>
    <2>1. UNCHANGED <<composed, result, resent, now>>
      BY <1>7 DEF WorkerStep, BeginTask, ReadFails, ReadSucceeds, UploadFails,
                  UploadSucceeds, CloseReader, Settle, WorkerExits
    <2>2. \/ acknowledged' = acknowledged
          \/ serving[w] \in Chunks /\ acknowledged' = acknowledged \cup {serving[w]}
      BY <1>a, <1>7 DEF WorkerStep, BeginTask, ReadFails, ReadSucceeds, UploadFails,
                        UploadSucceeds, CloseReader, Settle, WorkerExits, TypeInv, BusyServes
    <2>3. QED
      BY <2>1, <2>2 DEF Job!Next, Job!AcknowledgePart
  <1>8. QED
    BY <1>2, <1>3, <1>4, <1>5, <1>6, <1>7 DEF Next, Terminated

\* The upload implements its abstract promise: the target is composed once, from
\* a full set of parts, and the call returns once, with nil only after the
\* composition unless a part was re-sent or the deadline passed.
THEOREM RefinesJob == Spec => ImplementsJob
  <1>1. Spec => []IInv
    BY InitIInv, StepIInv, PTL DEF Spec
  <1>2. QED
    BY <1>1, InitJob, StepJob, PTL DEF Spec, ImplementsJob, Job!Spec

\* What UploadJob promises, it promises without goroutines: the proof is about its
\* five actions, and the engine inherits the invariant because it implements them.
Promise ==
  LET disturbed == resent \/ now = UploadTimeout
  IN  /\ composed # "no" => acknowledged = Chunks
      /\ result = "nil" => composed \in {"ok", "failed"} \/ disturbed

LEMMA JobPromises == ImplementsJob => []Promise
  <1> DEFINE disturbed == resent \/ now = UploadTimeout
  <1>1. Job!Init => Promise
    BY DEF Job!Init, Promise
  <1>2. ASSUME Promise, [Job!Next]_Job!vars PROVE Promise'
    <2>1. /\ composed # "no" => acknowledged = Chunks
          /\ result = "nil" => composed \in {"ok", "failed"} \/ disturbed
      BY <1>2 DEF Promise
    <2> HIDE DEF disturbed
    <2>2. CASE \E c \in Chunks : Job!AcknowledgePart(c)
      BY <2>1, <2>2 DEF Job!AcknowledgePart, Promise, disturbed
    <2>3. CASE Job!StartCompose
      BY <2>1, <2>3 DEF Job!StartCompose, Promise, disturbed
    <2>4. CASE Job!EndCompose
      BY <2>1, <2>4 DEF Job!EndCompose, Promise, disturbed
    <2>5. CASE Job!Return
      BY <2>1, <2>5 DEF Job!Return, Promise, disturbed
    <2>6. CASE Job!Disturb
      BY <2>1, <2>6 DEF Job!Disturb, Promise, disturbed
    <2>7. CASE UNCHANGED <<acknowledged, composed, result, disturbed>>
      BY <2>1, <2>7 DEF Promise, disturbed
    <2>8. QED
      BY <1>2, <2>2, <2>3, <2>4, <2>5, <2>6, <2>7 DEF Job!Next, Job!vars, disturbed
  <1>3. QED
    BY <1>1, <1>2, PTL DEF ImplementsJob, Job!Spec

\* An answer of nil is worth something: every part has reached the destination then,
\* unless one was re-sent or the deadline passed.  UploadFunc takes the closing of done
\* for the answer, and the event loop closes it wherever it ends, failures included.
NilMeansAcknowledged == result = "nil" => acknowledged = Chunks \/ resent \/ now = UploadTimeout

THEOREM NilIsEarned == Spec => []NilMeansAcknowledged
  <1>1. Promise => NilMeansAcknowledged
    BY DEF Promise, NilMeansAcknowledged
  <1>2. QED
    BY <1>1, RefinesJob, JobPromises, PTL
=============================================================================
