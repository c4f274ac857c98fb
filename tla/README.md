# SkyFlow in TLA+

A specification of SkyFlow's own logic, model-checked with TLC and, where it is worth it, proved with
TLAPS. SkyFlow moves bulk data across clouds: an edge client cuts a file into chunks and sends them in
parallel, proxies forward them hop by hop, and a control plane per node computes routes, scales VMs up and
drives Envoy. The repository is about 14 000 lines of Go and 570 of Rust, without tests; comments and log
texts are the only statements of intent it has, and those are what the three violation runs quote.

## 1. Inventory

Paths are relative to `src/`. "Hard" names what makes a component hard to test.

| Component | State | Operations | Hard | Correct when |
|---|---|---|---|---|
| **Upload engine** `client-plugin/upload/{upload,client,proxy}.go` | chunk table (status, last send), task channel (100), events channel (100), done channel, two contexts | `UploadFunc`, `StartChunkTimeoutChecker`, `ChunkEventLoop`, `StartChunkSubmitLoop`, `runWorker`, `DirectImp`/`RedirectImp` | 14 goroutines, table without locks, retransmission, 5 min deadline, shutdown order | composes only a complete set of parts, at most once; returns; leaves nothing running |
| **Scaling lock** `control-plane/scaling/scaling.go` (`TryMutex`) | flag, mutex | `TryLock`, `Unlock` | flag given up before the mutex | one holder; `TryLock` does not wait |
| **Elastic scaler** `control-plane/scaling/{auto-fsm,manual-fsm,scaling,deploy-proxy}.go` | node state, retention time, scaled VMs, event history | `AutoScaling` (ticker, 30 s), `ManualScaling` (HTTP) | chains of remote calls that fail half-way, client timeout shorter than the work, restarts | bounded spending, a triggered node has a deployed VM, Envoy routes to deployed VMs only |
| **Cloud adaptors** `control-plane/scaling/{aws,gcp,vultr}` | none | `CreateVM`, `GetVMPublicIP`, `DeleteVM` | an error after the instance exists | - |
| **Envoy operator** `control-plane/pkg/envoy-manager`, `pkg/api/envoy-port.go` | `GlobalCfg` (ports, targets), config file, epoch file, Envoy processes | create/disable port, update targets, first start, hot reload | config changed before a reload that can fail; epochs; late requests | file, memory and running Envoy agree |
| **Routing graph** `control-plane/routing/update-graph.go`, `main.go` | nodes, edges with weights | `AddNode`, `RemoveNode`, watch handler | events from etcd, shared edge pointers | nodes that left are not routed through |
| **Route computation** `control-plane/routing/{routing,shortest-algorithm,flow-control}.go` | none of its own | `Routing`, `Dijkstra`, `ComputeAdmissionRate` | weights change during the search | a cheapest path |
| **State synchronisation** `control-plane/sync` | etcd keys with leases | put with lease, list, watch | gap between list and watch, expiry | graphs converge |
| **VM reports** `control-plane/storage`, `pkg/api/vm-receive.go` | one file per report, virtual queue (20) | `Put`, `Get`, `GetAll`, cleanup, `CalcClusterWeightedAvg` | same millisecond, zero weights, expiry during aggregation | the scaler sees the newest averages |
| **Probe tasks** `control-plane/pkg/api/probing-task.go` | active VM map | `GetProbeTasks` | stale VMs | every active pair is probed |
| **Splitting** `client-plugin/upload/split`, `util` | none | `SplitFilebyRange`, `AutoSelectChunkSize`, `SortPartStrings` | rounding, range ends | chunks partition the range |
| **Client HTTP API** `client-plugin/api` | files on disk | large-file allocation, chunk upload and merge, upload handlers | partial failure, missing chunks, shares of length 0 | every byte once |
| **Object store adaptors** `client-plugin/upload/{s3,gcs,remote,local,...}` | none | upload, download, size, compose in batches | more parts than a call takes | all parts in order |
| **Data proxy** `data-proxy`, `data-proxy-rust` | client cache, transfer counter, health flag | forward, health switch, congestion | client cache races, counter on error paths | counter returns to 0 |
| **Data plane** `data-plane` | probe results, health flag | probe rounds, report cycle | slow rounds, stale results | reports are current |
| Configuration, prices, limits, scripts | - | tables, I/O, shell | - | - |

Interactions: the client API calls the upload engine; its workers talk to object stores or to the data
proxy's first hop. The data plane reports to the control plane's receive API, which stores reports;
aggregation puts averages under `/routing/` in etcd with a lease and into the virtual queue; the watch on
`/routing/` feeds the routing graph, and the queue feeds the scaler. The scaler calls the cloud provider,
ssh, the health switch on VMs and, over HTTP to its own process, the Envoy operator.

## 2. Plan

Modelled and checked, in the order of their weight:

1. **Upload engine**: `UploadJob` (abstract), `ChunkUpload`, `ChunkUploadProofs`.
2. **Elastic scaling**: `TryLock` (abstract), `TryMutex`, `TryMutexProofs`, `Scaler`, `ScalerProofs`.
3. **Routing**: `EdgeRisk` (arithmetic), `RoutingGraph` (etcd's keys and events into nodes and edges, requests for
   routes), `RoutingGraphProofs`, `Dijkstra` (one search, statement by statement), `DijkstraProofs`.
4. **Telemetry**: probing rounds, reports, files, averages, the queue; `TelemetryProofs`.
5. **Transfer**: `Split` (ranges to chunks, reading a chunk), `Compose` (parts to one object), `Transfer` (one file, and
   one file shared among VMs), composed as the code composes them; `TransferProofs`.
6. **Envoy operator**: `EnvoyOperator`, `EnvoyOperatorProofs`.

Every safety property of the runs that the prover can reach is a theorem (section 10).

## 3. The upload engine

`ChunkUpload` models one call of `UploadFunc` with every goroutine it starts. An action is what one
goroutine does between two points at which others can be observed: a channel operation, a read or write of
one chunk's status, a context check, a call that returns. The correspondence:

| Module | Code |
|---|---|
| `pc["caller"]` and `CallerStep` | `UploadFunc`: setup, `select` on done and ctx, deferred `Stop` then `cancel` |
| `CheckerStep` | `StartChunkTimeoutChecker` and, chunk by chunk, `CollectExpiredChunks` |
| `PassStep(p)` | `StartChunkSubmitLoop`, run by the first-pass goroutine and inside the event loop |
| `LoopStep` | `ChunkEventLoop` |
| `WorkerStep(w)` | `runWorker` with `DirectImp` or `RedirectImp` (constant `Redirect`) |
| `taskCh`, `events` | the buffered channels, with their capacities as constants |
| `acked`, `lastSend` | the pointers' fields in the shared `SafeMap` |
| `acknowledged`, `composed` | the parts for which `UploadFile` has returned nil, the one `ComposeFile` call |

Iterating over the table is choosing any chunk not yet visited (Go's map order is random). The clock counts
ticks of `CheckInterval`; after the deadline no code looks at it, so it stops there. A status and its send
time are written by two statements; the checker reads them in the order status, time, and each outcome of the
two races is also the outcome of an order of whole steps: a new time with an old status reads as not expired,
an old time with a new status reads as the state before. Chunk contents, file names and logging are left
out. `GetTransferReader` and `UploadFile` may fail or succeed at any time; what the destination
holds is not in this model: an upload that failed may have stored its part, and one that was acknowledged may not (below).

**Runs.** `upload_safety` takes two chunks, two workers, room for two tasks and two events, an expiry of one tick
and a deadline of three: enough for a chunk to expire, be re-sent while its first attempt is still running,
complete late and pass the deadline in every phase. Its properties: composition only when every part was acknowledged;
one task per chunk until something expires, although two passes submit from the same table (upload.go:178); the
first pass submits every chunk the channel has room for; the checker never waits in its send of an event, which stands
outside a `select` (`SendNeverBlocks`: the 90 ticks from the first expiry to the deadline bring at most one event each, and the channel
holds 100, `BufferAssumption`; the run has two of each); and the refinement to `UploadJob`. Chunks and
workers are symmetric. `upload_live` takes one slot, one worker and the redirecting handler, the case
in which the first pass is abandoned: `CallReturns` and `GoroutinesExit`, under the fairness below.

`UploadJob` is the promise without goroutines: parts are acknowledged, the target is composed once and when all
are, and the call returns once, nil only after composition (well or not) unless the upload was disturbed (re-sent
parts or the deadline), the cases in which the code keeps no such promise.

**Fairness.** Weak fairness for the caller, the checker, the event loop and the passes (the Go scheduler), for time, and for a worker
that is idle. Nothing obliges a call on the source to return: a remote file is read by dd over ssh, where only the dial has a timeout, and
closing its reader waits for dd although nobody empties the pipe any more (remote/download.go:262-273). So a worker may hang in
`reading`, `uploading` or `closing` for ever, and `CallReturns` shows that the call returns all the same, `GoroutinesExit` that every other
goroutine ends. `CallReturns` starts when the goroutines do: before that `UploadFunc` may wait without a bound for the size of a remote
file (upload.go:464, get-size.go:159). The event loop's `ComposeFile` does return: the context or a client's timeout ends it.

**What the code does not promise.** The model contains these cases, and `UploadJob` says no more than they allow:
* An acknowledged part need not be at the destination: the GCS client returns nil although `Close`, which stores the object, failed
  (gcs-client/upload-client.go:95-124), a short read of a remote file is acknowledged as a whole one, and a late attempt truncates the file
  of a chunk server (chunk-server.go:166). `Transfer` follows what is stored (section 8).
* `UploadFunc` returns nil also when `ComposeFile` failed (upload.go:333-336), when a chunk is not completed at the
  last look (line 316) and when the context was cancelled (line 347), while upload-handler.go:93 takes nil for a success
  (`transfer_object_answered`, section 8).
* `Stop` closes the task channel (line 277) before the context is cancelled, and the submit loop's check of the context
  (line 379) precedes a sleep of 100 ms: it can send on a closed channel, which panics and ends the process.
* A failed `UploadFile` leaves its chunk marked transferring (client.go:97-100), so it is only sent again when it has
  expired after two minutes; the comment at line 43 says "update status to failed".

## 4. Elastic scaling

`TryMutex` is the lock statement by statement; it implements `TryLock`, whose steps are atomic. The owner is
taken where the flag is claimed and given back where it is cleared. `trymutex` checks ten goroutines.
Fairness: a goroutine that has begun to lock or unlock goes on.

`Scaler` uses the lock as that specification (a call holds it from start to end) and models both callers
and every remote step: `Begin`, `CreateVM`, `GetVMPublicIP`, `Deploy`, `DeleteVM`, `SetHealthState`,
`SendTargetIps`, `AwaitTimesOut`, `AutoFinish`, `ManualFinish`, and on the other side `UpdateGlobalTargetAddrs`.
`Plan` is the decision of `AutoScaling`'s switches; the load formulas only matter through the sign of delta,
which is the choice `hot`. Times are the defaults of `NewDefaultScaleConfig` (no caller passes another
configuration) in units of 200 s: base 3, amplifier 2, decay 3, permanent threshold 12, duration 36. The
weights `exp(-age/decay)` lie between 1/e and 1, so `CalculateRetention` takes any amplification between
these bounds. The environment's faults and the shipped `binary_proxy` are constants.

**Run.** `scaler_safety`: the ticker, two manual requests, four possible instances, clock up to 6 (a first retention
lasts 5, so its end is passed), one restart, all faults.

`OneShot` is the surprising one: with the built-in configuration one process scales up by itself at most once,
and `Dormant`, `Releasing` and `Permanent` are unreachable: a triggered node whose retention is over falls
through to the default of the second switch (auto-fsm.go:187) and keeps its VM for ever. `SpendBounded` is its benign side: instances,
leaked ones included, are bounded by manual scale-ups and process starts. `TargetsDeployed` and
`TriggeredIsRecorded` hold whatever is late, failed or forgotten; both speak of VMs to which a deployment was *reported* a success. Whether
data-proxy runs there is another variable, `running`: the start command goes to the background and counts as done after 3 s
(deploy-proxy.go:201-238), so a deployed VM need never be among those, and no property says otherwise. A VM that was released stays in `deployed`.

**Violation found.** `scaler_scaleup_ends`: an attachment that works always times out (1 s against a sleep
of 2 s), so a node stays in ScalingUp for ever; the comment at auto-fsm.go:203 expects otherwise.

**Read off the code.** The HTTP status of `setTargetIps` is not looked at (auto-fsm.go:393), so a reload that failed
at once makes a node Triggered whose VM Envoy does not route to; `SendTargetIps` has that outcome.
`startBinaryInBackground` runs two commands in one ssh session, which takes one: with the shipped
`binary_proxy` the binary is never started (deploy-proxy.go:194; the constant `OptimizeFirst` selects that case, and is
FALSE in the runs, where deployments can succeed). `createVM` asserts the provider's result to be Vultr's (auto-fsm.go:412), so
with AWS, which returns a string (aws.go:131), the ticker goroutine panics at its first scale-up and takes
the control plane down. There is nothing after it to model; the providers of `Scaler` are Vultr and GCP.

**Fairness.** The ticker ticks, time passes, and the steps of a call that have a timeout end (`BoundedStep`: those to the cloud and to
Envoy). `Deploy` (ssh, sftp) and `SetHealthState` (`http.Get` of the default client, auto-fsm.go:346) have none, and may hang under the lock
for ever (`UnboundedStep`), so nothing is claimed of how long the lock is held. The run that needs fairness is `scaler_scaleup_ends`.

## 5. The route search

`Dijkstra` is one call of `GraphManager.Dijkstra`. It copies the list of edge pointers under the graph's read lock
and then reads `EdgeWeight` through the pointers without it, while the etcd watcher's `AddNode` stores
new weights into the same edges. The search is one process: `GetEdges`, the early returns (`Unknown`), `Begin`,
one pop (`PopStale`, `PopNode`, `PopEnd`), one edge of a scan (`Relax`, where the weight is read), `Scanned`,
`Exhausted`, and the loop that collects the path (`Prepend`, `Return`). `StoreWeight` is one store by
`AddNode`, possible between any two of these. The queue is a set of entries of which any cheapest one is popped:
`container/heap` leaves the order of ties open. A weight is a natural number: `EdgeRisk` returns 0..1, the
search multiplies by a constant, and only sums and comparisons matter. Two things are idealised: a read that
races with a store returns the old or the new weight (a 64-bit word), and sums are exact, not rounded.
`lo` and `hi` are history: the least and greatest weight of each edge since `GetEdges`.

**Run.** `dijkstra` takes the in half of a client's VM, two more vertices with a way back and forth between
them, and a storage server: every subset of six edges and every assignment of the weights 0, 1 and 3, so ties,
cycles of weight 0, unreachable servers and detours that pay all occur, with one store at any point. It shows
that the predecessors never form a cycle (the loop at line 99 would not end); that the answer is a
real path whose cost is its length in weights the edges had; that no node is scanned twice, though the search keeps no list of visited
nodes and a store can lower a weight it has already read (`ScannedOnce`); and that the search ends. `AgreesWithReference` compares the answer with
a definition of its own, the enumeration of all sequences of distinct nodes: the path is one of the routes, no longer in the least weights
than the cost says; no route is cheaper than that cost in the greatest weights; and a route is denied only when there is none. Without a
store `lo = hi`, and the search is exact.

**Fairness.** The searching goroutine keeps running; nothing obliges `AddNode` to store or to stop.

## 6. The routing graph

`RoutingGraph` is one control plane, `Self`, and the keys of all of them in etcd. `Publish`, `Expire`, `Leave` and
`Join` are what happens under `/routing/`; `List`, `Load`, `BeginWatch` and `HandleEvent` are `main` (lines 235-258)
in its order, with any number of writes between the listing and the watch, and `Init` is a (re)start beside
whatever etcd holds. `AddNode` is translated edge by edge: the virtual edge of the node, the edges to stores it has
a measurement of, and both directions to every other node, weighed by `EdgeRisk` over integers instead of floats.
`Ask`, `SearchFrom`, `Answer` and `EndRequest` are a routing request; each `SearchFrom` is one call of Dijkstra,
whose own races with `AddNode` are the subject of section 5: here it returns any shortest path of the graph at that moment
(what `DijkstraProofs!ExactSearch` proves of a search no store meets),
and the graph may change between two searches of one request.

**Run.** `graph` takes two nodes of two providers and a store, two measurements (all well; congested, lossy and blind to the store),
keys present or absent at the start, two pending events, requests from a node's own address. This covers every order of
listing, watching, expiry and return of a pair, and a pair is all that an edge depends on. `PeerEdgesFresh`:
both directions between two nodes carry the loss the one added last measured, so no older report shows through.
`WatchKeepsUp`: once a key was written under the watch, the last event pending or else the graph holds what etcd holds.
`RouteHasRate`: no route is granted rate 0, with which the client's limiter would let nothing through. `NodeAppears`: a node
that stays alive is known in the end, also if its first report fell between the listing and the watch.

**Fairness.** Self's goroutines run; a node that runs publishes every 30 s, and some of its puts succeed (strong fairness).

**Read off the code.** Nothing ever leaves the graph: a DELETE event has an empty value (main.go:111), and `RemoveNode` compares
edge ends, which carry a suffix, with a bare address (update-graph.go:84). `RemoveNode` in the model does just that, and no property
says that a node that left is not routed through. `EdgeRisk` is not monotone: loss
and cache raise the core risk, but a higher core risk lowers the weight of the cost. Up to a price of 0.6 of the greatest the risk grows with both
(`RiskGrows`); at the greatest price a link that loses packets is cheaper than one that loses none (`LossLowersRisk`).
The cache risk divides bytes by a small constant, so a node with any active connection has a virtual edge of risk 1.
The `break` at routing.go:51 keeps the nodes met before the client's own (`StartSets`). A link that is no longer measured keeps its edge.
A cluster that reports nothing publishes zeros, which look healthy.

## 7. Telemetry

`Telemetry` has the data planes of some VMs and one control plane. On a VM the prober (`BeginRound`, `Probe` for each
target in any order, `EndRound`) and the reporter (`Collect`, then `Lose` or `Receive`) run on timers of their own. The
control plane averages every 30 s (`Average`, a tick), removes files every minute (`Cleanup`), and both timers of a tick fire in any order.
What fails there is only logged: `Average` may read any part of the files (`unread`) or give nothing at all (vm-agg-diff.go:83-86, 170-173),
`Cleanup` may leave any of the expired ones (`kept`). A result is queued (`Enqueue`) when the `Put` to etcd has returned, whose `Grant` has no
deadline, so that ticks pass meanwhile; the ticker's channel keeps one of them.
A file is named by VM and millisecond, so of two reports in one millisecond the later one remains, and VMs without a public
address share a name. `Decode` is the decoding by field names; figures are left out.

**Run.** `telemetry`: one VM under its own or the common name, a store and another node as targets (which of the other nodes etcd
knows is a choice of each round), two rounds and two reports; four ticks of one millisecond each (`Millis`: two reports have one
file name or two) with a retention of one, a cleanup in every one of them and a queue of two, so that targets come and go between
rounds, files expire or are kept, and the queue drops. `NoHalfRound`: a report holds results of whole rounds, and of each target
the newest. `WindowCounted`: an average counts every report within the retention that can be read, and none older than the
retention and one cleanup period but what the last cleanup failed to remove, whatever the timers' order; `SnapshotNewestFirst`:
what the scaler gets are the newest of the results that were queued (`averaged`), newest first. Ticks without a result leave gaps
in time, which the scaler does not see: it weighs results by their place in the queue. All of these are safety: no fairness is
assumed. A cleanup less often than the averaging (the code's is every second tick) is covered by the proofs, which hold for any
period.

`telemetry_probe_results` finds the disagreement that main.go:298 has with the code: probe results never arrive, because
the sender's fields are `queue` and `link` (data-plane/telemetry/model/model.go:33,35) and the receiver's `congestion` and
`links_congestion` (receive-info.go:34,36). So with this data plane no link reaches the routing graph; `RoutingGraph`
takes reports as the control plane's own interface allows them.

**Read off the code.** `VMCount` counts files, not VMs (vm-agg-diff.go:33, 159). `latestResults` never forgets a target that is no longer
to be probed. The prober's `http.Get` has no timeout: a control plane that does not answer stops probing. Files
survive a restart of the control plane, the queue does not.

## 8. A file's bytes

`Split`, `Compose` and `Transfer` follow the bytes: a file of n bytes is the numbers 0..n-1, an object the sequence it holds.
`Split` is the arithmetic: chunk sizes, the chunks of a range, and what each of the four sources returns for an offset
and a length (for a remote disk, dd in whole blocks), whole (`DownloadFile`) or broken off unnoticed (`Reads`). `Compose` is `ComposeFile`: for S3 and GCS a tree of temporary
objects, then a copy and deletions; for a disk a POST to the chunk server, which merges and deletes
chunk by chunk and goes on when its client has given up. Each request can fail, or take effect and not be answered. `Transfer` is
`/upload` and `/large-upload`: chunks uploaded with what each adaptor can leave behind (`S3Client`, ... `DiskProxy`), old
attempts that arrive late (`LateAttempt`), and, for a large file, a share for each VM with every outcome of its transfer. The goroutines
of one upload are in `ChunkUpload`, so an attempt is one step here.

**Run.** `transfer` gives `Split` chunks of 2 or 4 bytes (the sizes are a set, each divides the larger ones) and `Compose` a fanout of 2, so that nine bytes make a tree of three
levels with groups that are not full, and takes twenty-three requests: each destination, by the client and by proxies, each source, whole files,
ranges, refused ranges, equal, rounded, zero and missing weights, and one address twice.
Among them are X-File-Size headers that are true, too small and too large, and a remote source.
`WholeObject`: what was delivered is exactly the requested bytes; `NothingLost`: a part leaves only when its bytes are in the final
object; `NoLitter`: beside what was delivered there is nothing else; `TransferAnswered`: every request is answered, unless it waits for the size of
a remote file. `CHECK_DEADLOCK FALSE`: a transfer ends.

*Delivered* means that nobody reported an error of making the object: `ComposeFile` returned nil, or the only VM of a large file
answered with success. The answer to the user says less, because `UploadFunc` returns nil in two more cases: after a failed composition
(`EndSingle`), and when the context ended before one (`SingleTimeout`). That is a run of its own:

**Violation found.** `transfer_object_answered`: an upload is answered with 200 and an `objectName`, the "Stored object name"
(upload-handler.go:100), and there is no such object.

**Fairness.** Timeouts come (`Timeout`, `ContextDone`), and the client goes on where it has something to do. The chunk server is not assumed
fair: the client's timeout answers. Nor is the command over ssh that asks for the size of a remote file (`AsksOverSsh`): the timeout of its configuration
is that of the dial. With the size in the header, or another source, nothing of the kind is asked.

**Exceptions.** `Reliable` names, conjunct by conjunct, where a delivered object may not be what was asked for. Each is what the code does:
* a size in the X-File-Size header that is not the file's is believed (upload.go:459): the chunks miss its end or lie beyond it;
* a range of a remote disk: dd skips whole blocks, so an offset that is not a multiple of the block size returns other
  bytes (remote/download.go:110);
* a share of length 0 or less: the VM takes it for "all to the end" (split.go:32, large-file.go:186-190);
* the chunk server's answer is a success whatever its status (remote/compose.go:98-102);
* with one VM nothing is composed into the file's own name, so the share's object is all there is, and its own composition may have failed unnoticed;
* something was left in part though acknowledged (`torn`): the GCS writer's `Close` stores the object, its error is only
  logged, and it is called after a failed copy too (gcs-client/upload-client.go); a failing dd or a lost connection looks like the end of a
  remote file (`Reads`, remote/download.go:253-273); or a late attempt truncates a chunk during the merge. `NothingLost` leaves
  such a part out as well: a chunk that arrives again during the merge can be lost.

**Read off the code.** A large file is composed under `FileName`, the name of the source (large-file.go:102), where a single one gets
`NewFileName`, the "Destination file name" (base.go:41). The model has one `Target`, as an object store has one object for either name, and
`named` records which of the two it is; the properties speak of that object. Proxies cannot upload to a remote disk: the adaptor sends a stream (remote/upload.go:140) where the
chunk server expects a form (chunk-server.go:47). The context of a large upload is made before the transfers and lasts
10 s (large-file.go:65), so composition fails whenever the transfers take longer (`ContextDone`). Two VMs with one address
leave a share without an upload (`Tasks`). A failed deletion in `finalizeObject` of gcs is reported as an error though the object is whole.
A merge that fails has already deleted the chunks it copied. `noSplit` is never TRUE from a handler.

## 9. The Envoy operator

`EnvoyOperator` has the configuration in memory, the rendered file, the epoch file and the running Envoys. The operator's
mutex is held through a request, so one is in progress (`pc`): the three requests change the configuration and
render (`ChangeTo`), then `ChooseStart` and `StartFirstEnvoy`, or `CheckRunning` and
`HotReloadEnvoyConfig`, and `Settle` for the sleep, the check of the process and the epoch file. `Boot` is `main`, `Crash` the end of the control plane at any
point. Envoy's side of a hot restart (`Survives`, `TakesOver`, `ParentExits`, `EnvoyDies`) is external: epoch e needs the Envoy of
epoch e - 1, and a third one ends the first.

**Run.** `envoy`: two ports, two addresses, four requests, two starts of the control plane, one Envoy that dies. Four requests
let a configuration that failed be carried along by a later one, and epochs run past those of an Envoy inherited from before a restart.
`CatchesUp`: after a success the newest Envoy runs the whole configuration in memory, changes of failed requests included. Its
exceptions are the code's. Where the epochs start over beside an Envoy of epoch k, the reloads up to epoch k answer success and change nothing,
because the new process exits at once: after a restart of the control plane, and whenever the epoch file cannot be read or holds no number, which
counts as 0 (envoy-operate.go:431-437; a write that fails may leave it empty). And a dead Envoy or an unwritten epoch breaks the succession.
No property forbids `Crash`.
`CHECK_DEADLOCK FALSE`: requests and restarts are bounded.

**Read off the code.** `isProcessAlive` takes an exited process for alive: nobody has waited for it, so signal 0 reaches the zombie.
`GlobalCfg` is not rolled back when rendering or a reload fails. `NewEnvoyPortAPIHandler` never sets `logger1` (envoy-port.go:19),
so the output of a hot-reloaded Envoy meets a nil logger in `slogWriter.Write` and the control plane ends (`Crash`). An "add" of a known
address with another port is ignored; one address twice in an "add" is entered twice (the model's targets are a set).
`GetCurrentConfig`, a query, returns a copy that shares its ports; it changes nothing and is left out.

## 10. Proofs

All proofs are checked by TLAPS for every value of the constants that meets the named assumptions of the
modules (sets of processes disjoint, finitely many chunks, `ExpireTime < UploadTimeout`, base + amplifier below the permanent
threshold, prices between 0 and the unit and losses not negative, a search between two different nodes, names that are not mistaken for `None`, and the like).

* `ChunkUploadProofs`: for any chunks, workers, buffers, expiry and deadline.
  * `ComposeSafe`: a chunk is completed, or visited by a checker that still believes everything finished, or past the
    event loop's verification, only if it was acknowledged (`AcknowledgedInv`).
  * `SingleTask`: until an expired event is sent the channel of events holds at most "finished", so the event loop starts no pass of its
    own; the first pass visits a chunk once, and a chunk in the channel is still unsent, one in a worker is transferring (`SingleInv`), with
    nothing running before the table is filled (`OffInv`).
  * `FirstPass`: the first pass leaves no chunk out. What is in the channel, in a worker and still to be visited never exceeds the
    chunks (`SingleTask` again), so there is a free slot (`ChannelHasSlot`, a pigeonhole), and a checker that finds a chunk
    unsent stops its scan before it can cause a re-send (`ScanInv`).
  * `RefinesJob`: the engine implements `UploadJob`. Until an expired event is sent no completed chunk is sent again
    (`CompletedStays`), so a "finished" event, still in the channel or being verified, finds every chunk completed (`FinishedInv`), and
    `done` is closed only after a composition, a re-send or the deadline (`CallerInv`): these are the two disturbances `UploadJob` allows.
  * `RoomForEvents` proves `SendNeverBlocks`: the checker sends at most once a tick and not before something can have expired, so the events
    pending never outnumber the ticks since then (`BacklogInv`).
  * `NilIsEarned`: nil means that every part was acknowledged, that one was re-sent or that the deadline passed. It is a consequence
    of `UploadJob` alone (`JobPromises`), inherited through the refinement.
* `TryMutexProofs`: `TypeCorrect`; `Exclusion` (the mutex's holder is exactly the goroutine past
  `LockMutex` and before the end of `UnlockMutex`); `NoWaiting` (the flag is claimed exactly by the
  one goroutine between claim and clear); `Refinement`: initial states map to initial states and each step to a step
  of `TryLock` or to a stutter.
* `ScalerProofs`: `TypeCorrect`; `FiresOnce`: the node state, the history and the ticker's position are tied
  together (no history before `Triggered`, one event after); `TriggeredRecorded`; `OnlyDeployed`: every
  request on its way and every target is a VM to which a deployment was reported a success. `Spending` proves `SpendBounded`: a credit of one, held by an
  `Inactive` node or by the ticker about to create, is spent by the ticker's only `CreateVM` and given anew by a restart; instances plus
  credit never exceed the manual scale-ups past their own `CreateVM`, the starts and one. It counts only finitely many requests, however
  many there may be.
* `RoutingGraphProofs`: `TypeCorrect`, where a risk stays between 0 and `One` although it is a sum of
  products of rounded parts (`EdgeRiskType`); `EdgesFresh` (`AddNode` writes both directions to every node it knows, so the loss on a pair is that of
  whichever was added last: `order`, as pairs); `KeepsUp`: of the events pending for a key the last says what etcd holds under
  it, and a key without one is in the graph as etcd holds it, if it was written since the watch began (`WatchInv`). The last event of a
  key exists because there are finitely many: the greatest element of a set of indexes. `RatesGranted` proves `RouteHasRate` under
  `StoresCost`, that no node's transfer into a store is free: then every edge into a store has a risk (`StoreEdgesCost`, kept by
  `AddNode` because rounding never takes a storage edge down to 0, `StoreRiskPositive`); a path ends in such an edge, and the sum of
  its risks is no less than any of them (`SumBounds`, about the fold of the community modules); so what a search has found costs
  something (`SearchCosts`), and the rate of a positive cost lies in the range (`RateType`). The hypothesis is needed:
  `AddNode` ignores the errors of `GetBandwidthPrice`, and a price of 0 makes a transfer free, so that a route without
  congestion or loss would be granted rate 0. The control plane does not start without a readable price file (main.go:181-186), and
  bandwidth-price.json as it is has no price of 0 and only providers that the switch knows; a provider it does not list pays the default of 0.2. About the formulas themselves: `RiskGrows` (for a price up to 0.6
  of the greatest), `LossLowersRisk` (the bound is needed), `PriceRaisesRisk`, and `RateFalls`: a route of more risk gets no higher rate. The total
  is written as a polynomial of the core risk, in two pieces (`TotalIs`), each growing.
* `TelemetryProofs`: `TypeCorrect`; `ReportsWhole`: what a VM knows, and what a report holds, is exactly what it had learned after some
  number of whole rounds (`WholeRounds`); `NewestFirst`: the queue holds the last of the results that were queued, and the one on its way to etcd is newer (`QueueInv`); `Counted`: what
  was written within the retention is there, and of what was old at the last cleanup only what it failed to remove (`FilesInv`), where the last
  cleanup is a period ago while the next one is due.
* `DijkstraProofs`: `TypeCorrect`, `Acyclic`, `RealPath`, `ShortestPath`, `Unreachable`, `Agrees`, `ExactSearch`, `Once`, for any finite
  set of nodes, any edges and natural weights, any number of stores, and two different ends. The invariant is the textbook one made robust against stores: a
  node that precedes another was popped, so its distance is final (`Tree`); entries of the queue cost no less
  than the last one popped (`Queued`); a node with a distance waits in the queue, is being scanned, or
  was relaxed with respect to `hi` (`Settled`). A cycle of predecessors through the node just improved would leave,
  when only its nodes no farther than the current one are kept, a cycle that was there before
  (`ImproveNoCycle`). That no path is shorter is stated by a potential (`ShortestPath`), which needs no
  induction over paths; `Agrees` goes on to the enumeration of routes, whose lengths are a fold: along a route the potential rises by no
  more than each edge's weight, and a least index at which it did would be the place of a contradiction. `Once`: what is
  closed is no farther than the entry popped last (`Settled`, `Phases`), and nothing nearer is found again.
* `EnvoyOperatorProofs`: `TypeCorrect`, whose hard part is that at most two Envoys run: their epochs are different and
  at most 1 apart (`Spans`), because a new one needs its parent and ends the others. `AcknowledgedInEffect` proves
  `CatchesUp` for any ports, addresses and numbers of requests, restarts and deaths. `CatchesUp` says nothing while a request is
  in progress; `Succession` fills that in: without a mishap the newest Envoy has the epoch of the file, of the one being started, or of the
  Envoy beside which the epochs last started over, whichever is larger. Assumed: a truncated file is no configuration (`BrokenAssumption`).
* `TransferProofs`: for any requests, file sizes, chunk sizes, shares, fanout, destinations and number of late attempts.
  * `TypeCorrect`: where the call and the chunk server can be, and what each has then (`FlowInv`, `CallInv`, `ServerInv`, `SavingInv`,
    `ObjectInv`). The arithmetic it starts from: the chunks of a range are adjacent and end where it ends (`SplitChunks`, `CutEnds`),
    and so do the shares of the VMs, whatever was rounded (`Shares`).
  * `LeavesNothing`: at each point of the composition, what is stored is the parts, the temporary objects the call knows of, and what it
    has yet to delete (`LitterInv`).
  * `NothingIsLost`: what was uploaded stays what it was unless it was torn (`PiecesInv`). `Total` is all parts one after the other; each object of a
    level of the tree holds a stretch of it, and those of a level are adjacent and together hold everything up to the group being made
    (`JoinInv`, `Cuts`); temporary objects are new when they are made (`FreshInv`); the chunk server's file holds what ends with the
    chunk it copied last. So nothing is deleted that is not in the final object.
  * `ObjectIsWhole`: `Total` is what was asked for, since the bytes of a chunk are what a read of it returns that does not break off (`ChunkBytes`), and adjacent ranges make one
    (`FlattenBytes`); a delivery has composed, and then the object is `Total`.
  * `TreeIsBounded`: composing n parts makes at most 2(n - 1) temporary objects in fewer than n levels, for any fanout and whatever fails, so
    the loop of `ComposeFile` ends and a failure leaves no more than that. A level pays for its objects with those the level below has
    more (`TreeInv`).

Only model-checked: liveness (`CallReturns`, `GoroutinesExit`, `ClaimSucceeds`, `Terminates`,
`NodeAppears`, `TransferAnswered`), which is out of the prover's reach. Every invariant and every action property of the passing runs, and
both refinements, are theorems. The library's induction theorems take operators as parameters, which the provers cannot instantiate; where
a proof here needs induction over indexes or finite sets, it takes a least or greatest element instead. Sequences of sequences are joined, and
risks and lengths summed, by the folds of the community modules, whose steps lemmas such as `Flatten` and `SumsExist` unroll.

## 11. Not modelled

`PROJECT.json` gives each component's status.
* **Data proxy**: forwarding keeps no state towards the rest of the system beyond the health switch (in `Scaler`). Its cache of
  HTTP clients is keyed by target without the scheme (data-proxy/main.go:99), the counter of transfers covers the response's
  body only (lines 223-226), and the next hop's URL is built without its port. The Rust proxy is a port of it.
* **Cloud adaptors**: requests and parsing; what they return to the scaler is modelled.
* **Load formulas** of the scaler: floating point over averages; the sign of their result is a choice.
* **Rate limiting, configuration, logging, request formats, shell scripts**: a library's limiter, tables and I/O.
* Read-only queries (`Get`, `GetCurrentConfig`, `DumpGraph`), and `ScalerOverride`, which nothing sets.
