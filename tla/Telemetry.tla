----------------------------- MODULE Telemetry -----------------------------
(***************************************************************************)
(* How measurements reach the control plane of a node.  On every VM the    *)
(* data plane probes the targets it is given and, on a timer of its own,   *)
(* reports what it knows.  The control plane keeps every report in a file, *)
(* averages the files on a timer, stores the result in etcd and queues it  *)
(* for the scaler, and removes old files on a third timer.                 *)
(*                                                                         *)
(* Abstractions: a tick is the 30 s of the averaging.  The figures are     *)
(* left out: of a measurement remains the target it is of and, as a        *)
(* history, the round it was made in; of a result the time, the number of  *)
(* reports in it and the targets it has an average of.                     *)
(***************************************************************************)
EXTENDS Integers, FiniteSets, Sequences, SequencesExt

CONSTANTS
  VMs,        \* machines with a data plane
  Targets,    \* what may be probed: other nodes and cloud storage
  Stores,     \* the cloud storage among it
  Retention, CleanupPeriod,   \* in ticks: 5 min, 1 min
  QueueSize,  \* of the FixedQueue
  Millis,     \* bound: the milliseconds of a tick in which reports arrive
  MaxTime, MaxRounds, MaxReports,  \* bounds: ticks, rounds per VM, reports stored
  None

ASSUME StoresAssumption == Stores \subseteq Targets
ASSUME SizesAssumption ==
  /\ Retention \in Nat \ {0} /\ CleanupPeriod \in Nat \ {0} /\ QueueSize \in Nat \ {0}
  /\ MaxTime \in Nat /\ MaxRounds \in Nat /\ MaxReports \in Nat
ASSUME NoneAssumption == None \notin VMs

VARIABLES
  round,     \* per VM: the probing round in progress, or None
  latest,    \* per VM: latestResults
  lists,     \* history: the task lists of the rounds a VM completed
  sending,   \* per VM: the report on its way, or None
  files,     \* the control plane's storage: file name -> report
  stored,    \* history: the names of all files ever written
  now, due,  \* time, and the timers that still fire in this tick
  averaging, \* the result on its way to etcd and the queue, or None
  queue,     \* the FixedQueue, oldest result first
  kept,      \* history: the files the last cleanup failed to remove
  unread,    \* history: the files the average on its way could not read
  averaged   \* history: the times of the results that were queued

planeVars == <<round, latest, lists>>
storeVars == <<files, stored, kept>>
resultVars == <<averaging, queue, unread, averaged>>
vars == <<planeVars, sending, storeVars, now, due, resultVars>>

NoIP == "no-public-ip"
EmptyMap == <<>>
(* A map with the entries of another put into it. *)
Overlay(new, old) ==
  [k \in DOMAIN new \cup DOMAIN old |-> IF k \in DOMAIN new THEN new[k] ELSE old[k]]

Timers(t) == {"average"} \cup (IF t % CleanupPeriod = 0 THEN {"cleanup"} ELSE {})

Init ==
  /\ round = [v \in VMs |-> None]
  /\ latest = [v \in VMs |-> EmptyMap]
  /\ lists = [v \in VMs |-> <<>>]
  /\ sending = [v \in VMs |-> None]
  /\ files = EmptyMap /\ stored = {} /\ kept = {}
  /\ now = 0 /\ due = Timers(0)
  /\ averaging = None /\ queue = <<>> /\ unread = {} /\ averaged = {}

-----------------------------------------------------------------------------
(* The data plane's probing goroutine.                                     *)

(* Any of the other nodes, as etcd knows them then, and every store.      *)
GetProbeTasks == {others \cup Stores : others \in SUBSET (Targets \ Stores)}

(* After an error the prober asks again a second later, which changes      *)
(* nothing.                                                                *)
BeginRound(v) ==
  /\ round[v] = None /\ Len(lists[v]) < MaxRounds
  /\ \E tasks \in GetProbeTasks :
       round' = [round EXCEPT ![v] = [tasks |-> tasks, results |-> {}]]
  /\ UNCHANGED <<latest, lists, sending, storeVars, now, due, resultVars>>

(* Mutant: each result is made known at once. *)
ProbeAtOnce(v, t) ==
  /\ round[v] # None /\ t \in round[v].tasks \ round[v].results
  /\ round' = [round EXCEPT ![v].results = @ \cup {t}]
  /\ latest' = [latest EXCEPT ![v] = Overlay([x \in {t} |-> Len(lists[v]) + 1], @)]
  /\ UNCHANGED <<lists, sending, storeVars, now, due, resultVars>>

(* One of the workers is through with a target, however its connections    *)
(* ended.                                                                  *)
Probe(v, t) ==
  /\ round[v] # None /\ t \in round[v].tasks \ round[v].results
  /\ round' = [round EXCEPT ![v].results = @ \cup {t}]
  /\ UNCHANGED <<latest, lists, sending, storeVars, now, due, resultVars>>

(* updateLatestResults: under the lock, all results of the round at once;  *)
(* a target that is no longer given stays.                                 *)
EndRound(v) ==
  /\ round[v] # None /\ round[v].results = round[v].tasks
  /\ latest' = [latest EXCEPT ![v] = Overlay([t \in round[v].tasks |-> Len(lists[v]) + 1], @)]
  /\ lists' = [lists EXCEPT ![v] = Append(@, round[v].tasks)]
  /\ round' = [round EXCEPT ![v] = None]
  /\ UNCHANGED <<sending, storeVars, now, due, resultVars>>

-----------------------------------------------------------------------------
(* The reporter.                                                           *)

Collect(v) ==
  /\ sending[v] = None
  /\ sending' = [sending EXCEPT ![v] = [link |-> latest[v]]]
  /\ UNCHANGED <<planeVars, storeVars, now, due, resultVars>>

Lose(v) ==
  /\ sending[v] # None
  /\ sending' = [sending EXCEPT ![v] = None]
  /\ UNCHANGED <<planeVars, storeVars, now, due, resultVars>>

(* PostVMReceive decodes the fields of receive-info.go by their names; one *)
(* that is missing is empty, one it does not know is dropped.              *)
Decode(body) ==
  [links |-> IF "links_congestion" \in DOMAIN body THEN DOMAIN body.links_congestion ELSE {}]

(* FileStorage.Put: the name is the VM and the millisecond, so a report    *)
(* may overwrite one of the same name; VMs whose public address cannot be  *)
(* found out share a name.  A Put that fails stores nothing that can be    *)
(* read.                                                                   *)
Receive(v) ==
  /\ sending[v] # None /\ Cardinality(stored) < MaxReports
  /\ \E id \in {v, NoIP}, ms \in Millis :
       LET name == <<id, now, ms>>
       IN  /\ files' = Overlay([x \in {name} |-> Decode(sending[v])], files)
           /\ stored' = stored \cup {name}
  /\ sending' = [sending EXCEPT ![v] = None]
  /\ UNCHANGED <<planeVars, kept, now, due, resultVars>>

-----------------------------------------------------------------------------
(* The control plane's timers.                                             *)

WrittenAt(name) == name[2]
Expired == {name \in DOMAIN files : WrittenAt(name) < now - Retention}

(* Mutant: the retention is taken for the cleanup's own period. *)
CleanupEager ==
  /\ "cleanup" \in due
  /\ files' = [f \in {g \in DOMAIN files : WrittenAt(g) = now} |-> files[f]]
  /\ kept' = {}
  /\ due' = due \ {"cleanup"}
  /\ UNCHANGED <<planeVars, sending, stored, now, resultVars>>

(* cleanupExpiredFiles: a file that cannot be removed stays until the next *)
(* time, as all do when the directory cannot be read.                      *)
Cleanup ==
  /\ "cleanup" \in due
  /\ \E gone \in SUBSET Expired :
       /\ files' = [f \in DOMAIN files \ gone |-> files[f]]
       /\ kept' = Expired \ gone
  /\ due' = due \ {"cleanup"}
  /\ UNCHANGED <<planeVars, sending, stored, now, resultVars>>

(* CalcClusterWeightedAvg over the reports read. *)
Result(read) ==
  [time |-> now, count |-> Cardinality(read), links |-> UNION {files[f].links : f \in read}]

(* Mutant: a full queue drops the result it got last. *)
PushOverLast(q, r) == IF Len(q) >= QueueSize THEN Append(Front(q), r) ELSE Append(q, r)

(* Mutant: nothing is dropped. *)
PushUnbounded(q, r) == Append(q, r)

(* FixedQueue.Push *)
Push(q, r) == Append(IF Len(q) >= QueueSize THEN Tail(q) ELSE q, r)

SnapshotLatestFirst == Reverse(queue)

(* GetAll skips a file it cannot read or decode, and one that the cleanup  *)
(* removes meanwhile.  When the directory cannot be read or the result not *)
(* be encoded, nothing comes of this tick.                                 *)
Average ==
  /\ "average" \in due /\ averaging = None
  /\ \/ \E missed \in SUBSET DOMAIN files :
          /\ averaging' = Result(DOMAIN files \ missed)
          /\ unread' = missed
     \/ UNCHANGED <<averaging, unread>>
  /\ due' = due \ {"average"}
  /\ UNCHANGED <<planeVars, sending, storeVars, now, queue, averaged>>

(* The result is queued once PutKeyWithLease has returned, with success    *)
(* (the Publish of module RoutingGraph) or not; its Grant has no deadline. *)
Enqueue ==
  /\ averaging # None
  /\ queue' = Push(queue, averaging)
  /\ averaged' = averaged \cup {averaging.time}
  /\ averaging' = None /\ unread' = {}
  /\ UNCHANGED <<planeVars, sending, storeVars, now, due>>

(* While a result waits for etcd, one tick of the averaging is kept in its *)
(* ticker's channel and the others are dropped.                            *)
Tick ==
  /\ "cleanup" \notin due /\ now < MaxTime
  /\ "average" \in due => averaging # None
  /\ now' = now + 1
  /\ due' = Timers(now + 1)
  /\ UNCHANGED <<planeVars, sending, storeVars, resultVars>>

-----------------------------------------------------------------------------
Next ==
  \/ Cleanup \/ Average \/ Enqueue \/ Tick
  \/ \E v \in VMs :
       \/ BeginRound(v) \/ EndRound(v)
       \/ Collect(v) \/ Lose(v) \/ Receive(v)
       \/ \E t \in Targets : Probe(v, t)

Spec == Init /\ [][Next]_vars

-----------------------------------------------------------------------------
TypeOK ==
  /\ \A v \in VMs :
       /\ round[v] # None => round[v].results \subseteq round[v].tasks
       /\ Len(lists[v]) <= MaxRounds
       /\ \A t \in DOMAIN latest[v] : latest[v][t] \in 1 .. Len(lists[v])
  /\ DOMAIN files \subseteq stored
  /\ now \in 0 .. MaxTime /\ due \subseteq Timers(now)
  /\ averaging # None => averaging.time \in 0 .. now
  /\ Len(queue) <= QueueSize

(* What a VM knows after the first n of some rounds: of every target the   *)
(* newest result.                                                          *)
LastRound(rounds, n, t) ==
  CHOOSE i \in 1 .. n : t \in rounds[i] /\ \A j \in i + 1 .. n : t \notin rounds[j]
AfterRounds(rounds, n) ==
  [t \in UNION {rounds[i] : i \in 1 .. n} |-> LastRound(rounds, n, t)]

(* The reporter's timer fires at any moment of a round, with workers still *)
(* probing: a report nevertheless holds the results of whole rounds only,  *)
(* and of every target the newest of them.                                 *)
NoHalfRound ==
  \A v \in VMs : sending[v] # None =>
    \E n \in 0 .. Len(lists[v]) : sending[v].link = AfterRounds(lists[v], n)

(* A result counts every file of the retention that can be read, and       *)
(* nothing older than the retention and the period of the cleanup together *)
(* but what the last cleanup failed to remove: a machine that reports is   *)
(* not left out and one that is gone is forgotten, whatever the order of   *)
(* the timers and however long etcd held the averaging up.                 *)
WindowCounted ==
  [][averaging' # averaging /\ averaging' # None =>
       LET within(age) == {name \in stored : WrittenAt(name) >= now - age}
       IN  /\ averaging'.count >= Cardinality(within(Retention) \ unread')
           /\ averaging'.count <= Cardinality(within(Retention + CleanupPeriod) \cup kept)]_vars

(* The scaler's volatility weighs results by their place in the snapshot:  *)
(* it must hold the newest of the results that were queued and no other,   *)
(* newest first, whatever ticks gave no result.                            *)
SnapshotNewestFirst ==
  LET snapshot == SnapshotLatestFirst
      times == {snapshot[i].time : i \in DOMAIN snapshot}
  IN  /\ \A i, j \in DOMAIN snapshot : i < j => snapshot[i].time > snapshot[j].time
      /\ times \subseteq averaged
      /\ \A t \in averaged \ times : Len(snapshot) = QueueSize /\ \A u \in times : t < u

(* "Probe results travel by the VM report interface" (main.go:298): what a *)
(* report says of its links is stored with it.                             *)
ProbeResultsArrive ==
  [][\A v \in VMs : (sending[v] # None /\ sending'[v] = None) =>
       \A name \in stored' \ stored : files'[name].links = DOMAIN sending[v].link]_vars
=============================================================================
