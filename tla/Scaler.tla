------------------------------- MODULE Scaler -------------------------------
(***************************************************************************)
(* Elastic scaling of one node: control-plane/scaling (auto-fsm.go,        *)
(* manual-fsm.go, scaling.go, deploy-proxy.go), with the cloud provider    *)
(* and the setTargetIps handler of the Envoy operator it calls.            *)
(*                                                                         *)
(*   "auto"     AutoScaling, called by the ticker goroutine                *)
(*   Requests   ManualScaling, one call per HTTP request                   *)
(*                                                                         *)
(* Both skip their work when TryLock fails, so a call that works holds the *)
(* lock from its start to its end (TryMutex shows that the lock is one).   *)
(* A call is a chain of remote steps: create a VM, deploy to it, have      *)
(* Envoy add it; or delete it and have Envoy remove it.  The hysteresis    *)
(* input delta < 0 is the choice "hot".  ManualAction is only ever logged  *)
(* and left out.  NewScaler is called without a configuration, so the      *)
(* times are those of NewDefaultScaleConfig, in units of 200 s.  With AWS  *)
(* createVM panics on the result of the first CreateVM, and nothing is     *)
(* left to model; the providers here are Vultr and GCP.                    *)
(***************************************************************************)
EXTENDS Integers, Sequences, FiniteSets

CONSTANTS
  Requests,       \* manual scaling requests, each called once
  VMs,            \* instances the provider can hand out
  Base,           \* BaseRetentionTime
  Amplifier,      \* RetentionAmplifier
  Decay,          \* RetentionDecay
  PermThreshold,  \* PermanentThreshold
  PermDuration,   \* PermanentDuration
  OptimizeFirst,  \* config scaling.binary_proxy is "data-proxy"
  Faults,         \* remote calls may fail and the process may restart
  MaxTime,        \* bound of the clock
  MaxRestarts,    \* bound of process restarts
  None            \* no VM, no operation

Actors == {"auto"} \cup Requests
States == {"Inactive", "Dormant", "Triggered", "ScalingUp", "Releasing", "Permanent"}
Ops == {"scale_up", "sleep", "restart", "release"}

ASSUME ActorsAssumption == "auto" \notin Requests
ASSUME NoneAssumption == None \notin VMs /\ None \notin Actors /\ None \notin Ops
ASSUME TimeAssumption ==
  /\ Base \in Nat /\ Amplifier \in Nat /\ Decay \in Nat
  /\ PermThreshold \in Nat /\ PermDuration \in Nat
  /\ MaxTime \in Nat /\ MaxRestarts \in Nat
\* 600 s + 400 s < 2400 s: one scaling event is not enough for Permanent.
ASSUME RetentionAssumption == Base + Amplifier < PermThreshold
ASSUME EnvironmentAssumption ==
  /\ OptimizeFirst \in BOOLEAN
  /\ Faults \in BOOLEAN

VARIABLES
  now,        \* wall clock
  holder,     \* the actor whose TryLock succeeded, or None
  pc,         \* where each call is
  op,         \* what it does: an element of Ops
  vm,         \* the VM it does it to
  ok,         \* result of the last step of its chain
  state,      \* Node.State
  retain,     \* Node.RetainTime
  scaledVMs,  \* Node.ScaledVMs
  history,    \* Node.ScaleHistory: times of the events, all of amount 1
  pending,    \* setTargetIps requests sent and not yet handled
  targets,    \* Envoy operator: GlobalCfg.TargetAddrs, as far as they are VMs
  routed,     \* running Envoy: the targets it has loaded
  born,       \* provider: instances ever created
  alive,      \* provider: instances not deleted
  deployed,   \* VMs a deployment of both binaries to was reported a success
  running,    \* VMs on which data-proxy really runs
  asleep,     \* VMs whose data-proxy reports itself unhealthy
  restarts    \* process restarts so far

callVars == <<pc, op, vm, ok>>
nodeVars == <<state, retain, scaledVMs, history>>
envoyVars == <<pending, targets, routed>>
cloudVars == <<born, alive, deployed, running, asleep>>
vars == <<now, holder, callVars, nodeVars, envoyVars, cloudVars, restarts>>

Goto(a, label) == pc' = [pc EXCEPT ![a] = label]

Init ==
  /\ now = 0
  /\ holder = None
  /\ pc = [a \in Actors |-> "idle"]
  /\ op = [a \in Actors |-> None]
  /\ vm = [a \in Actors |-> None]
  /\ ok = [a \in Actors |-> FALSE]
  /\ state = "Inactive"
  /\ retain = 0
  /\ scaledVMs = <<>>
  /\ history = <<>>
  /\ pending = {}
  /\ targets = {}
  /\ routed = {}
  /\ born = {}
  /\ alive = {}
  /\ deployed = {}
  /\ running = {}
  /\ asleep = {}
  /\ restarts = 0

Tick ==
  /\ now < MaxTime
  /\ now' = now + 1
  /\ UNCHANGED <<holder, callVars, nodeVars, envoyVars, cloudVars, restarts>>

-----------------------------------------------------------------------------
(* The start of a call *)

\* Mutants: ScalingUp is tried again; Triggered scales up again after its
\* retention.
PlanRetrying(s, retained, hot) ==
  IF s \in {"Inactive", "ScalingUp"} /\ hot
  THEN [state |-> "ScalingUp", op |-> "scale_up"] ELSE [state |-> s, op |-> None]
PlanRepeating(s, retained, hot) ==
  IF hot /\ (s = "Inactive" \/ (s = "Triggered" /\ ~retained))
  THEN [state |-> "ScalingUp", op |-> "scale_up"] ELSE [state |-> s, op |-> None]

\* The decision of AutoScaling: the operation it starts (None: it returns)
\* and the state it leaves or starts it in.
Plan(s, retained, hot) ==
  CASE s = "Inactive" /\ hot ->
         [state |-> "ScalingUp", op |-> "scale_up"]
    [] s = "Dormant" /\ retained /\ hot ->
         [state |-> "Triggered", op |-> "restart"]
    [] s = "Dormant" /\ retained /\ ~hot ->
         [state |-> "Releasing", op |-> "release"]
    [] s \in {"Dormant", "Permanent"} /\ ~retained ->
         [state |-> "Releasing", op |-> None]
    [] OTHER -> [state |-> s, op |-> None]

\* The VM an operation acts on: the one named by the request, else the first
\* one recorded.
Target(given) ==
  IF given # None THEN given
  ELSE IF scaledVMs # <<>> THEN Head(scaledVMs) ELSE None

\* Mutants: an empty ScaledVMs is not noticed; a VM that exists is attached
\* without being deployed.
FirstStepUnchecked(operation, target) ==
  IF operation = "scale_up" THEN IF target = None THEN "create" ELSE "deploy"
  ELSE IF operation = "release" THEN "delete" ELSE "health"
FirstStepAttaching(operation, target) ==
  IF operation = "scale_up" THEN IF target = None THEN "create" ELSE "attach"
  ELSE IF target = None THEN "finish"
  ELSE IF operation = "release" THEN "delete" ELSE "health"

FirstStep(operation, target) ==
  IF operation = "scale_up" THEN IF target = None THEN "create" ELSE "deploy"
  ELSE IF target = None THEN "finish"
  ELSE IF operation = "release" THEN "delete" ELSE "health"

Begin(a, operation, given) ==
  /\ holder = None
  /\ holder' = a
  /\ op' = [op EXCEPT ![a] = operation]
  /\ vm' = [vm EXCEPT ![a] = Target(given)]
  /\ ok' = [ok EXCEPT ![a] = FALSE]
  /\ Goto(a, FirstStep(operation, Target(given)))

\* A tick of the ticker; when TryLock fails nothing happens at all.
AutoScaling ==
  /\ pc["auto"] = "idle"
  /\ holder = None
  /\ \E hot \in BOOLEAN :
       LET plan == Plan(state, now < retain, hot) IN
         /\ state' = plan.state
         /\ IF plan.op = None
            THEN UNCHANGED <<holder, callVars>>
            ELSE Begin("auto", plan.op, None)
  /\ UNCHANGED <<now, retain, scaledVMs, history, envoyVars, cloudVars, restarts>>

\* A request may name a VM; a request that finds the lock taken is answered
\* with OK all the same.
ManualScaling(r) ==
  /\ pc[r] = "idle"
  /\ \/ /\ holder # None
        /\ Goto(r, "returned")
        /\ UNCHANGED <<holder, op, vm, ok>>
     \/ \E operation \in Ops, given \in born \cup {None} :
          Begin(r, operation, given)
  /\ UNCHANGED <<now, nodeVars, envoyVars, cloudVars, restarts>>

-----------------------------------------------------------------------------
(* The steps of a call *)

StepFails(a) ==
  /\ ok' = [ok EXCEPT ![a] = FALSE]
  /\ Goto(a, "finish")

\* Operate.CreateVM of Vultr or GCP.  A call that returns an error may have
\* created the VM all the same.
CreateVM(a) ==
  /\ pc[a] = "create"
  /\ \/ \E v \in VMs \ born :
          /\ born' = born \cup {v}
          /\ alive' = alive \cup {v}
          /\ \/ /\ vm' = [vm EXCEPT ![a] = v]
                /\ Goto(a, "poll")
                /\ UNCHANGED ok
             \/ /\ Faults
                /\ StepFails(a)
                /\ UNCHANGED vm
     \/ /\ Faults
        /\ StepFails(a)
        /\ UNCHANGED <<born, alive, vm>>
  /\ UNCHANGED <<now, holder, op, nodeVars, envoyVars, deployed, running, asleep,
                 restarts>>

\* The polling loop of createVM; its context ends a minute after the call
\* began, and the VM's name is lost with it.
GetVMPublicIP(a) ==
  /\ pc[a] = "poll"
  /\ \/ /\ Goto(a, "deploy")
        /\ UNCHANGED <<vm, ok>>
     \/ /\ Faults
        /\ vm' = [vm EXCEPT ![a] = None]
        /\ StepFails(a)
  /\ UNCHANGED <<now, holder, op, nodeVars, envoyVars, cloudVars, restarts>>

\* deployBinaryToServer can be answered with success by a VM that is there.  For
\* "data-proxy" startBinaryInBackground runs a script first, in the one ssh
\* session it has; a session accepts one command and refuses the second.
StartAccepted(v) == v \in alive /\ ~OptimizeFirst

\* The start command goes to the background, so that the shell answers 0 though
\* the binary is missing or dies at once, and no answer within 3 s counts as
\* success: whether data-proxy runs shows in nothing the deployment returns.
MayRun(v) == IF StartAccepted(v) THEN {running, running \cup {v}} ELSE {running}

\* deployAndAttachVM up to the attachment: both binaries, one after the other.
\* The first may run although the second fails.
Deploy(a) ==
  /\ pc[a] = "deploy"
  /\ running' \in MayRun(vm[a])
  /\ \/ /\ StartAccepted(vm[a])
        /\ deployed' = deployed \cup {vm[a]}
        /\ Goto(a, "attach")
        /\ UNCHANGED ok
     \/ /\ Faults \/ ~StartAccepted(vm[a])
        /\ StepFails(a)
        /\ UNCHANGED deployed
  /\ UNCHANGED <<now, holder, op, vm, nodeVars, envoyVars, born, alive, asleep,
                 restarts>>

\* DeleteVM of triggerRelease: an error is logged and the release goes on.
DeleteVM(a) ==
  /\ pc[a] = "delete"
  /\ \/ /\ alive' = alive \ {vm[a]}
        /\ running' = running \ {vm[a]}
     \/ /\ Faults
        /\ UNCHANGED <<alive, running>>
  /\ Goto(a, "attach")
  /\ UNCHANGED <<now, holder, op, vm, ok, nodeVars, envoyVars, born, deployed,
                 asleep, restarts>>

\* healthStateChange at the VM's data-proxy: what it answers to health checks.
Switched(a) ==
  IF op[a] = "sleep" THEN asleep \cup {vm[a]} ELSE asleep \ {vm[a]}

\* setHealthState of triggerDormant and triggerScalingFromDormant.
SetHealthState(a) ==
  /\ pc[a] = "health"
  /\ \/ /\ vm[a] \in running
        /\ asleep' = Switched(a)
        /\ ok' = [ok EXCEPT ![a] = TRUE]
     \/ /\ Faults \/ vm[a] \notin running
        /\ asleep' \in IF vm[a] \in running THEN {asleep, Switched(a)} ELSE {asleep}
        /\ ok' = [ok EXCEPT ![a] = FALSE]
  /\ Goto(a, "finish")
  /\ UNCHANGED <<now, holder, op, vm, nodeVars, envoyVars, born, alive,
                 deployed, running, restarts>>

\* sendAddTargetIpsRequest: one HTTP request, with a client timeout of 1 s.
SendTargetIps(a) ==
  /\ pc[a] = "attach"
  /\ \/ /\ pending' = pending \cup
                        {[by |-> a, vm |-> vm[a],
                          action |-> IF op[a] = "release" THEN "del" ELSE "add"]}
        /\ Goto(a, "await")
        /\ UNCHANGED ok
     \/ /\ Faults
        /\ StepFails(a)
        /\ UNCHANGED pending
  /\ UNCHANGED <<now, holder, op, vm, nodeVars, targets, routed, cloudVars,
                 restarts>>

\* The second is over: client.Do returns an error, the request stays sent.
AwaitTimesOut(a) ==
  /\ pc[a] = "await"
  /\ StepFails(a)
  /\ UNCHANGED <<now, holder, op, vm, nodeVars, envoyVars, cloudVars, restarts>>

\* UpdateGlobalTargetAddrs: the new GlobalCfg.TargetAddrs.
Applied(request) ==
  IF request.action = "add" THEN targets \cup {request.vm}
                            ELSE targets \ {request.vm}

\* HotReloadEnvoyConfig and its answer.  A reload that works sleeps 2 s before
\* it is answered, longer than the client waits.  One that fails is answered at
\* once with status 500, which the client does not look at: its call succeeds.
HotReloadEnvoyConfig(request) ==
  \/ /\ routed' = targets'
     /\ UNCHANGED <<pc, ok>>
  \/ /\ Faults
     /\ IF pc[request.by] = "await"
        THEN /\ ok' = [ok EXCEPT ![request.by] = TRUE]
             /\ Goto(request.by, "finish")
        ELSE UNCHANGED <<pc, ok>>
     /\ UNCHANGED routed

\* UpdateGlobalTargetAddrsHandler, in whatever order the requests get the
\* operator's lock.
UpdateGlobalTargetAddrs(request) ==
  /\ pending' = pending \ {request}
  /\ targets' = Applied(request)
  /\ HotReloadEnvoyConfig(request)
  /\ UNCHANGED <<now, holder, op, vm, nodeVars, cloudVars, restarts>>

-----------------------------------------------------------------------------
(* The end of a call *)

\* Events older than the decay window are dropped; times never decrease.
Pruned(h) ==
  SubSeq(h, 1 + Cardinality({i \in DOMAIN h : now - h[i] > Decay}), Len(h))

\* calculateRetention: the newest event has weight 1, one in the window at
\* least 1/e.
CalculateRetention ==
  /\ history' = Pruned(Append(history, now))
  /\ LET n == Len(history') IN
       \E extra \in (Amplifier + (Amplifier * (n - 1)) \div 3)..(Amplifier * n) :
         IF Base + extra >= PermThreshold
         THEN state' = "Permanent" /\ retain' = now + PermDuration
         ELSE state' = "Triggered" /\ retain' = now + Base + extra

Return(a, label) ==
  /\ Goto(a, label)
  /\ holder' = None

\* ScaledVMs after a call: a scale-up that got a VM has recorded it, deployed
\* or not.  Mutant: only one that failed does.
RecordedOnFailure(a) ==
  IF op[a] = "scale_up" /\ vm[a] # None /\ ~ok[a] THEN Append(scaledVMs, vm[a])
                                                  ELSE scaledVMs
Recorded(a) ==
  IF op[a] = "scale_up" /\ vm[a] # None THEN Append(scaledVMs, vm[a])
                                        ELSE scaledVMs

\* The rest of AutoScaling.  A failed scale-up stays in ScalingUp.
AutoFinish ==
  /\ pc["auto"] = "finish"
  /\ scaledVMs' = Recorded("auto")
  /\ IF op["auto"] = "release"
     THEN state' = "Inactive" /\ UNCHANGED <<history, retain>>
     ELSE IF ok["auto"] THEN CalculateRetention
          ELSE UNCHANGED <<state, history, retain>>
  /\ Return("auto", "idle")
  /\ UNCHANGED <<now, op, vm, ok, envoyVars, cloudVars, restarts>>

\* ManualScaling records nothing of what it did.
ManualFinish(r) ==
  /\ pc[r] = "finish"
  /\ Return(r, "returned")
  /\ UNCHANGED <<now, op, vm, ok, nodeVars, envoyVars, cloudVars, restarts>>

\* The control plane starts again with nothing but its configuration; calls
\* in progress and requests not yet handled are lost with the old process.
Restart ==
  /\ Faults
  /\ restarts < MaxRestarts
  /\ restarts' = restarts + 1
  /\ pc' = [a \in Actors |-> IF a = "auto" \/ pc[a] = "idle" THEN "idle"
                                                             ELSE "returned"]
  /\ holder' = None
  /\ state' = "Inactive"
  /\ retain' = 0
  /\ scaledVMs' = <<>>
  /\ history' = <<>>
  /\ pending' = {}
  /\ targets' = {}
  /\ routed' \in {routed, {}}
  /\ UNCHANGED <<now, op, vm, ok, cloudVars>>

-----------------------------------------------------------------------------
\* Steps that end: a context of one minute bounds the calls to the provider, a
\* client timeout those to Envoy.
BoundedStep(a) ==
  \/ CreateVM(a)
  \/ GetVMPublicIP(a)
  \/ DeleteVM(a)
  \/ SendTargetIps(a)
  \/ AwaitTimesOut(a)

\* Steps nothing bounds: ssh and sftp after the dial, and an http.Get with the
\* default client (auto-fsm.go:346).
UnboundedStep(a) == Deploy(a) \/ SetHealthState(a)

CallStep(a) == BoundedStep(a) \/ UnboundedStep(a)

Next ==
  \/ Tick
  \/ AutoScaling
  \/ \E r \in Requests : ManualScaling(r)
  \/ \E a \in Actors : CallStep(a)
  \/ \E request \in pending : UpdateGlobalTargetAddrs(request)
  \/ AutoFinish
  \/ \E r \in Requests : ManualFinish(r)
  \/ Restart

\* The ticker ticks, time passes, and the remote calls that have a timeout
\* return.  A deployment or a setHealthState may hang for ever.
Fairness ==
  /\ WF_vars(Tick)
  /\ WF_vars(AutoScaling)
  /\ \A a \in Actors : WF_vars(BoundedStep(a))
  /\ WF_vars(\E request \in pending : UpdateGlobalTargetAddrs(request))
  /\ WF_vars(AutoFinish)
  /\ \A r \in Requests : WF_vars(ManualFinish(r))

Spec == Init /\ [][Next]_vars
FairSpec == Spec /\ Fairness

-----------------------------------------------------------------------------
(* Properties *)

Labels == {"idle", "create", "poll", "deploy", "delete", "health", "attach",
           "await", "finish", "returned"}

\* Every variable keeps its type.
TypeOK ==
  /\ now \in 0..MaxTime
  /\ holder \in Actors \cup {None}
  /\ pc \in [Actors -> Labels]
  /\ op \in [Actors -> Ops \cup {None}]
  /\ vm \in [Actors -> VMs \cup {None}]
  /\ ok \in [Actors -> BOOLEAN]
  /\ state \in States
  /\ retain \in Nat
  /\ scaledVMs \in Seq(VMs)
  /\ history \in Seq(0..MaxTime)
  /\ pending \in SUBSET [by : Actors, vm : VMs, action : {"add", "del"}]
  /\ targets \in SUBSET VMs
  /\ routed \in SUBSET VMs
  /\ born \in SUBSET VMs
  /\ alive \in SUBSET born
  /\ deployed \in SUBSET born
  /\ running \in SUBSET alive
  /\ asleep \in SUBSET born
  /\ restarts \in 0..MaxRestarts

\* With the built-in configuration one process scales up by itself at most
\* once, whatever the load, the failures and the manual requests: its node only
\* moves from Inactive to ScalingUp and from there to Triggered, and Dormant,
\* Releasing and Permanent are never reached (AutoScaling's switches and
\* calculateRetention).
OneShot ==
  [][state' # state =>
       \/ <<state, state'>> \in {<<"Inactive", "ScalingUp">>,
                                <<"ScalingUp", "Triggered">>}
       \/ restarts' # restarts]_vars

\* The instances ever created, leaked ones included, are bounded by the manual
\* scale-ups and the process starts: a failing scale-up is never retried by the
\* ticker at the cost of another instance.
SpendBounded ==
  Cardinality(born) <=
    Cardinality({r \in Requests : op[r] = "scale_up"}) + 1 + restarts

\* A node in Triggered knows the VM it was triggered for, which is what sleep,
\* restart and release without a VM act on, and the deployment to that VM was
\* reported a success.  (Not that its proxy runs, nor that Envoy knows it.)
TriggeredIsRecorded ==
  state = "Triggered" => scaledVMs # <<>> /\ Head(scaledVMs) \in deployed

\* Envoy is only ever given VMs to which a deployment was reported a success, in
\* whatever order timed-out requests, manual operations and restarts reach it.
\* (A VM that was released since is among them, and one whose proxy never ran.)
TargetsDeployed == targets \cup routed \subseteq deployed

\* Said by a comment of the code, and not so.

\* auto-fsm.go:203 "The state of node is changed to dormant from scaling up":
\* a node does not stay in ScalingUp.
ScaleUpEnds == state = "ScalingUp" ~> state # "ScalingUp"

=============================================================================
