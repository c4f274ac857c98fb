---------------------------- MODULE ScalerProofs ----------------------------
(***************************************************************************)
(* Proofs about Scaler, for any set of requests and VMs and any retention  *)
(* configuration in which one event is not enough for Permanent.           *)
(*                                                                         *)
(* CallInv says what the position of a call means for its operation and    *)
(* its VM; AutoInv, that the ticker's one chain starts in Inactive with    *)
(* nothing recorded and ends in ScalingUp or Triggered; TargetInv, that    *)
(* what is on its way to Envoy was reported deployed.                      *)
(***************************************************************************)
EXTENDS Scaler, FiniteSetTheorems, SequenceTheorems, TLAPS

HasVM == {"poll", "deploy", "delete", "health", "attach", "await"}
Working == HasVM \cup {"create", "finish"}

CallInv ==
  \A a \in Actors :
    /\ pc[a] \in HasVM => vm[a] \in VMs
    /\ pc[a] \in {"create", "poll", "deploy"} => op[a] = "scale_up"
    /\ pc[a] = "delete" => op[a] = "release"
    /\ pc[a] = "health" => op[a] \in {"sleep", "restart"}
    /\ pc[a] \in {"attach", "await"} => op[a] \in {"scale_up", "release"}
    /\ pc[a] \in HasVM \cup {"create"} => ~ok[a]

AutoInv ==
  /\ state \in {"Inactive", "ScalingUp", "Triggered"}
  /\ op["auto"] \in {None, "scale_up"}
  /\ pc["auto"] \in Working \cup {"idle"}
  /\ pc["auto"] \in Working => state = "ScalingUp" /\ op["auto"] = "scale_up" /\ scaledVMs = <<>>
  /\ state = "Inactive" => scaledVMs = <<>>
  /\ state # "Triggered" => history = <<>>
  /\ Len(history) <= 1

TargetInv ==
  /\ targets \cup routed \subseteq deployed
  /\ \A r \in pending : r.action = "add" => r.vm \in deployed
  /\ \A a \in Actors : pc[a] \in {"attach", "await"} /\ op[a] = "scale_up" => vm[a] \in deployed
  /\ pc["auto"] = "finish" /\ ok["auto"] => vm["auto"] \in deployed

Inv == TypeOK /\ CallInv /\ AutoInv /\ TargetInv /\ TriggeredIsRecorded

LEMMA ActorFacts == "auto" \in Actors /\ Requests \subseteq Actors
BY DEF Actors

LEMMA InitInv == Init => Inv
BY ActorFacts, ActorsAssumption, NoneAssumption, TimeAssumption
   DEF Init, Inv, TypeOK, CallInv, AutoInv, TargetInv, TriggeredIsRecorded,
       HasVM, Working, Labels, States, Ops

\* One event recorded in an empty history survives the pruning.
LEMMA PrunedOne ==
  ASSUME NEW t \in Nat, now = t, Decay \in Nat
  PROVE  Pruned(Append(<<>>, t)) = <<t>>
<1> DEFINE h == Append(<<>>, t)
           old == {i \in DOMAIN h : now - h[i] > Decay}
<1>1. h = <<t>> /\ h \in Seq(Nat) /\ Len(h) = 1 /\ DOMAIN h = {1} /\ h[1] = t
  OBVIOUS
<1>2. old = {}
  BY <1>1
<1>3. Cardinality(old) = 0
  BY <1>2, FS_EmptySet
<1>4. SubSeq(h, 1, Len(h)) = <<t>>
  BY <1>1, SubSeqFull
<1> HIDE DEF h
<1>5. QED
  BY <1>1, <1>3, <1>4 DEF Pruned, h

\* So the first event of a process leads to Triggered.
LEMMA RetentionOne ==
  ASSUME TypeOK, history = <<>>, CalculateRetention
  PROVE  history' = <<now>> /\ state' = "Triggered" /\ retain' \in Nat
<1>1. now \in Nat
  BY TimeAssumption DEF TypeOK
<1>2. history' = <<now>>
  BY <1>1, PrunedOne, TimeAssumption DEF CalculateRetention
<1>3. Len(history') = 1
  BY <1>2
<1>4. PICK extra \in (Amplifier + (Amplifier * (1 - 1)) \div 3)..(Amplifier * 1) :
        IF Base + extra >= PermThreshold
        THEN state' = "Permanent" /\ retain' = now + PermDuration
        ELSE state' = "Triggered" /\ retain' = now + Base + extra
  BY <1>3 DEF CalculateRetention
<1>5. extra \in Nat /\ extra <= Amplifier
  BY TimeAssumption
<1>6. QED
  BY <1>1, <1>2, <1>4, <1>5, TimeAssumption, RetentionAssumption

LEMMA TargetType ==
  ASSUME TypeOK, NEW given \in VMs \cup {None}
  PROVE  Target(given) \in VMs \cup {None}
BY DEF TypeOK, Target

LEMMA FirstStepFacts ==
  ASSUME NEW operation \in Ops, NEW target
  PROVE  /\ FirstStep(operation, target) \in {"create", "deploy", "delete", "health", "finish"}
         /\ FirstStep(operation, target) \in HasVM => target # None
         /\ FirstStep(operation, target) \in {"create", "deploy"} => operation = "scale_up"
         /\ FirstStep(operation, target) = "delete" => operation = "release"
         /\ FirstStep(operation, target) = "health" => operation \in {"sleep", "restart"}
BY DEF FirstStep, HasVM, Ops

\* Every step of the scaler and its callers keeps each variable in its type.
LEMMA StepType == TypeOK /\ CallInv /\ AutoInv /\ [Next]_vars => TypeOK'
<1> SUFFICES ASSUME TypeOK /\ CallInv /\ AutoInv, [Next]_vars PROVE TypeOK'
  OBVIOUS
<1> USE ActorFacts, ActorsAssumption, NoneAssumption, TimeAssumption
        DEF TypeOK, CallInv, AutoInv, HasVM, Working, Labels, States, Ops, Goto, StepFails, callVars, nodeVars, envoyVars, cloudVars
<1>1. CASE Tick
  BY <1>1 DEF Tick
<1>2. CASE AutoScaling
  BY <1>2, ZenonT(60) DEF AutoScaling, Begin, Plan, FirstStep, Target
<1>3. ASSUME NEW r \in Requests, ManualScaling(r) PROVE TypeOK'
  <2>1. CASE holder # None /\ Goto(r, "returned") /\ UNCHANGED <<holder, op, vm, ok>>
    BY <1>3, <2>1 DEF ManualScaling
  <2>2. ASSUME NEW operation \in Ops, NEW given \in born \cup {None},
               Begin(r, operation, given)
        PROVE  TypeOK'
    <3>1. Target(given) \in VMs \cup {None}
      BY TargetType
    <3> DEFINE first == FirstStep(operation, Target(given))
    <3>2. first \in {"create", "deploy", "delete", "health", "finish"}
      BY FirstStepFacts
    <3>3. /\ pc' = [pc EXCEPT ![r] = first]
          /\ vm' = [vm EXCEPT ![r] = Target(given)]
          /\ op' = [op EXCEPT ![r] = operation]
          /\ ok' = [ok EXCEPT ![r] = FALSE]
          /\ holder' = r
      BY <2>2 DEF Begin
    <3> HIDE DEF first
    <3>4. pc' \in [Actors -> Labels]
      BY <3>2, <3>3
    <3>5. QED
      BY <1>3, <3>1, <3>3, <3>4 DEF ManualScaling
  <2>3. QED
    BY <1>3, <2>1, <2>2 DEF ManualScaling
<1>4. ASSUME NEW a \in Actors, CreateVM(a) PROVE TypeOK'
  <2>1. born' \in SUBSET VMs /\ alive' \in SUBSET born' /\ born \subseteq born'
    BY <1>4 DEF CreateVM
  <2>2. pc' \in [Actors -> Labels]
    BY <1>4 DEF CreateVM
  <2>3. vm' \in [Actors -> VMs \cup {None}] /\ ok' \in [Actors -> BOOLEAN]
    <3>1. vm' = vm \/ \E v \in VMs : vm' = [vm EXCEPT ![a] = v]
      BY <1>4 DEF CreateVM
    <3>2. ok' = ok \/ ok' = [ok EXCEPT ![a] = FALSE]
      BY <1>4 DEF CreateVM
    <3>3. vm' \in [Actors -> VMs \cup {None}]
      BY <3>1
    <3>4. ok' \in [Actors -> BOOLEAN]
      BY <3>2
    <3>5. QED
      BY <3>3, <3>4
  <2>4. holder' \in Actors \cup {None}
    BY <1>4 DEF CreateVM
  <2>5. QED
    BY <1>4, <2>1, <2>2, <2>3, <2>4 DEF CreateVM
<1>5. ASSUME NEW a \in Actors, GetVMPublicIP(a) PROVE TypeOK'
  BY <1>5 DEF GetVMPublicIP
<1>6. ASSUME NEW a \in Actors, Deploy(a) PROVE TypeOK'
  <2>1. running' \in SUBSET alive
    BY <1>6 DEF Deploy, StartAccepted, MayRun
  <2>2. deployed' \in SUBSET born
    BY <1>6 DEF Deploy, StartAccepted
  <2>3. pc' \in [Actors -> Labels] /\ ok' \in [Actors -> BOOLEAN]
    BY <1>6 DEF Deploy
  <2>4. QED
    BY <1>6, <2>1, <2>2, <2>3 DEF Deploy
<1>7. ASSUME NEW a \in Actors, DeleteVM(a) PROVE TypeOK'
  BY <1>7 DEF DeleteVM
<1>8. ASSUME NEW a \in Actors, SetHealthState(a) PROVE TypeOK'
  <2>1. asleep' \in SUBSET born
    BY <1>8 DEF SetHealthState, Switched
  <2>2. ok' \in [Actors -> BOOLEAN] /\ pc' \in [Actors -> Labels]
    BY <1>8 DEF SetHealthState, Switched
  <2>3. QED
    BY <1>8, <2>1, <2>2 DEF SetHealthState, Switched
<1>9. ASSUME NEW a \in Actors, SendTargetIps(a) PROVE TypeOK'
  <2>1. vm[a] \in VMs
    BY <1>9 DEF SendTargetIps
  <2>2. pending' \in SUBSET [by : Actors, vm : VMs, action : {"add", "del"}]
    BY <1>9, <2>1 DEF SendTargetIps
  <2>3. ok' \in [Actors -> BOOLEAN] /\ pc' \in [Actors -> Labels]
    BY <1>9 DEF SendTargetIps
  <2>4. QED
    BY <1>9, <2>2, <2>3 DEF SendTargetIps
<1>10. ASSUME NEW a \in Actors, AwaitTimesOut(a) PROVE TypeOK'
  BY <1>10 DEF AwaitTimesOut
<1>11. ASSUME NEW q \in pending, UpdateGlobalTargetAddrs(q) PROVE TypeOK'
  BY <1>11 DEF UpdateGlobalTargetAddrs, Applied, HotReloadEnvoyConfig
<1>12. CASE AutoFinish
  <2>1. scaledVMs' \in Seq(VMs)
    BY <1>12 DEF AutoFinish, Recorded
  <2>2. pc' \in [Actors -> Labels] /\ holder' \in Actors \cup {None}
    BY <1>12 DEF AutoFinish, Recorded, Return
  <2>3. state' \in States /\ retain' \in Nat /\ history' \in Seq(0..MaxTime)
    <3>1. op["auto"] = "scale_up" /\ history = <<>>
      BY <1>12 DEF AutoFinish, Recorded
    <3>2. CASE CalculateRetention
      <4>1. history' = <<now>> /\ state' = "Triggered" /\ retain' \in Nat
        BY <3>1, <3>2, RetentionOne
      <4>2. <<now>> \in Seq(0..MaxTime)
        OBVIOUS
      <4>3. QED
        BY <4>1, <4>2
    <3>3. CASE UNCHANGED <<state, history, retain>>
      BY <3>3
    <3>4. QED
      BY <1>12, <3>1, <3>2, <3>3 DEF AutoFinish, Recorded
  <2>4. QED
    BY <1>12, <2>1, <2>2, <2>3 DEF AutoFinish, Recorded
<1>13. ASSUME NEW r \in Requests, ManualFinish(r) PROVE TypeOK'
  BY <1>13 DEF ManualFinish, Return
<1>14. CASE Restart
  BY <1>14 DEF Restart
<1>15. CASE UNCHANGED vars
  BY <1>15 DEF vars
<1>16. QED
  BY <1>1, <1>2, <1>3, <1>4, <1>5, <1>6, <1>7, <1>8,
     <1>9, <1>10, <1>11, <1>12, <1>13, <1>14, <1>15 DEF Next, CallStep, BoundedStep, UnboundedStep

\* A call begins where its operation and its VM say.
LEMMA BeginCall ==
  ASSUME TypeOK, CallInv, NEW a \in Actors, NEW operation \in Ops,
         NEW given \in VMs \cup {None}, Begin(a, operation, given)
  PROVE  CallInv'
<1>1. Target(given) \in VMs \cup {None}
  BY TargetType
<1> DEFINE first == FirstStep(operation, Target(given))
<1>2. /\ first \in {"create", "deploy", "delete", "health", "finish"}
      /\ first \in HasVM => Target(given) # None
      /\ first \in {"create", "deploy"} => operation = "scale_up"
      /\ first = "delete" => operation = "release"
      /\ first = "health" => operation \in {"sleep", "restart"}
  BY FirstStepFacts
<1>3. /\ pc' = [pc EXCEPT ![a] = first]
      /\ vm' = [vm EXCEPT ![a] = Target(given)]
      /\ op' = [op EXCEPT ![a] = operation]
      /\ ok' = [ok EXCEPT ![a] = FALSE]
  BY DEF Begin, Goto
<1> HIDE DEF first
<1>4. QED
  BY <1>1, <1>2, <1>3 DEF TypeOK, CallInv, HasVM

LEMMA StepCall == TypeOK /\ CallInv /\ [Next]_vars => CallInv'
<1> SUFFICES ASSUME TypeOK /\ CallInv, [Next]_vars PROVE CallInv'
  OBVIOUS
<1> USE ActorFacts, ActorsAssumption, NoneAssumption, TimeAssumption
        DEF TypeOK, CallInv, HasVM, Goto, StepFails, callVars, nodeVars, envoyVars, cloudVars
<1>1. CASE Tick
  BY <1>1 DEF Tick
<1>2. CASE AutoScaling
  <2>1. PICK hot \in BOOLEAN :
          LET plan == Plan(state, now < retain, hot) IN
            IF plan.op = None THEN UNCHANGED <<holder, callVars>>
                              ELSE Begin("auto", plan.op, None)
    BY <1>2 DEF AutoScaling
  <2> DEFINE plan == Plan(state, now < retain, hot)
  <2>2. plan.op \in Ops \cup {None}
    BY DEF Plan, Ops
  <2>3. CASE plan.op = None
    BY <2>1, <2>3
  <2>4. CASE plan.op # None
    BY <2>1, <2>2, <2>4, BeginCall
  <2>5. QED
    BY <2>3, <2>4
<1>3. ASSUME NEW r \in Requests, ManualScaling(r) PROVE CallInv'
  <2>1. CASE Goto(r, "returned") /\ UNCHANGED <<holder, op, vm, ok>>
    BY <2>1
  <2>2. ASSUME NEW operation \in Ops, NEW given \in born \cup {None},
               Begin(r, operation, given)
        PROVE  CallInv'
    BY <2>2, BeginCall
  <2>3. QED
    BY <1>3, <2>1, <2>2 DEF ManualScaling
<1>4. ASSUME NEW a \in Actors, CreateVM(a) PROVE CallInv'
  BY <1>4 DEF CreateVM
<1>5. ASSUME NEW a \in Actors, GetVMPublicIP(a) PROVE CallInv'
  BY <1>5 DEF GetVMPublicIP
<1>6. ASSUME NEW a \in Actors, Deploy(a) PROVE CallInv'
  BY <1>6 DEF Deploy, StartAccepted, MayRun
<1>7. ASSUME NEW a \in Actors, DeleteVM(a) PROVE CallInv'
  BY <1>7 DEF DeleteVM
<1>8. ASSUME NEW a \in Actors, SetHealthState(a) PROVE CallInv'
  BY <1>8 DEF SetHealthState, Switched
<1>9. ASSUME NEW a \in Actors, SendTargetIps(a) PROVE CallInv'
  BY <1>9 DEF SendTargetIps
<1>10. ASSUME NEW a \in Actors, AwaitTimesOut(a) PROVE CallInv'
  BY <1>10 DEF AwaitTimesOut
<1>11. ASSUME NEW q \in pending, UpdateGlobalTargetAddrs(q) PROVE CallInv'
  BY <1>11 DEF UpdateGlobalTargetAddrs, Applied, HotReloadEnvoyConfig
<1>12. CASE AutoFinish
  BY <1>12 DEF AutoFinish, Recorded, CalculateRetention, Return
<1>13. ASSUME NEW r \in Requests, ManualFinish(r) PROVE CallInv'
  BY <1>13 DEF ManualFinish, Return
<1>14. CASE Restart
  BY <1>14 DEF Restart
<1>15. CASE UNCHANGED vars
  BY <1>15 DEF vars
<1>16. QED
  BY <1>1, <1>2, <1>3, <1>4, <1>5, <1>6, <1>7, <1>8,
     <1>9, <1>10, <1>11, <1>12, <1>13, <1>14, <1>15 DEF Next, CallStep, BoundedStep, UnboundedStep

\* Every step keeps the ticker's call and the node's state in agreement: while the
\* call runs the node is ScalingUp and has no VM recorded.
LEMMA StepAuto == TypeOK /\ CallInv /\ AutoInv /\ [Next]_vars => AutoInv'
<1> SUFFICES ASSUME TypeOK /\ CallInv /\ AutoInv, [Next]_vars PROVE AutoInv'
  OBVIOUS
<1> USE ActorFacts, ActorsAssumption, NoneAssumption, TimeAssumption
        DEF TypeOK, CallInv, AutoInv, HasVM, Working, Goto, StepFails, callVars, nodeVars, envoyVars, cloudVars
<1>1. CASE Tick
  BY <1>1 DEF Tick
<1>2. CASE AutoScaling
  BY <1>2 DEF AutoScaling, Begin, Plan, FirstStep, Target
<1>3. ASSUME NEW r \in Requests, ManualScaling(r) PROVE AutoInv'
  BY <1>3 DEF ManualScaling, Begin, FirstStep, Target
<1>4. ASSUME NEW a \in Actors, CreateVM(a) PROVE AutoInv'
  BY <1>4 DEF CreateVM
<1>5. ASSUME NEW a \in Actors, GetVMPublicIP(a) PROVE AutoInv'
  BY <1>5 DEF GetVMPublicIP
<1>6. ASSUME NEW a \in Actors, Deploy(a) PROVE AutoInv'
  BY <1>6 DEF Deploy, StartAccepted, MayRun
<1>7. ASSUME NEW a \in Actors, DeleteVM(a) PROVE AutoInv'
  BY <1>7 DEF DeleteVM
<1>8. ASSUME NEW a \in Actors, SetHealthState(a) PROVE AutoInv'
  BY <1>8 DEF SetHealthState, Switched
<1>9. ASSUME NEW a \in Actors, SendTargetIps(a) PROVE AutoInv'
  BY <1>9 DEF SendTargetIps
<1>10. ASSUME NEW a \in Actors, AwaitTimesOut(a) PROVE AutoInv'
  BY <1>10 DEF AwaitTimesOut
<1>11. ASSUME NEW q \in pending, UpdateGlobalTargetAddrs(q) PROVE AutoInv'
  BY <1>11 DEF UpdateGlobalTargetAddrs, Applied, HotReloadEnvoyConfig
<1>12. CASE AutoFinish
  <2>1. op["auto"] = "scale_up" /\ history = <<>> /\ state = "ScalingUp"
    BY <1>12 DEF AutoFinish, Recorded
  <2>2. \/ state' = "Triggered" /\ history' = <<now>>
        \/ UNCHANGED <<state, history>>
    BY <1>12, <2>1, RetentionOne DEF AutoFinish, Recorded
  <2>3. Len(<<>>) <= 1 /\ Len(<<now>>) <= 1
    OBVIOUS
  <2>4. pc'["auto"] = "idle" /\ op' = op
    BY <1>12 DEF AutoFinish, Recorded, Return
  <2>5. QED
    BY <2>1, <2>2, <2>3, <2>4
<1>13. ASSUME NEW r \in Requests, ManualFinish(r) PROVE AutoInv'
  BY <1>13 DEF ManualFinish, Return
<1>14. CASE Restart
  BY <1>14 DEF Restart
<1>15. CASE UNCHANGED vars
  BY <1>15 DEF vars
<1>16. QED
  BY <1>1, <1>2, <1>3, <1>4, <1>5, <1>6, <1>7, <1>8,
     <1>9, <1>10, <1>11, <1>12, <1>13, <1>14, <1>15 DEF Next, CallStep, BoundedStep, UnboundedStep

\* Every step keeps the list of targets Envoy was given within what was deployed.
LEMMA StepTarget == TypeOK /\ CallInv /\ AutoInv /\ TargetInv /\ [Next]_vars => TargetInv'
<1> SUFFICES ASSUME TypeOK /\ CallInv /\ AutoInv /\ TargetInv, [Next]_vars PROVE TargetInv'
  OBVIOUS
<1> USE ActorFacts, ActorsAssumption, NoneAssumption, TimeAssumption
        DEF TypeOK, CallInv, AutoInv, TargetInv, HasVM, Working, Goto, StepFails, callVars, nodeVars, envoyVars, cloudVars
<1>1. CASE Tick
  BY <1>1 DEF Tick
<1>2. CASE AutoScaling
  BY <1>2, SMTT(30) DEF AutoScaling, Begin, Plan, FirstStep, Target
<1>3. ASSUME NEW r \in Requests, ManualScaling(r) PROVE TargetInv'
  BY <1>3 DEF ManualScaling, Begin, FirstStep, Target
<1>4. ASSUME NEW a \in Actors, CreateVM(a) PROVE TargetInv'
  BY <1>4 DEF CreateVM
<1>5. ASSUME NEW a \in Actors, GetVMPublicIP(a) PROVE TargetInv'
  BY <1>5 DEF GetVMPublicIP
<1>6. ASSUME NEW a \in Actors, Deploy(a) PROVE TargetInv'
  BY <1>6 DEF Deploy, StartAccepted, MayRun
<1>7. ASSUME NEW a \in Actors, DeleteVM(a) PROVE TargetInv'
  BY <1>7 DEF DeleteVM
<1>8. ASSUME NEW a \in Actors, SetHealthState(a) PROVE TargetInv'
  <2>1. a # "auto" /\ UNCHANGED <<envoyVars, deployed, op, vm>>
    BY <1>8 DEF SetHealthState, Switched
  <2>2. pc' = [pc EXCEPT ![a] = "finish"]
    BY <1>8 DEF SetHealthState, Switched
  <2>3. ok'["auto"] = ok["auto"]
    BY <1>8, <2>1 DEF SetHealthState, Switched
  <2>4. QED
    BY <2>1, <2>2, <2>3
<1>9. ASSUME NEW a \in Actors, SendTargetIps(a) PROVE TargetInv'
  BY <1>9 DEF SendTargetIps
<1>10. ASSUME NEW a \in Actors, AwaitTimesOut(a) PROVE TargetInv'
  BY <1>10 DEF AwaitTimesOut
<1>11. ASSUME NEW q \in pending, UpdateGlobalTargetAddrs(q) PROVE TargetInv'
  BY <1>11 DEF UpdateGlobalTargetAddrs, Applied, HotReloadEnvoyConfig
<1>12. CASE AutoFinish
  BY <1>12 DEF AutoFinish, Recorded, CalculateRetention, Return
<1>13. ASSUME NEW r \in Requests, ManualFinish(r) PROVE TargetInv'
  BY <1>13 DEF ManualFinish, Return
<1>14. CASE Restart
  BY <1>14 DEF Restart
<1>15. CASE UNCHANGED vars
  BY <1>15 DEF vars
<1>16. QED
  BY <1>1, <1>2, <1>3, <1>4, <1>5, <1>6, <1>7, <1>8,
     <1>9, <1>10, <1>11, <1>12, <1>13, <1>14, <1>15 DEF Next, CallStep, BoundedStep, UnboundedStep

\* Every step keeps a triggered node within the VMs recorded for it.
LEMMA StepRecorded == TypeOK /\ CallInv /\ AutoInv /\ TargetInv /\ TriggeredIsRecorded /\ [Next]_vars => TriggeredIsRecorded'
<1> SUFFICES ASSUME TypeOK /\ CallInv /\ AutoInv /\ TargetInv /\ TriggeredIsRecorded, [Next]_vars PROVE TriggeredIsRecorded'
  OBVIOUS
<1> USE ActorFacts, ActorsAssumption, NoneAssumption, TimeAssumption
        DEF TypeOK, CallInv, AutoInv, TargetInv, HasVM, Working, TriggeredIsRecorded, Goto, StepFails, callVars, nodeVars, envoyVars, cloudVars
<1>1. CASE Tick
  BY <1>1 DEF Tick
<1>2. CASE AutoScaling
  BY <1>2 DEF AutoScaling, Begin, Plan, FirstStep, Target
<1>3. ASSUME NEW r \in Requests, ManualScaling(r) PROVE TriggeredIsRecorded'
  BY <1>3 DEF ManualScaling, Begin, FirstStep, Target
<1>4. ASSUME NEW a \in Actors, CreateVM(a) PROVE TriggeredIsRecorded'
  BY <1>4 DEF CreateVM
<1>5. ASSUME NEW a \in Actors, GetVMPublicIP(a) PROVE TriggeredIsRecorded'
  BY <1>5 DEF GetVMPublicIP
<1>6. ASSUME NEW a \in Actors, Deploy(a) PROVE TriggeredIsRecorded'
  BY <1>6 DEF Deploy, StartAccepted, MayRun
<1>7. ASSUME NEW a \in Actors, DeleteVM(a) PROVE TriggeredIsRecorded'
  BY <1>7 DEF DeleteVM
<1>8. ASSUME NEW a \in Actors, SetHealthState(a) PROVE TriggeredIsRecorded'
  BY <1>8 DEF SetHealthState, Switched
<1>9. ASSUME NEW a \in Actors, SendTargetIps(a) PROVE TriggeredIsRecorded'
  BY <1>9 DEF SendTargetIps
<1>10. ASSUME NEW a \in Actors, AwaitTimesOut(a) PROVE TriggeredIsRecorded'
  BY <1>10 DEF AwaitTimesOut
<1>11. ASSUME NEW q \in pending, UpdateGlobalTargetAddrs(q) PROVE TriggeredIsRecorded'
  BY <1>11 DEF UpdateGlobalTargetAddrs, Applied, HotReloadEnvoyConfig
<1>12. CASE AutoFinish
  BY <1>12 DEF AutoFinish, Recorded, CalculateRetention, Return
<1>13. ASSUME NEW r \in Requests, ManualFinish(r) PROVE TriggeredIsRecorded'
  BY <1>13 DEF ManualFinish, Return
<1>14. CASE Restart
  BY <1>14 DEF Restart
<1>15. CASE UNCHANGED vars
  BY <1>15 DEF vars
<1>16. QED
  BY <1>1, <1>2, <1>3, <1>4, <1>5, <1>6, <1>7, <1>8,
     <1>9, <1>10, <1>11, <1>12, <1>13, <1>14, <1>15 DEF Next, CallStep, BoundedStep, UnboundedStep

LEMMA StepInv == Inv /\ [Next]_vars => Inv'
BY StepType, StepCall, StepAuto, StepTarget, StepRecorded DEF Inv

LEMMA Invariance == Spec => []Inv
BY InitInv, StepInv, PTL DEF Spec

\* Every variable keeps its type.
THEOREM TypeCorrect == Spec => []TypeOK
<1>1. Inv => TypeOK
  BY DEF Inv
<1>2. QED
  BY <1>1, Invariance, PTL

\* One process fires at most once: AutoFinish only ever finds the node in
\* ScalingUp, and AutoInv' leaves it no other end than Triggered.
THEOREM FiresOnce == Spec => OneShot
<1> DEFINE Moves == state' # state =>
                      \/ <<state, state'>> \in {<<"Inactive", "ScalingUp">>,
                                               <<"ScalingUp", "Triggered">>}
                      \/ restarts' # restarts
<1>1. Inv /\ Inv' /\ [Next]_vars => Moves
  <2> SUFFICES ASSUME Inv, Inv', [Next]_vars PROVE Moves
    OBVIOUS
  <2> USE DEF nodeVars
  <2>1. CASE AutoScaling
    BY <2>1 DEF AutoScaling, Plan, Inv, AutoInv
  <2>2. CASE AutoFinish
    <3>1. state = "ScalingUp"
      BY <2>2 DEF AutoFinish, Inv, AutoInv, Working
    <3>2. state' \in {"ScalingUp", "Triggered"}
      BY <2>2, <3>1 DEF AutoFinish, CalculateRetention, Inv, AutoInv, Working
    <3>3. QED
      BY <3>1, <3>2
  <2>3. CASE Restart
    BY <2>3 DEF Restart, Inv, TypeOK
  <2>4. ASSUME NEW a \in Actors, CallStep(a) PROVE state' = state
    BY <2>4 DEF CallStep, BoundedStep, UnboundedStep, CreateVM, GetVMPublicIP, Deploy, DeleteVM,
                SetHealthState, SendTargetIps, AwaitTimesOut
  <2>5. ASSUME NEW r \in Requests, ManualScaling(r) \/ ManualFinish(r)
        PROVE state' = state
    BY <2>5 DEF ManualScaling, ManualFinish
  <2>6. ASSUME NEW q \in pending, UpdateGlobalTargetAddrs(q)
        PROVE state' = state
    BY <2>6 DEF UpdateGlobalTargetAddrs
  <2>7. CASE Tick \/ UNCHANGED vars
    BY <2>7 DEF Tick, vars
  <2>8. QED
    BY <2>1, <2>2, <2>3, <2>4, <2>5, <2>6, <2>7 DEF Next
<1>2. QED
  BY <1>1, Invariance, StepInv, PTL DEF Spec, OneShot

\* A triggered node knows a VM whose deployment was reported a success.
THEOREM TriggeredRecorded == Spec => []TriggeredIsRecorded
<1>1. Inv => TriggeredIsRecorded
  BY DEF Inv
<1>2. QED
  BY <1>1, Invariance, PTL

\* Envoy is only given VMs whose deployment was reported a success.
THEOREM OnlyDeployed == Spec => []TargetsDeployed
<1>1. Inv => TargetsDeployed
  BY DEF Inv, TargetInv, TargetsDeployed
<1>2. QED
  BY <1>1, Invariance, PTL

-----------------------------------------------------------------------------
(* What a process may still create by itself, and what was asked of it.    *)
(* The instances are counted against the manual scale-ups that are past    *)
(* CreateVM: finitely many, whatever the set of requests.                  *)

Called == {r \in Requests : op[r] # None}
Spent == {r \in Requests : op[r] = "scale_up" /\ pc[r] # "create"}
Credit == IF state = "Inactive" \/ pc["auto"] = "create" THEN 1 ELSE 0

SpendInv ==
  /\ \A r \in Requests : pc[r] = "idle" => op[r] = None
  /\ IsFiniteSet(born) /\ IsFiniteSet(Called)
  /\ Cardinality(born) + Credit <= Cardinality(Spent) + 1 + restarts

LEMMA InitSpend == Init => SpendInv
<1> SUFFICES ASSUME Init PROVE SpendInv
  OBVIOUS
<1>1. born = {} /\ Called = {} /\ Spent = {} /\ restarts = 0 /\ Credit = 1
  BY ActorFacts, NoneAssumption DEF Init, Called, Spent, Credit, Ops
<1>2. IsFiniteSet({}) /\ Cardinality({}) = 0
  BY FS_EmptySet
<1>3. \A r \in Requests : op[r] = None
  BY ActorFacts DEF Init
<1>4. QED
  BY <1>1, <1>2, <1>3 DEF SpendInv

LEMMA SpendTypes ==
  ASSUME TypeOK, SpendInv
  PROVE  /\ IsFiniteSet(Spent) /\ Cardinality(Spent) \in Nat
         /\ Cardinality(born) \in Nat /\ restarts \in Nat /\ Credit \in {0, 1}
<1>1. Spent \subseteq Called
  BY NoneAssumption DEF Spent, Called, Ops
<1>2. IsFiniteSet(Spent) /\ Cardinality(Spent) \in Nat
  BY <1>1, FS_Subset, FS_CardinalityType DEF SpendInv
<1>3. Cardinality(born) \in Nat /\ restarts \in Nat
  BY FS_CardinalityType, TimeAssumption DEF SpendInv, TypeOK
<1>4. QED
  BY <1>2, <1>3 DEF Credit

\* A step that creates nothing and gives the process nothing to spend.
LEMMA SpendKept ==
  ASSUME TypeOK, SpendInv, TypeOK', born' = born,
         IsFiniteSet(Called'), Spent \subseteq Spent',
         \A r \in Requests : pc'[r] = "idle" => op'[r] = None,
         Credit' + restarts <= Credit + restarts'
  PROVE  SpendInv'
<1>1. Spent' \subseteq Called'
  BY NoneAssumption DEF Spent, Called, Ops
<1>2. IsFiniteSet(Spent') /\ Cardinality(Spent) <= Cardinality(Spent')
  BY <1>1, FS_Subset
<1>3. Cardinality(Spent') \in Nat /\ restarts' \in Nat
  BY <1>2, FS_CardinalityType, TimeAssumption DEF TypeOK
<1>4. Credit' \in {0, 1}
  BY DEF Credit
<1>5. Cardinality(born') + Credit' <= Cardinality(Spent') + 1 + restarts'
  BY <1>2, <1>3, <1>4, SpendTypes DEF SpendInv
<1>6. QED
  BY <1>5 DEF SpendInv

\* The steps of a call but CreateVM.
LEMMA SpendElsewhere ==
  ASSUME TypeOK, CallInv, AutoInv, SpendInv, TypeOK', NEW a \in Actors, NEW label \in Labels,
         pc[a] # "idle", label \notin {"idle", "create"} \/ (a = "auto" /\ label = "idle"),
         pc' = [pc EXCEPT ![a] = label],
         UNCHANGED <<op, born, restarts>>, state' = "Inactive" => state = "Inactive"
  PROVE  SpendInv'
<1>1. Called' = Called
  BY DEF Called
<1>2. Spent \subseteq Spent'
  BY ActorFacts, ActorsAssumption DEF Spent, TypeOK, Actors
<1>3. Credit' <= Credit
  BY ActorFacts DEF Credit, TypeOK
<1>4. \A r \in Requests : pc'[r] = "idle" => op'[r] = None
  BY ActorFacts, ActorsAssumption DEF SpendInv, TypeOK
<1>5. Credit' + restarts <= Credit + restarts'
  BY <1>3, SpendTypes DEF Credit
<1>6. QED
  BY <1>1, <1>2, <1>4, <1>5, SpendKept DEF SpendInv

LEMMA SpendCreate ==
  ASSUME TypeOK, AutoInv, CallInv, SpendInv, TypeOK', NEW a \in Actors, CreateVM(a)
  PROVE  SpendInv'
<1>1. /\ pc[a] = "create" /\ UNCHANGED <<op, state, restarts>>
      /\ \E label \in {"poll", "finish"} : pc' = [pc EXCEPT ![a] = label]
      /\ born' = born \/ \E v \in VMs \ born : born' = born \cup {v}
  BY DEF CreateVM, nodeVars, StepFails, Goto
<1>2. PICK label \in {"poll", "finish"} : pc' = [pc EXCEPT ![a] = label]
  BY <1>1
<1>3. IsFiniteSet(born') /\ Cardinality(born') <= Cardinality(born) + 1 /\ Cardinality(born') \in Nat
  <2>1. CASE born' = born
    BY <2>1, SpendTypes DEF SpendInv
  <2>2. ASSUME NEW v \in VMs \ born, born' = born \cup {v}
        PROVE  IsFiniteSet(born') /\ Cardinality(born') = Cardinality(born) + 1
    BY <2>2, FS_AddElement DEF SpendInv
  <2>3. QED
    BY <1>1, <2>1, <2>2, SpendTypes
<1>4. Called' = Called
  BY <1>1 DEF Called
<1>5. \A r \in Requests : pc'[r] = "idle" => op'[r] = None
  BY <1>1, <1>2, ActorFacts DEF SpendInv, TypeOK
<1>6. CASE a = "auto"
  <2>1. Credit = 1 /\ Credit' = 0
    BY <1>1, <1>2, <1>6, ActorFacts DEF Credit, AutoInv, Working, TypeOK
  <2>2. Spent' = Spent
    BY <1>1, <1>2, <1>6, ActorFacts, ActorsAssumption DEF Spent, TypeOK
  <2>3. Cardinality(born') + Credit' <= Cardinality(Spent') + 1 + restarts'
    BY <1>1, <1>3, <2>1, <2>2, SpendTypes DEF SpendInv
  <2>4. QED
    BY <1>3, <1>4, <1>5, <2>3 DEF SpendInv
<1>7. CASE a # "auto"
  <2>1. a \in Requests /\ op[a] = "scale_up"
    BY <1>1, <1>7 DEF Actors, CallInv
  <2>2. Credit' = Credit
    BY <1>1, <1>2, <1>7, ActorFacts DEF Credit, TypeOK
  <2>3. Spent' = Spent \cup {a} /\ a \notin Spent
    BY <1>1, <1>2, <2>1, ActorFacts DEF Spent, TypeOK
  <2>4. Cardinality(Spent') = Cardinality(Spent) + 1
    BY <2>3, SpendTypes, FS_AddElement
  <2>5. Cardinality(born') + Credit' <= Cardinality(Spent') + 1 + restarts'
    BY <1>1, <1>3, <2>2, <2>4, SpendTypes DEF SpendInv
  <2>6. QED
    BY <1>3, <1>4, <1>5, <2>5 DEF SpendInv
<1>8. QED
  BY <1>6, <1>7

LEMMA SpendBegin ==
  ASSUME TypeOK, SpendInv, TypeOK', NEW r \in Requests, pc[r] = "idle",
         NEW operation \in Ops, NEW given \in born \cup {None}, Begin(r, operation, given),
         UNCHANGED <<state, born, restarts>>
  PROVE  SpendInv'
<1>1. op[r] = None /\ IsFiniteSet(Called)
  BY DEF SpendInv
<1>2. /\ op' = [op EXCEPT ![r] = operation]
      /\ pc' = [pc EXCEPT ![r] = FirstStep(operation, Target(given))]
  BY DEF Begin, Goto
<1>3. FirstStep(operation, Target(given)) # "idle"
  BY FirstStepFacts
<1>4. Called' = Called \cup {r}
  BY <1>1, <1>2, NoneAssumption, ActorFacts DEF Called, TypeOK
<1>5. IsFiniteSet(Called')
  BY <1>1, <1>4, FS_AddElement, Zenon
<1>6. Spent \subseteq Spent'
  BY <1>1, <1>2, NoneAssumption, ActorFacts DEF Spent, TypeOK, Ops
<1>7. \A q \in Requests : pc'[q] = "idle" => op'[q] = None
  BY <1>2, <1>3, ActorFacts DEF SpendInv, TypeOK
<1>8. Credit' = Credit
  BY <1>2, ActorFacts, ActorsAssumption DEF Credit, TypeOK
<1>9. Credit' + restarts <= Credit + restarts'
  BY <1>8, SpendTypes
<1>10. QED
  BY <1>5, <1>6, <1>7, <1>9, SpendKept

LEMMA StepSpend == Inv /\ Inv' /\ SpendInv /\ [Next]_vars => SpendInv'
<1> SUFFICES ASSUME Inv, Inv', SpendInv, [Next]_vars PROVE SpendInv'
  OBVIOUS
<1>0. TypeOK /\ TypeOK' /\ CallInv /\ AutoInv
  BY DEF Inv
<1>1. CASE UNCHANGED <<pc, op, state, born, restarts>>
  <2>1. Called' = Called /\ Spent' = Spent /\ Credit' = Credit
    BY <1>1 DEF Called, Spent, Credit
  <2>2. QED
    BY <1>1, <2>1 DEF SpendInv
<1>2. CASE AutoScaling
  <2>1. UNCHANGED <<born, restarts>>
    BY <1>2 DEF AutoScaling, cloudVars
  <2>2. \A r \in Requests : op'[r] = op[r] /\ pc'[r] = pc[r]
    BY <1>0, <1>2, ActorFacts, ActorsAssumption DEF AutoScaling, Begin, Goto, callVars, TypeOK
  <2>3. Credit' <= Credit
    BY <1>0, <1>2, ActorFacts, ActorsAssumption
       DEF AutoScaling, Begin, Goto, Plan, FirstStep, Target, Credit, AutoInv, Working, HasVM, callVars, TypeOK
  <2>4. Called' = Called /\ Spent' = Spent
    BY <2>2 DEF Called, Spent
  <2>5. Credit' + restarts <= Credit + restarts'
    BY <1>0, <2>1, <2>3, SpendTypes DEF Credit
  <2>6. \A r \in Requests : pc'[r] = "idle" => op'[r] = None
    BY <2>2 DEF SpendInv
  <2>7. QED
    BY <1>0, <2>1, <2>4, <2>5, <2>6, SpendKept DEF SpendInv
<1>3. ASSUME NEW r \in Requests, ManualScaling(r) PROVE SpendInv'
  <2>1. pc[r] = "idle" /\ UNCHANGED <<state, born, restarts>>
    BY <1>3 DEF ManualScaling, nodeVars, cloudVars
  <2>2. CASE Goto(r, "returned") /\ UNCHANGED <<holder, op, vm, ok>>
    <3>1. Called' = Called /\ Credit' = Credit
      BY <1>0, <2>1, <2>2, ActorFacts, ActorsAssumption DEF Called, Credit, Goto, TypeOK
    <3>2. Spent \subseteq Spent'
      BY <1>0, <2>2, ActorFacts DEF Spent, Goto, TypeOK
    <3>3. \A q \in Requests : pc'[q] = "idle" => op'[q] = None
      BY <1>0, <2>2, ActorFacts DEF SpendInv, Goto, TypeOK
    <3>4. Credit' + restarts <= Credit + restarts'
      BY <1>0, <2>1, <3>1, SpendTypes
    <3>5. QED
      BY <1>0, <2>1, <3>1, <3>2, <3>3, <3>4, SpendKept DEF SpendInv
  <2>3. ASSUME NEW operation \in Ops, NEW given \in born \cup {None}, Begin(r, operation, given)
        PROVE  SpendInv'
    BY <1>0, <2>1, <2>3, SpendBegin
  <2>4. QED
    BY <1>3, <2>2, <2>3 DEF ManualScaling
<1>4. ASSUME NEW a \in Actors, CreateVM(a) PROVE SpendInv'
  BY <1>0, <1>4, SpendCreate
<1>5. ASSUME NEW a \in Actors,
             GetVMPublicIP(a) \/ Deploy(a) \/ DeleteVM(a) \/ SetHealthState(a)
               \/ SendTargetIps(a) \/ AwaitTimesOut(a)
      PROVE  SpendInv'
  <2>1. PICK label \in {"deploy", "attach", "await", "finish"} : pc' = [pc EXCEPT ![a] = label]
    BY <1>5 DEF GetVMPublicIP, Deploy, DeleteVM, SetHealthState, SendTargetIps, AwaitTimesOut,
                StepFails, Goto
  <2>2. /\ pc[a] # "idle" /\ UNCHANGED <<op, born, state, restarts>>
    BY <1>5 DEF GetVMPublicIP, Deploy, DeleteVM, SetHealthState, SendTargetIps, AwaitTimesOut,
                cloudVars, nodeVars
  <2>3. QED
    BY <1>0, <2>1, <2>2, SpendElsewhere DEF Labels
<1>6. ASSUME NEW q \in pending, UpdateGlobalTargetAddrs(q) PROVE SpendInv'
  <2>1. UNCHANGED <<op, state, born, restarts>>
    BY <1>6 DEF UpdateGlobalTargetAddrs, nodeVars, cloudVars
  <2>2. CASE UNCHANGED pc
    BY <1>1, <2>1, <2>2
  <2>3. CASE pc[q.by] = "await" /\ pc' = [pc EXCEPT ![q.by] = "finish"]
    <3>1. q.by \in Actors
      BY <1>0 DEF TypeOK
    <3>2. QED
      BY <1>0, <2>1, <2>3, <3>1, SpendElsewhere DEF Labels
  <2>4. QED
    BY <1>6, <2>2, <2>3 DEF UpdateGlobalTargetAddrs, HotReloadEnvoyConfig, Goto
<1>7. CASE AutoFinish
  <2>1. /\ pc["auto"] = "finish" /\ pc' = [pc EXCEPT !["auto"] = "idle"]
        /\ UNCHANGED <<op, born, restarts>>
    BY <1>7 DEF AutoFinish, Return, Goto, cloudVars
  <2>2. state' = "Inactive" => state = "Inactive"
    BY <1>0, <1>7 DEF AutoFinish, CalculateRetention, AutoInv, Working
  <2>3. QED
    BY <1>0, <2>1, <2>2, ActorFacts, SpendElsewhere DEF Labels
<1>8. ASSUME NEW r \in Requests, ManualFinish(r) PROVE SpendInv'
  <2>1. /\ pc[r] = "finish" /\ pc' = [pc EXCEPT ![r] = "returned"]
        /\ UNCHANGED <<op, born, state, restarts>>
    BY <1>8 DEF ManualFinish, Return, Goto, cloudVars, nodeVars
  <2>2. QED
    BY <1>0, <2>1, ActorFacts, SpendElsewhere DEF Labels
<1>9. CASE Restart
  <2>1. UNCHANGED <<op, born>> /\ restarts' = restarts + 1
    BY <1>9 DEF Restart, cloudVars
  <2>2. \A r \in Requests : pc'[r] = IF pc[r] = "idle" THEN "idle" ELSE "returned"
    BY <1>9, ActorFacts, ActorsAssumption DEF Restart
  <2>3. Called' = Called /\ Spent \subseteq Spent'
    BY <2>1, <2>2, NoneAssumption DEF Called, Spent, SpendInv, Ops
  <2>4. Credit' + restarts <= Credit + restarts'
    BY <1>0, <2>1, SpendTypes DEF Credit
  <2>5. QED
    BY <1>0, <2>1, <2>2, <2>3, <2>4, SpendKept DEF SpendInv
<1>10. QED
  BY <1>1, <1>2, <1>3, <1>4, <1>5, <1>6, <1>7, <1>8, <1>9
     DEF Next, CallStep, BoundedStep, UnboundedStep, Tick, vars, callVars, nodeVars, cloudVars

\* The instances ever created are at most one for each manual scale-up and
\* one for each time the process started.
THEOREM Spending == Spec => []SpendBounded
<1>1. Inv /\ SpendInv => SpendBounded
  <2> SUFFICES ASSUME Inv, SpendInv PROVE SpendBounded
    OBVIOUS
  <2> DEFINE ups == {r \in Requests : op[r] = "scale_up"}
  <2>1. Spent \subseteq ups /\ ups \subseteq Called
    BY NoneAssumption DEF Spent, Called, Ops
  <2>2. IsFiniteSet(ups) /\ Cardinality(Spent) <= Cardinality(ups) /\ Cardinality(ups) \in Nat
    BY <2>1, FS_Subset, FS_CardinalityType DEF SpendInv
  <2> HIDE DEF ups
  <2>3. Cardinality(born) <= Cardinality(ups) + 1 + restarts
    BY <2>2, SpendTypes DEF SpendInv, Inv
  <2>4. QED
    BY <2>3 DEF SpendBounded, ups
<1>2. QED
  BY <1>1, InitSpend, StepSpend, Invariance, StepInv, PTL DEF Spec
=============================================================================
