--------------------------- MODULE EnvoyOperator ---------------------------
(* The Envoy operator of the control plane (pkg/envoy-manager): an in-memory  *)
(* configuration, the file it is rendered to, the epoch file /tmp/envoy_epoch *)
(* and the Envoy processes started from them.  Every change of the            *)
(* configuration renders the file and hot-restarts Envoy: a new process with  *)
(* the next restart epoch takes over from the one before it.                  *)
(*                                                                            *)
(* The operator's mutex is held from the change to the answer, so one request *)
(* is in progress at a time (pc); meanwhile Envoys may end and the control    *)
(* plane may crash.  The operator runs Envoy without --parent-shutdown        *)
(* options: Envoy's own side of a hot restart is external.                    *)
EXTENDS Naturals, Integers, FiniteSets, FiniteSetsExt

CONSTANTS Ports,        \* listening ports that requests may name
          DefaultPort,  \* the port enabled at start-up (8090)
          Addrs,        \* addresses of data proxies
          ProxyAddrs,   \* the addresses configured at start-up
          Broken,       \* the content of a file truncated by a failed rendering
          MaxOps,       \* bound: requests in a behaviour
          MaxBoots,     \* bound: starts of the control plane
          MaxDeaths     \* bound: Envoys that end by themselves

ASSUME EnvoyAssumption ==
    /\ DefaultPort \in Ports
    /\ ProxyAddrs \subseteq Addrs
    /\ {MaxOps, MaxBoots, MaxDeaths} \subseteq Nat

(* What an Envoy can be given, and that a truncated file is none of it.       *)
Confs == [listen : SUBSET Ports, targets : SUBSET Addrs]
ASSUME BrokenAssumption == Broken \notin Confs

VARIABLES pc,         \* where the control plane is
          cfg,        \* GlobalCfg: the ports and the target addresses
          file,       \* the configuration in the rendered file, or Broken
          epochFile,  \* the number in /tmp/envoy_epoch
          procs,      \* the running Envoys: epoch and configuration loaded
          launched,   \* the epoch of the Envoy being started
          answer,     \* the last answer given since the start
          inherited,  \* history: the newest Envoy when the epochs last
                      \* started over, or -1
          mishap,     \* history: since the last launch of epoch 0 an Envoy
                      \* ended, or the epoch of a new one was not written
          ops, boots, deaths  \* what the bounds count

envoy == <<file, epochFile, procs, launched>>
counts == <<ops, boots, deaths>>
vars == <<pc, cfg, envoy, answer, inherited, mishap, counts>>

Default == [ports |-> [p \in Ports |-> IF p = DefaultPort THEN "on" ELSE "absent"],
            targets |-> ProxyAddrs]

(* What Envoy is given of a configuration: the template skips the ports that  *)
(* are not enabled.                                                           *)
Rendered(c) == [listen |-> {p \in Ports : c.ports[p] = "on"}, targets |-> c.targets]

NewestEpoch == Max({p.epoch : p \in procs} \cup {-1})

Init ==
    /\ pc = "down" /\ cfg = Default
    /\ file = Broken /\ epochFile = 0 /\ procs = {} /\ launched = 0
    /\ answer = "none" /\ inherited = -1 /\ mishap = FALSE
    /\ ops = 0 /\ boots = 0 /\ deaths = 0

(* ------------------------------------------------------------------------ *)
(* Rendering and answering.                                                   *)
(* ------------------------------------------------------------------------ *)

(* A failed rendering leaves the old file, or a truncated one.                *)
RenderFails == \E f \in {file, Broken} : file' = f

Reply(a) ==
    /\ pc' = "idle"
    /\ answer' = a

(* Mutant: the file is rendered from the configuration before the change.     *)
ChangeToLate(c, next) ==
    /\ cfg' = c
    /\ \/ /\ file' = Rendered(cfg)
          /\ pc' = next
          /\ UNCHANGED answer
       \/ /\ RenderFails
          /\ Reply("error")

(* Change the configuration, render it and go on to Envoy.  The configuration *)
(* is not rolled back when the rendering fails.                               *)
ChangeTo(c, next) ==
    /\ cfg' = c
    /\ \/ /\ file' = Rendered(c)
          /\ pc' = next
          /\ UNCHANGED answer
       \/ /\ RenderFails
          /\ Reply("error")

Request ==
    /\ pc = "idle" /\ ops < MaxOps
    /\ ops' = ops + 1
    /\ UNCHANGED <<epochFile, procs, launched, inherited, mishap, boots, deaths>>

(* ------------------------------------------------------------------------ *)
(* The requests.                                                              *)
(* ------------------------------------------------------------------------ *)

(* CreateOrUpdateEnvoyPort: the port is enabled, whatever it was.             *)
CreateOrUpdateEnvoyPort(p) ==
    /\ Request
    /\ ChangeTo([cfg EXCEPT !.ports[p] = "on"], "choose")

(* DisableEnvoyPort: an unknown port is an error.                             *)
DisableEnvoyPort(p) ==
    /\ Request
    /\ IF cfg.ports[p] = "absent"
       THEN Reply("error") /\ UNCHANGED <<cfg, file>>
       ELSE ChangeTo([cfg EXCEPT !.ports[p] = "off"], "reload")

(* The addresses after an update; an action that is neither "add" nor "del"   *)
(* changes none of them.                                                      *)
Targets(action, addrs) ==
    CASE action = "add" -> cfg.targets \cup addrs
      [] action = "del" -> cfg.targets \ addrs
      [] OTHER          -> cfg.targets

(* UpdateGlobalTargetAddrs, of a client or of the scaler.                     *)
UpdateGlobalTargetAddrs(action, addrs) ==
    /\ Request
    /\ IF addrs = {}
       THEN Reply("error") /\ UNCHANGED <<cfg, file>>
       ELSE ChangeTo([cfg EXCEPT !.targets = Targets(action, addrs)], "reload")

(* ------------------------------------------------------------------------ *)
(* Starting Envoys.                                                           *)
(* ------------------------------------------------------------------------ *)

(* Envoy's side of a start (external): epoch 0 needs that no Envoy of this    *)
(* base id runs, epoch e the Envoy of epoch e - 1 as its parent and none of   *)
(* epoch e; the parent's own parent is ended.  Otherwise the process exits.   *)
Survives(e) ==
    /\ file' # Broken
    /\ \A p \in procs : p.epoch # e
    /\ IF e = 0 THEN procs = {} ELSE \E p \in procs : p.epoch = e - 1

TakesOver(e) ==
    procs' = {p \in procs : p.epoch >= e - 1} \cup {[epoch |-> e, conf |-> file']}

Launch(e) ==
    /\ launched' = e
    /\ IF Survives(e) THEN TakesOver(e) ELSE UNCHANGED procs

(* A creation asks pgrep whether an Envoy runs.                               *)
ChooseStart ==
    /\ pc = "choose"
    /\ pc' = IF procs = {} THEN "first" ELSE "reload"
    /\ UNCHANGED <<cfg, envoy, answer, inherited, mishap, counts>>

(* StartFirstEnvoy renders again and starts epoch 0; a failure of either is   *)
(* an error, and at start-up only a message.                                  *)
StartFirstEnvoy ==
    /\ pc = "first"
    /\ \/ /\ file' = Rendered(cfg)
          /\ Launch(0)
          /\ inherited' = NewestEpoch /\ mishap' = FALSE
          /\ pc' = "settle"
          /\ UNCHANGED answer
       \/ /\ file' \in {file, Broken, Rendered(cfg)}
          /\ Reply("error")
          /\ UNCHANGED <<procs, launched, inherited, mishap>>
    /\ UNCHANGED <<cfg, epochFile, counts>>

(* HotReloadEnvoyConfig asks pgrep first.                                     *)
CheckRunning ==
    /\ pc = "reload"
    /\ IF procs = {} THEN Reply("error") ELSE pc' = "next" /\ UNCHANGED answer
    /\ UNCHANGED <<cfg, envoy, inherited, mishap, counts>>

(* Mutant: the epoch is advanced when it is read and again when it is used.   *)
NextEpochTwice(read) == read + 2

(* The epoch after the one read from the epoch file.                          *)
NextEpoch(read) == read + 1

(* A file that cannot be read or holds no number counts as 0: the epochs      *)
(* start over beside the Envoys that run.                                     *)
HotReloadEnvoyConfig ==
    /\ pc = "next"
    /\ UNCHANGED file
    /\ \/ /\ \E read \in {epochFile, 0} :
                /\ Launch(NextEpoch(read))
                /\ inherited' = IF read = epochFile THEN inherited ELSE NewestEpoch
          /\ UNCHANGED mishap
          /\ pc' = "settle"
          /\ UNCHANGED answer
       \/ /\ Reply("error")
          /\ UNCHANGED <<procs, launched, inherited, mishap>>
    /\ UNCHANGED <<cfg, epochFile, counts>>

(* After one or two seconds the operator sends signal 0 to the new process:   *)
(* it has not waited for it, so a process that exited is a zombie and passes  *)
(* for alive.  It writes the epoch file; a failure, which may leave the file  *)
(* empty, is the reload's error, and only a message after a first start.      *)
Settle ==
    /\ pc = "settle"
    /\ \/ /\ epochFile' = launched
          /\ Reply("ok")
          /\ UNCHANGED mishap
       \/ /\ Reply(IF launched = 0 THEN "ok" ELSE "error")
          /\ mishap' = TRUE
          /\ epochFile' \in {epochFile, 0}
    /\ UNCHANGED <<cfg, file, procs, launched, inherited, counts>>

(* ------------------------------------------------------------------------ *)
(* The control plane and Envoy around them.                                   *)
(* ------------------------------------------------------------------------ *)

(* main: the default configuration, and a first Envoy in any case.            *)
Boot ==
    /\ pc = "down" /\ boots < MaxBoots
    /\ boots' = boots + 1
    /\ cfg' = Default
    /\ pc' = "first"
    /\ answer' = "none"
    /\ UNCHANGED <<envoy, inherited, mishap, ops, deaths>>

(* The control plane ends, at any point; its Envoys go on, or all end with it *)
(* when its service is stopped as a whole.                                    *)
Crash ==
    /\ pc # "down"
    /\ pc' = "down"
    /\ procs' \in {procs, {}}
    /\ mishap' = (mishap \/ pc = "settle")
    /\ epochFile' \in IF pc = "settle" THEN {epochFile, launched, 0} ELSE {epochFile}
    /\ UNCHANGED <<cfg, file, launched, answer, inherited, counts>>

(* A parent leaves once it has drained, while the Envoy after it runs.        *)
ParentExits ==
    /\ \E p \in procs : /\ p.epoch # NewestEpoch
                        /\ procs' = procs \ {p}
    /\ UNCHANGED <<pc, cfg, file, epochFile, launched, answer, inherited, mishap, counts>>

EnvoyDies ==
    /\ deaths < MaxDeaths
    /\ deaths' = deaths + 1
    /\ \E p \in procs : procs' = procs \ {p}
    /\ mishap' = TRUE
    /\ UNCHANGED <<pc, cfg, file, epochFile, launched, answer, inherited, ops, boots>>

Next ==
    \/ \E p \in Ports : CreateOrUpdateEnvoyPort(p) \/ DisableEnvoyPort(p)
    \/ \E a \in {"add", "del", "other"}, s \in SUBSET Addrs : UpdateGlobalTargetAddrs(a, s)
    \/ ChooseStart \/ StartFirstEnvoy \/ CheckRunning \/ HotReloadEnvoyConfig \/ Settle
    \/ Boot \/ Crash \/ ParentExits \/ EnvoyDies

Spec == Init /\ [][Next]_vars

(* ------------------------------------------------------------------------ *)
(* Properties.                                                                *)
(* ------------------------------------------------------------------------ *)

(* The shape of the state: an epoch is never higher than the number of        *)
(* requests that could have raised it, and at most two Envoys run, given what *)
(* Envoy does to the parent of its parent (TakesOver, external).              *)
TypeOK ==
    /\ pc \in {"down", "idle", "choose", "first", "reload", "next", "settle"}
    /\ cfg \in [ports : [Ports -> {"absent", "on", "off"}], targets : SUBSET Addrs]
    /\ file \in Confs \cup {Broken}
    /\ epochFile \in 0..ops /\ launched \in 0..ops
    /\ procs \subseteq [epoch : 0..ops, conf : Confs] /\ Cardinality(procs) <= 2
    /\ answer \in {"none", "ok", "error"}
    /\ inherited \in -1..ops /\ mishap \in BOOLEAN
    /\ ops \in 0..MaxOps /\ boots \in 0..MaxBoots /\ deaths \in 0..MaxDeaths

(* An acknowledged change is in effect: when the operator has answered a      *)
(* request with success, the newest Envoy runs the whole configuration, the   *)
(* changes of requests that failed before it included.  The exceptions are    *)
(* the code's.  Where the epochs started over beside an Envoy of epoch k (the *)
(* control plane restarted, or the epoch file could not be read), the reloads *)
(* up to epoch k answer success and change nothing (epochFile <= inherited);  *)
(* and an Envoy that ended, or an epoch that could not be written, breaks the *)
(* succession.                                                                *)
CatchesUp ==
    (/\ pc = "idle" /\ answer = "ok"
     /\ epochFile > inherited /\ ~mishap)
        => \E p \in procs : /\ p.epoch = NewestEpoch /\ p.epoch = epochFile
                            /\ p.conf = Rendered(cfg)

=============================================================================
