------------------------ MODULE EnvoyOperatorProofs ------------------------
(***************************************************************************)
(* Proofs about EnvoyOperator: the type invariant, of which "at most two   *)
(* Envoys" is the part that needs an argument, and CatchesUp.              *)
(***************************************************************************)
EXTENDS EnvoyOperator, FiniteSetTheorems, TLAPS

(* Running Envoys have different epochs, at most 1 apart.                  *)
Spans(P) ==
  \A p, q \in P : p.epoch <= q.epoch + 1 /\ (p.epoch = q.epoch => p = q)

(* In the middle of a request that goes on to a reload: its operation is   *)
(* counted, so there is room for one more epoch, and the file is rendered. *)
Reloading == pc \in {"choose", "reload", "next"}
Ready == Reloading => epochFile < ops /\ file = Rendered(cfg)

NewestIs(e) == (\E p \in procs : p.epoch = e) /\ (\A p \in procs : p.epoch <= e)
Larger(a, b) == IF a > b THEN a ELSE b

(* The epoch the newest Envoy should have: of the one being started, or in *)
(* the file; or that of an Envoy from before the restart, while it is      *)
(* still ahead of them.                                                    *)
Current == IF pc = "settle" THEN launched ELSE epochFile
Acknowledged == pc = "idle" /\ answer = "ok"

(* Without a mishap there is a succession: some Envoy runs when it should, *)
(* the newest one has the expected epoch, and if it was started since the  *)
(* restart, it runs the configuration in memory.                           *)
Succession ==
  ~mishap =>
    /\ (pc \in {"next", "settle"} \/ Acknowledged) => procs # {}
    /\ procs # {} => NewestIs(Larger(inherited, Current))
    /\ ((pc = "settle" \/ Acknowledged) /\ Current > inherited) =>
         \E p \in procs : p.epoch = Current /\ p.conf = Rendered(cfg)

IInv == TypeOK /\ Spans(procs) /\ Ready /\ Succession

-----------------------------------------------------------------------------
(* Facts about a set of Envoys.                                            *)

NewestOf(P) == Max({p.epoch : p \in P} \cup {-1})

LEMMA Newest ==
  ASSUME NEW n \in Nat, NEW P, P \subseteq [epoch : 0..n, conf : Confs], Spans(P)
  PROVE  /\ NewestOf(P) \in -1..n
         /\ P = {} => NewestOf(P) = -1
         /\ P # {} => \E p \in P : p.epoch = NewestOf(P)
         /\ \A p \in P : p.epoch <= NewestOf(P)
<1> DEFINE E == {p.epoch : p \in P} \cup {-1}
<1>1. \A p \in P : p.epoch \in 0..n
  OBVIOUS
<1>2. \E m \in E : \A x \in E : m >= x
  <2>1. CASE P = {}
    BY <2>1
  <2>2. CASE \E p \in P : \A q \in P : p.epoch >= q.epoch
    BY <2>2, <1>1
  <2>3. CASE P # {} /\ ~ \E p \in P : \A q \in P : p.epoch >= q.epoch
    <3>1. PICK p \in P : TRUE
      BY <2>3
    <3>2. PICK q \in P : q.epoch > p.epoch
      BY <2>3, <1>1
    <3>3. \A r \in P : q.epoch >= r.epoch
      BY <3>2, <1>1 DEF Spans
    <3> QED
      BY <3>3, <2>3
  <2> QED
    BY <2>1, <2>2, <2>3
<1>3. Max(E) \in E /\ \A x \in E : Max(E) >= x
  BY <1>2 DEF Max
<1>4. NewestOf(P) = Max(E)
  BY DEF NewestOf
<1>5. NewestOf(P) \in E /\ \A x \in E : NewestOf(P) >= x
  BY <1>3, <1>4
<1> HIDE DEF NewestOf
<1> QED
  BY <1>1, <1>5, SMTT(30)

LEMMA AtMostTwo ==
  ASSUME NEW n \in Nat, NEW P, P \subseteq [epoch : 0..n, conf : Confs], Spans(P)
  PROVE  IsFiniteSet(P) /\ Cardinality(P) <= 2
<1>1. \A p \in P : p.epoch \in 0..n
  OBVIOUS
<1>2. CASE P = {}
  BY <1>2, FS_EmptySet
<1>3. CASE P # {}
  <2>1. PICK p \in P : TRUE
    BY <1>3
  <2>2. PICK q \in P : P \subseteq {p, q}
    <3>1. CASE P \subseteq {p}
      BY <3>1
    <3>2. CASE \E q \in P : q # p
      <4>1. PICK q \in P : q # p
        BY <3>2
      <4>2. \A r \in P : r = p \/ r = q
        BY <4>1, <1>1 DEF Spans
      <4> QED
        BY <4>2
    <3> QED
      BY <3>1, <3>2
  <2>3. IsFiniteSet({p, q}) /\ Cardinality({p, q}) <= 2
    <3>1. IsFiniteSet({p}) /\ Cardinality({p}) = 1
      BY FS_Singleton
    <3>2. {p} \cup {q} = {p, q}
      OBVIOUS
    <3>3. /\ IsFiniteSet({p} \cup {q})
          /\ Cardinality({p} \cup {q}) = IF q \in {p} THEN Cardinality({p})
                                                     ELSE Cardinality({p}) + 1
      BY <3>1, FS_AddElement, Zenon
    <3>4. Cardinality({p} \cup {q}) \in {1, 2}
      BY <3>1, <3>3, SMTT(30)
    <3> QED
      BY <3>2, <3>3, <3>4
  <2> QED
    BY <2>2, <2>3, FS_Subset, FS_CardinalityType
<1> QED
  BY <1>2, <1>3

(* Envoys that end leave a set of the same kind.                           *)
LEMMA Fewer ==
  ASSUME NEW P, NEW Q \in SUBSET P, Spans(P)
  PROVE  Spans(Q)
BY DEF Spans

-----------------------------------------------------------------------------
(* Launching an Envoy, whatever comes of it.                               *)

LEMMA LaunchShape ==
  ASSUME TypeOK, Spans(procs), NEW e \in 0..ops, file' \in Confs \cup {Broken}, Launch(e)
  PROVE  /\ procs' \subseteq [epoch : 0..ops, conf : Confs]
         /\ Spans(procs')
         /\ launched' = e
<1>1. ops \in Nat /\ procs \subseteq [epoch : 0..ops, conf : Confs]
  BY EnvoyAssumption DEF TypeOK
<1>2. \A p \in procs : p.epoch \in 0..ops
  BY <1>1
<1>3. launched' = e
  BY DEF Launch
<1>5. CASE ~Survives(e)
  BY <1>1, <1>3, <1>5 DEF Launch
<1>6. CASE Survives(e)
  <2> DEFINE new == [epoch |-> e, conf |-> file']
             kept == {p \in procs : p.epoch >= e - 1}
  <2>1. procs' = kept \cup {new}
    BY <1>6 DEF Launch, TakesOver
  <2>2. new \in [epoch : 0..ops, conf : Confs] /\ new.epoch = e
    BY <1>6 DEF Survives
  <2>3. \A p \in kept : p.epoch = e - 1
    BY <1>2, <1>6 DEF Survives, Spans
  <2>4. Spans(kept)
    BY Fewer
  <2>5. Spans(kept \cup {new})
    <3> HIDE DEF kept, new
    <3> QED
      BY <2>2, <2>3, <2>4 DEF Spans
  <2> QED
    BY <1>1, <1>3, <2>1, <2>2, <2>5
<1> QED
  BY <1>5, <1>6

(* The newest epoch is an epoch, or -1.                                    *)
LEMMA NewestType == ASSUME TypeOK, Spans(procs) PROVE NewestEpoch \in -1..ops
<1>1. ops \in Nat /\ procs \subseteq [epoch : 0..ops, conf : Confs]
  BY EnvoyAssumption DEF TypeOK
<1> QED
  BY <1>1, Newest DEF NewestEpoch, NewestOf

(* A reload without a mishap, the epoch file read: beside an Envoy of an   *)
(* epoch not yet reached again nothing changes, otherwise the new Envoy is *)
(* the newest.                                                             *)
LEMMA LaunchNext ==
  ASSUME IInv, pc = "next", ~mishap, UNCHANGED file, Launch(NextEpoch(epochFile))
  PROVE  LET n == NextEpoch(epochFile)
         IN  /\ procs' # {}
             /\ (\E p \in procs' : p.epoch = Larger(inherited, n))
             /\ (\A p \in procs' : p.epoch <= Larger(inherited, n))
             /\ n > inherited =>
                  \E p \in procs' : p.epoch = n /\ p.conf = Rendered(cfg)
<1>1. ops \in Nat /\ procs \subseteq [epoch : 0..ops, conf : Confs]
  BY EnvoyAssumption DEF IInv, TypeOK
<1>2. \A p \in procs : p.epoch \in 0..ops
  BY <1>1
<1>3. epochFile \in Nat /\ inherited \in Int
  BY <1>1 DEF IInv, TypeOK
<1>4. procs # {} /\ NewestIs(Larger(inherited, epochFile)) /\ file = Rendered(cfg)
  BY DEF IInv, Succession, Ready, Reloading, Current
<1>5. file # Broken
  BY <1>4, BrokenAssumption DEF IInv, TypeOK, Rendered, Confs
<1> DEFINE e == epochFile + 1
           new == [epoch |-> e, conf |-> file]
<1>6. NextEpoch(epochFile) = e /\ e # 0
  BY <1>3 DEF NextEpoch
<1>7. CASE epochFile >= inherited
  <2>1. NewestIs(epochFile) /\ Larger(inherited, e) = e
    BY <1>3, <1>4, <1>7 DEF Larger
  <2>2. Survives(e)
    BY <1>2, <1>3, <1>5, <2>1 DEF Survives, NewestIs
  <2>3. procs' = {p \in procs : p.epoch >= e - 1} \cup {new}
    BY <1>6, <2>2 DEF Launch, TakesOver
  <2>4. new \in procs' /\ new.epoch = e /\ new.conf = Rendered(cfg)
    BY <1>4, <2>3
  <2>5. \A p \in procs' : p.epoch <= e
    BY <1>2, <1>3, <2>1, <2>3 DEF NewestIs
  <2> QED
    BY <1>6, <2>1, <2>4, <2>5
<1>8. CASE epochFile < inherited
  <2>1. NewestIs(inherited) /\ Larger(inherited, e) = inherited /\ ~(e > inherited)
    BY <1>3, <1>4, <1>8 DEF Larger
  <2>2. CASE ~Survives(e)
    BY <1>4, <1>6, <2>1, <2>2 DEF Launch, NewestIs
  <2>3. CASE Survives(e)
    <3>1. procs' = {p \in procs : p.epoch >= e - 1} \cup {new}
      BY <1>6, <2>3 DEF Launch, TakesOver
    <3>2. PICK p \in procs : p.epoch = inherited
      BY <2>1 DEF NewestIs
    <3>3. p \in procs'
      BY <1>3, <1>8, <3>1, <3>2
    <3>4. \A q \in procs' : q.epoch <= inherited
      BY <1>2, <1>3, <1>8, <2>1, <3>1 DEF NewestIs
    <3> QED
      BY <1>6, <2>1, <3>2, <3>3, <3>4
  <2> QED
    BY <2>2, <2>3
<1> QED
  BY <1>3, <1>7, <1>8

(* A reload without a mishap, the epoch file not read: an Envoy of epoch 1 *)
(* or more is the newest, so the new process ends and nothing changes.     *)
LEMMA LaunchAgain ==
  ASSUME IInv, pc = "next", ~mishap, epochFile # 0, Launch(NextEpoch(0))
  PROVE  /\ procs' = procs /\ procs # {}
         /\ NewestEpoch >= 1 /\ NewestIs(NewestEpoch)
<1>1. /\ ops \in Nat /\ procs \subseteq [epoch : 0..ops, conf : Confs]
      /\ epochFile \in Nat /\ inherited \in Int /\ Spans(procs)
  BY EnvoyAssumption DEF IInv, TypeOK
<1>2. \A p \in procs : p.epoch \in 0..ops
  BY <1>1
<1>3. procs # {} /\ NewestIs(Larger(inherited, epochFile))
  BY DEF IInv, Succession, Current
<1>4. NewestIs(NewestEpoch) /\ NewestEpoch \in -1..ops
  BY <1>1, <1>3, Newest, NewestType DEF NewestEpoch, NewestOf, NewestIs, IInv
<1>5. Larger(inherited, epochFile) \in Nat /\ Larger(inherited, epochFile) >= 1
  BY <1>1 DEF Larger
<1>6. NewestEpoch >= 1
  BY <1>2, <1>3, <1>4, <1>5 DEF NewestIs
<1>7. ~Survives(1)
  <2> SUFFICES ASSUME Survives(1) PROVE FALSE
    OBVIOUS
  <2>1. PICK p \in procs : p.epoch = 0
    BY DEF Survives
  <2>2. PICK q \in procs : q.epoch = NewestEpoch
    BY <1>4 DEF NewestIs
  <2>3. q.epoch <= p.epoch + 1
    BY <1>1 DEF Spans
  <2> QED
    BY <1>2, <1>4, <1>6, <2>1, <2>2, <2>3 DEF Survives
<1> QED
  BY <1>3, <1>4, <1>6, <1>7 DEF Launch, NextEpoch

(* A first start begins a new succession: with the Envoy it started, or    *)
(* with the newest of those that run already.                              *)
LEMMA LaunchFirst ==
  ASSUME IInv, file' = Rendered(cfg), Launch(0), inherited' = NewestEpoch
  PROVE  /\ procs' # {}
         /\ (\E p \in procs' : p.epoch = Larger(inherited', 0))
         /\ (\A p \in procs' : p.epoch <= Larger(inherited', 0))
         /\ 0 > inherited' => \E p \in procs' : p.epoch = 0 /\ p.conf = Rendered(cfg)
<1>1. ops \in Nat /\ procs \subseteq [epoch : 0..ops, conf : Confs] /\ Spans(procs)
  BY EnvoyAssumption DEF IInv, TypeOK
<1>2. \A p \in procs : p.epoch \in 0..ops
  BY <1>1
<1>3. inherited' = NewestOf(procs)
  BY DEF NewestEpoch, NewestOf
<1>4. file' # Broken
  BY BrokenAssumption DEF IInv, TypeOK, Rendered, Confs
<1>5. CASE procs = {}
  <2>1. Survives(0)
    BY <1>4, <1>5 DEF Survives
  <2>2. procs' = {[epoch |-> 0, conf |-> Rendered(cfg)]}
    BY <1>5, <2>1 DEF Launch, TakesOver
  <2>3. inherited' = -1
    BY <1>1, <1>3, <1>5, Newest
  <2> QED
    BY <1>3, <2>2, <2>3 DEF Larger
<1>6. CASE procs # {}
  <2>1. procs' = procs
    BY <1>6 DEF Launch, Survives
  <2>2. (\E p \in procs : p.epoch = inherited') /\ \A p \in procs : p.epoch <= inherited'
    BY <1>1, <1>3, <1>6, Newest
  <2>3. inherited' \in Nat
    BY <1>2, <2>2
  <2> QED
    BY <1>3, <1>6, <2>1, <2>2, <2>3 DEF Larger
<1> QED
  BY <1>5, <1>6

-----------------------------------------------------------------------------
(* The invariant.                                                          *)

LEMMA Facts ==
  ASSUME TypeOK
  PROVE  /\ ops \in Nat /\ epochFile \in Nat /\ launched \in Nat /\ inherited \in Int
         /\ procs \subseteq [epoch : 0..ops, conf : Confs]
         /\ \A p \in procs : p.epoch \in Nat
         /\ Rendered(cfg) \in Confs
BY EnvoyAssumption DEF TypeOK, Rendered, Confs

LEMMA InitInv == Init => IInv
<1> SUFFICES ASSUME Init PROVE IInv
  OBVIOUS
<1>1. MaxOps \in Nat /\ MaxBoots \in Nat /\ MaxDeaths \in Nat
  BY EnvoyAssumption
<1>2. Default \in [ports : [Ports -> {"absent", "on", "off"}], targets : SUBSET Addrs]
  BY EnvoyAssumption DEF Default
<1>3. Cardinality({}) <= 2
  BY FS_EmptySet
<1>4. procs = {} /\ procs \subseteq [epoch : 0..ops, conf : Confs] /\ Cardinality(procs) <= 2
  BY <1>3 DEF Init
<1>5. inherited \in -1..ops /\ ops \in 0..MaxOps /\ epochFile \in 0..ops /\ launched \in 0..ops
  BY <1>1 DEF Init
<1>6. mishap \in BOOLEAN /\ boots \in 0..MaxBoots /\ deaths \in 0..MaxDeaths
  <2>1. mishap \in BOOLEAN
    BY Zenon DEF Init
  <2>2. boots \in 0..MaxBoots /\ deaths \in 0..MaxDeaths
    BY <1>1 DEF Init
  <2> QED
    BY <2>1, <2>2
<1>7. TypeOK
  <2>1. cfg = Default /\ file = Broken /\ pc = "down" /\ answer = "none"
    BY DEF Init
  <2> QED
    BY <1>2, <1>4, <1>5, <1>6, <2>1 DEF TypeOK
<1> QED
  BY <1>7 DEF Init, IInv, Spans, Ready, Reloading, Succession, Acknowledged, Current

(* A request changes the configuration, renders it and counts itself.      *)
LEMMA ChangeInv ==
  ASSUME IInv, Request, NEW next \in {"choose", "reload"}, NEW c,
         c \in [ports : [Ports -> {"absent", "on", "off"}], targets : SUBSET Addrs],
         ChangeTo(c, next)
  PROVE  IInv'
<1>1. ops \in Nat /\ ops < MaxOps /\ MaxOps \in Nat /\ ops' = ops + 1
  BY EnvoyAssumption DEF IInv, TypeOK, Request
<1>2. /\ file' \in Confs \cup {Broken} /\ cfg' = c
      /\ \/ pc' = next /\ file' = Rendered(cfg') /\ answer' = answer
         \/ pc' = "idle" /\ answer' = "error"
  BY DEF ChangeTo, Reply, RenderFails, IInv, TypeOK, Rendered, Confs
<1>3. procs \subseteq [epoch : 0..(ops + 1), conf : Confs]
  BY <1>1, Facts DEF IInv
<1>4. TypeOK'
  BY <1>1, <1>2, <1>3 DEF IInv, TypeOK, Request
<1>5. Spans(procs)' /\ Ready'
  BY <1>1, <1>2 DEF IInv, TypeOK, Request, Spans, Ready, Reloading
<1>6. Succession'
  BY <1>2 DEF IInv, Request, Succession, Current, Acknowledged, NewestIs
<1> QED
  BY <1>4, <1>5, <1>6 DEF IInv

(* A request that is refused is only counted.                              *)
LEMMA RefuseInv ==
  ASSUME IInv, Request, Reply("error"), UNCHANGED <<cfg, file>>
  PROVE  IInv'
<1>1. ops \in Nat /\ ops < MaxOps /\ MaxOps \in Nat /\ ops' = ops + 1
  BY EnvoyAssumption DEF IInv, TypeOK, Request
<1>2. procs \subseteq [epoch : 0..(ops + 1), conf : Confs]
  BY <1>1, Facts DEF IInv
<1>3. TypeOK'
  BY <1>1, <1>2 DEF IInv, TypeOK, Request, Reply
<1>4. Spans(procs)' /\ Ready' /\ Succession'
  BY DEF IInv, Request, Reply, Spans, Ready, Reloading, Succession, Current, Acknowledged, NewestIs
<1> QED
  BY <1>3, <1>4 DEF IInv

(* A step that leaves the Envoys and the configuration alone and fails, or *)
(* goes on without an answer.                                              *)
LEMMA HoldInv ==
  ASSUME IInv, UNCHANGED <<cfg, epochFile, procs, launched, inherited, mishap, counts>>,
         file' \in Confs \cup {Broken},
         \/ pc' = "idle" /\ answer' = "error" /\ pc \in {"first", "reload", "next"}
         \/ pc = "choose" /\ pc' \in {"first", "reload"} /\ UNCHANGED <<file, answer>>
         \/ pc = "reload" /\ pc' = "next" /\ procs # {} /\ UNCHANGED <<file, answer>>
  PROVE  IInv'
<1>1. TypeOK' /\ Spans(procs)'
  BY DEF IInv, TypeOK, Spans, counts
<1>2. Ready'
  BY DEF IInv, Ready, Reloading, Rendered, counts
<1>3. Succession'
  BY DEF IInv, Succession, Current, Acknowledged, NewestIs, Rendered
<1> QED
  BY <1>1, <1>2, <1>3 DEF IInv

LEMMA FirstInv == ASSUME IInv, StartFirstEnvoy PROVE IInv'
<1>1. Rendered(cfg) \in Confs /\ ops \in Nat /\ UNCHANGED <<cfg, epochFile, counts>>
  BY Facts DEF StartFirstEnvoy, IInv
<1>2. CASE /\ file' = Rendered(cfg) /\ Launch(0)
           /\ inherited' = NewestEpoch /\ mishap' = FALSE
           /\ pc' = "settle" /\ UNCHANGED answer
  <2>1. /\ procs' \subseteq [epoch : 0..ops, conf : Confs] /\ Spans(procs') /\ launched' = 0
        /\ inherited' \in -1..ops /\ mishap' \in BOOLEAN
    <3>1. procs' \subseteq [epoch : 0..ops, conf : Confs] /\ Spans(procs') /\ launched' = 0
      BY <1>1, <1>2, LaunchShape DEF IInv
    <3>2. inherited' \in -1..ops
      BY <1>2, NewestType DEF IInv
    <3>3. mishap' \in BOOLEAN
      BY <1>2, Zenon
    <3> QED
      BY <3>1, <3>2, <3>3
  <2>2. Cardinality(procs') <= 2
    BY <1>1, <2>1, AtMostTwo
  <2>3. TypeOK'
    BY <1>1, <1>2, <2>1, <2>2 DEF IInv, TypeOK, counts
  <2>4. Ready'
    BY <1>2 DEF Ready, Reloading
  <2>5. Succession'
    BY <1>1, <1>2, <2>1, LaunchFirst
       DEF Succession, Current, Acknowledged, NewestIs, Rendered
  <2> QED
    BY <2>1, <2>3, <2>4, <2>5 DEF IInv
<1>3. CASE /\ file' \in {file, Broken, Rendered(cfg)} /\ Reply("error")
           /\ UNCHANGED <<procs, launched, inherited, mishap>>
  <2>1. file' \in Confs \cup {Broken} /\ pc = "first"
    BY <1>1, <1>3 DEF IInv, TypeOK, StartFirstEnvoy
  <2> QED
    BY <1>1, <1>3, <2>1, HoldInv DEF Reply
<1> QED
  BY <1>2, <1>3 DEF StartFirstEnvoy

LEMMA ReloadInv == ASSUME IInv, HotReloadEnvoyConfig PROVE IInv'
<1>1. /\ pc = "next" /\ ops \in Nat /\ epochFile \in Nat /\ epochFile < ops
      /\ UNCHANGED <<cfg, file, epochFile, counts>>
      /\ file' \in Confs \cup {Broken}
  BY Facts DEF HotReloadEnvoyConfig, IInv, TypeOK, Ready, Reloading
<1>2. ASSUME NEW read \in {epochFile, 0}, Launch(NextEpoch(read)),
             inherited' = IF read = epochFile THEN inherited ELSE NewestEpoch,
             UNCHANGED mishap, pc' = "settle", UNCHANGED answer
      PROVE  IInv'
  <2>1. NextEpoch(read) \in 0..ops
    BY <1>1 DEF NextEpoch
  <2>2. /\ procs' \subseteq [epoch : 0..ops, conf : Confs] /\ Spans(procs')
        /\ launched' = NextEpoch(read)
    BY <1>1, <1>2, <2>1, LaunchShape DEF IInv
  <2>3. inherited' \in -1..ops /\ mishap' \in BOOLEAN
    BY <1>2, NewestType DEF IInv, TypeOK
  <2>4. Cardinality(procs') <= 2
    BY <1>1, <2>2, AtMostTwo
  <2>5. TypeOK'
    BY <1>1, <1>2, <2>1, <2>2, <2>3, <2>4 DEF IInv, TypeOK, counts
  <2>6. Ready'
    BY <1>2 DEF Ready, Reloading
  <2>7. Succession'
    <3> SUFFICES ASSUME ~mishap' PROVE Succession'
      BY DEF Succession
    <3>1. CASE read = epochFile
      BY <1>1, <1>2, <2>2, <3>1, LaunchNext
         DEF Succession, Current, Acknowledged, NewestIs, Rendered
    <3>2. CASE read # epochFile
      <4>1. /\ procs' = procs /\ procs # {}
            /\ NewestEpoch >= 1 /\ NewestIs(NewestEpoch)
        BY <1>1, <1>2, <3>2, LaunchAgain
      <4>2. inherited' = NewestEpoch /\ launched' = 1 /\ pc' = "settle"
        BY <1>2, <2>2, <3>2 DEF NextEpoch
      <4>3. Larger(NewestEpoch, 1) = NewestEpoch
        BY <4>1, NewestType DEF Larger, IInv
      <4> QED
        BY <4>1, <4>2, <4>3, NewestType
           DEF Succession, Current, Acknowledged, NewestIs, IInv, Larger
    <3> QED
      BY <3>1, <3>2
  <2> QED
    BY <2>2, <2>5, <2>6, <2>7 DEF IInv
<1>3. CASE Reply("error") /\ UNCHANGED <<procs, launched, inherited, mishap>>
  BY <1>1, <1>3, HoldInv DEF Reply
<1> QED
  BY <1>2, <1>3, Zenon DEF HotReloadEnvoyConfig

LEMMA SettleInv == ASSUME IInv, Settle PROVE IInv'
<1>1. TypeOK' /\ Spans(procs)'
  <2>1. mishap' \in BOOLEAN
    BY Zenon DEF IInv, TypeOK, Settle
  <2>2. epochFile' \in 0..ops
    BY Facts DEF IInv, TypeOK, Settle
  <2>3. /\ answer' \in {"none", "ok", "error"} /\ pc' = "idle"
        /\ UNCHANGED <<cfg, file, procs, launched, inherited, ops, boots, deaths>>
    BY DEF Settle, Reply, counts
  <2> QED
    BY <2>1, <2>2, <2>3 DEF IInv, TypeOK, Spans
<1>2. Ready'
  BY DEF Ready, Reloading, Settle, Reply
<1>3. Succession'
  BY DEF IInv, Succession, Current, Acknowledged, NewestIs, Rendered, Settle, Reply
<1> QED
  BY <1>1, <1>2, <1>3 DEF IInv

(* Envoys that end.                                                        *)
LEMMA EndInv ==
  ASSUME IInv, NEW Q \in SUBSET procs, procs' = Q
  PROVE  /\ procs' \subseteq [epoch : 0..ops, conf : Confs]
         /\ Cardinality(procs') <= 2 /\ Spans(procs')
<1>1. Q \subseteq [epoch : 0..ops, conf : Confs] /\ Spans(Q) /\ ops \in Nat
  BY Facts, Fewer DEF IInv
<1> QED
  BY <1>1, AtMostTwo

LEMMA ExitInv == ASSUME IInv, ParentExits PROVE IInv'
<1>1. PICK p \in procs : p.epoch # NewestEpoch /\ procs' = procs \ {p}
  BY DEF ParentExits
<1>2. /\ UNCHANGED <<pc, cfg, file, epochFile, launched, answer, inherited, mishap>>
      /\ UNCHANGED <<ops, boots, deaths>>
  BY DEF ParentExits, counts
<1>3. PICK q \in procs : q.epoch = NewestEpoch
  BY <1>1, Facts, Newest DEF IInv, NewestEpoch, NewestOf
<1>4. q \in procs' /\ \A r \in procs : r.epoch <= q.epoch
  BY <1>1, <1>3, Facts, Newest DEF IInv, NewestEpoch, NewestOf
<1>5. procs' \subseteq [epoch : 0..ops, conf : Confs] /\ Cardinality(procs') <= 2 /\ Spans(procs')
  BY <1>1, EndInv
<1>6. TypeOK' /\ Ready'
  BY <1>2, <1>5 DEF IInv, TypeOK, Ready, Reloading, Rendered
<1>7. ASSUME NEW e \in Int, NewestIs(e) PROVE NewestIs(e)'
  <2>1. q.epoch = e
    BY <1>3, <1>4, <1>7, Facts DEF IInv, NewestIs
  <2> QED
    BY <1>1, <1>4, <1>7, <2>1 DEF NewestIs
<1>8. Larger(inherited, Current) \in Int
  BY Facts DEF IInv, Larger, Current
<1>9. Succession'
  <2> SUFFICES ASSUME ~mishap' PROVE Succession'
    BY DEF Succession
  <2>1. NewestIs(Larger(inherited, Current))
    BY <1>1, <1>2 DEF IInv, Succession
  <2>2. NewestIs(Larger(inherited, Current))'
    BY <1>2, <1>7, <1>8, <2>1 DEF Larger, Current, NewestIs
  <2>3. ASSUME pc = "settle" \/ Acknowledged, Current > inherited
        PROVE  q.epoch = Current /\ q.conf = Rendered(cfg)
    <3>1. PICK s \in procs : s.epoch = Current /\ s.conf = Rendered(cfg)
      BY <1>2, <2>3 DEF IInv, Succession
    <3>2. q.epoch = Larger(inherited, Current)
      BY <1>3, <1>4, <2>1, Facts DEF IInv, NewestIs, Larger, Current
    <3>3. q.epoch = s.epoch
      BY <2>3, <3>1, <3>2, Facts DEF IInv, Larger, Current
    <3> QED
      BY <3>1, <3>3 DEF IInv, Spans
  <2> QED
    BY <1>2, <1>4, <2>2, <2>3 DEF Succession, Current, Acknowledged, Rendered
<1> QED
  BY <1>5, <1>6, <1>9 DEF IInv

LEMMA StepInv == IInv /\ [Next]_vars => IInv'
<1> SUFFICES ASSUME IInv, [Next]_vars PROVE IInv'
  OBVIOUS
<1> DEFINE Cfgs == [ports : [Ports -> {"absent", "on", "off"}], targets : SUBSET Addrs]
<1>1. cfg \in Cfgs
  BY DEF IInv, TypeOK
<1>2. ASSUME NEW p \in Ports, CreateOrUpdateEnvoyPort(p) PROVE IInv'
  <2>1. [cfg EXCEPT !.ports[p] = "on"] \in Cfgs
    BY <1>1
  <2> QED
    BY <1>2, <2>1, ChangeInv DEF CreateOrUpdateEnvoyPort
<1>3. ASSUME NEW p \in Ports, DisableEnvoyPort(p) PROVE IInv'
  <2>1. [cfg EXCEPT !.ports[p] = "off"] \in Cfgs
    BY <1>1
  <2> QED
    BY <1>3, <2>1, ChangeInv, RefuseInv DEF DisableEnvoyPort
<1>4. ASSUME NEW a \in {"add", "del", "other"}, NEW s \in SUBSET Addrs,
             UpdateGlobalTargetAddrs(a, s)
      PROVE  IInv'
  <2>1. Targets(a, s) \in SUBSET Addrs
    BY <1>1 DEF Targets
  <2>2. [cfg EXCEPT !.targets = Targets(a, s)] \in Cfgs
    BY <1>1, <2>1
  <2> QED
    BY <1>4, <2>2, ChangeInv, RefuseInv DEF UpdateGlobalTargetAddrs
<1>5. CASE ChooseStart
  BY <1>5, HoldInv DEF ChooseStart, envoy, IInv, TypeOK
<1>6. CASE StartFirstEnvoy
  BY <1>6, FirstInv
<1>7. CASE CheckRunning
  BY <1>7, HoldInv DEF CheckRunning, Reply, envoy, IInv, TypeOK
<1>8. CASE HotReloadEnvoyConfig
  BY <1>8, ReloadInv
<1>9. CASE Settle
  BY <1>9, SettleInv
<1>10. CASE Boot
  <2>1. Default \in Cfgs
    BY EnvoyAssumption DEF Default
  <2>2. boots' \in 0..MaxBoots
    BY <1>10, EnvoyAssumption DEF Boot, IInv, TypeOK
  <2>3. TypeOK' /\ Spans(procs)' /\ Ready'
    BY <1>10, <2>1, <2>2 DEF Boot, IInv, TypeOK, envoy, Spans, Ready, Reloading
  <2>4. Succession'
    BY <1>10 DEF Boot, IInv, envoy, Succession, Current, Acknowledged, NewestIs
  <2> QED
    BY <2>3, <2>4 DEF IInv
<1>11. CASE Crash
  <2>1. procs' \subseteq procs
    BY <1>11 DEF Crash
  <2>2. procs' \subseteq [epoch : 0..ops, conf : Confs] /\ Cardinality(procs') <= 2 /\ Spans(procs')
    BY <2>1, EndInv
  <2>3. TypeOK' /\ Ready'
    BY <1>11, <2>2 DEF Crash, IInv, TypeOK, counts, Ready, Reloading
  <2>4. Succession'
    BY <1>11 DEF Crash, IInv, Succession, Current, Acknowledged, NewestIs
  <2> QED
    BY <2>2, <2>3, <2>4 DEF IInv
<1>12. CASE ParentExits
  BY <1>12, ExitInv
<1>13. CASE EnvoyDies
  <2>1. procs' \subseteq procs
    BY <1>13 DEF EnvoyDies
  <2>2. procs' \subseteq [epoch : 0..ops, conf : Confs] /\ Cardinality(procs') <= 2 /\ Spans(procs')
    BY <2>1, EndInv
  <2>3. deaths' \in 0..MaxDeaths
    BY <1>13, EnvoyAssumption DEF EnvoyDies, IInv, TypeOK
  <2>4. TypeOK' /\ Ready' /\ Succession'
    BY <1>13, <2>2, <2>3 DEF EnvoyDies, IInv, TypeOK, Ready, Reloading, Rendered, Succession
  <2> QED
    BY <2>2, <2>4 DEF IInv
<1>14. CASE UNCHANGED vars
  BY <1>14 DEF vars, envoy, counts, IInv, TypeOK, Spans, Ready, Reloading, Rendered,
               Succession, Current, Acknowledged, NewestIs
<1> QED
  BY <1>2, <1>3, <1>4, <1>5, <1>6, <1>7, <1>8, <1>9, <1>10, <1>11, <1>12, <1>13, <1>14 DEF Next

LEMMA InvCatchesUp == IInv => CatchesUp
<1> SUFFICES ASSUME IInv, pc = "idle", answer = "ok", epochFile > inherited, ~mishap
             PROVE  \E p \in procs : /\ p.epoch = NewestEpoch /\ p.epoch = epochFile
                                     /\ p.conf = Rendered(cfg)
  BY DEF CatchesUp
<1>1. PICK p \in procs : p.epoch = epochFile /\ p.conf = Rendered(cfg)
  BY DEF IInv, Succession, Current, Acknowledged
<1>2. \A q \in procs : q.epoch <= epochFile
  BY Facts, <1>1 DEF IInv, Succession, Current, Acknowledged, NewestIs, Larger
<1>3. /\ \E q \in procs : q.epoch = NewestEpoch
      /\ \A q \in procs : q.epoch <= NewestEpoch
  BY Facts, Newest, <1>1 DEF IInv, NewestEpoch, NewestOf
<1>4. NewestEpoch = epochFile
  BY Facts, <1>1, <1>2, <1>3 DEF IInv
<1> QED
  BY <1>1, <1>4

-----------------------------------------------------------------------------
(* In every reachable state each variable has its type: in particular no   *)
(* more than two Envoys run, and no epoch exceeds the number of requests.  *)
THEOREM TypeCorrect == Spec => []TypeOK
<1>1. IInv => TypeOK
  BY DEF IInv
<1> QED
  BY <1>1, InitInv, StepInv, PTL DEF Spec

(* A request answered with success is in effect in the newest Envoy, with  *)
(* everything before it, unless the succession of Envoys was broken or the *)
(* epochs started over and have not yet passed the Envoys from before.     *)
THEOREM AcknowledgedInEffect == Spec => []CatchesUp
BY InvCatchesUp, InitInv, StepInv, PTL DEF Spec
=============================================================================
