-------------------------- MODULE TelemetryProofs --------------------------
(***************************************************************************)
(* Proofs about Telemetry, for any machines, targets, retention, period of *)
(* the cleanup and size of the queue: the type invariant, that reports     *)
(* hold whole rounds, that the snapshot has the newest of the results that *)
(* were queued, newest first, and what the results count.                  *)
(***************************************************************************)
EXTENDS Telemetry, SequenceTheorems, FiniteSetTheorems, TLAPS

RoundType == [tasks : SUBSET Targets, results : SUBSET Targets]

(* The data plane. *)
PlaneType ==
  /\ round \in [VMs -> RoundType \cup {None}]
  /\ lists \in [VMs -> Seq(SUBSET Targets)]
  /\ DOMAIN latest = VMs /\ DOMAIN sending = VMs
  /\ \A v \in VMs :
       /\ round[v] # None =>
            round[v].results \subseteq round[v].tasks /\ Len(lists[v]) < MaxRounds
       /\ Len(lists[v]) <= MaxRounds
       /\ \A t \in DOMAIN latest[v] : latest[v][t] \in 1 .. Len(lists[v])

(* A machine knows what it learned in all its rounds, and what it sends is *)
(* what it knew after some of them.                                        *)
WholeRounds ==
  \A v \in VMs :
    /\ latest[v] = AfterRounds(lists[v], Len(lists[v]))
    /\ sending[v] # None =>
         \E n \in 0 .. Len(lists[v]) : sending[v] = [link |-> AfterRounds(lists[v], n)]

(* The control plane. *)
ClockType == now \in 0 .. MaxTime /\ due \subseteq Timers(now)

(* Files written within the retention are there, and what is there was not *)
(* old at the last cleanup, or could not be removed then.                  *)
LastCleanup == IF "cleanup" \in due THEN now - CleanupPeriod ELSE now - (now % CleanupPeriod)
FilesInv ==
  /\ IsFiniteSet(stored)
  /\ \A name \in stored : WrittenAt(name) \in 0 .. now
  /\ DOMAIN files \subseteq stored /\ kept \subseteq stored
  /\ \A name \in stored : WrittenAt(name) >= now - Retention => name \in DOMAIN files
  /\ \A name \in DOMAIN files :
       /\ WrittenAt(name) >= LastCleanup - Retention \/ name \in kept
       /\ files[name].links \subseteq Targets

Results == [time : Int, count : Nat, links : SUBSET Targets]

(* Results that were queued are as old as their times say, each at most    *)
(* one per tick: older than the tick that is due.                          *)
Past(t) == t \in 0 .. now /\ ("average" \in due => t < now)

(* The result on its way is newer than all that were queued.               *)
WaitingInv ==
  /\ averaging \in Results \cup {None}
  /\ averaging # None =>
       Past(averaging.time) /\ \A t \in averaged : t < averaging.time

(* The queue holds queued results in order, and lacks only older ones than *)
(* it holds, and those only when it is full.                               *)
QueueInv ==
  /\ queue \in Seq(Results) /\ Len(queue) <= QueueSize
  /\ \A i, j \in DOMAIN queue : i < j => queue[i].time < queue[j].time
  /\ \A i \in DOMAIN queue : queue[i].time \in averaged
  /\ \A t \in averaged :
       \/ \E i \in DOMAIN queue : queue[i].time = t
       \/ Len(queue) = QueueSize /\ \A i \in DOMAIN queue : t < queue[i].time
  /\ \A t \in averaged : Past(t)

PlaneInv == PlaneType /\ WholeRounds
StoreInv == ClockType /\ FilesInv /\ WaitingInv /\ QueueInv
IInv == PlaneInv /\ StoreInv

-----------------------------------------------------------------------------
(* Time passes the next multiple of a period when it is due.               *)

LEMMA DivMod ==
  ASSUME NEW n \in Nat, NEW c \in Nat \ {0}
  PROVE  \E q \in Int : n % c = n - (q * c) /\ n % c \in 0 .. c - 1
<1>1. n % c = n - ((n \div c) * c)
  BY SMTT(20)
<1>2. n \div c \in Int /\ n % c \in 0 .. c - 1
  BY SMTT(20)
<1> QED
  BY <1>1, <1>2

LEMMA ModStep ==
  ASSUME NEW n \in Nat, NEW c \in Nat \ {0}
  PROVE  /\ n % c \in 0 .. c - 1
         /\ (n + 1) % c = 0 => n % c = c - 1
         /\ (n + 1) % c # 0 => (n + 1) % c = (n % c) + 1
<1>1. PICK q \in Int : n % c = n - (q * c) /\ n % c \in 0 .. c - 1
  BY DivMod
<1>2. n + 1 \in Nat
  OBVIOUS
<1>3. PICK p \in Int : (n + 1) % c = (n + 1) - (p * c) /\ (n + 1) % c \in 0 .. c - 1
  BY <1>2, DivMod
<1> DEFINE r == n % c
           s == (n + 1) % c
           d == p - q
<1>4. r \in 0 .. c - 1 /\ s \in 0 .. c - 1 /\ d \in Int
  BY <1>1, <1>3
<1>5. s - r = 1 - (d * c)
  BY <1>1, <1>3
<1> HIDE DEF r, s, d
<1>6. CASE d >= 2
  <2>1. (d - 2) * c >= 0
    BY <1>4, <1>6
  <2>2. d * c = (d - 2) * c + 2 * c
    BY <1>4
  <2>3. d * c \in Int /\ d * c >= 2 * c
    BY <1>4, <2>1, <2>2
  <2> QED
    BY <1>4, <1>5, <2>3
<1>7. CASE d <= -1
  <2>1. (-1 - d) * c >= 0
    BY <1>4, <1>7
  <2>2. d * c = (d + 1) * c - c
    BY <1>4
  <2>3. d * c \in Int /\ d * c <= -c
    BY <1>4, <2>1, <2>2
  <2> QED
    BY <1>4, <1>5, <2>3
<1>8. CASE d \in {0, 1}
  <2>1. (d = 0 /\ s = r + 1) \/ (d = 1 /\ s = r + 1 - c)
    BY <1>4, <1>5, <1>8
  <2>2. r \in 0 .. c - 1 /\ (s = 0 => r = c - 1) /\ (s # 0 => s = r + 1)
    BY <1>4, <2>1
  <2> QED
    BY <2>2 DEF r, s
<1> QED
  BY <1>4, <1>6, <1>7, <1>8
-----------------------------------------------------------------------------
(* What a machine knows after some rounds.                                 *)

(* Nothing that a later round adds.                                        *)
LEMMA AfterEarlier ==
  ASSUME NEW l \in Seq(SUBSET Targets), NEW tasks \in SUBSET Targets, NEW n \in 0 .. Len(l)
  PROVE  AfterRounds(Append(l, tasks), n) = AfterRounds(l, n)
<1> DEFINE m == Append(l, tasks)
<1>1. \A i \in 1 .. n : m[i] = l[i]
  OBVIOUS
<1> HIDE DEF m
<1>2. UNION {m[i] : i \in 1 .. n} = UNION {l[i] : i \in 1 .. n}
  BY <1>1
<1>3. ASSUME NEW t PROVE LastRound(m, n, t) = LastRound(l, n, t)
  <2> DEFINE P(i) == t \in m[i] /\ \A j \in i + 1 .. n : t \notin m[j]
             Q(i) == t \in l[i] /\ \A j \in i + 1 .. n : t \notin l[j]
  <2>1. ASSUME NEW i \in 1 .. n PROVE P(i) <=> Q(i)
    <3>1. \A j \in i + 1 .. n : m[j] = l[j]
      BY <1>1
    <3> QED
      BY <1>1, <3>1
  <2>2. LastRound(m, n, t) = CHOOSE i \in 1 .. n : P(i)
    BY Zenon DEF LastRound
  <2>3. LastRound(l, n, t) = CHOOSE i \in 1 .. n : Q(i)
    BY Zenon DEF LastRound
  <2> HIDE DEF P, Q
  <2> QED
    BY <2>1, <2>2, <2>3
<1>4. AfterRounds(m, n) = AfterRounds(l, n)
  BY <1>2, <1>3, Zenon DEF AfterRounds
<1> QED
  BY <1>4 DEF m

(* The results of one more round go over those of the rounds before.       *)
LEMMA AfterOneMore ==
  ASSUME NEW l \in Seq(SUBSET Targets), NEW tasks \in SUBSET Targets
  PROVE  AfterRounds(Append(l, tasks), Len(l) + 1) =
           Overlay([t \in tasks |-> Len(l) + 1], AfterRounds(l, Len(l)))
<1> DEFINE m == Append(l, tasks)
           k == Len(l) + 1
           new == [t \in tasks |-> k]
           old == AfterRounds(l, Len(l))
<1>1. \A i \in 1 .. Len(l) : m[i] = l[i]
  OBVIOUS
<1>2. m[k] = tasks /\ Len(l) \in Nat /\ k \in Nat
  OBVIOUS
<1>3. DOMAIN old = UNION {l[i] : i \in 1 .. Len(l)}
  BY DEF AfterRounds
<1> HIDE DEF m
<1>4. UNION {m[i] : i \in 1 .. k} = tasks \cup UNION {l[i] : i \in 1 .. Len(l)}
  <2>1. 1 .. k = (1 .. Len(l)) \cup {k}
    BY <1>2
  <2> HIDE DEF k
  <2> QED
    BY <1>1, <1>2, <2>1
<1>5. ASSUME NEW t \in tasks PROVE LastRound(m, k, t) = k
  <2> DEFINE P(i) == t \in m[i] /\ \A j \in i + 1 .. k : t \notin m[j]
  <2>1. k \in 1 .. k /\ P(k)
    BY <1>2
  <2>2. \A i \in 1 .. k : P(i) => i = k
    <3> SUFFICES ASSUME NEW i \in 1 .. k, i # k PROVE ~P(i)
      OBVIOUS
    <3>1. k \in i + 1 .. k
      BY <1>2
    <3> QED
      BY <1>2, <3>1
  <2>3. LastRound(m, k, t) = CHOOSE i \in 1 .. k : P(i)
    BY Zenon DEF LastRound
  <2> HIDE DEF P, k
  <2> QED
    BY <2>1, <2>2, <2>3
<1>6. ASSUME NEW t \in DOMAIN old, t \notin tasks
      PROVE  LastRound(m, k, t) = LastRound(l, Len(l), t)
  <2> DEFINE P(i) == t \in m[i] /\ \A j \in i + 1 .. k : t \notin m[j]
             Q(i) == t \in l[i] /\ \A j \in i + 1 .. Len(l) : t \notin l[j]
  <2>1. ~P(k)
    BY <1>2, <1>6
  <2>2. ASSUME NEW i \in 1 .. Len(l) PROVE P(i) <=> Q(i)
    <3>1. i + 1 .. k = (i + 1 .. Len(l)) \cup {k}
      BY <1>2
    <3>2. \A j \in i + 1 .. Len(l) : m[j] = l[j]
      BY <1>1
    <3>3. m[i] = l[i] /\ t \notin m[k]
      BY <1>1, <1>2, <1>6
    <3> HIDE DEF k
    <3> QED
      BY <3>1, <3>2, <3>3
  <2>3. LastRound(m, k, t) = CHOOSE i \in 1 .. k : P(i)
    BY Zenon DEF LastRound
  <2>4. LastRound(l, Len(l), t) = CHOOSE i \in 1 .. Len(l) : Q(i)
    BY Zenon DEF LastRound
  <2>5. \A i : i \in 1 .. k /\ P(i) <=> i \in 1 .. Len(l) /\ Q(i)
    <3>1. 1 .. k = (1 .. Len(l)) \cup {k}
      BY <1>2
    <3> HIDE DEF P, Q, k
    <3> QED
      BY <2>1, <2>2, <3>1
  <2> HIDE DEF P, Q, k
  <2>6. (CHOOSE i \in 1 .. k : P(i)) = CHOOSE i \in 1 .. Len(l) : Q(i)
    BY <2>5
  <2> QED
    BY <2>3, <2>4, <2>6
<1>7. AfterRounds(m, k) = [t \in tasks \cup DOMAIN old |-> LastRound(m, k, t)]
  BY <1>3, <1>4, Zenon DEF AfterRounds
<1>8. \A t \in DOMAIN old : old[t] = LastRound(l, Len(l), t)
  BY <1>3 DEF AfterRounds
<1>9. DOMAIN new = tasks /\ \A t \in tasks : new[t] = k
  OBVIOUS
<1> HIDE DEF new, old, k
<1>10. AfterRounds(m, k) = Overlay(new, old)
  BY <1>5, <1>6, <1>7, <1>8, <1>9 DEF Overlay
<1> QED
  BY <1>10 DEF m, k, new, old

-----------------------------------------------------------------------------
(* The data plane.                                                         *)

LEMMA PlaneInit == Init => PlaneInv
<1> SUFFICES ASSUME Init PROVE PlaneInv
  OBVIOUS
<1>1. MaxRounds \in Nat
  BY SizesAssumption
<1>2. <<>> \in Seq(SUBSET Targets) /\ Len(<<>>) = 0
  OBVIOUS
<1>3. PlaneType
  BY <1>1, <1>2 DEF Init, PlaneType, EmptyMap
<1>4. AfterRounds(<<>>, 0) = <<>>
  <2>1. UNION {<<>>[i] : i \in 1 .. 0} = {}
    OBVIOUS
  <2>2. AfterRounds(<<>>, 0) = [t \in {} |-> LastRound(<<>>, 0, t)]
    BY <2>1, Zenon DEF AfterRounds
  <2> QED
    BY <2>2
<1>5. WholeRounds
  BY <1>2, <1>4 DEF Init, WholeRounds, EmptyMap
<1> QED
  BY <1>3, <1>5 DEF PlaneInv

(* A step that leaves the rounds alone may send what a machine knows.      *)
LEMMA SendStep ==
  ASSUME PlaneInv, NEW v \in VMs, UNCHANGED planeVars,
         \/ sending' = [sending EXCEPT ![v] = None]
         \/ sending' = [sending EXCEPT ![v] = [link |-> latest[v]]]
  PROVE  PlaneInv'
<1>1. PlaneType'
  BY DEF PlaneInv, PlaneType, planeVars
<1>2. ASSUME NEW u \in VMs, sending'[u] # None
      PROVE  \E n \in 0 .. Len(lists[u]) : sending'[u] = [link |-> AfterRounds(lists[u], n)]
  <2>1. CASE sending'[u] = sending[u]
    BY <1>2, <2>1 DEF PlaneInv, WholeRounds
  <2>2. CASE sending'[u] # sending[u]
    <3>1. sending'[u] = [link |-> latest[u]]
      BY <1>2, <2>2 DEF PlaneInv, PlaneType
    <3>2. latest[u] = AfterRounds(lists[u], Len(lists[u])) /\ Len(lists[u]) \in 0 .. Len(lists[u])
      BY DEF PlaneInv, PlaneType, WholeRounds
    <3> QED
      BY <3>1, <3>2
  <2> QED
    BY <2>1, <2>2
<1>3. WholeRounds'
  BY <1>2 DEF PlaneInv, WholeRounds, planeVars
<1> QED
  BY <1>1, <1>3 DEF PlaneInv

LEMMA EndRoundStep == ASSUME PlaneInv, NEW v \in VMs, EndRound(v) PROVE PlaneInv'
<1> DEFINE tasks == round[v].tasks
           n == Len(lists[v])
<1>1. /\ round[v] # None /\ round[v] \in RoundType /\ tasks \in SUBSET Targets
      /\ lists[v] \in Seq(SUBSET Targets) /\ n \in Nat /\ n < MaxRounds /\ MaxRounds \in Nat
  BY SizesAssumption DEF EndRound, PlaneInv, PlaneType, RoundType
<1>2. /\ lists' = [lists EXCEPT ![v] = Append(lists[v], tasks)]
      /\ round' = [round EXCEPT ![v] = None]
      /\ latest' = [latest EXCEPT ![v] = Overlay([t \in tasks |-> n + 1], latest[v])]
      /\ UNCHANGED sending
  BY DEF EndRound
<1> HIDE DEF tasks
<1>3. lists'[v] = Append(lists[v], tasks) /\ lists'[v] \in Seq(SUBSET Targets) /\ Len(lists'[v]) = n + 1
  BY <1>1, <1>2 DEF PlaneInv, PlaneType
<1>4. \A u \in VMs : u # v => /\ lists'[u] = lists[u] /\ round'[u] = round[u]
                              /\ latest'[u] = latest[u]
  BY <1>2 DEF PlaneInv, PlaneType
<1>5. PlaneType'
  <2>1. lists' \in [VMs -> Seq(SUBSET Targets)] /\ round' \in [VMs -> RoundType \cup {None}]
    BY <1>2, <1>3 DEF PlaneInv, PlaneType
  <2>2. DOMAIN latest' = VMs /\ DOMAIN sending' = VMs
    BY <1>2 DEF PlaneInv, PlaneType
  <2>3. round'[v] = None
    BY <1>2 DEF PlaneInv, PlaneType
  <2>4. ASSUME NEW u \in VMs
        PROVE  /\ round'[u] # None =>
                    round'[u].results \subseteq round'[u].tasks /\ Len(lists'[u]) < MaxRounds
               /\ Len(lists'[u]) <= MaxRounds
               /\ \A t \in DOMAIN latest'[u] : latest'[u][t] \in 1 .. Len(lists'[u])
    <3>1. \A t \in DOMAIN latest'[v] : latest'[v][t] \in 1 .. n + 1
      <4>1. \A t \in DOMAIN latest[v] : latest[v][t] \in 1 .. n
        BY DEF PlaneInv, PlaneType
      <4>2. latest'[v] = Overlay([t \in tasks |-> n + 1], latest[v])
        BY <1>2 DEF PlaneInv, PlaneType
      <4> HIDE DEF n
      <4> QED
        BY <1>1, <4>1, <4>2 DEF Overlay
    <3>2. CASE u = v
      BY <1>1, <1>3, <2>3, <3>1, <3>2
    <3>3. CASE u # v
      BY <1>4, <3>3 DEF PlaneInv, PlaneType
    <3> QED
      BY <3>2, <3>3
  <2> QED
    BY <2>1, <2>2, <2>4 DEF PlaneType
<1>6. latest'[v] = AfterRounds(lists'[v], n + 1)
  <2>1. latest'[v] = Overlay([t \in tasks |-> n + 1], latest[v])
    BY <1>2 DEF PlaneInv, PlaneType
  <2>2. latest[v] = AfterRounds(lists[v], n)
    BY DEF PlaneInv, WholeRounds
  <2> QED
    BY <1>1, <1>3, <2>1, <2>2, AfterOneMore
<1>7. ASSUME NEW u \in VMs, NEW k \in 0 .. Len(lists[u])
      PROVE  AfterRounds(lists'[u], k) = AfterRounds(lists[u], k) /\ k \in 0 .. Len(lists'[u])
  <2>1. CASE u = v
    <3>1. k \in 0 .. Len(lists[v]) /\ tasks \in SUBSET Targets
      BY <1>1, <2>1
    <3>2. AfterRounds(Append(lists[v], tasks), k) = AfterRounds(lists[v], k)
      BY <1>1, <3>1, AfterEarlier
    <3>3. k \in 0 .. n + 1
      BY <1>1, <3>1
    <3> HIDE DEF n
    <3> QED
      BY <1>3, <2>1, <3>2, <3>3
  <2>2. CASE u # v
    BY <1>4, <2>2
  <2> QED
    BY <2>1, <2>2
<1>8. ASSUME NEW u \in VMs
      PROVE  /\ latest'[u] = AfterRounds(lists'[u], Len(lists'[u]))
             /\ sending'[u] # None =>
                  \E k \in 0 .. Len(lists'[u]) :
                    sending'[u] = [link |-> AfterRounds(lists'[u], k)]
  <2>1. latest'[u] = AfterRounds(lists'[u], Len(lists'[u]))
    BY <1>3, <1>4, <1>6 DEF PlaneInv, WholeRounds
  <2>2. ASSUME sending[u] # None
        PROVE  \E k \in 0 .. Len(lists'[u]) : sending[u] = [link |-> AfterRounds(lists'[u], k)]
    <3>1. PICK k \in 0 .. Len(lists[u]) : sending[u] = [link |-> AfterRounds(lists[u], k)]
      BY <2>2 DEF PlaneInv, WholeRounds
    <3> QED
      BY <1>7, <3>1
  <2> QED
    BY <1>2, <2>1, <2>2 DEF PlaneInv, WholeRounds
<1>9. WholeRounds'
  BY <1>8 DEF WholeRounds
<1> QED
  BY <1>5, <1>9 DEF PlaneInv

LEMMA PlaneStep == PlaneInv /\ [Next]_vars => PlaneInv'
<1> SUFFICES ASSUME PlaneInv, [Next]_vars PROVE PlaneInv'
  OBVIOUS
<1>1. CASE UNCHANGED <<planeVars, sending>>
  BY <1>1 DEF PlaneInv, PlaneType, WholeRounds, planeVars
<1>2. ASSUME NEW v \in VMs, BeginRound(v) PROVE PlaneInv'
  <2>1. PICK tasks \in GetProbeTasks :
          round' = [round EXCEPT ![v] = [tasks |-> tasks, results |-> {}]]
    BY <1>2, Zenon DEF BeginRound
  <2> Len(lists[v]) < MaxRounds /\ UNCHANGED <<latest, lists, sending>>
    BY <1>2 DEF BeginRound
  <2>2. [tasks |-> tasks, results |-> {}] \in RoundType
    BY StoresAssumption DEF RoundType, GetProbeTasks
  <2>3. PlaneType'
    BY <2>1, <2>2 DEF PlaneInv, PlaneType
  <2>4. WholeRounds'
    BY <2>1 DEF PlaneInv, WholeRounds
  <2> QED
    BY <2>3, <2>4 DEF PlaneInv
<1>3. ASSUME NEW v \in VMs, NEW t \in Targets, Probe(v, t) PROVE PlaneInv'
  <2>1. /\ round[v] # None /\ t \in round[v].tasks
        /\ round' = [round EXCEPT ![v].results = @ \cup {t}]
        /\ UNCHANGED <<latest, lists, sending>>
    BY <1>3 DEF Probe
  <2>2. round[v] \in RoundType /\ round[v].results \subseteq round[v].tasks
    BY <2>1 DEF PlaneInv, PlaneType
  <2>3. round'[v] \in RoundType /\ round'[v].results \subseteq round'[v].tasks
    BY <2>1, <2>2 DEF PlaneInv, PlaneType, RoundType
  <2>4. round' \in [VMs -> RoundType \cup {None}] /\ \A u \in VMs : u # v => round'[u] = round[u]
    BY <2>1, <2>3 DEF PlaneInv, PlaneType
  <2>5. PlaneType'
    BY <2>1, <2>3, <2>4 DEF PlaneInv, PlaneType
  <2>6. WholeRounds'
    BY <2>1 DEF PlaneInv, WholeRounds
  <2> QED
    BY <2>5, <2>6 DEF PlaneInv
<1>4. ASSUME NEW v \in VMs, Collect(v) \/ Lose(v) \/ Receive(v) PROVE PlaneInv'
  <2>1. /\ UNCHANGED planeVars
        /\ \/ sending' = [sending EXCEPT ![v] = None]
           \/ sending' = [sending EXCEPT ![v] = [link |-> latest[v]]]
    BY <1>4, Zenon DEF Collect, Lose, Receive
  <2> QED
    BY <2>1, SendStep
<1> QED
  BY <1>1, <1>2, <1>3, <1>4, EndRoundStep
     DEF Next, Cleanup, Average, Enqueue, Tick, vars

-----------------------------------------------------------------------------
(* The control plane.                                                      *)


LEMMA Sizes ==
  /\ Retention \in Nat /\ CleanupPeriod \in Nat \ {0} /\ QueueSize \in Nat \ {0}
  /\ MaxTime \in Nat
BY SizesAssumption

LEMMA StoreInit == Init => StoreInv
<1> SUFFICES ASSUME Init PROVE StoreInv
  OBVIOUS
<1>1. ClockType
  BY Sizes DEF Init, ClockType
<1>2. stored = {} /\ kept = {} /\ DOMAIN files = {} /\ IsFiniteSet(stored)
  BY FS_EmptySet DEF Init, EmptyMap
<1>3. FilesInv
  BY <1>2 DEF FilesInv
<1>4. WaitingInv /\ QueueInv
  BY Sizes DEF Init, WaitingInv, QueueInv
<1> QED
  BY <1>1, <1>3, <1>4 DEF StoreInv

LEMMA ReceiveStep == ASSUME PlaneInv, StoreInv, NEW v \in VMs, Receive(v) PROVE StoreInv'
<1>1. PICK id \in {v, NoIP}, ms \in Millis :
        LET name == <<id, now, ms>>
        IN  /\ files' = Overlay([x \in {name} |-> Decode(sending[v])], files)
            /\ stored' = stored \cup {name}
  BY Zenon DEF Receive
<1> DEFINE name == <<id, now, ms>>
<1>2. UNCHANGED <<kept, now, due, averaging, queue, averaged>>
  BY DEF Receive, resultVars
<1>3. WrittenAt(name) = now
  BY DEF WrittenAt
<1>4. now \in Nat
  BY Sizes DEF StoreInv, ClockType
<1> HIDE DEF name
<1>5. stored' = stored \cup {name} /\ DOMAIN files' = DOMAIN files \cup {name}
  BY <1>1 DEF name, Overlay
<1>6. IsFiniteSet(stored')
  BY <1>5, FS_AddElement, Zenon DEF StoreInv, FilesInv
<1>7. LastCleanup \in Int /\ now >= LastCleanup
  <2>1. now % CleanupPeriod \in 0 .. CleanupPeriod - 1
    BY <1>4, Sizes, ModStep
  <2> QED
    BY <1>4, <2>1, Sizes DEF LastCleanup
<1>8. LastCleanup' = LastCleanup
  BY <1>2 DEF LastCleanup
<1>9. \A x \in DOMAIN files' : files'[x].links \subseteq Targets
  <2>1. files'[name] = Decode(sending[v])
    BY <1>1 DEF name, Overlay
  <2>2. \A x \in DOMAIN files : x # name => files'[x] = files[x]
    BY <1>1 DEF name, Overlay
  <2>3. "links_congestion" \notin DOMAIN sending[v]
    <3>1. PICK n \in 0 .. Len(lists[v]) : sending[v] = [link |-> AfterRounds(lists[v], n)]
      BY DEF PlaneInv, WholeRounds, Receive
    <3> QED
      BY <3>1
  <2>4. Decode(sending[v]).links = {}
    BY <2>3 DEF Decode
  <2> QED
    BY <1>5, <2>1, <2>2, <2>4 DEF StoreInv, FilesInv
<1>10. FilesInv'
  <2>1. \A x \in stored' : WrittenAt(x) \in 0 .. now
    BY <1>3, <1>4, <1>5 DEF StoreInv, FilesInv
  <2>2. \A x \in stored' : WrittenAt(x) >= now - Retention => x \in DOMAIN files'
    BY <1>5 DEF StoreInv, FilesInv
  <2>3. \A x \in DOMAIN files' : WrittenAt(x) >= LastCleanup - Retention \/ x \in kept
    BY <1>3, <1>4, <1>5, <1>7, Sizes DEF StoreInv, FilesInv
  <2>4. DOMAIN files' \subseteq stored' /\ kept \subseteq stored'
    BY <1>5 DEF StoreInv, FilesInv
  <2> QED
    BY <1>2, <1>6, <1>8, <1>9, <2>1, <2>2, <2>3, <2>4 DEF FilesInv, WrittenAt
<1>11. ClockType' /\ WaitingInv' /\ QueueInv'
  BY <1>2 DEF StoreInv, ClockType, WaitingInv, QueueInv, Past
<1> QED
  BY <1>10, <1>11 DEF StoreInv

LEMMA CleanupStep == ASSUME StoreInv, Cleanup PROVE StoreInv'
<1>1. PICK gone \in SUBSET Expired :
        files' = [f \in DOMAIN files \ gone |-> files[f]] /\ kept' = Expired \ gone
  BY DEF Cleanup
<1>2. /\ DOMAIN files' = DOMAIN files \ gone /\ "cleanup" \in due
      /\ due' = due \ {"cleanup"} /\ UNCHANGED <<stored, now, averaging, queue, averaged>>
  BY <1>1 DEF Cleanup, resultVars
<1>3. now \in Nat /\ due \subseteq Timers(now)
  BY Sizes DEF StoreInv, ClockType
<1>4. now % CleanupPeriod = 0
  BY <1>2, <1>3 DEF Timers
<1>5. LastCleanup' = now
  BY <1>2, <1>3, <1>4 DEF LastCleanup
<1>6. \A name \in stored : WrittenAt(name) \in Nat
  BY DEF StoreInv, FilesInv
<1>7. FilesInv'
  <2>1. \A name \in stored : WrittenAt(name) >= now - Retention => name \in DOMAIN files'
    BY <1>2, <1>3, <1>6, Sizes DEF StoreInv, FilesInv, Expired
  <2>2. \A name \in DOMAIN files' : WrittenAt(name) >= now - Retention \/ name \in kept'
    BY <1>1, <1>2, <1>3, <1>6, Sizes DEF StoreInv, FilesInv, Expired
  <2>3. \A name \in DOMAIN files' : files'[name].links \subseteq Targets
    BY <1>1 DEF StoreInv, FilesInv
  <2>4. DOMAIN files' \subseteq stored /\ kept' \subseteq stored
    BY <1>1, <1>2 DEF StoreInv, FilesInv, Expired
  <2> QED
    BY <1>2, <1>5, <2>1, <2>2, <2>3, <2>4 DEF StoreInv, FilesInv, WrittenAt
<1>8. ClockType' /\ WaitingInv' /\ QueueInv'
  BY <1>2 DEF StoreInv, ClockType, WaitingInv, QueueInv, Past
<1> QED
  BY <1>7, <1>8 DEF StoreInv

LEMMA ResultType ==
  ASSUME StoreInv, NEW read \in SUBSET DOMAIN files
  PROVE  /\ Result(read) \in Results
         /\ Result(read).time = now /\ Result(read).count = Cardinality(read)
<1>1. IsFiniteSet(read)
  BY FS_Subset, Zenon DEF StoreInv, FilesInv
<1>2. Cardinality(read) \in Nat
  BY <1>1, FS_CardinalityType
<1>3. now \in Int /\ UNION {files[f].links : f \in read} \subseteq Targets
  BY DEF StoreInv, ClockType, FilesInv
<1> QED
  BY <1>2, <1>3 DEF Result, Results

(* One more result, after all but the first d there were. *)
Shifted(old, new, d) ==
  /\ Len(new) = Len(old) - d + 1
  /\ \A i \in 1 .. Len(old) - d : i + d \in DOMAIN old /\ new[i] = old[i + d]

LEMMA PushOf ==
  ASSUME NEW S, NEW q \in Seq(S), NEW r \in S, Len(q) <= QueueSize
  PROVE  /\ Push(q, r) \in Seq(S) /\ Push(q, r) # <<>>
         /\ Len(Push(q, r)) <= QueueSize
         /\ Push(q, r)[Len(Push(q, r))] = r
         /\ \E d \in {0, 1} : Shifted(q, Push(q, r), d) /\ (d = 1 => Len(Push(q, r)) = QueueSize)
<1> DEFINE front == IF Len(q) >= QueueSize THEN Tail(q) ELSE q
<1>1. QueueSize \in Nat \ {0}
  BY Sizes
<1>2. front \in Seq(S) /\ Len(front) < QueueSize
  BY <1>1
<1>3. PICK d \in {0, 1} :
        /\ Len(front) = Len(q) - d /\ (d = 1 => Len(q) = QueueSize)
        /\ \A i \in 1 .. Len(q) - d : i + d \in DOMAIN q /\ front[i] = q[i + d]
  <2>1. CASE Len(q) >= QueueSize
    BY <1>1, <2>1
  <2>2. CASE ~(Len(q) >= QueueSize)
    BY <2>2
  <2> QED
    BY <2>1, <2>2
<1>4. Push(q, r) = Append(front, r)
  BY Zenon DEF Push
<1> HIDE DEF front
<1>5. /\ Append(front, r) \in Seq(S) /\ Len(Append(front, r)) = Len(front) + 1
      /\ Append(front, r)[Len(front) + 1] = r
      /\ \A i \in 1 .. Len(front) : Append(front, r)[i] = front[i]
      /\ Len(front) \in Nat
  BY <1>2
<1>6. Len(Append(front, r)) <= QueueSize /\ Append(front, r) # <<>>
  BY <1>1, <1>2, <1>5
<1>7. Shifted(q, Append(front, r), d) /\ (d = 1 => Len(Append(front, r)) = QueueSize)
  BY <1>1, <1>3, <1>5 DEF Shifted
<1> QED
  BY <1>4, <1>5, <1>6, <1>7

LEMMA AverageStep == ASSUME StoreInv, Average PROVE StoreInv'
<1>1. /\ "average" \in due /\ due' = due \ {"average"} /\ averaging = None
      /\ UNCHANGED <<files, stored, kept, now, queue, averaged>>
  BY DEF Average, storeVars
<1>2. \A t \in averaged : t \in 0 .. now /\ t < now
  BY <1>1 DEF StoreInv, QueueInv, Past
<1>3. ClockType' /\ QueueInv'
  BY <1>1, <1>2 DEF StoreInv, ClockType, QueueInv, Past
<1>4. LastCleanup' = LastCleanup
  BY <1>1 DEF LastCleanup
<1>5. FilesInv'
  BY <1>1, <1>4 DEF StoreInv, FilesInv, WrittenAt
<1>6. WaitingInv'
  <2>1. CASE averaging' = averaging
    BY <1>1, <2>1 DEF WaitingInv
  <2>2. CASE \E missed \in SUBSET DOMAIN files : averaging' = Result(DOMAIN files \ missed)
    <3>1. averaging' \in Results /\ averaging'.time = now
      BY <2>2, ResultType
    <3>2. now \in 0 .. now /\ "average" \notin due'
      BY <1>1, Sizes DEF StoreInv, ClockType
    <3> QED
      BY <1>1, <1>2, <3>1, <3>2 DEF WaitingInv, Past
  <2> QED
    BY <2>1, <2>2 DEF Average
<1> QED
  BY <1>3, <1>5, <1>6 DEF StoreInv

LEMMA EnqueueStep == ASSUME StoreInv, Enqueue PROVE StoreInv'
<1>1. /\ averaging # None /\ averaging' = None
      /\ queue' = Push(queue, averaging) /\ averaged' = averaged \cup {averaging.time}
      /\ UNCHANGED <<files, stored, kept, now, due>>
  BY DEF Enqueue, storeVars
<1>2. ClockType' /\ WaitingInv'
  BY <1>1 DEF StoreInv, ClockType, WaitingInv
<1>3. LastCleanup' = LastCleanup
  BY <1>1 DEF LastCleanup
<1>4. FilesInv'
  BY <1>1, <1>3 DEF StoreInv, FilesInv, WrittenAt
<1> DEFINE r == averaging
           n == Len(queue)
           m == Len(queue')
<1>5. /\ r \in Results /\ Past(r.time) /\ \A t \in averaged : t < r.time
      /\ r.time \in Int /\ now \in Int
  BY <1>1, Sizes DEF StoreInv, WaitingInv, ClockType, Past
<1>6. /\ queue \in Seq(Results) /\ n \in Nat /\ n <= QueueSize
      /\ \A i \in 1 .. n : queue[i] \in Results /\ queue[i].time \in Int
                          /\ queue[i].time \in averaged
      /\ \A i, j \in 1 .. n : i < j => queue[i].time < queue[j].time
  <2>1. queue \in Seq(Results) /\ n \in Nat /\ n <= QueueSize /\ DOMAIN queue = 1 .. n
    BY DEF StoreInv, QueueInv
  <2>2. \A i \in 1 .. n : queue[i] \in Results /\ queue[i].time \in averaged
    BY <2>1 DEF StoreInv, QueueInv
  <2>3. \A i \in 1 .. n : queue[i].time \in Int
    BY <2>2 DEF Results
  <2>4. \A i, j \in 1 .. n : i < j => queue[i].time < queue[j].time
    BY <2>1 DEF StoreInv, QueueInv
  <2> QED
    BY <2>1, <2>2, <2>3, <2>4
<1>7. /\ queue' \in Seq(Results) /\ m <= QueueSize /\ m >= 1 /\ queue'[m] = r
      /\ \E d \in {0, 1} : Shifted(queue, queue', d) /\ (d = 1 => m = QueueSize)
  <2> DEFINE new == Push(queue, averaging)
  <2>1. averaging \in Results /\ queue \in Seq(Results) /\ Len(queue) <= QueueSize
    BY <1>5, <1>6
  <2>2. /\ new \in Seq(Results) /\ new # <<>> /\ Len(new) <= QueueSize
        /\ new[Len(new)] = averaging
    BY <2>1, PushOf
  <2>3. \E d \in {0, 1} : Shifted(queue, new, d) /\ (d = 1 => Len(new) = QueueSize)
    BY <2>1, PushOf, ZenonT(60)
  <2> HIDE DEF new
  <2>4. Len(new) >= 1
    BY <2>2
  <2>5. queue' = new /\ m = Len(new)
    BY <1>1 DEF new
  <2> QED
    BY <2>2, <2>3, <2>4, <2>5
<1>8. PICK d \in {0, 1} :
        /\ m = n - d + 1 /\ (d = 1 => m = QueueSize)
        /\ \A i \in 1 .. n - d : i + d \in 1 .. n /\ queue'[i] = queue[i + d]
  <2>1. DOMAIN queue = 1 .. n
    BY <1>6
  <2> QED
    BY <1>7, <2>1 DEF Shifted
<1>9. DOMAIN queue' = 1 .. m /\ m \in Nat
  BY <1>7
<1> HIDE DEF r, n, m
<1>10. /\ 1 .. m = (1 .. n - d) \cup {m}
       /\ \A i \in 1 .. n - d : i < m
  BY <1>6, <1>7, <1>8, <1>9
<1>11. \A i, j \in 1 .. m : i < j => queue'[i].time < queue'[j].time
  <2> SUFFICES ASSUME NEW i \in 1 .. m, NEW j \in 1 .. m, i < j
               PROVE  queue'[i].time < queue'[j].time
    OBVIOUS
  <2>1. i \in 1 .. n - d
    BY <1>9, <1>10
  <2>2. CASE j = m
    BY <1>5, <1>6, <1>7, <1>8, <2>1, <2>2
  <2>3. CASE j \in 1 .. n - d
    <3>1. /\ i + d \in 1 .. n /\ j + d \in 1 .. n /\ i + d < j + d
          /\ queue'[i] = queue[i + d] /\ queue'[j] = queue[j + d]
      BY <1>8, <2>1, <2>3
    <3> QED
      BY <1>6, <3>1
  <2> QED
    BY <1>10, <2>2, <2>3
<1>12. \A i \in 1 .. m : queue'[i].time \in averaged'
  <2>1. ASSUME NEW i \in 1 .. n - d PROVE queue'[i].time \in averaged'
    BY <1>1, <1>6, <1>8
  <2>2. queue'[m].time \in averaged'
    BY <1>1, <1>7 DEF r
  <2> QED
    BY <1>10, <2>1, <2>2
<1>13. ASSUME NEW t \in averaged'
       PROVE  \/ \E i \in 1 .. m : queue'[i].time = t
              \/ m = QueueSize /\ \A i \in 1 .. m : t < queue'[i].time
  <2>1. CASE t = r.time
    BY <1>7, <1>10, <2>1
  <2>2. CASE t \in averaged /\ \E i \in 1 .. n : queue[i].time = t
    <3>1. PICK i \in 1 .. n : queue[i].time = t
      BY <2>2
    <3>2. CASE i > d
      <4>1. i - d \in 1 .. n - d /\ (i - d) + d = i
        BY <1>6, <3>2
      <4>2. queue'[i - d] = queue[i]
        BY <1>8, <4>1
      <4> QED
        BY <1>10, <3>1, <4>1, <4>2
    <3>3. CASE ~(i > d)
      <4>1. d = 1 /\ i = 1 /\ m = QueueSize
        BY <1>8, <3>3
      <4>2. ASSUME NEW k \in 1 .. n - d PROVE t < queue'[k].time
        <5>1. k + d \in 1 .. n /\ queue'[k] = queue[k + d] /\ i < k + d
          BY <1>8, <4>1
        <5> QED
          BY <1>6, <3>1, <5>1
      <4> QED
        BY <1>5, <1>7, <1>10, <2>2, <4>1, <4>2
    <3> QED
      BY <3>2, <3>3
  <2>3. CASE /\ t \in averaged /\ n = QueueSize
             /\ \A i \in 1 .. n : t < queue[i].time
    <3>1. m = QueueSize
      BY <1>6, <1>7, <1>8, <2>3, Sizes
    <3>2. \A i \in 1 .. n - d : t < queue'[i].time
      BY <1>8, <2>3
    <3> QED
      BY <1>5, <1>7, <1>10, <2>3, <3>1, <3>2
  <2>4. \A u \in averaged :
          \/ \E i \in 1 .. n : queue[i].time = u
          \/ n = QueueSize /\ \A i \in 1 .. n : u < queue[i].time
    <3>1. DOMAIN queue = 1 .. n
      BY <1>6 DEF n
    <3> QED
      BY <3>1 DEF StoreInv, QueueInv, n
  <2> QED
    BY <1>1, <2>1, <2>2, <2>3, <2>4 DEF r
<1>14. \A t \in averaged' : Past(t)'
  BY <1>1, <1>5 DEF StoreInv, QueueInv, Past, r
<1>15. QueueInv'
  BY <1>7, <1>9, <1>11, <1>12, <1>13, <1>14 DEF QueueInv, m
<1> QED
  BY <1>2, <1>4, <1>15 DEF StoreInv

LEMMA TickStep == ASSUME StoreInv, Tick PROVE StoreInv'
<1>1. "cleanup" \notin due /\ now' = now + 1 /\ now < MaxTime /\ due' = Timers(now + 1)
  BY DEF Tick
<1>2. UNCHANGED <<files, stored, kept, averaging, queue, averaged>>
  BY DEF Tick, storeVars, resultVars
<1>3. now \in Nat /\ MaxTime \in Nat
  BY Sizes DEF StoreInv, ClockType
<1>4. ClockType'
  BY <1>1, <1>3 DEF ClockType
<1>5. LastCleanup \in Int /\ LastCleanup' \in Int /\ LastCleanup' <= LastCleanup
  <2> DEFINE c == CleanupPeriod
  <2>1. c \in Nat \ {0}
    BY Sizes
  <2>2. /\ now % c \in 0 .. c - 1
        /\ (now + 1) % c = 0 => now % c = c - 1
        /\ (now + 1) % c # 0 => (now + 1) % c = (now % c) + 1
    BY <1>3, <2>1, ModStep
  <2>3. LastCleanup = now - (now % c)
    BY <1>1 DEF LastCleanup
  <2>4. LastCleanup' = IF (now + 1) % c = 0 THEN now + 1 - c ELSE now + 1 - ((now + 1) % c)
    <3>1. "cleanup" \in due' <=> (now + 1) % c = 0
      BY <1>1 DEF Timers
    <3>2. LastCleanup' = IF "cleanup" \in due' THEN now' - CleanupPeriod
                         ELSE now' - (now' % CleanupPeriod)
      BY Zenon DEF LastCleanup
    <3> QED
      BY <1>1, <1>3, <2>1, <3>1, <3>2
  <2> HIDE DEF c
  <2> QED
    BY <1>3, <2>1, <2>2, <2>3, <2>4
<1>6. \A name \in stored : WrittenAt(name) \in 0 .. now
  BY DEF StoreInv, FilesInv
<1>7. FilesInv'
  <2>1. \A name \in stored : WrittenAt(name) >= (now + 1) - Retention => name \in DOMAIN files
    BY <1>3, <1>6, Sizes DEF StoreInv, FilesInv
  <2>2. \A name \in DOMAIN files : WrittenAt(name) >= LastCleanup' - Retention \/ name \in kept
    <3>1. ASSUME NEW name \in DOMAIN files, name \notin kept
          PROVE  WrittenAt(name) >= LastCleanup' - Retention
      <4>1. WrittenAt(name) \in Int /\ WrittenAt(name) >= LastCleanup - Retention
        BY <1>6, <3>1 DEF StoreInv, FilesInv
      <4> QED
        BY <1>5, <4>1, Sizes
    <3> QED
      BY <3>1
  <2>3. \A name \in stored : WrittenAt(name) \in 0 .. now + 1
    BY <1>3, <1>6
  <2>4. /\ IsFiniteSet(stored) /\ DOMAIN files \subseteq stored /\ kept \subseteq stored
        /\ \A name \in DOMAIN files : files[name].links \subseteq Targets
    BY DEF StoreInv, FilesInv
  <2>5. /\ IsFiniteSet(stored') /\ DOMAIN files' \subseteq stored' /\ kept' \subseteq stored'
        /\ \A name \in stored' : WrittenAt(name) \in 0 .. now'
        /\ \A name \in stored' : WrittenAt(name) >= now' - Retention => name \in DOMAIN files'
        /\ \A name \in DOMAIN files' :
             /\ WrittenAt(name) >= LastCleanup' - Retention \/ name \in kept'
             /\ files'[name].links \subseteq Targets
    <3>1. files' = files /\ stored' = stored /\ now' = now + 1 /\ kept' = kept
      BY <1>1, <1>2
    <3>2. \A name \in stored' : WrittenAt(name) \in 0 .. now'
      BY <2>3, <3>1
    <3>3. \A name \in stored' : WrittenAt(name) >= now' - Retention => name \in DOMAIN files'
      BY <2>1, <3>1
    <3>4. \A name \in DOMAIN files' :
            /\ WrittenAt(name) >= LastCleanup' - Retention \/ name \in kept'
            /\ files'[name].links \subseteq Targets
      BY <2>2, <2>4, <3>1
    <3> QED
      BY <2>4, <3>1, <3>2, <3>3, <3>4
  <2> QED
    BY <2>5, Zenon DEF FilesInv, WrittenAt
<1>8. \A t : Past(t) => Past(t)'
  BY <1>1, <1>3 DEF Past
<1>9. WaitingInv' /\ QueueInv'
  BY <1>2, <1>8 DEF StoreInv, WaitingInv, QueueInv
<1> QED
  BY <1>4, <1>7, <1>9 DEF StoreInv

LEMMA StoreStep == PlaneInv /\ StoreInv /\ [Next]_vars => StoreInv'
<1> SUFFICES ASSUME PlaneInv, StoreInv, [Next]_vars PROVE StoreInv'
  OBVIOUS
<1>1. CASE UNCHANGED <<storeVars, now, due, resultVars>>
  BY <1>1 DEF StoreInv, ClockType, FilesInv, WaitingInv, QueueInv, Past, LastCleanup, WrittenAt,
              storeVars, resultVars
<1>2. CASE Cleanup
  BY <1>2, CleanupStep
<1>3. CASE Average
  BY <1>3, AverageStep
<1>4. CASE Tick
  BY <1>4, TickStep
<1>5. ASSUME NEW v \in VMs, Receive(v) PROVE StoreInv'
  BY <1>5, ReceiveStep
<1>6. CASE Enqueue
  BY <1>6, EnqueueStep
<1> QED
  BY <1>1, <1>2, <1>3, <1>4, <1>5, <1>6
     DEF Next, BeginRound, EndRound, Collect, Lose, Probe, vars

LEMMA Invariance == Spec => []IInv
<1>1. Init => IInv
  BY PlaneInit, StoreInit DEF IInv
<1>2. IInv /\ [Next]_vars => IInv'
  BY PlaneStep, StoreStep DEF IInv
<1> QED
  BY <1>1, <1>2, PTL DEF Spec

-----------------------------------------------------------------------------
(* Every variable keeps its type; what a machine knows of a target it      *)
(* learned in a round it completed, and what is stored was received.       *)
THEOREM TypeCorrect == Spec => []TypeOK
<1>1. IInv => TypeOK
  <2> SUFFICES ASSUME IInv PROVE TypeOK
    OBVIOUS
  <2> QED
    BY DEF IInv, PlaneInv, PlaneType, StoreInv, ClockType, FilesInv, WaitingInv, QueueInv,
               Past, TypeOK
<1> QED
  BY <1>1, Invariance, PTL

(* Whenever the reporter's timer fires, a report holds the results of      *)
(* whole rounds, the newest of each target.                                *)
THEOREM ReportsWhole == Spec => []NoHalfRound
<1>1. IInv => NoHalfRound
  <2> SUFFICES ASSUME IInv, NEW v \in VMs, sending[v] # None
               PROVE  \E n \in 0 .. Len(lists[v]) : sending[v].link = AfterRounds(lists[v], n)
    BY DEF NoHalfRound
  <2>1. PICK n \in 0 .. Len(lists[v]) : sending[v] = [link |-> AfterRounds(lists[v], n)]
    BY DEF IInv, PlaneInv, WholeRounds
  <2> QED
    BY <2>1
<1> QED
  BY <1>1, Invariance, PTL

(* The scaler reads the newest of the results that were queued, the newest *)
(* first, whatever ticks gave none and however often the queue overflowed. *)
THEOREM NewestFirst == Spec => []SnapshotNewestFirst
<1>1. IInv => SnapshotNewestFirst
  <2> SUFFICES ASSUME IInv PROVE SnapshotNewestFirst
    OBVIOUS
  <2> DEFINE n == Len(queue)
             snapshot == SnapshotLatestFirst
             times == {snapshot[i].time : i \in DOMAIN snapshot}
  <2>1. queue \in Seq(Results) /\ n \in Nat /\ DOMAIN queue = 1 .. n
    BY DEF IInv, StoreInv, QueueInv
  <2>2. snapshot = [k \in 1 .. n |-> queue[n - k + 1]]
    BY Zenon DEF SnapshotLatestFirst, Reverse
  <2>3. /\ DOMAIN snapshot = 1 .. n /\ Len(snapshot) = n
        /\ \A k \in 1 .. n : snapshot[k] = queue[n - k + 1] /\ n - k + 1 \in 1 .. n
        /\ \A k \in 1 .. n : queue[k] = snapshot[n - k + 1] /\ n - k + 1 \in 1 .. n
    BY <2>1, <2>2
  <2> HIDE DEF n, snapshot
  <2>4. ASSUME NEW i \in 1 .. n, NEW j \in 1 .. n, i < j
        PROVE  snapshot[i].time > snapshot[j].time
    <3>1. n - j + 1 < n - i + 1 /\ n - j + 1 \in 1 .. n /\ n - i + 1 \in 1 .. n
      BY <2>1, <2>4
    <3>2. queue[n - j + 1].time < queue[n - i + 1].time
      BY <2>1, <3>1 DEF IInv, StoreInv, QueueInv
    <3>3. queue[n - j + 1].time \in Int /\ queue[n - i + 1].time \in Int
      <4>1. queue[n - j + 1] \in Results /\ queue[n - i + 1] \in Results
        BY <2>1, <3>1
      <4> QED
        BY <4>1 DEF Results
    <3> QED
      BY <2>3, <3>2, <3>3
  <2>5. times \subseteq averaged
    BY <2>1, <2>3 DEF IInv, StoreInv, QueueInv
  <2>6. ASSUME NEW t \in averaged, t \notin times
        PROVE  n = QueueSize /\ \A u \in times : t < u
    <3>1. \A k \in 1 .. n : queue[k].time \in times
      BY <2>3
    <3>2. n = QueueSize /\ \A k \in 1 .. n : t < queue[k].time
      BY <2>1, <2>6, <3>1 DEF IInv, StoreInv, QueueInv, n
    <3> QED
      BY <2>3, <3>2
  <2> QED
    BY <2>3, <2>4, <2>5, <2>6, Zenon DEF SnapshotNewestFirst, snapshot
<1> QED
  BY <1>1, Invariance, PTL

(* A result counts all files of the retention that could be read, and      *)
(* nothing that is older by more than the period of the cleanup but what   *)
(* the last cleanup failed to remove.                                      *)
THEOREM Counted == Spec => WindowCounted
<1> DEFINE within(age) == {name \in stored : WrittenAt(name) >= now - age}
           count == averaging'.count
           New == averaging' # averaging /\ averaging' # None
           Right == New => /\ count >= Cardinality(within(Retention) \ unread')
                           /\ count <= Cardinality(within(Retention + CleanupPeriod) \cup kept)
<1>1. IInv /\ [Next]_vars => [Right]_vars
  <2> SUFFICES ASSUME IInv, [Next]_vars, New
               PROVE  /\ count >= Cardinality(within(Retention) \ unread')
                      /\ count <= Cardinality(within(Retention + CleanupPeriod) \cup kept)
    BY DEF vars
  <2>1. Average
    BY DEF Next, BeginRound, EndRound, Collect, Lose, Probe, Receive, Cleanup,
           Enqueue, Tick, vars, resultVars
  <2>2. PICK missed \in SUBSET DOMAIN files :
          averaging' = Result(DOMAIN files \ missed) /\ unread' = missed
    BY <2>1, Zenon DEF Average
  <2> DEFINE read == DOMAIN files \ missed
  <2>3. count = Cardinality(read)
    BY <2>2, ResultType DEF IInv
  <2>4. /\ \A name \in stored : WrittenAt(name) \in Int
        /\ now \in Nat /\ Retention \in Nat /\ CleanupPeriod \in Nat \ {0}
    BY Sizes DEF IInv, StoreInv, ClockType, FilesInv
  <2> DEFINE new == within(Retention) \ unread'
             old == within(Retention + CleanupPeriod) \cup kept
  <2>5. new \subseteq read
    BY <2>2 DEF IInv, StoreInv, FilesInv
  <2>6. read \subseteq old
    <3>1. LastCleanup \in Int /\ LastCleanup >= now - CleanupPeriod
      <4>1. now % CleanupPeriod \in 0 .. CleanupPeriod - 1
        BY <2>4, ModStep
      <4> QED
        BY <2>4, <4>1 DEF LastCleanup
    <3>2. \A name \in read :
            name \in stored /\ (WrittenAt(name) >= LastCleanup - Retention \/ name \in kept)
      BY DEF IInv, StoreInv, FilesInv
    <3> HIDE DEF read
    <3>3. \A name \in read :
            /\ name \in stored
            /\ WrittenAt(name) >= now - (Retention + CleanupPeriod) \/ name \in kept
      BY <2>4, <3>1, <3>2
    <3> QED
      BY <3>3
  <2>7. IsFiniteSet(stored) /\ old \subseteq stored
    BY DEF IInv, StoreInv, FilesInv
  <2> HIDE DEF read, new, old
  <2>8. IsFiniteSet(old) /\ IsFiniteSet(read)
    BY <2>6, <2>7, FS_Subset
  <2>9. Cardinality(new) <= Cardinality(read) /\ Cardinality(read) <= Cardinality(old)
    BY <2>5, <2>6, <2>8, FS_Subset
  <2> QED
    <3>1. count >= Cardinality(new) /\ count <= Cardinality(old)
      <4>1. Cardinality(new) \in Nat /\ Cardinality(read) \in Nat
        BY <2>5, <2>8, FS_Subset, FS_CardinalityType
      <4> HIDE DEF count
      <4> QED
        BY <2>3, <2>9, <4>1
    <3> QED
      BY <3>1 DEF new, old
<1> QED
  BY <1>1, Invariance, PTL DEF Spec, WindowCounted
=============================================================================
