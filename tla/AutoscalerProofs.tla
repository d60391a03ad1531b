--------------------------- MODULE AutoscalerProofs ---------------------------
(***************************************************************************)
(* Proofs about Autoscaler, for any number of replicas that lead at once,  *)
(* any number of hosts and any configuration.                              *)
(***************************************************************************)
EXTENDS Autoscaler, FiniteSetTheorems, TLAPS

USE ReplicasAssumption, HostsAssumption, ConfigAssumption

-------------------------------------------------------------------------------
(* What the steps of a tick make of a runner *)

\* Windows are sets with at most one duration.
LEMMA WindowFacts ==
    ASSUME NEW max \in Nat, NEW w \in Window(max)
    PROVE  /\ {} \in Window(max)
           /\ Since({}) \in Window(max)
           /\ Since(w) \in Window(max)
           /\ Longer(w, max) \in Window(max)
<1>1. {} \in Window(max) /\ {0} \in Window(max)
  BY DEF Window
<1>2. CASE w = {}
  <2>1. Longer(w, max) = {}
    BY <1>2 DEF Longer
  <2> QED
    BY <1>1, <1>2, <2>1 DEF Since
<1>3. CASE w # {}
  <2>1. PICK d \in 0 .. max : w = {d}
    BY <1>3 DEF Window
  <2>2. Longer(w, max) = {IF d < max THEN d + 1 ELSE d}
    BY <2>1 DEF Longer
  <2>3. (IF d < max THEN d + 1 ELSE d) \in 0 .. max
    BY <2>1
  <2> QED
    BY <1>1, <1>3, <2>2, <2>3 DEF Since, Window
<1> QED
  BY <1>2, <1>3

\* A last action is forgotten once it is Cooldown ago.
LEMMA CoolingFacts ==
    ASSUME NEW w \in Window(Cooldown)
    PROVE  UNION {Cooling(d + 1) : d \in w} \in Window(Cooldown)
<1>1. CASE w = {}
  <2>1. UNION {Cooling(d + 1) : d \in w} = {}
    BY <1>1
  <2> QED
    BY <2>1 DEF Window
<1>2. CASE w # {}
  <2>1. PICK d \in 0 .. Cooldown : w = {d}
    BY <1>2 DEF Window
  <2>2. UNION {Cooling(e + 1) : e \in w} = Cooling(d + 1)
    BY <2>1
  <2>3. Cooling(d + 1) \in Window(Cooldown)
    BY DEF Cooling, Window
  <2> QED
    BY <2>2, <2>3
<1> QED
  BY <1>1, <1>2

\* The fields of a runner.
LEMMA RunnerFields ==
    ASSUME NEW t \in RunnerState
    PROVE  /\ t.pc \in Steps
           /\ t.pending \in Nat
           /\ t.nodes \in [Hosts -> NodeStatus]
           /\ t.target \in SUBSET Hosts
           /\ t.pendingFor \in Window(SustainWindow)
           /\ t.idleFor \in [Hosts -> Window(IdleWindow)]
           /\ t.sinceScale \in Window(Cooldown)
BY DEF RunnerState

\* A fresh runner is idle and has listed nothing.
LEMMA StartFacts ==
    /\ RunnerStart \in RunnerState
    /\ RunnerStart.pc = "idle"
    /\ RunnerStart.target = {}
    /\ RunnerStart.nodes = NoNodes
    /\ NoNodes \in [Hosts -> NodeStatus]
<1>1. /\ {} \in Window(SustainWindow)
      /\ {} \in Window(IdleWindow)
      /\ {} \in Window(Cooldown)
  BY DEF Window
<1>2. NoNodes \in [Hosts -> NodeStatus]
  BY DEF NoNodes, NodeStatus
<1> QED
  BY <1>1, <1>2 DEF RunnerStart, RunnerState, Steps

\* The end of a tick leaves an idle runner with its windows.
LEMMA EndedFacts ==
    ASSUME NEW t \in RunnerState
    PROVE  /\ Ended(t) \in RunnerState
           /\ Ended(t).pc = "idle"
           /\ Ended(t).target = {}
           /\ Ended(t).nodes = NoNodes
<1>1. NoNodes \in [Hosts -> NodeStatus]
  BY StartFacts
<1> QED
  BY <1>1 DEF Ended, RunnerState, Steps

-------------------------------------------------------------------------------
(* TickDecide *)

\* A runner as the invariant has it: well formed, with the target that its step
\* needs, and with rows that exist.
Sound(t) ==
    /\ t \in RunnerState
    /\ Targeted(t)
    /\ \A h \in Hosts : t.nodes[h] # "none" => h \in Range(rows)
    /\ t.pc \in {"cordon", "remove", "bury"} => t.target \subseteq Range(rows)

\* The invariant without the cap.
Shape == TypeOK /\ RowsExist

\* The runners' part of the invariant, runner by runner.
LEMMA ShapeIsSound ==
    Shape <=> /\ pending \in Nat
              /\ rows \in Seq(Hosts)
              /\ nodes \in [Hosts -> NodeStatus]
              /\ busy \in SUBSET Hosts
              /\ containers \in [Hosts -> {"none", "created", "running"}]
              /\ calls \in SUBSET Hosts
              /\ \A h \in Hosts : nodes[h] # "none" => h \in Range(rows)
              /\ runner \in [Replicas -> RunnerState]
              /\ \A r \in Replicas : Sound(runner[r])
BY DEF Shape, TypeOK, RowsExist, Sound

\* Of two hosts that have rows, one comes first, so the loop over the nodes
\* stops at one host at most.
LEMMA FirstIsOne ==
    ASSUME NEW t \in RunnerState, rows \in Seq(Hosts),
           \A h \in Hosts : t.nodes[h] # "none" => h \in Range(rows)
    PROVE  /\ FirstReclaimable(t) \subseteq Hosts \cap Range(rows)
           /\ FirstReclaimable(t) # {} => \E h \in Hosts : FirstReclaimable(t) = {h}
<1>1. \A h \in Reclaimable(t) : h \in Hosts /\ Idle(t, h)
  BY DEF Reclaimable, IdleFor
<1>2. \A h \in Reclaimable(t) : h \in Hosts /\ h \in Range(rows)
  BY <1>1 DEF Idle
<1>3. ASSUME NEW g \in FirstReclaimable(t), NEW h \in FirstReclaimable(t)
      PROVE  g = h
  <2>1. g \in Reclaimable(t) /\ h \in Reclaimable(t) /\ ~Before(g, h) /\ ~Before(h, g)
    BY <1>2 DEF FirstReclaimable, Scanned
  <2>2. PICK i \in DOMAIN rows : rows[i] = g
    BY <1>2, <2>1 DEF Range
  <2>3. PICK j \in DOMAIN rows : rows[j] = h
    BY <1>2, <2>1 DEF Range
  <2>4. i \in Int /\ j \in Int
    OBVIOUS
  <2>5. ~(i < j) /\ ~(j < i)
    BY <2>1, <2>2, <2>3 DEF Before
  <2> QED
    BY <2>2, <2>3, <2>4, <2>5
<1>4. FirstReclaimable(t) \subseteq Hosts \cap Range(rows)
  BY <1>2 DEF FirstReclaimable
<1>5. ASSUME FirstReclaimable(t) # {}
      PROVE  \E h \in Hosts : FirstReclaimable(t) = {h}
  <2>1. PICK h : h \in FirstReclaimable(t)
    BY <1>5
  <2>2. FirstReclaimable(t) = {h} /\ h \in Hosts
    BY <1>3, <1>4, <2>1
  <2> QED
    BY <2>2
<1> QED
  BY <1>4, <1>5

\* A tick that decides to launch a worker has found fewer than the maximum; one
\* that decides to reclaim has one existing row to reclaim.
LEMMA DecidedFacts ==
    ASSUME NEW t \in RunnerState, rows \in Seq(Hosts), t.target = {},
           \A h \in Hosts : t.nodes[h] # "none" => h \in Range(rows)
    PROVE  /\ Sound(Decided(t))
           /\ Decided(t).pc \in {"pick", "create"} => BelowMax
<1> DEFINE idle == [h \in Hosts |-> IF h \in Scanned(t) THEN IdleFor(t, h) ELSE t.idleFor[h]]
           s == [t EXCEPT !.idleFor = idle]
           target == FirstReclaimable(t)
           pc == IF \E h \in target : t.nodes[h] = "cordoned" THEN "remove" ELSE "cordon"
<1>1. idle \in [Hosts -> Window(IdleWindow)]
  <2>1. ASSUME NEW h \in Hosts
        PROVE  t.idleFor[h] \in Window(IdleWindow) /\ IdleFor(t, h) \in Window(IdleWindow)
    <3>1. t.idleFor[h] \in Window(IdleWindow)
      BY RunnerFields
    <3>2. {} \in Window(IdleWindow) /\ Since(t.idleFor[h]) \in Window(IdleWindow)
      BY <3>1, WindowFacts
    <3> QED
      BY <3>1, <3>2 DEF IdleFor
  <2> QED
    BY <2>1
<1>2. s \in RunnerState /\ s.pc = t.pc /\ s.target = {} /\ s.nodes = t.nodes
  <2> HIDE DEF idle
  <2> QED
    BY <1>1 DEF RunnerState
<1>3. CASE WantsMore(t)
  <2>1. Decided(t) = [Ended(t) EXCEPT !.pc = "pick"]
    BY <1>3 DEF Decided
  <2>2. /\ Decided(t) \in RunnerState
        /\ Decided(t).pc = "pick" /\ Decided(t).target = {} /\ Decided(t).nodes = NoNodes
    BY <2>1, EndedFacts DEF RunnerState, Steps
  <2> QED
    BY <1>3, <2>2 DEF Sound, Targeted, WantsMore, NoNodes
<1>4. CASE ~WantsMore(t) /\ target # {}
  <2>1. Decided(t) = [Ended(s) EXCEPT !.pc = pc, !.target = target]
    BY <1>4 DEF Decided
  <2>2. /\ target \subseteq Hosts \cap Range(rows)
        /\ \E h \in Hosts : target = {h}
    BY <1>4, FirstIsOne
  <2>3. pc \in {"cordon", "remove"} /\ pc \in Steps
    BY DEF Steps
  <2>4. /\ Decided(t) \in RunnerState
        /\ Decided(t).pc = pc /\ Decided(t).target = target /\ Decided(t).nodes = NoNodes
    <3>0. Ended(s) \in RunnerState /\ Ended(s).nodes = NoNodes
      <4> HIDE DEF s
      <4> QED
        BY <1>2, EndedFacts
    <3>1. PICK u \in RunnerState, p \in Steps, g \in SUBSET Hosts : u = Ended(s) /\ p = pc /\ g = target
      BY <2>2, <2>3, <3>0
    <3>2. Decided(t) = [u EXCEPT !.pc = p, !.target = g]
      BY <2>1, <3>1
    <3>3. LET v == [u EXCEPT !.pc = p, !.target = g]
          IN  v \in RunnerState /\ v.pc = p /\ v.target = g /\ v.nodes = u.nodes
      BY DEF RunnerState
    <3> HIDE DEF s, pc, target
    <3> QED
      BY <3>0, <3>1, <3>2, <3>3
  <2> HIDE DEF s, pc, target
  <2> QED
    BY <2>2, <2>3, <2>4 DEF Sound, Targeted, NoNodes
<1>5. CASE ~WantsMore(t) /\ target = {}
  <2>1. Decided(t) = Ended(s)
    BY <1>5 DEF Decided
  <2>2. /\ Decided(t) \in RunnerState
        /\ Decided(t).pc = "idle" /\ Decided(t).target = {} /\ Decided(t).nodes = NoNodes
    <3> HIDE DEF s
    <3> QED
      BY <1>2, <2>1, EndedFacts
  <2> QED
    BY <2>2 DEF Sound, Targeted, NoNodes
<1> QED
  BY <1>3, <1>4, <1>5

-------------------------------------------------------------------------------
(* The shape of the state is kept *)

\* A new row comes last.
LEMMA AppendFacts ==
    ASSUME rows \in Seq(Hosts), NEW h \in Hosts
    PROVE  /\ Append(rows, h) \in Seq(Hosts)
           /\ Range(rows) \subseteq Range(Append(rows, h))
           /\ h \in Range(Append(rows, h))
<1>1. /\ Append(rows, h) \in Seq(Hosts)
      /\ Len(rows) \in Nat
      /\ DOMAIN rows = 1 .. Len(rows)
      /\ DOMAIN Append(rows, h) = 1 .. Len(rows) + 1
      /\ \A i \in 1 .. Len(rows) : Append(rows, h)[i] = rows[i]
      /\ Append(rows, h)[Len(rows) + 1] = h
  OBVIOUS
<1>2. \A i \in 1 .. Len(rows) : i \in 1 .. Len(rows) + 1
  BY <1>1
<1>3. Len(rows) + 1 \in 1 .. Len(rows) + 1
  BY <1>1
<1> QED
  BY <1>1, <1>2, <1>3 DEF Range

\* nextHostname names one host.
LEMMA NextHostIsOne ==
    ASSUME NextHost # {}
    PROVE  \E h \in Hosts : NextHost = {h}
<1>1. PICK h : h \in NextHost
  OBVIOUS
<1>2. \A g \in NextHost : g = h
  BY <1>1 DEF NextHost
<1> QED
  BY <1>1, <1>2 DEF NextHost

\* A step that replaces one runner by a sound one.
LEMMA OneRunner ==
    ASSUME Shape, NEW r \in Replicas, NEW x, Sound(x),
           runner' = [runner EXCEPT ![r] = x], UNCHANGED rows
    PROVE  /\ runner' \in [Replicas -> RunnerState]
           /\ \A q \in Replicas : Sound(runner[q])'
<1>1. runner \in [Replicas -> RunnerState] /\ \A q \in Replicas : Sound(runner[q])
  BY ShapeIsSound
<1>2. x \in RunnerState
  BY DEF Sound
<1>3. \A q \in Replicas : runner'[q] = IF q = r THEN x ELSE runner[q]
  BY <1>1
<1>4. ASSUME NEW q \in Replicas
      PROVE  Sound(runner[q])'
  <2>1. PICK y : y = runner'[q] /\ Sound(y)
    BY <1>1, <1>3
  <2> QED
    BY <2>1 DEF Sound, Targeted
<1> QED
  BY <1>1, <1>2, <1>4

\* A runner between ticks needs no target and has listed nothing.
LEMMA IdleIsSound ==
    ASSUME NEW x \in RunnerState, x.target = {}, x.pc = "idle", x.nodes = NoNodes
    PROVE  Sound(x)
BY DEF Sound, Targeted, NoNodes

\* Every step of a runner leaves a sound one.
LEMMA RunnerStepSound ==
    ASSUME Shape, NEW r \in Replicas,
           TickStep(r) \/ ScaleUpStep(r) \/ ScaleDownStep(r) \/ Restart(r)
    PROVE  \E x : Sound(x) /\ runner' = [runner EXCEPT ![r] = x]
<1> PICK t : t = runner[r]
  OBVIOUS
<1>1. /\ t \in RunnerState /\ Sound(t) /\ runner \in [Replicas -> RunnerState]
      /\ rows \in Seq(Hosts) /\ nodes \in [Hosts -> NodeStatus]
      /\ \A h \in Hosts : nodes[h] # "none" => h \in Range(rows)
  BY ShapeIsSound
<1>2. /\ Targeted(t)
      /\ \A h \in Hosts : t.nodes[h] # "none" => h \in Range(rows)
      /\ t.pc \in {"cordon", "remove", "bury"} => t.target \subseteq Range(rows)
  BY <1>1 DEF Sound
<1>e. Ended(t) \in RunnerState /\ Ended(t).pc = "idle" /\ Ended(t).target = {} /\ Ended(t).nodes = NoNodes
  BY <1>1, EndedFacts
<1>w. {} \in Window(SustainWindow) /\ {} \in Window(IdleWindow) /\ Cooling(0) \in Window(Cooldown)
  BY DEF Window, Cooling
<1>3. CASE TickSkip(r)
  <2> DEFINE x == [t EXCEPT !.pendingFor = {}, !.idleFor = [h \in Hosts |-> {}]]
  <2>1. runner' = [runner EXCEPT ![r] = x]
    BY <1>1, <1>3 DEF TickSkip
  <2>2. x \in RunnerState /\ x.pc = t.pc /\ x.target = t.target /\ x.nodes = t.nodes
    BY <1>1, <1>w DEF RunnerState
  <2>3. t.pc = "idle"
    BY <1>3 DEF TickSkip
  <2>4. Sound(x)
    BY <1>2, <2>2, <2>3 DEF Sound, Targeted
  <2> QED
    BY <2>1, <2>4
<1>4. CASE TickCount(r)
  <2> DEFINE x == [t EXCEPT !.pc = "counted", !.pending = pending]
  <2>1. runner' = [runner EXCEPT ![r] = x] /\ t.pc = "idle"
    BY <1>1, <1>4 DEF TickCount
  <2>2. x \in RunnerState /\ x.pc = "counted" /\ x.target = t.target /\ x.nodes = t.nodes
    BY <1>1, ShapeIsSound DEF RunnerState, Steps
  <2>3. Sound(x)
    BY <1>2, <2>1, <2>2 DEF Sound, Targeted
  <2> QED
    BY <2>1, <2>3
<1>5. CASE TickNodes(r)
  <2> DEFINE seen == [h \in Hosts |-> Listed(nodes[h])]
             x == [t EXCEPT !.pc = "listed", !.nodes = seen]
  <2>1. runner' = [runner EXCEPT ![r] = x] /\ t.pc = "counted"
    BY <1>1, <1>5 DEF TickNodes
  <2>2. x \in RunnerState /\ x.pc = "listed" /\ x.target = t.target /\ x.nodes = seen
    <3>1. seen \in [Hosts -> NodeStatus]
      BY <1>1 DEF Listed, NodeStatus
    <3> HIDE DEF seen
    <3> QED
      BY <1>1, <3>1 DEF RunnerState, Steps
  <2>s. \A h \in Hosts : seen[h] # "none" => h \in Range(rows)
    BY <1>1 DEF Listed
  <2>3. Sound(x)
    <3> HIDE DEF x, seen
    <3> QED
      BY <1>1, <1>2, <2>1, <2>2, <2>s DEF Sound, Targeted
  <2> QED
    BY <2>1, <2>3
<1>6. CASE TickDecide(r)
  <2>1. PICK u : u = [t EXCEPT !.pendingFor = PendingFor(t)]
    OBVIOUS
  <2>2. runner' = [runner EXCEPT ![r] = Decided(u)] /\ t.pc = "listed"
    BY <1>6, <2>1 DEF TickDecide
  <2>3. PendingFor(t) \in Window(SustainWindow)
    BY <1>1, <1>w, RunnerFields, WindowFacts DEF PendingFor
  <2>4. u \in RunnerState /\ u.target = t.target /\ u.nodes = t.nodes
    BY <1>1, <2>1, <2>3 DEF RunnerState
  <2>5. t.target = {}
    BY <1>2, <2>2 DEF Targeted
  <2>6. Sound(Decided(u))
    BY <1>1, <1>2, <2>4, <2>5, DecidedFacts
  <2> QED
    BY <2>2, <2>6
<1>7. CASE TickError(r)
  <2>1. runner' = [runner EXCEPT ![r] = Ended(t)]
    BY <1>1, <1>7 DEF TickError
  <2> QED
    BY <1>e, <2>1, IdleIsSound
<1>8. CASE ScaleUpPick(r)
  <2> DEFINE x == [t EXCEPT !.pc = "create", !.target = NextHost]
  <2>1. runner' = [runner EXCEPT ![r] = x]
    BY <1>1, <1>8 DEF ScaleUpPick
  <2>2. \E h \in Hosts : NextHost = {h}
    BY <1>8, NextHostIsOne DEF ScaleUpPick
  <2>3. x \in RunnerState /\ x.pc = "create" /\ x.target = NextHost /\ x.nodes = t.nodes
    BY <1>1, <2>2 DEF RunnerState, Steps
  <2>4. Sound(x)
    BY <1>2, <2>2, <2>3 DEF Sound, Targeted
  <2> QED
    BY <2>1, <2>4
<1>9. CASE ScaleUpPickBlind(r)
  <2> DEFINE x == [t EXCEPT !.pc = "create", !.target = {1}]
  <2>1. runner' = [runner EXCEPT ![r] = x]
    BY <1>1, <1>9 DEF ScaleUpPickBlind
  <2>2. x \in RunnerState /\ x.pc = "create" /\ x.target = {1} /\ x.nodes = t.nodes
    BY <1>1 DEF RunnerState, Steps
  <2>3. Sound(x)
    BY <1>2, <2>2 DEF Sound, Targeted
  <2> QED
    BY <2>1, <2>3
<1>10. CASE \E h \in Hosts : ScaleUp(r, h)
  <2> DEFINE x == [Ended(t) EXCEPT !.pendingFor = {}, !.sinceScale = Cooling(0)]
  <2>1. runner' = [runner EXCEPT ![r] = x]
    BY <1>1, <1>10 DEF ScaleUp
  <2>2. x \in RunnerState /\ x.pc = "idle" /\ x.target = {} /\ x.nodes = NoNodes
    BY <1>e, <1>w DEF RunnerState
  <2> QED
    BY <2>1, <2>2, IdleIsSound
<1>11. CASE \E h \in Hosts : ScaleUpFails(r, h) \/ RemoveLost(r, h)
  <2>1. runner' = [runner EXCEPT ![r] = Ended(t)]
    BY <1>1, <1>11 DEF ScaleUpFails, RemoveLost
  <2> QED
    BY <1>e, <2>1, IdleIsSound
<1>12. CASE \E h \in Hosts : Cordon(r, h)
  <2> DEFINE x == [t EXCEPT !.pc = "remove"]
  <2>1. runner' = [runner EXCEPT ![r] = x] /\ t.pc = "cordon"
    BY <1>1, <1>12 DEF Cordon
  <2>2. x \in RunnerState /\ x.pc = "remove" /\ x.target = t.target /\ x.nodes = t.nodes
    BY <1>1 DEF RunnerState, Steps
  <2>3. Sound(x)
    BY <1>2, <2>1, <2>2 DEF Sound, Targeted
  <2> QED
    BY <2>1, <2>3
<1>13. CASE \E h \in Hosts : RemoveWorker(r, h)
  <2> DEFINE x == [t EXCEPT !.pc = "bury"]
  <2>1. runner' = [runner EXCEPT ![r] = x] /\ t.pc = "remove"
    BY <1>1, <1>13 DEF RemoveWorker
  <2>2. x \in RunnerState /\ x.pc = "bury" /\ x.target = t.target /\ x.nodes = t.nodes
    BY <1>1 DEF RunnerState, Steps
  <2>3. Sound(x)
    BY <1>2, <2>1, <2>2 DEF Sound, Targeted
  <2> QED
    BY <2>1, <2>3
<1>14. CASE \E h \in Hosts : Bury(r, h) \/ BuryFails(r, h)
  <2>1. PICK h \in Hosts : Buried(r, h)
    BY <1>14 DEF Bury, BuryFails
  <2> DEFINE x == [Ended(t) EXCEPT !.idleFor[h] = {}, !.sinceScale = Cooling(0)]
  <2>2. runner' = [runner EXCEPT ![r] = x]
    BY <1>1, <2>1 DEF Buried
  <2>3. Ended(t).idleFor \in [Hosts -> Window(IdleWindow)]
    BY <1>e, RunnerFields
  <2>4. x \in RunnerState /\ x.pc = "idle" /\ x.target = {} /\ x.nodes = NoNodes
    BY <1>e, <1>w, <2>3 DEF RunnerState
  <2> QED
    BY <2>2, <2>4, IdleIsSound
<1>15. CASE Restart(r)
  <2>1. runner' = [runner EXCEPT ![r] = RunnerStart]
    BY <1>15 DEF Restart
  <2> QED
    BY <2>1, StartFacts, IdleIsSound
<1> QED
  BY <1>3, <1>4, <1>5, <1>6, <1>7, <1>8, <1>9, <1>10, <1>11, <1>12, <1>13, <1>14, <1>15
     DEF TickStep, ScaleUpStep, ScaleDownStep

\* A step of the environment leaves the runners alone, or only ages them.
LEMMA EnvironmentStepSound ==
    ASSUME Shape, UNCHANGED runner \/ Elapse, UNCHANGED rows
    PROVE  /\ runner' \in [Replicas -> RunnerState]
           /\ \A q \in Replicas : Sound(runner[q])'
<1>1. runner \in [Replicas -> RunnerState] /\ \A q \in Replicas : Sound(runner[q])
  BY ShapeIsSound
<1>2. CASE UNCHANGED runner
  <2>1. ASSUME NEW q \in Replicas PROVE Sound(runner[q])'
    BY <1>1, <1>2 DEF Sound, Targeted
  <2> QED
    BY <1>1, <1>2, <2>1
<1>3. CASE Elapse
  <2>1. ASSUME NEW q \in Replicas
        PROVE  runner'[q] \in RunnerState /\ Sound(runner[q])'
    <3>1. PICK t \in RunnerState : t = runner[q] /\ Sound(t)
      BY <1>1
    <3>2. PICK p, i, c : /\ p = Longer(t.pendingFor, SustainWindow)
                         /\ i = [h \in Hosts |-> Longer(t.idleFor[h], IdleWindow)]
                         /\ c = UNION {Cooling(d + 1) : d \in t.sinceScale}
      OBVIOUS
    <3>3. /\ p \in Window(SustainWindow)
          /\ i \in [Hosts -> Window(IdleWindow)]
          /\ c \in Window(Cooldown)
      BY <3>2, RunnerFields, WindowFacts, CoolingFacts
    <3>4. PICK u : u = [t EXCEPT !.pendingFor = p, !.idleFor = i, !.sinceScale = c]
      OBVIOUS
    <3>5. u \in RunnerState /\ u.pc = t.pc /\ u.target = t.target /\ u.nodes = t.nodes
      BY <3>3, <3>4 DEF RunnerState
    <3>6. runner'[q] = u
      BY <1>3, <3>1, <3>2, <3>4 DEF Elapse
    <3>7. Sound(u)
      BY <3>1, <3>5 DEF Sound, Targeted
    <3> QED
      BY <3>5, <3>6, <3>7 DEF Sound, Targeted
  <2>2. runner' = [q \in Replicas |-> runner'[q]]
    BY <1>3 DEF Elapse
  <2> QED
    BY <2>1, <2>2
<1> QED
  BY <1>2, <1>3

\* The shape of the state is an invariant of every step.
LEMMA ShapeStep ==
    ASSUME Shape, [Next]_vars
    PROVE  Shape'
<1> DEFINE Rest == /\ pending \in Nat
                   /\ rows \in Seq(Hosts)
                   /\ nodes \in [Hosts -> NodeStatus]
                   /\ busy \in SUBSET Hosts
                   /\ containers \in [Hosts -> {"none", "created", "running"}]
                   /\ calls \in SUBSET Hosts
                   /\ \A h \in Hosts : nodes[h] # "none" => h \in Range(rows)
           Runners == /\ runner \in [Replicas -> RunnerState]
                      /\ \A r \in Replicas : Sound(runner[r])
<1>1. Rest /\ Runners
  BY ShapeIsSound
<1>p. Rest' /\ Runners' => Shape'
  BY DEF Shape, TypeOK, RowsExist, Sound
<1>2. CASE \E r \in Replicas : TickStep(r) \/ ScaleUpStep(r) \/ ScaleDownStep(r) \/ Restart(r)
  <2>1. PICK r \in Replicas : TickStep(r) \/ ScaleUpStep(r) \/ ScaleDownStep(r) \/ Restart(r)
    BY <1>2
  <2>2. UNCHANGED rows
    BY <2>1 DEF TickStep, TickSkip, TickCount, TickNodes, TickDecide, TickError, ScaleUpStep, ScaleUpPick,
                ScaleUpPickBlind, ScaleUp, ScaleUpFails, ScaleDownStep, Cordon, RemoveWorker, RemoveLost,
                Bury, BuryFails, Restart
  <2>3. Runners'
    <3>1. PICK x : Sound(x) /\ runner' = [runner EXCEPT ![r] = x]
      BY <2>1, RunnerStepSound
    <3> QED
      BY <2>2, <3>1, OneRunner
  <2>4. Rest'
    <3>1. CASE TickStep(r)
      BY <1>1, <3>1 DEF TickStep, TickSkip, TickCount, TickNodes, TickDecide, TickError
    <3>2. CASE ScaleUpStep(r)
      BY <1>1, <3>2 DEF ScaleUpStep, ScaleUpPick, ScaleUpPickBlind, ScaleUp, ScaleUpFails
    <3>3. CASE \E h \in Hosts : RemoveWorker(r, h) \/ RemoveLost(r, h) \/ BuryFails(r, h)
      BY <1>1, <3>3 DEF RemoveWorker, RemoveLost, BuryFails
    <3>4. CASE \E h \in Hosts : Cordon(r, h)
      <4>1. PICK h \in Hosts : Cordon(r, h)
        BY <3>4
      <4>2. h \in Range(rows)
        BY <1>1, <4>1 DEF Cordon, Sound
      <4>3. nodes' = [nodes EXCEPT ![h] = "cordoned"]
            /\ UNCHANGED <<pending, rows, busy, containers, calls>>
        BY <4>1 DEF Cordon
      <4> QED
        BY <1>1, <4>2, <4>3 DEF NodeStatus
    <3>5. CASE \E h \in Hosts : Bury(r, h)
      <4>1. PICK h \in Hosts : Bury(r, h)
        BY <3>5
      <4>2. h \in Range(rows)
        BY <1>1, <4>1 DEF Bury, Sound
      <4>3. /\ nodes' = [nodes EXCEPT ![h] = "dead"]
            /\ busy' = busy \ {h}
            /\ pending' = IF h \in busy THEN pending + 1 ELSE pending
            /\ UNCHANGED <<rows, containers, calls>>
        BY <4>1 DEF Bury, MarkNodeDead
      <4> QED
        BY <1>1, <4>2, <4>3 DEF NodeStatus
    <3>6. CASE Restart(r)
      BY <1>1, <3>6 DEF Restart
    <3> QED
      BY <2>1, <3>1, <3>2, <3>3, <3>4, <3>5, <3>6 DEF ScaleDownStep
  <2> QED
    BY <1>p, <2>3, <2>4
<1>4. CASE Submit \/ PlaceElsewhere \/ Elapse \/ UNCHANGED vars
  <2>1. UNCHANGED rows /\ (UNCHANGED runner \/ Elapse)
    BY <1>4 DEF Submit, PlaceElsewhere, Elapse, vars
  <2>2. Runners'
    BY <2>1, EnvironmentStepSound
  <2>3. Rest'
    <3>1. CASE Submit \/ PlaceElsewhere
      <4>1. /\ UNCHANGED <<rows, nodes, busy, containers, calls>>
            /\ pending' = pending + 1 \/ (pending > 0 /\ pending' = pending - 1)
        BY <3>1 DEF Submit, PlaceElsewhere
      <4>2. pending' \in Nat
        BY <1>1, <4>1
      <4> QED
        BY <1>1, <4>1, <4>2
    <3>2. CASE Elapse \/ UNCHANGED vars
      BY <1>1, <3>2 DEF Elapse, vars
    <3> QED
      BY <1>4, <3>1, <3>2
  <2> QED
    BY <1>p, <2>2, <2>3
<1>5. CASE \E h \in Hosts : PlaceHere(h) \/ TasksDone(h) \/ DetectNotReady(h) \/ DetectDead(h) \/ Call(h)
  <2>1. UNCHANGED <<rows, runner>>
    BY <1>5 DEF PlaceHere, TasksDone, DetectNotReady, DetectDead, Call
  <2>2. Runners'
    BY <2>1, EnvironmentStepSound
  <2>3. Rest'
    <3>1. CASE \E h \in Hosts : PlaceHere(h) \/ TasksDone(h) \/ Call(h)
      <4>1. PICK h \in Hosts : PlaceHere(h) \/ TasksDone(h) \/ Call(h)
        BY <3>1
      <4>2. /\ UNCHANGED <<rows, nodes, containers>>
            /\ pending' = pending \/ (pending > 0 /\ pending' = pending - 1)
            /\ busy' \in {busy, busy \cup {h}, busy \ {h}}
            /\ calls' \in {calls, calls \cup {h}}
        BY <4>1 DEF PlaceHere, TasksDone, Call
      <4>3. pending' \in Nat
        BY <1>1, <4>2
      <4> QED
        BY <1>1, <4>2, <4>3
    <3>2. CASE \E h \in Hosts : DetectNotReady(h)
      BY <1>1, <3>2 DEF DetectNotReady, NodeStatus
    <3>3. CASE \E h \in Hosts : DetectDead(h)
      <4>1. PICK h \in Hosts : DetectDead(h)
        BY <3>3
      <4>2. h \in Range(rows)
        BY <1>1, <4>1 DEF DetectDead
      <4>3. /\ nodes' = [nodes EXCEPT ![h] = "dead"]
            /\ busy' = busy \ {h}
            /\ pending' = IF h \in busy THEN pending + 1 ELSE pending
            /\ UNCHANGED <<rows, containers, calls>>
        BY <4>1 DEF DetectDead, MarkNodeDead
      <4>4. pending' \in Nat
        BY <1>1, <4>3
      <4>5. /\ nodes' \in [Hosts -> NodeStatus]
            /\ \A g \in Hosts : nodes'[g] # "none" => g \in Range(rows)
        BY <1>1, <4>2, <4>3 DEF NodeStatus
      <4> QED
        BY <1>1, <4>3, <4>4, <4>5
    <3> QED
      BY <1>5, <3>1, <3>2, <3>3
  <2> QED
    BY <1>p, <2>2, <2>3
<1>6. CASE \E h \in Hosts : CallArrives(h)
  <2>1. PICK h \in Hosts : CallArrives(h)
    BY <1>6
  <2>2. rows' \in Seq(Hosts) /\ Range(rows) \subseteq Range(rows') /\ h \in Range(rows')
    <3>1. CASE h \in Range(rows)
      BY <1>1, <2>1, <3>1 DEF CallArrives
    <3>2. CASE h \notin Range(rows)
      BY <1>1, <2>1, <3>2, AppendFacts DEF CallArrives
    <3> QED
      BY <3>1, <3>2
  <2>3. Runners'
    <3>1. runner' = runner
      BY <2>1 DEF CallArrives
    <3>2. ASSUME NEW q \in Replicas PROVE Sound(runner[q])'
      BY <1>1, <2>2, <3>1 DEF Sound, Targeted
    <3> QED
      BY <1>1, <3>1, <3>2
  <2>4. Rest'
    BY <1>1, <2>1, <2>2 DEF CallArrives, NodeStatus
  <2> QED
    BY <1>p, <2>3, <2>4
<1> QED
  BY <1>2, <1>4, <1>5, <1>6 DEF Next, EnvironmentStep

\* No rows, no containers and no ticks.
LEMMA ShapeInit == Init => Shape
<1> SUFFICES ASSUME Init PROVE Shape
  OBVIOUS
<1>1. \A r \in Replicas : runner[r] = RunnerStart
  BY DEF Init
<1>2. Sound(RunnerStart)
  BY StartFacts, IdleIsSound
<1>3. NoNodes \in [Hosts -> NodeStatus] /\ NoNodes \in [Hosts -> {"none", "created", "running"}]
  BY StartFacts DEF NoNodes
<1>4. \A h \in Hosts : NoNodes[h] = "none"
  BY DEF NoNodes
<1>5. runner \in [Replicas -> RunnerState] /\ \A r \in Replicas : Sound(runner[r])
  BY <1>1, <1>2, StartFacts DEF Init
<1>6. rows \in Seq(Hosts)
  BY DEF Init
<1> QED
  BY <1>3, <1>4, <1>5, <1>6, ShapeIsSound DEF Init

\* The rows, the containers and the ticks keep their shape, and a tick that
\* launches or reclaims has one host to do it to, although the rows change
\* under it.
THEOREM AutoscalerTyping == Spec => []TypeOK
<1>1. Shape /\ [Next]_vars => Shape'
  BY ShapeStep
<1>2. Shape => TypeOK
  BY DEF Shape
<1> QED
  BY <1>1, <1>2, ShapeInit, PTL DEF Spec

-------------------------------------------------------------------------------
(* The cap *)

\* Hosts and replicas can be counted.
LEMMA Countable ==
    ASSUME NEW E \in SUBSET Hosts, NEW C \in SUBSET Replicas
    PROVE  /\ IsFiniteSet(E) /\ Cardinality(E) \in Nat
           /\ IsFiniteSet(C) /\ Cardinality(C) \in Nat
           /\ Cardinality(Replicas) \in Nat
           /\ Cardinality(C) <= Cardinality(Replicas)
<1>1. IsFiniteSet(E) /\ IsFiniteSet(C) /\ Cardinality(C) <= Cardinality(Replicas)
  BY FS_Subset
<1> QED
  BY <1>1, FS_CardinalityType

\* Fewer containers and fewer launches under way keep the cap.
LEMMA CapShrinks ==
    ASSUME CreatingCapped, Existing' \subseteq Existing, Creating' \subseteq Creating
    PROVE  CreatingCapped'
<1>1. Existing \in SUBSET Hosts /\ Creating \in SUBSET Replicas
  BY DEF Existing, Creating
<1>2. IsFiniteSet(Existing) /\ IsFiniteSet(Creating)
  BY <1>1, Countable
<1>3. /\ Cardinality(Existing') <= Cardinality(Existing)
      /\ Cardinality(Creating') <= Cardinality(Creating)
  BY <1>2, FS_Subset
<1>4. /\ Cardinality(Existing) \in Nat /\ Cardinality(Creating) \in Nat
      /\ Cardinality(Existing') \in Nat /\ Cardinality(Creating') \in Nat
      /\ Cardinality(Replicas) \in Nat
  <2>1. Existing' \in SUBSET Hosts /\ Creating' \in SUBSET Replicas
    BY <1>1
  <2> QED
    BY <1>1, <2>1, Countable
<1> QED
  BY <1>3, <1>4 DEF CreatingCapped

\* A tick that is about to launch has found fewer than the maximum, however many
\* others are about to.
LEMMA CapCounted ==
    ASSUME BelowMax, Existing' = Existing
    PROVE  CreatingCapped'
<1>1. Existing \in SUBSET Hosts /\ Creating' \in SUBSET Replicas
  BY DEF Existing, Creating
<1>2. /\ Cardinality(Existing) \in Nat /\ Cardinality(Creating') \in Nat
      /\ Cardinality(Replicas) \in Nat /\ Cardinality(Creating') <= Cardinality(Replicas)
  BY <1>1, Countable
<1>3. Cardinality(Existing) < MaxAutoscaledWorkers
  BY DEF BelowMax
<1>4. Cardinality(Existing') = Cardinality(Existing)
  OBVIOUS
<1> QED
  BY <1>2, <1>3, <1>4 DEF CreatingCapped

\* A launch that is over may have left one more container.
LEMMA CapLaunched ==
    ASSUME CreatingCapped, NEW r \in Creating, NEW h \in Hosts,
           Existing' \subseteq Existing \cup {h}, Creating' \subseteq Creating \ {r}
    PROVE  CreatingCapped'
<1>1. Existing \in SUBSET Hosts /\ Creating \in SUBSET Replicas
  BY DEF Existing, Creating
<1>2. IsFiniteSet(Existing) /\ IsFiniteSet(Creating)
  BY <1>1, Countable
<1>3. PICK E, C : E = Existing \cup {h} /\ C = Creating \ {r}
  OBVIOUS
<1>4. /\ IsFiniteSet(E) /\ Cardinality(E) <= Cardinality(Existing) + 1
      /\ IsFiniteSet(C) /\ Cardinality(C) = Cardinality(Creating) - 1
  <2>1. /\ Cardinality(Existing) \in Nat
        /\ IsFiniteSet(Existing \cup {h})
        /\ Cardinality(Existing \cup {h}) \in {Cardinality(Existing), Cardinality(Existing) + 1}
    BY <1>1, <1>2, Countable, FS_AddElement
  <2>2. IsFiniteSet(Creating \ {r}) /\ Cardinality(Creating \ {r}) = Cardinality(Creating) - 1
    BY <1>2, FS_RemoveElement
  <2> QED
    BY <1>3, <2>1, <2>2
<1>5. Cardinality(Existing') <= Cardinality(E) /\ Cardinality(Creating') <= Cardinality(C)
  <2>1. Existing' \subseteq E /\ Creating' \subseteq C
    BY <1>3
  <2> QED
    BY <1>4, <2>1, FS_Subset
<1>6. /\ Cardinality(Existing) \in Nat /\ Cardinality(Creating) \in Nat
      /\ Cardinality(Existing') \in Nat /\ Cardinality(Creating') \in Nat
      /\ Cardinality(E) \in Nat /\ Cardinality(C) \in Nat
      /\ Cardinality(Replicas) \in Nat
  <2>1. /\ Existing' \in SUBSET Hosts /\ Creating' \in SUBSET Replicas
        /\ E \in SUBSET Hosts /\ C \in SUBSET Replicas
    BY <1>1, <1>3
  <2> QED
    BY <1>1, <2>1, Countable
<1> QED
  BY <1>4, <1>5, <1>6 DEF CreatingCapped

\* The cap, with the launches under way counted in, is an invariant.
LEMMA CapStep ==
    ASSUME Shape, CreatingCapped, [Next]_vars
    PROVE  CreatingCapped'
<1>1. /\ runner \in [Replicas -> RunnerState]
      /\ containers \in [Hosts -> {"none", "created", "running"}]
  BY ShapeIsSound
<1>2. CASE Elapse
  <2>1. \A q \in Replicas : runner'[q].pc = runner[q].pc
    <3> SUFFICES ASSUME NEW q \in Replicas PROVE runner'[q].pc = runner[q].pc
      OBVIOUS
    <3>1. runner[q] \in RunnerState
      BY <1>1
    <3> QED
      BY <1>2, <3>1 DEF Elapse, RunnerState
  <2>2. Existing' = Existing /\ Creating' = Creating
    BY <1>2, <2>1 DEF Elapse, Existing, Creating
  <2> QED
    BY <2>2, CapShrinks
<1>3. CASE (EnvironmentStep /\ ~Elapse) \/ UNCHANGED vars
  <2>1. UNCHANGED <<runner, containers>>
    BY <1>3 DEF EnvironmentStep, Submit, PlaceElsewhere, PlaceHere, TasksDone, DetectNotReady,
                DetectDead, Call, CallArrives, vars
  <2>2. Existing' = Existing /\ Creating' = Creating
    BY <2>1 DEF Existing, Creating
  <2> QED
    BY <2>2, CapShrinks
<1>4. ASSUME NEW r \in Replicas, TickStep(r) \/ ScaleUpStep(r) \/ ScaleDownStep(r) \/ Restart(r)
      PROVE  CreatingCapped'
  <2>1. PICK x \in RunnerState : runner' = [runner EXCEPT ![r] = x]
    BY <1>4, RunnerStepSound DEF Sound
  <2>2. Creating' = (Creating \ {r}) \cup (IF x.pc \in {"pick", "create"} THEN {r} ELSE {})
    BY <1>1, <2>1 DEF Creating
  <2>3. PICK t \in RunnerState : t = runner[r]
    BY <1>1
  <2>e. Ended(t).pc = "idle"
    BY EndedFacts
  <2>4. CASE TickDecide(r)
    <3>1. PICK u : u = [t EXCEPT !.pendingFor = PendingFor(t)]
      OBVIOUS
    <3>2. x = Decided(u) /\ t.pc = "listed" /\ UNCHANGED containers
      BY <1>1, <2>1, <2>3, <2>4, <3>1 DEF TickDecide
    <3>3. u \in RunnerState /\ u.target = t.target /\ u.nodes = t.nodes
      <4>1. PendingFor(t) \in Window(SustainWindow)
        BY RunnerFields, WindowFacts DEF PendingFor
      <4> QED
        BY <3>1, <4>1 DEF RunnerState
    <3>4. x.pc \in {"pick", "create"} => BelowMax
      <4>1. Sound(t) /\ rows \in Seq(Hosts)
        BY <2>3, ShapeIsSound
      <4> QED
        BY <3>2, <3>3, <4>1, DecidedFacts DEF Sound, Targeted
    <3>5. Existing' = Existing
      BY <3>2 DEF Existing
    <3>6. CASE x.pc \in {"pick", "create"}
      BY <3>4, <3>5, <3>6, CapCounted
    <3>7. CASE x.pc \notin {"pick", "create"}
      BY <2>2, <3>5, <3>7, CapShrinks
    <3> QED
      BY <3>6, <3>7
  <2>5. CASE TickSkip(r) \/ TickCount(r) \/ TickNodes(r) \/ TickError(r) \/ Restart(r)
    <3>1. UNCHANGED containers /\ x.pc \notin {"pick", "create"}
      <4>1. CASE TickSkip(r)
        BY <1>1, <2>1, <2>3, <4>1 DEF TickSkip, RunnerState
      <4>2. CASE TickCount(r) \/ TickNodes(r)
        BY <1>1, <2>1, <2>3, <4>2 DEF TickCount, TickNodes, RunnerState
      <4>3. CASE TickError(r)
        BY <1>1, <2>1, <2>3, <2>e, <4>3 DEF TickError
      <4>4. CASE Restart(r)
        BY <1>1, <2>1, <4>4, StartFacts DEF Restart
      <4> QED
        BY <2>5, <4>1, <4>2, <4>3, <4>4
    <3>2. Existing' = Existing /\ Creating' \subseteq Creating
      BY <2>2, <3>1 DEF Existing
    <3> QED
      BY <3>2, CapShrinks
  <2>6. CASE ScaleUpPick(r) \/ ScaleUpPickBlind(r)
    <3>1. UNCHANGED containers /\ r \in Creating
      BY <2>6 DEF ScaleUpPick, ScaleUpPickBlind, Creating
    <3>2. Existing' = Existing /\ Creating' \subseteq Creating
      BY <2>2, <3>1 DEF Existing
    <3> QED
      BY <3>2, CapShrinks
  <2>7. CASE \E h \in Hosts : ScaleUp(r, h) \/ ScaleUpFails(r, h)
    <3>1. PICK h \in Hosts : ScaleUp(r, h) \/ ScaleUpFails(r, h)
      BY <2>7
    <3>2. r \in Creating
      BY <3>1 DEF ScaleUp, ScaleUpFails, Creating
    <3>3. \A g \in Hosts : g # h => containers'[g] = containers[g]
      BY <1>1, <3>1 DEF ScaleUp, ScaleUpFails
    <3>4. Existing' \subseteq Existing \cup {h}
      BY <3>3 DEF Existing
    <3>5. x.pc = "idle"
      <4>1. CASE ScaleUp(r, h)
        <5>1. x = [Ended(t) EXCEPT !.pendingFor = {}, !.sinceScale = Cooling(0)]
          BY <1>1, <2>1, <2>3, <4>1 DEF ScaleUp
        <5>2. Ended(t) \in RunnerState
          BY EndedFacts
        <5> QED
          BY <2>e, <5>1, <5>2 DEF RunnerState
      <4>2. CASE ScaleUpFails(r, h)
        BY <1>1, <2>1, <2>3, <2>e, <4>2 DEF ScaleUpFails
      <4> QED
        BY <3>1, <4>1, <4>2
    <3>6. Creating' \subseteq Creating \ {r}
      BY <2>2, <3>5
    <3> QED
      BY <3>2, <3>4, <3>6, CapLaunched
  <2>8. CASE ScaleDownStep(r)
    <3>1. PICK h \in Hosts : \/ Cordon(r, h) \/ RemoveWorker(r, h) \/ RemoveLost(r, h)
                            \/ Bury(r, h) \/ BuryFails(r, h)
      BY <2>8 DEF ScaleDownStep
    <3>2. Existing' \subseteq Existing
      <4>1. CASE RemoveWorker(r, h) \/ RemoveLost(r, h)
        BY <1>1, <4>1 DEF RemoveWorker, RemoveLost, Existing
      <4>2. CASE Cordon(r, h) \/ Bury(r, h) \/ BuryFails(r, h)
        BY <4>2 DEF Cordon, Bury, BuryFails, Existing
      <4> QED
        BY <3>1, <4>1, <4>2
    <3>3. x.pc \notin {"pick", "create"}
      <4>1. CASE Cordon(r, h) \/ RemoveWorker(r, h)
        BY <1>1, <2>1, <2>3, <4>1 DEF Cordon, RemoveWorker, RunnerState
      <4>2. CASE RemoveLost(r, h)
        BY <1>1, <2>1, <2>3, <2>e, <4>2 DEF RemoveLost
      <4>3. CASE Bury(r, h) \/ BuryFails(r, h)
        <5>1. x = [Ended(t) EXCEPT !.idleFor[h] = {}, !.sinceScale = Cooling(0)]
          BY <1>1, <2>1, <2>3, <4>3 DEF Bury, BuryFails, Buried
        <5>2. Ended(t) \in RunnerState
          BY EndedFacts
        <5> QED
          BY <2>e, <5>1, <5>2 DEF RunnerState
      <4> QED
        BY <3>1, <4>1, <4>2, <4>3
    <3>4. Creating' \subseteq Creating
      BY <2>2, <3>3
    <3> QED
      BY <3>2, <3>4, CapShrinks
  <2> QED
    BY <1>4, <2>4, <2>5, <2>6, <2>7, <2>8 DEF TickStep, ScaleUpStep
<1> QED
  BY <1>2, <1>3, <1>4 DEF Next, EnvironmentStep

\* The strengthening holds in every state.
THEOREM AutoscalerInvariant == Spec => []IndInv
<1>1. Init => IndInv
  <2> SUFFICES ASSUME Init PROVE CreatingCapped
    BY ShapeInit DEF IndInv, Shape
  <2>1. Existing = {}
    BY DEF Init, NoNodes, Existing
  <2>2. Creating = {}
    BY StartFacts DEF Init, Creating
  <2>3. Cardinality(Existing) = 0 /\ Cardinality(Creating) = 0
    BY <2>1, <2>2, FS_EmptySet
  <2>4. Cardinality(Replicas) \in Nat /\ Cardinality(Replicas) # 0
    BY FS_EmptySet, FS_CardinalityType
  <2> QED
    BY <2>3, <2>4 DEF CreatingCapped
<1>2. IndInv /\ [Next]_vars => IndInv'
  <2> SUFFICES ASSUME IndInv, [Next]_vars PROVE IndInv'
    OBVIOUS
  <2>1. Shape /\ CreatingCapped
    BY DEF IndInv, Shape
  <2>2. Shape' /\ CreatingCapped'
    BY <2>1, ShapeStep, CapStep
  <2> QED
    BY <2>2 DEF IndInv, Shape
<1> QED
  BY <1>1, <1>2, PTL DEF Spec

\* Each replica that leads besides the first can push the number of autoscaled
\* containers beyond MaxAutoscaledWorkers by one, and nothing else can: not a
\* failed launch, a lost answer, a restart or a worker that comes back.
THEOREM CapHolds == Spec => []WorkersCapped
<1>1. IndInv => WorkersCapped
  <2> SUFFICES ASSUME IndInv PROVE WorkersCapped
    OBVIOUS
  <2>1. Existing \in SUBSET Hosts /\ Creating \in SUBSET Replicas
    BY DEF Existing, Creating
  <2>2. /\ Cardinality(Existing) \in Nat /\ Cardinality(Creating) \in Nat
        /\ Cardinality(Replicas) \in Nat
    BY <2>1, Countable
  <2> QED
    BY <2>2 DEF IndInv, CreatingCapped, WorkersCapped
<1> QED
  BY <1>1, AutoscalerInvariant, PTL
===============================================================================
