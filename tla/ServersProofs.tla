---------------------------- MODULE ServersProofs ----------------------------
(***************************************************************************)
(* Theorems about the servers, for every value of the constants: how many  *)
(* there are (ServerFleet), what happens on one (ServerBoot) and the map   *)
(* from their names to their addresses (ProxyMap).                         *)
(***************************************************************************)
EXTENDS ServerFleet, ServerBoot, ProxyMap, FiniteSetTheorems, TLAPS

-----------------------------------------------------------------------------
(***************************************************************************)
(* What holds of the fleet for every number of jobs, provisioning runs,    *)
(* places and limits: how far the limits are exceeded, and that a run      *)
(* makes one server.                                                       *)
(*                                                                         *)
(* A limit is exceeded by runs that have passed the gate and are not       *)
(* counted yet.  What the steps keep is therefore the sum of both, the     *)
(* jobs that hold a server and the runs that are past the gate: a run that *)
(* passes finds fewer than the limit, and at worst all runs are past.      *)
(* Both counts leave out the jobs whose run did not ask the gate.          *)
(***************************************************************************)

Runs == [pc: {"idle", "gate", "create", "record"}, job: Queue \cup {NoJob}, try: 1 .. Combinations]

\* A run that works has a job, and has made a server only if it is to record it
\* or has given up on it.
RunsKnow ==
  \A p \in Provisioners :
    /\ provision[p].pc # "idle" => provision[p].job \in Queue
    /\ provision[p].pc \in {"gate", "create"} => made[p] = 0

FleetInv == FleetTypeOK /\ RunsKnow /\ OneServerPerRun /\ IsFiniteSet(holding)

\* There is a place to try.
LEMMA CombinationsPositive == FleetAssumption => Combinations \in Nat \ {0}
  <1> SUFFICES ASSUME NEW a \in Nat \ {0}, NEW b \in Nat \ {0} PROVE a * b \in Nat \ {0}
    BY DEF FleetAssumption, Combinations
  <1> QED
    OBVIOUS

\* A run that rests is a run.
LEMMA RestIsARun == FleetAssumption => Rest \in Runs /\ Rest.pc = "idle"
  BY CombinationsPositive DEF Runs, Rest

\* At first no job has a server and all runs rest.
LEMMA InitFleet == FleetAssumption /\ FleetInit => FleetInv
  <1> SUFFICES ASSUME FleetAssumption, FleetInit PROVE FleetInv
    OBVIOUS
  <1>1. FleetTypeOK
    BY RestIsARun, CombinationsPositive DEF FleetInit, FleetTypeOK, Runs
  <1> QED
    BY <1>1, RestIsARun, FS_EmptySet DEF FleetInit, FleetInv, RunsKnow, OneServerPerRun

\* A run that moves.
LEMMA RunMoves ==
  ASSUME FleetAssumption, FleetInv, NEW p \in Provisioners, NEW x \in Runs,
         provision' = [provision EXCEPT ![p] = x]
  PROVE  /\ provision' \in [Provisioners -> Runs] /\ provision'[p] = x
         /\ \A q \in Provisioners \ {p} : provision'[q] = provision[q]
  BY DEF FleetInv, FleetTypeOK, Runs

\* The servers run p has made are n, those of the others are as they were.
Makes(p, n) ==
  /\ made' \in [Provisioners -> 0 .. Combinations] /\ made'[p] = n
  /\ \A q \in Provisioners \ {p} : made'[q] = made[q]

\* The three things a step does to the history of a run.
LEMMA MakesSome ==
  ASSUME FleetAssumption, FleetInv, NEW p \in Provisioners
  PROVE  /\ made' = [made EXCEPT ![p] = 0] => Makes(p, 0)
         /\ made' = [made EXCEPT ![p] = 1] => Makes(p, 1)
         /\ UNCHANGED made => Makes(p, made[p])
  BY CombinationsPositive DEF FleetInv, FleetTypeOK, Makes

\* A step of one run that forgets its server, or has made one and makes no more.
LEMMA RunKept ==
  ASSUME FleetAssumption, FleetInv, NEW p \in Provisioners,
         NEW x \in Runs, provision' = [provision EXCEPT ![p] = x],
         x.pc # "idle" => x.job \in Queue,
         Makes(p, 0) \/ (Makes(p, 1) /\ x.pc \notin {"gate", "create"}),
         holding' \subseteq Queue, IsFiniteSet(holding'), running' \subseteq Queue,
         ungated' \subseteq Queue
  PROVE  FleetInv'
  <1>1. /\ provision' \in [Provisioners -> Runs] /\ provision'[p] = x
        /\ \A q \in Provisioners \ {p} : provision'[q] = provision[q]
    BY RunMoves
  <1>2. \A q \in Provisioners : made'[q] <= 1
    BY DEF Makes, FleetInv, OneServerPerRun
  <1>3. FleetTypeOK'
    BY <1>1 DEF Makes, Runs, FleetTypeOK
  <1>4. RunsKnow'
    BY <1>1 DEF Makes, FleetInv, RunsKnow
  <1> QED
    BY <1>2, <1>3, <1>4 DEF FleetInv, OneServerPerRun

\* What a run does, and the sets of jobs it leaves or adds to.
LEMMA RunKinds ==
  ASSUME FleetAssumption, FleetInv, NEW p \in Provisioners,
         \/ Gate(p) \/ Created(p) \/ NoCapacity(p) \/ CreateFails(p) \/ Record(p) \/ RecordFails(p)
  PROVE  /\ FleetInv' /\ UNCHANGED ungated
         /\ \E x \in Runs : provision' = [provision EXCEPT ![p] = x]
         /\ \/ UNCHANGED holding
            \/ /\ provision[p].pc = "record" /\ provision'[p].pc = "idle"
               /\ holding' = holding \cup {provision[p].job}
         /\ provision'[p].pc \in {"create", "record"} =>
              /\ provision'[p].job = provision[p].job
              /\ provision[p].pc \in {"create", "record"} \/ Allowed(provision[p].job)
  <1>0. /\ provision[p] \in Runs /\ Rest \in Runs /\ Rest.pc = "idle"
        /\ Combinations \in Nat \ {0} /\ made[p] \in 0 .. 1
        /\ provision[p].pc # "idle" => provision[p].job \in Queue
        /\ provision[p].pc \in {"gate", "create"} => made[p] = 0
    BY RestIsARun, CombinationsPositive DEF Runs, FleetInv, FleetTypeOK, RunsKnow, OneServerPerRun
  <1>k. /\ holding \subseteq Queue /\ IsFiniteSet(holding) /\ running \subseteq Queue
        /\ ungated \subseteq Queue
    BY DEF FleetInv, FleetTypeOK
  <1>2. UNCHANGED ungated
    BY DEF Gate, Created, NoCapacity, CreateFails, Record, RecordFails
  <1>3. ASSUME Gate(p)
        PROVE  FleetInv' /\ UNCHANGED holding
               /\ \E x \in Runs : /\ provision' = [provision EXCEPT ![p] = x]
                                  /\ x.pc \in {"create", "record"} =>
                                       x.job = provision[p].job /\ Allowed(provision[p].job)
    <2> DEFINE y == [provision[p] EXCEPT !.pc = "create"]
    <2>1. y \in Runs /\ y.pc = "create" /\ y.job = provision[p].job
      BY <1>0 DEF Runs
    <2>2. \/ provision' = [provision EXCEPT ![p] = y] /\ Allowed(provision[p].job)
          \/ provision' = [provision EXCEPT ![p] = Rest]
      BY <1>3 DEF Gate
    <2> HIDE DEF y
    <2>m. Makes(p, 0) /\ UNCHANGED <<holding, running>> /\ provision[p].pc = "gate"
      BY <1>0, <1>3, MakesSome DEF Gate
    <2>3. FleetInv'
      BY <1>0, <1>2, <1>k, RunKept, <2>1, <2>2, <2>m DEF Runs
    <2> QED
      BY <1>0, <1>3, <2>1, <2>2, <2>3 DEF Gate
  <1>4. ASSUME Created(p)
        PROVE  FleetInv' /\ UNCHANGED holding /\ provision[p].pc = "create"
               /\ \E x \in Runs : /\ provision' = [provision EXCEPT ![p] = x]
                                  /\ x.job = provision[p].job
    <2> DEFINE x == [provision[p] EXCEPT !.pc = "record"]
    <2>1. x \in Runs /\ x.pc = "record" /\ x.job = provision[p].job
      BY <1>0 DEF Runs
    <2>2. provision' = [provision EXCEPT ![p] = x]
      BY <1>4 DEF Created
    <2> HIDE DEF x
    <2>3. made' = [made EXCEPT ![p] = made[p] + 1] /\ made[p] = 0
      BY <1>0, <1>4 DEF Created, Make
    <2>7. made[p] + 1 = 1
      BY <2>3
    <2>m. Makes(p, 1)
      BY <2>3, <2>7, MakesSome
    <2>5. provision[p].job \in Queue
      BY <1>0, <1>4 DEF Created
    <2>6. running' \subseteq Queue /\ UNCHANGED holding
      BY <1>k, <1>4, <2>5 DEF Created, Make
    <2>4. FleetInv'
      BY <1>0, <1>2, <1>k, RunKept, <2>1, <2>2, <2>5, <2>6, <2>m
    <2> QED
      BY <1>4, <2>1, <2>2, <2>4 DEF Created
  <1>5. ASSUME NoCapacity(p)
        PROVE  FleetInv' /\ UNCHANGED holding /\ provision[p].pc = "create"
               /\ \E x \in Runs : /\ provision' = [provision EXCEPT ![p] = x]
                                  /\ x.pc # "idle" => x.job = provision[p].job
    <2> DEFINE n == provision[p].try + 1
               y == [provision[p] EXCEPT !.try = n]
    <2>1. NextTry(p) = Rest \/ (NextTry(p) = y /\ n \in 1 .. Combinations)
      BY <1>0 DEF NextTry, Runs
    <2> HIDE DEF n
    <2>2. n \in 1 .. Combinations => y \in Runs /\ y.pc = provision[p].pc /\ y.job = provision[p].job
      BY <1>0 DEF Runs
    <2> HIDE DEF y
    <2>5. provision' = [provision EXCEPT ![p] = NextTry(p)] /\ provision[p].pc = "create"
      BY <1>5 DEF NoCapacity
    <2>6. NextTry(p) \in Runs /\ (NextTry(p).pc # "idle" => /\ NextTry(p).pc = "create"
                                                        /\ NextTry(p).job = provision[p].job)
      BY <1>0, <2>1, <2>2, <2>5
    <2>7. PICK x \in Runs : x = NextTry(p)
      BY <2>6
    <2>8. x.pc = "idle" \/ (x.pc = "create" /\ x.job = provision[p].job)
      BY <2>6, <2>7
    <2>9. provision' = [provision EXCEPT ![p] = x]
      BY <2>5, <2>7
    <2>3. /\ provision' = [provision EXCEPT ![p] = x]
          /\ x.pc = "idle" \/ (x.pc = "create" /\ x.job = provision[p].job)
      BY <2>8, <2>9
    <2>m. Makes(p, 0) /\ UNCHANGED <<holding, running>>
      BY <1>0, <1>5, MakesSome DEF NoCapacity
    <2>4. FleetInv'
      BY <1>0, <1>2, <1>k, RunKept, <2>3, <2>5, <2>m
    <2> QED
      BY <1>0, <1>5, <2>3, <2>4 DEF NoCapacity
  <1>6. ASSUME CreateFails(p)
        PROVE  FleetInv' /\ UNCHANGED holding /\ provision' = [provision EXCEPT ![p] = Rest]
    <2>1. /\ made[p] = 0 /\ UNCHANGED holding
          /\ \/ UNCHANGED <<made, running>>
             \/ /\ made' = [made EXCEPT ![p] = made[p] + 1]
                /\ running' = running \cup {provision[p].job} /\ provision[p].job \in Queue
      BY <1>0, <1>6 DEF CreateFails, Make
    <2>m. Makes(p, 0) \/ Makes(p, 1)
      BY <1>0, MakesSome, <2>1
    <2>2. provision' = [provision EXCEPT ![p] = Rest]
      BY <1>6 DEF CreateFails, GiveUp
    <2>3. FleetInv'
      BY <1>0, <1>2, <1>k, RunKept, <2>1, <2>2, <2>m
    <2> QED
      BY <1>6, <2>2, <2>3 DEF CreateFails
  <1>7. ASSUME Record(p)
        PROVE  /\ FleetInv' /\ provision[p].pc = "record"
               /\ holding' = holding \cup {provision[p].job}
               /\ provision' = [provision EXCEPT ![p] = Rest]
    <2>1. holding' \subseteq Queue /\ IsFiniteSet(holding')
      BY <1>0, <1>k, <1>7, FS_AddElement DEF Record
    <2>m. Makes(p, 0) /\ UNCHANGED running /\ provision' = [provision EXCEPT ![p] = Rest]
      BY <1>7, MakesSome DEF Record
    <2>2. FleetInv'
      BY <1>0, <1>2, <1>k, RunKept, <2>1, <2>m
    <2> QED
      BY <1>7, <2>2 DEF Record
  <1>8. ASSUME RecordFails(p)
        PROVE  FleetInv' /\ UNCHANGED holding /\ provision' = [provision EXCEPT ![p] = Rest]
    <2>m. Makes(p, 0) /\ UNCHANGED holding /\ provision' = [provision EXCEPT ![p] = Rest]
      BY <1>8, MakesSome DEF RecordFails
    <2>2. running' \subseteq Queue
      BY <1>k, <1>8 DEF RecordFails
    <2>1. FleetInv'
      BY <1>0, <1>2, <1>k, RunKept, <2>2, <2>m
    <2> QED
      BY <1>8, <2>1 DEF RecordFails
  <1>9. \A x \in Runs : provision' = [provision EXCEPT ![p] = x] => provision'[p] = x
    BY RunMoves
  <1>11. CASE Gate(p)
    BY <1>2, <1>3, <1>9, <1>11
  <1>12. CASE Created(p) \/ NoCapacity(p)
    BY <1>0, <1>2, <1>4, <1>5, <1>9, <1>12
  <1>13. CASE CreateFails(p) \/ Record(p) \/ RecordFails(p)
    BY <1>0, <1>2, <1>6, <1>7, <1>8, <1>9, <1>13
  <1> QED
    BY <1>11, <1>12, <1>13

\* A run that starts works on a job no row of which has a server and no other
\* run works on, before the gate or past it.
LEMMA StartKinds ==
  ASSUME FleetAssumption, FleetInv, NEW p \in Provisioners, NEW j \in Queue,
         Claim(p, j) \/ ProvisionUngated(p, j)
  PROVE  /\ FleetInv' /\ UNCHANGED holding /\ j \notin holding
         /\ provision[p].pc = "idle" /\ \A q \in Provisioners : provision[q].job # j
         /\ \A q \in Provisioners \ {p} : provision'[q] = provision[q]
         /\ \/ provision'[p].pc = "gate" /\ ungated' = ungated \ {j}
            \/ provision'[p].job = j /\ ungated' = ungated \cup {j}
  <1>1. PICK pc \in {"gate", "create"} :
          /\ Start(p, j, pc)
          /\ \/ pc = "gate" /\ ungated' = ungated \ {j}
             \/ pc = "create" /\ ungated' = ungated \cup {j}
    BY DEF Claim, ProvisionUngated
  <1> DEFINE x == [pc |-> pc, job |-> j, try |-> 1]
  <1>2. x \in Runs /\ x.pc = pc /\ x.job = j
    BY CombinationsPositive DEF Runs
  <1>3. provision' = [provision EXCEPT ![p] = x]
    BY <1>1 DEF Start
  <1> HIDE DEF x
  <1>4. Makes(p, 0) /\ UNCHANGED <<holding, running>>
    BY <1>1, MakesSome DEF Start
  <1>5. /\ holding \subseteq Queue /\ IsFiniteSet(holding) /\ running \subseteq Queue
        /\ ungated' \subseteq Queue
    BY <1>1 DEF FleetInv, FleetTypeOK
  <1>6. FleetInv'
    BY <1>2, <1>3, <1>4, <1>5, RunKept
  <1>7. provision'[p] = x /\ \A q \in Provisioners \ {p} : provision'[q] = provision[q]
    BY <1>2, <1>3, RunMoves
  <1>8. /\ j \notin holding /\ provision[p].pc = "idle"
        /\ j # NoJob /\ \A q \in Provisioners : provision[q].job # j
    BY <1>1 DEF Start, InHand, FleetAssumption
  <1> QED
    BY <1>1, <1>2, <1>4, <1>6, <1>7, <1>8

\* Jobs that end and servers nobody needs.
LEMMA EndKinds ==
  ASSUME FleetInv, NEW j \in Queue, JobEnds(j) \/ ZombieDeleted(j)
  PROVE  FleetInv' /\ UNCHANGED <<provision, ungated>> /\ holding' \subseteq holding
  <1>1. /\ UNCHANGED <<provision, made, ungated>> /\ holding' \subseteq holding /\ running' \subseteq Queue
    BY DEF JobEnds, ZombieDeleted, FleetInv, FleetTypeOK
  <1>2. IsFiniteSet(holding')
    BY <1>1, FS_Subset DEF FleetInv
  <1> QED
    BY <1>1, <1>2 DEF FleetInv, FleetTypeOK, RunsKnow, OneServerPerRun

\* Every step keeps the kinds and what the runs know.
LEMMA FleetKept == FleetAssumption /\ FleetInv /\ [FleetNext]_fleetVars => FleetInv'
  <1>1. FleetInv /\ UNCHANGED fleetVars => FleetInv'
    BY DEF fleetVars, FleetInv, FleetTypeOK, RunsKnow, OneServerPerRun
  <1> QED
    BY <1>1, RunKinds, StartKinds, EndKinds DEF FleetNext

\* The kinds of the fleet's state.
THEOREM FleetTypeCorrect == FleetAssumption => (FleetSpec => []FleetTypeOK)
  <1> SUFFICES ASSUME FleetAssumption PROVE FleetSpec => []FleetTypeOK
    OBVIOUS
  <1>1. FleetInit => FleetInv
    BY InitFleet
  <1>2. FleetInv /\ [FleetNext]_fleetVars => FleetInv'
    BY FleetKept
  <1>3. FleetInv => FleetTypeOK
    BY DEF FleetInv
  <1> QED
    BY <1>1, <1>2, <1>3, PTL DEF FleetSpec

\* However calls time out, are refused or lose their answer, a provisioning
\* run makes at most one server.
THEOREM RunMakesOne == FleetAssumption => (FleetSpec => []OneServerPerRun)
  <1> SUFFICES ASSUME FleetAssumption PROVE FleetSpec => []OneServerPerRun
    OBVIOUS
  <1>1. FleetInit => FleetInv
    BY InitFleet
  <1>2. FleetInv /\ [FleetNext]_fleetVars => FleetInv'
    BY FleetKept
  <1>3. FleetInv => OneServerPerRun
    BY DEF FleetInv
  <1> QED
    BY <1>1, <1>2, <1>3, PTL DEF FleetSpec

-----------------------------------------------------------------------------
(* How far the limits are exceeded                                         *)

\* Past the gate, for a job of Q, and not counted yet.
Past(runs, Q) ==
  {p \in Provisioners : runs[p].pc \in {"create", "record"} /\ runs[p].job \in Q}

Within(jobs, runs, Q, limit) ==
  Cardinality(jobs \cap Q) + Cardinality(Past(runs, Q))
    <= limit + (Cardinality(Provisioners) - 1)

\* Jobs whose run did not ask the gate are left out of either count.
SumInv ==
  /\ Within(holding, provision, Queue \ ungated, globalLimit)
  /\ Within(holding, provision, UploadQueue \ ungated, maxUploadVps)
  /\ Within(holding, provision, DownloadQueue \ ungated, globalLimit - maxUploadVps)

\* The sets that are counted are finite.
LEMMA Counts ==
  ASSUME FleetAssumption, FleetInv, NEW Q
  PROVE  /\ IsFiniteSet(holding \cap Q) /\ Cardinality(holding \cap Q) \in Nat
         /\ IsFiniteSet(Past(provision, Q)) /\ Cardinality(Past(provision, Q)) \in Nat
         /\ Cardinality(Provisioners) \in Nat /\ Cardinality(Provisioners) >= 1
  <1>1. IsFiniteSet(holding \cap Q) /\ IsFiniteSet(Past(provision, Q))
    BY FS_Subset DEF FleetAssumption, FleetInv, Past
  <1>2. Cardinality(Provisioners) # 0
    BY FS_EmptySet DEF FleetAssumption
  <1> QED
    BY <1>1, <1>2, FS_CardinalityType DEF FleetAssumption

\* Both counts are numbers after a step.
LEMMA CountsAfter ==
  ASSUME FleetAssumption, FleetInv', NEW Q
  PROVE  Cardinality(holding' \cap Q) \in Nat /\ Cardinality(Past(provision', Q)) \in Nat
  <1>1. IsFiniteSet(holding' \cap Q) /\ IsFiniteSet(Past(provision', Q))
    BY FS_Subset DEF FleetAssumption, FleetInv, Past
  <1> QED
    BY <1>1, FS_CardinalityType

\* The sum does not grow with the holders, nor with the runs past the gate.
LEMMA Shrinks ==
  ASSUME FleetAssumption, FleetInv, FleetInv', NEW Q, NEW limit \in Int,
         Within(holding, provision, Q, limit),
         holding' \cap Q \subseteq holding \cap Q, Past(provision', Q) \subseteq Past(provision, Q)
  PROVE  Within(holding', provision', Q, limit)
  <1>1. /\ Cardinality(holding' \cap Q) <= Cardinality(holding \cap Q)
        /\ Cardinality(Past(provision', Q)) <= Cardinality(Past(provision, Q))
    BY Counts, FS_Subset
  <1>2. Cardinality(holding' \cap Q) \in Nat /\ Cardinality(Past(provision', Q)) \in Nat
    BY CountsAfter
  <1>3. /\ Cardinality(holding \cap Q) \in Nat /\ Cardinality(Past(provision, Q)) \in Nat
        /\ Cardinality(Provisioners) \in Nat
    BY Counts
  <1> QED
    BY <1>1, <1>2, <1>3 DEF Within

\* A run keeps the sum within its bound.
LEMMA RunWithin ==
  ASSUME FleetAssumption, FleetInv, FleetInv', NEW Q, NEW limit \in Int,
         Within(holding, provision, Q, limit),
         NEW p \in Provisioners, NEW x \in Runs, provision' = [provision EXCEPT ![p] = x],
         \/ UNCHANGED holding
         \/ /\ provision[p].pc = "record" /\ x.pc = "idle"
            /\ holding' = holding \cup {provision[p].job},
         x.pc \in {"create", "record"} =>
           /\ x.job = provision[p].job
           /\ \/ provision[p].pc \in {"create", "record"}
              \/ provision[p].job \in Q => Cardinality(holding \cap Q) < limit
  PROVE  Within(holding', provision', Q, limit)
  <1>1. provision'[p] = x /\ \A q \in Provisioners \ {p} : provision'[q] = provision[q]
    BY RunMoves
  <1>2. CASE UNCHANGED holding /\ Past(provision', Q) \subseteq Past(provision, Q)
    BY <1>2, Shrinks
  <1>3. CASE UNCHANGED holding /\ ~(Past(provision', Q) \subseteq Past(provision, Q))
    <2>1. p \in Past(provision', Q) /\ p \notin Past(provision, Q)
      BY <1>1, <1>3 DEF Past
    <2>2. Cardinality(holding \cap Q) < limit
      BY <1>1, <2>1 DEF Past
    <2>3. Cardinality(Past(provision', Q)) <= Cardinality(Provisioners)
      BY FS_Subset DEF Past, FleetAssumption
    <2>4. Cardinality(holding' \cap Q) = Cardinality(holding \cap Q)
      BY <1>3
    <2>5. Cardinality(Past(provision', Q)) \in Nat
      BY CountsAfter
    <2>6. Cardinality(holding \cap Q) \in Nat /\ Cardinality(Provisioners) \in Nat
      BY Counts
    <2> QED
      BY <2>2, <2>3, <2>4, <2>5, <2>6 DEF Within
  <1>4. CASE /\ provision[p].pc = "record" /\ x.pc = "idle"
             /\ holding' = holding \cup {provision[p].job}
    <2>1. CASE provision[p].job \in Q
      <3>1. holding' \cap Q = (holding \cap Q) \cup {provision[p].job}
        BY <1>4, <2>1
      <3>2. Past(provision', Q) = Past(provision, Q) \ {p} /\ p \in Past(provision, Q)
        BY <1>1, <1>4, <2>1 DEF Past
      <3>6. IsFiniteSet(holding \cap Q) /\ Cardinality(holding \cap Q) \in Nat
        BY Counts
      <3>7. Cardinality((holding \cap Q) \cup {provision[p].job})
              \in {Cardinality(holding \cap Q), Cardinality(holding \cap Q) + 1}
        BY <3>6, FS_AddElement
      <3>3. Cardinality(holding' \cap Q) <= Cardinality(holding \cap Q) + 1
        BY <3>1, <3>6, <3>7
      <3>4. Cardinality(Past(provision', Q)) = Cardinality(Past(provision, Q)) - 1
        BY <3>2, Counts, FS_RemoveElement
      <3>5. Cardinality(holding' \cap Q) \in Nat
        BY CountsAfter
      <3>8. Cardinality(Past(provision, Q)) \in Nat /\ Cardinality(Provisioners) \in Nat
        BY Counts
      <3> QED
        BY <3>3, <3>4, <3>5, <3>6, <3>8 DEF Within
    <2>2. CASE provision[p].job \notin Q
      <3>1. holding' \cap Q \subseteq holding \cap Q /\ Past(provision', Q) \subseteq Past(provision, Q)
        BY <1>1, <1>4, <2>2 DEF Past
      <3> QED
        BY <3>1, Shrinks
    <2> QED
      BY <2>1, <2>2
  <1> QED
    BY <1>2, <1>3, <1>4

\* The gate compares with the limit of every queue the job is in, and counts
\* the servers of ungated runs too.
LEMMA GateCompares ==
  ASSUME FleetAssumption, FleetInv, NEW j, Allowed(j)
  PROVE  /\ Cardinality(holding \cap (Queue \ ungated)) < globalLimit
         /\ j \in UploadQueue => Cardinality(holding \cap (UploadQueue \ ungated)) < maxUploadVps
         /\ j \in DownloadQueue =>
              Cardinality(holding \cap (DownloadQueue \ ungated)) < globalLimit - maxUploadVps
  <1>1. holding \cap Queue = holding
    BY DEF FleetInv, FleetTypeOK
  <1>2. ASSUME NEW Q, NEW limit \in Int, Cardinality(holding \cap Q) < limit
        PROVE  Cardinality(holding \cap (Q \ ungated)) < limit
    <2>1. Cardinality(holding \cap (Q \ ungated)) <= Cardinality(holding \cap Q)
      BY Counts, FS_Subset
    <2>2. Cardinality(holding \cap (Q \ ungated)) \in Nat /\ Cardinality(holding \cap Q) \in Nat
      BY Counts
    <2> QED
      BY <1>2, <2>1, <2>2
  <1>3. globalLimit \in Int /\ maxUploadVps \in Int /\ globalLimit - maxUploadVps \in Int
    BY DEF FleetAssumption
  <1> QED
    BY <1>1, <1>2, <1>3 DEF Allowed

\* A run that starts changes neither count.
LEMMA StartWithin ==
  ASSUME FleetAssumption, FleetInv, NEW Q, NEW limit \in Int,
         Within(holding, provision, Q \ ungated, limit),
         NEW p \in Provisioners, NEW j \in Queue, Claim(p, j) \/ ProvisionUngated(p, j)
  PROVE  Within(holding', provision', Q \ ungated', limit)
  <1>1. holding' \cap (Q \ ungated') = holding \cap (Q \ ungated)
    BY StartKinds
  <1>2. Past(provision', Q \ ungated') = Past(provision, Q \ ungated)
    BY StartKinds DEF Past
  <1> QED
    BY <1>1, <1>2 DEF Within

\* At first nothing is counted.
LEMMA InitSum == FleetAssumption /\ FleetInit => SumInv
  <1> SUFFICES ASSUME FleetAssumption, FleetInit PROVE SumInv
    OBVIOUS
  <1>1. ASSUME NEW Q PROVE Cardinality(holding \cap Q) = 0 /\ Cardinality(Past(provision, Q)) = 0
    <2>1. holding \cap Q = {} /\ Past(provision, Q) = {}
      BY DEF FleetInit, Past, Rest
    <2> QED
      BY <2>1, FS_EmptySet
  <1>2. Cardinality(Provisioners) \in Nat /\ Cardinality(Provisioners) >= 1
    BY InitFleet, Counts
  <1> QED
    BY <1>1, <1>2 DEF SumInv, Within, FleetAssumption

\* Every step keeps the sum of both counts below the limit and the other runs.
LEMMA SumKept == FleetAssumption /\ FleetInv /\ SumInv /\ [FleetNext]_fleetVars => SumInv'
  <1> SUFFICES ASSUME FleetAssumption, FleetInv, SumInv, [FleetNext]_fleetVars PROVE SumInv'
    OBVIOUS
  <1>0. /\ FleetInv' /\ globalLimit \in Int /\ maxUploadVps \in Int
        /\ globalLimit - maxUploadVps \in Int
    BY FleetKept DEF FleetAssumption
  <1>1. CASE UNCHANGED <<provision, ungated>> /\ holding' \subseteq holding
    <2>1. \A Q : /\ Past(provision', Q) \subseteq Past(provision, Q)
                 /\ holding' \cap Q \subseteq holding \cap Q
      BY <1>1 DEF Past
    <2> QED
      BY <1>0, <1>1, <2>1, Shrinks DEF SumInv
  <1>2. ASSUME NEW p \in Provisioners,
               \/ Gate(p) \/ Created(p) \/ NoCapacity(p) \/ CreateFails(p) \/ Record(p)
               \/ RecordFails(p)
        PROVE  SumInv'
    <2>1. PICK x \in Runs : provision' = [provision EXCEPT ![p] = x]
      BY <1>2, RunKinds
    <2>2. provision'[p] = x
      BY <2>1, RunMoves
    <2>3. /\ \/ UNCHANGED holding
             \/ /\ provision[p].pc = "record" /\ x.pc = "idle"
                /\ holding' = holding \cup {provision[p].job}
          /\ x.pc \in {"create", "record"} =>
               /\ x.job = provision[p].job
               /\ provision[p].pc \in {"create", "record"} \/ Allowed(provision[p].job)
      BY <1>2, <2>2, RunKinds
    <2>4. Within(holding', provision', Queue \ ungated, globalLimit)
      BY <1>0, <2>1, <2>3, RunWithin, GateCompares DEF SumInv
    <2>5. Within(holding', provision', UploadQueue \ ungated, maxUploadVps)
      BY <1>0, <2>1, <2>3, RunWithin, GateCompares DEF SumInv
    <2>6. Within(holding', provision', DownloadQueue \ ungated, globalLimit - maxUploadVps)
      BY <1>0, <2>1, <2>3, RunWithin, GateCompares DEF SumInv
    <2>7. UNCHANGED ungated
      BY <1>2, RunKinds
    <2> QED
      BY <2>4, <2>5, <2>6, <2>7 DEF SumInv
  <1>3. ASSUME NEW j \in Queue, JobEnds(j) \/ ZombieDeleted(j) PROVE SumInv'
    BY <1>1, <1>3, EndKinds
  <1>4. CASE UNCHANGED fleetVars
    BY <1>1, <1>4 DEF fleetVars
  <1>5. ASSUME NEW p \in Provisioners, NEW j \in Queue, Claim(p, j) \/ ProvisionUngated(p, j)
        PROVE  SumInv'
    BY <1>0, <1>5, StartWithin DEF SumInv
  <1> QED
    BY <1>2, <1>3, <1>4, <1>5 DEF FleetNext

\* However many runs pass the gate before one of them is counted, and whatever
\* the routes that do not ask it add, the servers that went through the gate
\* exceed each limit by less than the number of runs.
THEOREM LimitsNearlyHold == FleetAssumption => (FleetSpec => []OverrunBounded)
  <1> SUFFICES ASSUME FleetAssumption PROVE FleetSpec => []OverrunBounded
    OBVIOUS
  <1>1. FleetInit => FleetInv /\ SumInv
    BY InitFleet, InitSum
  <1>2. FleetInv /\ SumInv /\ [FleetNext]_fleetVars => (FleetInv /\ SumInv)'
    BY FleetKept, SumKept
  <1>3. FleetInv /\ SumInv => OverrunBounded
    <2> SUFFICES ASSUME FleetInv, SumInv PROVE OverrunBounded
      OBVIOUS
    <2>1. /\ holding \cap (Queue \ ungated) = holding \ ungated
          /\ holding \cap (UploadQueue \ ungated) = (holding \ ungated) \cap UploadQueue
          /\ holding \cap (DownloadQueue \ ungated) = (holding \ ungated) \cap DownloadQueue
      BY DEF FleetInv, FleetTypeOK
    <2>2. ASSUME NEW Q, NEW limit \in Int, Within(holding, provision, Q, limit)
          PROVE  Cardinality(holding \cap Q) <= limit + (Cardinality(Provisioners) - 1)
      <3>1. /\ Cardinality(holding \cap Q) \in Nat /\ Cardinality(Past(provision, Q)) \in Nat
            /\ Cardinality(Provisioners) \in Nat
        BY Counts
      <3> QED
        BY <2>2, <3>1 DEF Within
    <2>3. globalLimit \in Int /\ maxUploadVps \in Int /\ globalLimit - maxUploadVps \in Int
      BY DEF FleetAssumption
    <2> QED
      BY <2>1, <2>2, <2>3 DEF SumInv, OverrunBounded
  <1> QED
    BY <1>1, <1>2, <1>3, PTL DEF FleetSpec

-----------------------------------------------------------------------------
(***************************************************************************)
(* What holds on the server of a job for every threshold of its watchdog   *)
(* and every set of anomalies: the kill switch, the patience of the        *)
(* watchdog, and the silence during the clean-up.                          *)
(*                                                                         *)
(* BootInv relates what runs in the background to the step the script is   *)
(* at: a container runs only from docker run on, behind a chain that was   *)
(* closed before; the watchdog starts once, and its counters stay below    *)
(* the failures in a row; nothing runs any more when the tunnel goes down. *)
(***************************************************************************)

WatchdogStates == [pc: {"off", "watch", "reconnect"}, streak: 0 .. FAIL_THRESHOLD,
                   attempt: 0 .. MAX_RETRIES, seen: BOOLEAN]
GuardStates == [on: BOOLEAN, seen: BOOLEAN, last: Anomalies \cup {NoAnomaly}, verified: BOOLEAN]

BeforeVerified == {"install", "script", "config", "packages", "rules", "tunnel", "verify"}

\* A container runs from docker run to the clean-up; from the kill switch to
\* the clean-up the chain is closed, unless the script was cut short.
WorkloadIsSealed ==
  /\ container = "running" => boot \in {"submit", "started", "wait", "ended"}
  /\ boot \in {"tunnel", "verify", "pull", "run", "submit", "started", "wait"}
       => vpn \in {"unknown", "none"} \/ firewall = "closed" \/ script = "truncated"
  /\ KillSwitchHolds

\* The watchdog has seen at least as many failures in a row as it has counted.
StreaksCounted ==
  /\ boot \in BeforeVerified => watchdog.pc = "off" /\ "watchdog" \notin blame
  /\ "watchdog" \in blame => watchdog.pc = "off"
  /\ watchdog.pc = "watch" => watchdog.streak < FAIL_THRESHOLD /\ watchdog.streak <= badChecks
  /\ watchdog.pc = "reconnect" => /\ watchdog.attempt < MAX_RETRIES
                                  /\ FAIL_THRESHOLD + watchdog.attempt <= badChecks
  /\ WatchdogIsPatient

\* Watchdog and guard end before the tunnel does, and start no more.
Silenced ==
  /\ boot \in {"teardown", "flush", "cleanup"} => watchdog.pc = "off" /\ ~guard.on
  /\ tunnel = "torn" => boot \in {"flush", "cleanup", "ended"}
  /\ NoPhantomEvents

BootInv == BootTypeOK /\ WorkloadIsSealed /\ StreaksCounted /\ Silenced

\* The loops of the scripts and what follows them.
LEMMA LoopDomains ==
  /\ DOMAIN Attempts = {"install", "script", "verify", "pull", "started", "cleanup"}
  /\ \A s \in DOMAIN Attempts : Attempts[s] \in 0 .. 6
  /\ DOMAIN After = {"install", "script", "pull", "started"}
  /\ After["install"] = "script" /\ After["script"] = "config"
  /\ After["pull"] = "run" /\ After["started"] = "wait"
  BY DEF Attempts, After

\* Going to a step leaves the script at a step.
LEMMA GotoStep ==
  ASSUME NEW s \in Steps, Proceed(s)
  PROVE  boot' = s /\ boot' \in Steps /\ left' \in 0 .. 6
  <1>1. left' = IF s \in DOMAIN Attempts THEN Attempts[s] ELSE 0
    BY DEF Proceed
  <1> QED
    BY <1>1, LoopDomains DEF Proceed

\* The counters of the watchdog may be cleared.
LEMMA Cleared ==
  ASSUME BootAssumption
  PROVE  /\ FAIL_THRESHOLD \in Nat /\ MAX_RETRIES \in Nat
         /\ 0 \in 0 .. FAIL_THRESHOLD /\ 0 \in 0 .. MAX_RETRIES
  BY DEF BootAssumption

\* What the API serves as VPN, and the guard that goes with it.
LEMMA ConfigFetched ==
  ASSUME FetchConfig
  PROVE  /\ vpn' \in {vpn, "none", "served"}
         /\ guard' = guard \/ \E p \in BOOLEAN : guard' = [OffGuard EXCEPT !.on = p]
  <1>1. CASE Failed /\ UNCHANGED <<vpn, guard>>
    BY <1>1
  <1>2. ASSUME NEW answer \in Answers, vpn' = answer.vpn, guard' = [OffGuard EXCEPT !.on = answer.policy]
        PROVE  /\ vpn' \in {"none", "served"}
               /\ \E p \in BOOLEAN : guard' = [OffGuard EXCEPT !.on = p]
    <2>1. answer.vpn \in {"none", "served"} /\ answer.policy \in BOOLEAN
      <3>1. PICK v \in ResolvedVpn : answer = [vpn |-> v, policy |-> RoutingPolicy(v)]
        BY DEF Answers
      <3>2. answer.vpn = v /\ answer.policy = RoutingPolicy(v)
        BY <3>1
      <3>3. RoutingPolicy(v) \in BOOLEAN
        BY Zenon DEF RoutingPolicy
      <3> QED
        BY <3>2, <3>3 DEF ResolvedVpn
    <2>2. \E p \in BOOLEAN : guard' = [OffGuard EXCEPT !.on = p]
      BY <1>2, <2>1, Zenon
    <2> QED
      BY <1>2, <2>1, <2>2
  <1> QED
    BY <1>1, <1>2 DEF FetchConfig

\* A server that boots has no container, no tunnel and no watchdog.
LEMMA InitBootInv == BootAssumption /\ BootInit => BootInv
  BY LoopDomains DEF BootAssumption, BootInit, BootInv, BootTypeOK, WorkloadIsSealed, StreaksCounted, Silenced,
     KillSwitchHolds, WatchdogIsPatient, NoPhantomEvents, OffWatch, OffGuard, NoAnomaly,
     MaxChecks, Steps, BeforeVerified

-----------------------------------------------------------------------------
(* The parts of the invariant                                              *)

\* No step starts a container before the chain is closed, or opens the chain
\* around one.
LEMMA WorkloadIsSealedStep ==
  ASSUME BootTypeOK, WorkloadIsSealed, BootNext
  PROVE  WorkloadIsSealed'
  <1> USE DEF WorkloadIsSealed, KillSwitchHolds, Proceed, Failed, FailJob, Silent, Background, bootVars
  <1> USE LoopDomains
  <1>1. CASE AttemptSucceeds
    BY <1>1 DEF AttemptSucceeds
  <1>2. CASE AttemptFails
    BY <1>2 DEF AttemptFails
  <1>3. CASE FetchConfig
    BY <1>3 DEF FetchConfig, Answers, ResolvedVpn, RoutingPolicy, OffGuard
  <1>4. CASE InstallVpn
    BY <1>4 DEF InstallVpn
  <1>5. CASE KillSwitch
    BY <1>5 DEF KillSwitch, RulesFail
  <1>6. CASE StartTunnel
    BY <1>6 DEF StartTunnel
  <1>7. CASE Verified
    BY <1>7 DEF Verified, OffWatch
  <1>8. CASE RunContainer
    BY <1>8 DEF RunContainer
  <1>9. CASE Submit
    BY <1>9 DEF Submit
  <1>10. CASE ContainerExits
    BY <1>10 DEF ContainerExits
  <1>11. CASE Wait
    BY <1>11 DEF Wait
  <1>12. CASE StopGuards
    BY <1>12 DEF StopGuards, Killed
  <1>13. CASE TearDown
    BY <1>13 DEF TearDown
  <1>14. CASE Flush
    BY <1>14 DEF Flush
  <1>15. CASE Cleanup
    BY <1>15 DEF Cleanup
  <1>16. CASE \E ok \in BOOLEAN : Watch(ok)
    BY <1>16 DEF Watch, Healthy, CountCheck, Workload, Recovered
  <1>17. CASE \E ok \in BOOLEAN : Reconnect(ok)
    BY <1>17 DEF Reconnect, Healthy, CountCheck
  <1>18. CASE WatchdogEnds
    BY <1>18 DEF WatchdogEnds, Workload
  <1>19. CASE WatchdogDies
    BY <1>19 DEF WatchdogDies
  <1>20. CASE GuardEnds
    BY <1>20 DEF GuardEnds, Workload
  <1>21. CASE \E a \in Anomalies \cup {NoAnomaly} : Inspect(a)
    BY <1>21 DEF Inspect, Workload
  <1>22. CASE ScriptBreaksOff
    BY <1>22 DEF ScriptBreaksOff, ResolvedVpn
  <1> QED
    BY <1>22, <1>1, <1>2, <1>3, <1>4, <1>5, <1>6, <1>7, <1>8, <1>9, <1>10, <1>11,
       <1>12, <1>13, <1>14, <1>15, <1>16, <1>17, <1>18, <1>19, <1>20, <1>21 DEF BootNext

\* Nothing starts the watchdog or the guard once they have been stopped.
LEMMA SilencedStep ==
  ASSUME BootTypeOK, StreaksCounted, Silenced, BootNext
  PROVE  Silenced'
  <1> USE DEF BootTypeOK, StreaksCounted, Silenced, NoPhantomEvents, BeforeVerified, Proceed, Failed, FailJob,
       Silent, Background, bootVars
  <1> USE LoopDomains
  <1>1. CASE AttemptSucceeds
    BY <1>1 DEF AttemptSucceeds
  <1>2. CASE AttemptFails
    BY <1>2 DEF AttemptFails
  <1>3. CASE FetchConfig
    BY <1>3 DEF FetchConfig, Answers, ResolvedVpn, RoutingPolicy, OffGuard
  <1>4. CASE InstallVpn
    BY <1>4 DEF InstallVpn
  <1>5. CASE KillSwitch
    BY <1>5 DEF KillSwitch, RulesFail
  <1>6. CASE StartTunnel
    BY <1>6 DEF StartTunnel
  <1>7. CASE Verified
    BY <1>7 DEF Verified, OffWatch
  <1>8. CASE RunContainer
    BY <1>8 DEF RunContainer
  <1>9. CASE Submit
    BY <1>9 DEF Submit
  <1>10. CASE ContainerExits
    BY <1>10 DEF ContainerExits
  <1>11. CASE Wait
    BY <1>11 DEF Wait
  <1>12. CASE StopGuards
    BY <1>12 DEF StopGuards, Killed
  <1>13. CASE TearDown
    BY <1>13 DEF TearDown
  <1>14. CASE Flush
    BY <1>14 DEF Flush
  <1>15. CASE Cleanup
    BY <1>15 DEF Cleanup
  <1>16. CASE \E ok \in BOOLEAN : Watch(ok)
    BY <1>16 DEF Watch, Healthy, CountCheck, Workload, Recovered
  <1>17. CASE \E ok \in BOOLEAN : Reconnect(ok)
    BY <1>17 DEF Reconnect, Healthy, CountCheck
  <1>18. CASE WatchdogEnds
    BY <1>18 DEF WatchdogEnds, Workload
  <1>19. CASE WatchdogDies
    BY <1>19 DEF WatchdogDies
  <1>20. CASE GuardEnds
    BY <1>20 DEF GuardEnds, Workload
  <1>21. CASE \E a \in Anomalies \cup {NoAnomaly} : Inspect(a)
    BY <1>21 DEF Inspect, Workload
  <1>22. CASE ScriptBreaksOff
    BY <1>22 DEF ScriptBreaksOff, ResolvedVpn
  <1> QED
    BY <1>22, <1>1, <1>2, <1>3, <1>4, <1>5, <1>6, <1>7, <1>8, <1>9, <1>10, <1>11,
       <1>12, <1>13, <1>14, <1>15, <1>16, <1>17, <1>18, <1>19, <1>20, <1>21 DEF BootNext

\* Every failure that is counted has been seen, and a success clears both.
LEMMA StreaksCountedStep ==
  ASSUME BootAssumption, BootTypeOK, StreaksCounted, Silenced, BootNext
  PROVE  StreaksCounted'
  <1> USE DEF BootAssumption, BootTypeOK, StreaksCounted, WatchdogIsPatient, BeforeVerified, MaxChecks, Proceed,
       Failed, FailJob, Silent, Background, bootVars
  <1> USE LoopDomains
  <1>1. CASE AttemptSucceeds
    BY <1>1 DEF AttemptSucceeds
  <1>2. CASE AttemptFails
    BY <1>2 DEF AttemptFails
  <1>3. CASE FetchConfig
    BY <1>3 DEF FetchConfig, Answers, ResolvedVpn, RoutingPolicy, OffGuard
  <1>4. CASE InstallVpn
    BY <1>4 DEF InstallVpn
  <1>5. CASE KillSwitch
    BY <1>5 DEF KillSwitch, RulesFail
  <1>6. CASE StartTunnel
    BY <1>6 DEF StartTunnel
  <1>7. CASE Verified
    BY <1>7 DEF Verified, OffWatch
  <1>8. CASE RunContainer
    BY <1>8 DEF RunContainer
  <1>9. CASE Submit
    BY <1>9 DEF Submit
  <1>10. CASE ContainerExits
    BY <1>10 DEF ContainerExits
  <1>11. CASE Wait
    BY <1>11 DEF Wait
  <1>12. CASE StopGuards
    BY <1>12 DEF StopGuards, Killed
  <1>13. CASE TearDown
    BY <1>13 DEF TearDown
  <1>14. CASE Flush
    BY <1>14 DEF Flush
  <1>15. CASE Cleanup
    BY <1>15 DEF Cleanup
  <1>16. CASE \E ok \in BOOLEAN : Watch(ok)
    BY <1>16 DEF Watch, Healthy, CountCheck, Workload, Recovered
  <1>17. CASE \E ok \in BOOLEAN : Reconnect(ok)
    <2>1. PICK ok \in BOOLEAN : Reconnect(ok)
      BY <1>17
    <2>2. /\ FAIL_THRESHOLD \in Nat /\ MAX_RETRIES \in Nat \ {0}
          /\ watchdog.attempt \in Nat /\ watchdog.attempt < MAX_RETRIES
          /\ badChecks \in 0 .. FAIL_THRESHOLD + MAX_RETRIES
          /\ FAIL_THRESHOLD + watchdog.attempt <= badChecks /\ watchdog.pc = "reconnect"
          /\ watchdog \in WatchdogStates
      BY <2>1 DEF Reconnect, WatchdogStates
    <2>3. boot \notin BeforeVerified /\ boot' = boot /\ "watchdog" \notin blame
      BY <2>1, <2>2 DEF Reconnect
    <2>4. CASE ok
      <3>1. /\ watchdog' = [watchdog EXCEPT !.pc = "watch", !.streak = 0, !.attempt = 0]
            /\ badChecks' = 0 /\ blame' = blame
        BY <2>1, <2>4 DEF Reconnect, CountCheck
      <3>2. watchdog'.pc = "watch" /\ watchdog'.streak = 0
        BY <2>2, <3>1 DEF WatchdogStates
      <3> QED
        BY <2>3, <3>1, <3>2
    <2>5. CASE ~ok
      BY <2>1, <2>2, <2>3, <2>5 DEF Reconnect, CountCheck, WatchdogStates
    <2> QED
      BY <2>4, <2>5
  <1>18. CASE WatchdogEnds
    BY <1>18 DEF WatchdogEnds, Workload
  <1>19. CASE WatchdogDies
    BY <1>19 DEF WatchdogDies
  <1>20. CASE GuardEnds
    BY <1>20 DEF GuardEnds, Workload
  <1>21. CASE \E a \in Anomalies \cup {NoAnomaly} : Inspect(a)
    BY <1>21 DEF Inspect, Workload
  <1>22. CASE ScriptBreaksOff
    BY <1>22 DEF ScriptBreaksOff, ResolvedVpn
  <1> QED
    BY <1>22, <1>1, <1>2, <1>3, <1>4, <1>5, <1>6, <1>7, <1>8, <1>9, <1>10, <1>11,
       <1>12, <1>13, <1>14, <1>15, <1>16, <1>17, <1>18, <1>19, <1>20, <1>21 DEF BootNext

\* The counters of the watchdog stay within their bounds.
LEMMA WatchTypeStep ==
  ASSUME BootAssumption, BootTypeOK, StreaksCounted,
         NEW ok \in BOOLEAN, Watch(ok) \/ Reconnect(ok)
  PROVE  BootTypeOK'
  <1>0. /\ watchdog \in [pc: {"off", "watch", "reconnect"}, streak: 0 .. FAIL_THRESHOLD,
                         attempt: 0 .. MAX_RETRIES, seen: BOOLEAN]
        /\ badChecks \in 0 .. MaxChecks
    BY DEF BootTypeOK
  <1>1. badChecks' \in 0 .. MaxChecks
    BY <1>0 DEF Watch, Reconnect, CountCheck, MaxChecks, BootAssumption
  <1>2. blame' \subseteq {"script", "watchdog"}
    BY DEF BootTypeOK, Watch, Reconnect
  <1>3. CASE Watch(ok)
    <2> DEFINE seen == watchdog.seen \/ Workload
               streak == IF ok THEN Recovered ELSE watchdog.streak + 1
               w == [watchdog EXCEPT !.seen = seen, !.streak = streak]
    <2>1. seen \in BOOLEAN
      BY Zenon
    <2>2. streak \in 0 .. FAIL_THRESHOLD
      BY <1>0, <1>3 DEF Watch, StreaksCounted, BootAssumption, Recovered
    <2>3. watchdog' = w \/ watchdog' = [w EXCEPT !.pc = "reconnect", !.attempt = 0]
      BY <1>3, Zenon DEF Watch
    <2> HIDE DEF seen, streak
    <2>4. w \in WatchdogStates
      BY <1>0, <2>1, <2>2 DEF WatchdogStates
    <2> HIDE DEF w
    <2>5. watchdog' \in WatchdogStates
      BY <2>3, <2>4, Cleared DEF WatchdogStates
    <2> QED
      BY <1>1, <1>2, <1>3, <2>5 DEF Watch, BootTypeOK, bootVars, WatchdogStates
  <1>4. CASE Reconnect(ok)
    <2>1. watchdog.attempt < MAX_RETRIES /\ watchdog.attempt \in Nat /\ MAX_RETRIES \in Nat
      BY <1>0, <1>4 DEF Reconnect, StreaksCounted, BootAssumption
    <2>2. CASE watchdog' = [watchdog EXCEPT !.pc = "watch", !.streak = 0, !.attempt = 0]
      <3>1. watchdog' \in WatchdogStates
        BY <1>0, <2>2, Cleared DEF WatchdogStates
      <3> QED
        BY <1>1, <1>2, <1>4, <3>1 DEF Reconnect, BootTypeOK, bootVars, WatchdogStates
    <2>3. CASE watchdog' = [watchdog EXCEPT !.attempt = @ + 1]
      BY <1>0, <1>1, <1>2, <1>4, <2>1, <2>3 DEF Reconnect, BootTypeOK, bootVars
    <2>4. CASE watchdog' = [watchdog EXCEPT !.pc = "off"]
      BY <1>0, <1>1, <1>2, <1>4, <2>1, <2>4 DEF Reconnect, BootTypeOK, bootVars
    <2> QED
      BY <1>4, <2>2, <2>3, <2>4 DEF Reconnect
  <1> QED
    BY <1>3, <1>4

\* Every step of the script leads to one of its steps.
LEMMA ScriptStep ==
  ASSUME BootTypeOK, BootNext
  PROVE  boot' \in Steps /\ left' \in 0 .. 6
  <1> USE DEF BootTypeOK, Failed, Silent, Background, bootVars
  <1>1. \A s \in Steps : Proceed(s) => boot' \in Steps /\ left' \in 0 .. 6
    BY GotoStep
  <1>2. {"install", "script", "config", "packages", "rules", "tunnel", "verify", "pull", "run",
         "submit", "started", "wait", "stop", "teardown", "flush", "cleanup", "ended"}
          \subseteq Steps
    BY LoopDomains DEF Steps
  <1>3. CASE AttemptSucceeds
    BY <1>1, <1>2, <1>3, LoopDomains DEF AttemptSucceeds
  <1>4. CASE AttemptFails
    BY <1>1, <1>2, <1>4 DEF AttemptFails
  <1>5. CASE FetchConfig
    BY <1>1, <1>2, <1>5 DEF FetchConfig
  <1>6. CASE InstallVpn
    BY <1>1, <1>2, <1>6 DEF InstallVpn
  <1>7. CASE KillSwitch
    BY <1>1, <1>2, <1>7 DEF KillSwitch, RulesFail
  <1>8. CASE StartTunnel
    BY <1>1, <1>2, <1>8 DEF StartTunnel
  <1>9. CASE Verified
    BY <1>1, <1>2, <1>9 DEF Verified
  <1>10. CASE RunContainer
    BY <1>1, <1>2, <1>10 DEF RunContainer
  <1>11. CASE Submit
    BY <1>1, <1>2, <1>11 DEF Submit
  <1>12. CASE Wait
    BY <1>1, <1>2, <1>12 DEF Wait
  <1>13. CASE StopGuards
    BY <1>1, <1>2, <1>13 DEF StopGuards
  <1>14. CASE TearDown
    BY <1>1, <1>2, <1>14 DEF TearDown
  <1>15. CASE Flush
    BY <1>1, <1>2, <1>15 DEF Flush
  <1>16. CASE Cleanup
    BY <1>1, <1>2, <1>16 DEF Cleanup
  <1>19. CASE ScriptBreaksOff
    BY <1>1, <1>2, <1>19 DEF ScriptBreaksOff
  <1>17. CASE boot' = boot /\ left' = left
    BY <1>17
  <1>18. CASE \/ ContainerExits \/ WatchdogEnds \/ WatchdogDies \/ GuardEnds
              \/ \E ok \in BOOLEAN : Watch(ok) \/ Reconnect(ok)
              \/ \E a \in Anomalies \cup {NoAnomaly} : Inspect(a)
    BY <1>17, <1>18 DEF ContainerExits, WatchdogEnds, WatchdogDies, GuardEnds, Watch, Reconnect,
       Inspect
  <1> QED
    BY <1>3, <1>4, <1>5, <1>6, <1>7, <1>8, <1>9, <1>10, <1>11, <1>12, <1>13, <1>14, <1>15,
       <1>16, <1>18, <1>19 DEF BootNext

\* Every step stays within the kinds of the state.
LEMMA TypeStep ==
  ASSUME BootAssumption, BootTypeOK, StreaksCounted, BootNext
  PROVE  BootTypeOK'
  <1>1. CASE \E ok \in BOOLEAN : Watch(ok) \/ Reconnect(ok)
    BY <1>1, WatchTypeStep
  <1>2. CASE ~ \E ok \in BOOLEAN : Watch(ok) \/ Reconnect(ok)
    <2> USE <1>2 DEF BootNext, Failed, FailJob, Silent, Background, bootVars
    <2>1. kind' = kind /\ badChecks' = badChecks /\ script' \in {"whole", "truncated"}
      BY DEF BootTypeOK, AttemptSucceeds, AttemptFails, FetchConfig, InstallVpn, KillSwitch, StartTunnel,
         Verified,
       ScriptBreaksOff, RunContainer, Submit, ContainerExits, Wait, StopGuards, TearDown, Flush, Cleanup,
       WatchdogEnds, WatchdogDies, GuardEnds, Inspect, RulesFail
    <2>2. vpn' \in {"unknown", "none", "served", "named"}
      BY ConfigFetched DEF BootTypeOK, ResolvedVpn, AttemptSucceeds, AttemptFails, InstallVpn, KillSwitch, StartTunnel,
         Verified,
       ScriptBreaksOff, RunContainer, Submit, ContainerExits, Wait, StopGuards, TearDown, Flush, Cleanup,
       WatchdogEnds, WatchdogDies, GuardEnds, Inspect, RulesFail
    <2>3. firewall' \in {"open", "partial", "closed"} /\ tunnel' \in {"none", "up", "torn"}
      BY DEF BootTypeOK, AttemptSucceeds, AttemptFails, FetchConfig, InstallVpn, KillSwitch,
         StartTunnel, Verified,
       ScriptBreaksOff, RunContainer, Submit, ContainerExits, Wait, StopGuards, TearDown, Flush, Cleanup,
       WatchdogEnds, WatchdogDies, GuardEnds, Inspect, RulesFail
    <2>4. container' \in {"none", "running", "exited"}
      BY DEF BootTypeOK, AttemptSucceeds, AttemptFails, FetchConfig, InstallVpn, KillSwitch,
         StartTunnel, Verified,
       ScriptBreaksOff, RunContainer, Submit, ContainerExits, Wait, StopGuards, TearDown, Flush, Cleanup,
       WatchdogEnds, WatchdogDies, GuardEnds, Inspect, RulesFail
    <2>5. blame' \subseteq {"script", "watchdog"}
      BY DEF BootTypeOK, AttemptSucceeds, AttemptFails, FetchConfig, InstallVpn, KillSwitch,
         StartTunnel, Verified,
       ScriptBreaksOff, RunContainer, Submit, ContainerExits, Wait, StopGuards, TearDown, Flush, Cleanup,
       WatchdogEnds, WatchdogDies, GuardEnds, Inspect, RulesFail
    <2>6. watchdog' \in WatchdogStates
      <3>1. \/ watchdog' = watchdog \/ watchdog' = [watchdog EXCEPT !.pc = "off"]
            \/ watchdog' = [OffWatch EXCEPT !.pc = "watch"]
        BY DEF Killed, AttemptSucceeds, AttemptFails, FetchConfig, InstallVpn, KillSwitch,
           StartTunnel, Verified,
       ScriptBreaksOff, RunContainer, Submit, ContainerExits, Wait, StopGuards, TearDown, Flush, Cleanup,
       WatchdogEnds, WatchdogDies, GuardEnds, Inspect, RulesFail
      <3>2. watchdog \in WatchdogStates
        BY DEF BootTypeOK, WatchdogStates
      <3> QED
        BY <3>1, <3>2, Cleared DEF WatchdogStates, OffWatch
    <2>7. guard' \in GuardStates
      <3>1. guard \in GuardStates /\ OffGuard \in GuardStates
        BY DEF BootTypeOK, GuardStates, OffGuard
      <3>2. \/ guard' = guard \/ guard' = [guard EXCEPT !.on = FALSE]
            \/ \E p \in BOOLEAN : guard' = [OffGuard EXCEPT !.on = p]
            \/ \E a \in Anomalies \cup {NoAnomaly} : Inspect(a)
        BY ConfigFetched DEF Killed, AttemptSucceeds, AttemptFails, InstallVpn, KillSwitch, StartTunnel,
           Verified,
       ScriptBreaksOff, RunContainer, Submit, ContainerExits, Wait, StopGuards, TearDown, Flush, Cleanup,
       WatchdogEnds, WatchdogDies, GuardEnds, Inspect, RulesFail
      <3>3. ASSUME NEW a \in Anomalies \cup {NoAnomaly}, Inspect(a)
            PROVE  guard' \in GuardStates
        <4> DEFINE seen == guard.seen \/ Workload
                   verified == guard.verified \/ vpn = "named"
                   last == IF a = NoAnomaly THEN guard.last ELSE a
        <4>1. seen \in BOOLEAN /\ verified \in BOOLEAN
          BY Zenon
        <4>2. last \in Anomalies \cup {NoAnomaly}
          BY <3>1 DEF GuardStates
        <4>3. guard' = [guard EXCEPT !.seen = seen, !.last = last, !.verified = verified]
          BY <3>3, Zenon DEF Inspect
        <4> HIDE DEF seen, verified, last
        <4> QED
          BY <3>1, <4>1, <4>2, <4>3 DEF GuardStates
      <3> QED
        BY <3>1, <3>2, <3>3 DEF GuardStates
    <2> QED
      BY <2>1, <2>2, <2>3, <2>4, <2>5, <2>6, <2>7, ScriptStep DEF BootTypeOK, WatchdogStates,
         GuardStates
  <1> QED
    BY <1>1, <1>2

\* Every step keeps the invariant.
LEMMA BootInvStep == BootAssumption /\ BootInv /\ [BootNext]_serverVars => BootInv'
  <1> SUFFICES ASSUME BootAssumption, BootInv, [BootNext]_serverVars PROVE BootInv'
    OBVIOUS
  <1>1. CASE UNCHANGED serverVars
    BY <1>1 DEF serverVars, bootVars, BootInv, BootTypeOK, WorkloadIsSealed, StreaksCounted, Silenced,
       KillSwitchHolds, WatchdogIsPatient, NoPhantomEvents
  <1> QED
    BY <1>1, WorkloadIsSealedStep, SilencedStep, StreaksCountedStep, TypeStep DEF BootInv

-----------------------------------------------------------------------------

\* The script is at one of its steps and the counters of the watchdog stay
\* within their bounds, whatever fails on the server.
THEOREM BootTypeCorrect == BootAssumption => (BootSpec => []BootTypeOK)
  <1> SUFFICES ASSUME BootAssumption PROVE BootSpec => []BootTypeOK
    OBVIOUS
  <1>1. BootInv => BootTypeOK
    BY DEF BootInv
  <1> QED
    BY <1>1, InitBootInv, BootInvStep, PTL DEF BootSpec

\* With a VPN, and a bootstrap script that was fetched whole, the container
\* never runs without a complete chain OUTPUT, however the script, the watchdog
\* or the clean-up may fail.
THEOREM WorkloadSealed == BootAssumption => (BootSpec => []KillSwitchHolds)
  <1> SUFFICES ASSUME BootAssumption PROVE BootSpec => []KillSwitchHolds
    OBVIOUS
  <1>1. BootInv => KillSwitchHolds
    BY DEF BootInv, WorkloadIsSealed
  <1> QED
    BY <1>1, InitBootInv, BootInvStep, PTL DEF BootSpec

\* The watchdog fails a job only when no health check has succeeded since the
\* first of FAIL_THRESHOLD + MAX_RETRIES failures, for every threshold.
THEOREM WatchdogPatient == BootAssumption => (BootSpec => []WatchdogIsPatient)
  <1> SUFFICES ASSUME BootAssumption PROVE BootSpec => []WatchdogIsPatient
    OBVIOUS
  <1>1. BootInv => WatchdogIsPatient
    BY DEF BootInv, StreaksCounted
  <1> QED
    BY <1>1, InitBootInv, BootInvStep, PTL DEF BootSpec

\* Neither watchdog nor guard is there when the clean-up takes the tunnel down.
THEOREM CleanupIsSilent == BootAssumption => (BootSpec => []NoPhantomEvents)
  <1> SUFFICES ASSUME BootAssumption PROVE BootSpec => []NoPhantomEvents
    OBVIOUS
  <1>1. BootInv => NoPhantomEvents
    BY DEF BootInv, Silenced
  <1> QED
    BY <1>1, InitBootInv, BootInvStep, PTL DEF BootSpec

-----------------------------------------------------------------------------
(* The proxy's map                                                         *)

\* What withMutex, writeMappings and reloadCaddy leave true between any two
\* steps of src/lib/caddy-mapping.ts.
LastWaits == \A i \in 1 .. Len(waiting) :
  (\A j \in i + 1 .. Len(waiting) : waiting[j].name # waiting[i].name)
     => wanted[waiting[i].name] = waiting[i].backend
OthersApplied == \A n \in Names :
  (\A i \in 1 .. Len(waiting) : waiting[i].name # n) => wanted[n] = mapFile[n]
ServedOrStale == reloading \/ stale \/ served = mapFile

ProxyInv == ProxyTypeOK /\ LastWaits /\ OthersApplied /\ ServedOrStale

LEMMA NoCalls ==
  ASSUME ProxyAssumption
  PROVE  <<>> \in Seq(Calls) /\ Len(<<>>) = 0 /\ Len(<<>>) <= MaxQueue /\ 1 .. Len(<<>>) = {}
  BY DEF ProxyAssumption

\* Caddy's map keeps to its types (src/lib/caddy-mapping.ts).
THEOREM ProxyTypeCorrect == ASSUME ProxyAssumption PROVE ProxySpec => []ProxyTypeOK
<1>1. ProxyInit => ProxyTypeOK
  BY NoCalls DEF ProxyInit, ProxyTypeOK, Map, Backends
<1>2. ASSUME ProxyTypeOK, [ProxyNext]_proxyVars
      PROVE  ProxyTypeOK'
  <2> USE ProxyTypeOK DEF ProxyTypeOK, Map, Backends
  <2>1. ASSUME NEW call \in Calls, MapCall(call)
        PROVE  ProxyTypeOK'
    <3>1. waiting' \in Seq(Calls) /\ Len(waiting') = Len(waiting) + 1
      BY <2>1 DEF MapCall, Chained
    <3>2. wanted' \in Map
      BY <2>1 DEF MapCall, Calls
    <3> QED
      BY <2>1, <3>1, <3>2 DEF MapCall, ProxyAssumption
  <2>2. CASE Apply
    <3>1. Head(waiting) \in Calls /\ Tail(waiting) \in Seq(Calls) /\ Len(Tail(waiting)) <= MaxQueue
      BY <2>2 DEF Apply, ProxyAssumption
    <3> QED
      BY <2>2, <3>1 DEF Apply, Rewritten, Calls
  <2>3. CASE ApplyFails \/ WriteFails
    <3>1. Head(waiting) \in Calls /\ Tail(waiting) \in Seq(Calls) /\ Len(Tail(waiting)) <= MaxQueue
      BY <2>3 DEF ApplyFails, WriteFails, Throws, ProxyAssumption
    <3>2. mapFile' \in Map
      <4>1. CASE ApplyFails
        BY <4>1 DEF ApplyFails
      <4>2. CASE WriteFails
        <5>1. Rewritten(Head(waiting)) \in Map
          BY <3>1 DEF Rewritten, Calls
        <5> QED
          BY <4>2, <5>1 DEF WriteFails
      <4> QED
        BY <2>3, <4>1, <4>2
    <3>3. wanted' \in Map
      BY <2>3, <3>2 DEF ApplyFails, WriteFails, Throws
    <3> QED
      BY <2>3, <3>1, <3>2, <3>3 DEF ApplyFails, WriteFails, Throws
  <2>4. CASE Reload
    BY <2>4 DEF Reload
  <2>5. CASE CaddyRestarts
    BY <2>5 DEF CaddyRestarts
  <2>6. CASE ApiRestarts
    BY <2>6, NoCalls DEF ApiRestarts
  <2>7. CASE UNCHANGED proxyVars
    BY <2>7 DEF proxyVars
  <2> QED
    BY <1>2, <2>1, <2>2, <2>3, <2>4, <2>5, <2>6, <2>7 DEF ProxyNext
<1> QED
  BY <1>1, <1>2, PTL DEF ProxySpec

\* A call that leaves the head of the queue: the others keep their order.
LEMMA HeadLeaves ==
  ASSUME ProxyTypeOK, waiting # <<>>
  PROVE  /\ Head(waiting) \in Calls /\ Head(waiting) = waiting[1]
         /\ Len(Tail(waiting)) = Len(waiting) - 1 /\ Len(waiting) \in Nat \ {0}
         /\ \A i \in 1 .. Len(Tail(waiting)) : Tail(waiting)[i] = waiting[i + 1]
  BY DEF ProxyTypeOK

\* The calls behind the head find what LastWaits says of them.
LEMMA TailWaits ==
  ASSUME ProxyInv, waiting # <<>>, waiting' = Tail(waiting),
         \A i \in 2 .. Len(waiting) : wanted'[waiting[i].name] = wanted[waiting[i].name]
  PROVE  LastWaits'
<1> SUFFICES ASSUME NEW i \in 1 .. Len(waiting'),
                    \A j \in i + 1 .. Len(waiting') : waiting'[j].name # waiting'[i].name
             PROVE  wanted'[waiting'[i].name] = waiting'[i].backend
  BY DEF LastWaits
<1>1. /\ Len(waiting') = Len(waiting) - 1 /\ Len(waiting) \in Nat \ {0}
      /\ \A j \in 1 .. Len(waiting') : waiting'[j] = waiting[j + 1]
  BY HeadLeaves DEF ProxyInv
<1>2. i + 1 \in 2 .. Len(waiting) /\ waiting'[i] = waiting[i + 1]
  BY <1>1
<1>3. ASSUME NEW j \in (i + 1) + 1 .. Len(waiting)
      PROVE  waiting[j].name # waiting[i + 1].name
  <2>1. j - 1 \in i + 1 .. Len(waiting') /\ j - 1 \in 1 .. Len(waiting') /\ (j - 1) + 1 = j
    BY <1>1
  <2> QED
    BY <1>1, <1>2, <2>1
<1>4. wanted[waiting[i + 1].name] = waiting[i + 1].backend
  BY <1>2, <1>3 DEF ProxyInv, LastWaits
<1> QED
  BY <1>2, <1>4

\* Calls take effect in the order in which they were made: when none is under
\* way, the file holds what the last of each name asked for, or what a call that
\* failed after it has left, and Caddy serves it unless the last reload or write
\* failed (withMutex in src/lib/caddy-mapping.ts).
THEOREM CallsInOrder == ASSUME ProxyAssumption PROVE ProxySpec => []LastCallWins
<1>1. ProxyInit => ProxyInv
  BY NoCalls DEF ProxyInit, ProxyInv, ProxyTypeOK, Map, Backends, LastWaits, OthersApplied,
                 ServedOrStale
<1>2. ASSUME ProxyInv, ProxyTypeOK', [ProxyNext]_proxyVars
      PROVE  ProxyInv'
  <2> USE ProxyInv, ProxyTypeOK' DEF ProxyInv
  <2>1. ASSUME NEW call \in Calls, MapCall(call)
        PROVE  ProxyInv'
    <3>1. /\ Len(waiting) \in Nat /\ Len(waiting') = Len(waiting) + 1
          /\ waiting'[Len(waiting')] = call
          /\ \A i \in 1 .. Len(waiting) : waiting'[i] = waiting[i] /\ waiting[i] \in Calls
      BY <2>1 DEF MapCall, Chained, ProxyTypeOK
    <3>2. /\ call.name \in Names /\ wanted'[call.name] = call.backend
          /\ \A n \in Names : n # call.name => wanted'[n] = wanted[n]
      BY <2>1 DEF MapCall, Calls, ProxyTypeOK, Map
    <3>3. LastWaits'
      <4> SUFFICES ASSUME NEW i \in 1 .. Len(waiting'),
                          \A j \in i + 1 .. Len(waiting') : waiting'[j].name # waiting'[i].name
                   PROVE  wanted'[waiting'[i].name] = waiting'[i].backend
        BY DEF LastWaits
      <4>1. CASE i = Len(waiting')
        BY <3>1, <3>2, <4>1
      <4>2. CASE i # Len(waiting')
        <5>1. i \in 1 .. Len(waiting) /\ Len(waiting') \in i + 1 .. Len(waiting')
          BY <3>1, <4>2
        <5>2. waiting[i].name # call.name /\ waiting[i].name \in Names
          BY <3>1, <5>1 DEF Calls
        <5>3. \A j \in i + 1 .. Len(waiting) : waiting[j].name # waiting[i].name
          BY <3>1, <5>1
        <5> QED
          BY <3>1, <3>2, <5>1, <5>2, <5>3 DEF LastWaits
      <4> QED
        BY <4>1, <4>2
    <3>4. OthersApplied'
      <4> SUFFICES ASSUME NEW n \in Names, \A i \in 1 .. Len(waiting') : waiting'[i].name # n
                   PROVE  wanted'[n] = mapFile'[n]
        BY DEF OthersApplied
      <4>1. n # call.name /\ \A i \in 1 .. Len(waiting) : waiting[i].name # n
        BY <3>1
      <4> QED
        BY <2>1, <3>2, <4>1 DEF OthersApplied, MapCall
    <3> QED
      BY <2>1, <3>3, <3>4 DEF ServedOrStale, MapCall
  <2>2. CASE Apply
    <3> DEFINE call == Head(waiting)
    <3>1. /\ waiting # <<>> /\ waiting' = Tail(waiting) /\ wanted' = wanted
          /\ mapFile' = [mapFile EXCEPT ![call.name] = call.backend]
      BY <2>2 DEF Apply, Rewritten
    <3>2. /\ call \in Calls /\ call = waiting[1]
          /\ Len(waiting') = Len(waiting) - 1 /\ Len(waiting) \in Nat \ {0}
          /\ \A i \in 1 .. Len(waiting') : waiting'[i] = waiting[i + 1]
      BY <3>1, HeadLeaves
    <3>3. /\ call.name \in Names /\ mapFile'[call.name] = call.backend
          /\ \A n \in Names : n # call.name => mapFile'[n] = mapFile[n]
      BY <3>1, <3>2 DEF Calls, ProxyTypeOK, Map
    <3>4. LastWaits'
      BY <3>1, TailWaits
    <3>5. OthersApplied'
      <4> SUFFICES ASSUME NEW n \in Names, \A i \in 1 .. Len(waiting') : waiting'[i].name # n
                   PROVE  wanted[n] = mapFile'[n]
        BY <3>1 DEF OthersApplied
      <4>1. ASSUME NEW j \in 2 .. Len(waiting)
            PROVE  waiting[j].name # n
        <5>1. j - 1 \in 1 .. Len(waiting') /\ (j - 1) + 1 = j
          BY <3>2
        <5> QED
          BY <3>2, <5>1
      <4>2. CASE n = call.name
        <5>1. 1 \in 1 .. Len(waiting) /\ \A j \in 1 + 1 .. Len(waiting) : waiting[j].name # waiting[1].name
          BY <3>2, <4>1, <4>2
        <5> QED
          BY <3>2, <3>3, <4>2, <5>1 DEF LastWaits
      <4>3. CASE n # call.name
        <5>1. \A i \in 1 .. Len(waiting) : waiting[i].name # n
          BY <3>2, <4>1, <4>3
        <5> QED
          BY <3>3, <4>3, <5>1 DEF OthersApplied
      <4> QED
        BY <4>2, <4>3
    <3>6. ServedOrStale'
      <4>1. CASE NothingToDo(call)
        <5>1. mapFile' = mapFile
          BY <3>1, <4>1 DEF NothingToDo, ProxyTypeOK, Map
        <5> QED
          BY <2>2, <5>1 DEF Apply, ServedOrStale
      <4>2. CASE ~NothingToDo(call)
        BY <2>2, <4>2 DEF Apply, ServedOrStale
      <4> QED
        BY <4>1, <4>2
    <3> QED
      BY <3>4, <3>5, <3>6
  <2>3. CASE ApplyFails \/ WriteFails
    <3>1. /\ waiting # <<>> /\ waiting' = Tail(waiting)
          /\ wanted' = [n \in Names |-> IF n \in AskedAgain THEN wanted[n] ELSE mapFile'[n]]
      BY <2>3 DEF ApplyFails, WriteFails, Throws
    <3>2. /\ Len(waiting') = Len(waiting) - 1 /\ Len(waiting) \in Nat \ {0}
          /\ \A i \in 1 .. Len(waiting') : waiting'[i] = waiting[i + 1]
      BY <3>1, HeadLeaves
    <3>3. ASSUME NEW i \in 2 .. Len(waiting)
          PROVE  wanted'[waiting[i].name] = wanted[waiting[i].name]
      <4>1. waiting[i].name \in Names
        <5>1. waiting[i] \in Calls
          BY <3>2 DEF ProxyTypeOK
        <5> QED
          BY <5>1 DEF Calls
      <4> QED
        BY <3>1, <4>1 DEF AskedAgain
    <3>4. LastWaits'
      BY <3>1, <3>3, TailWaits
    <3>5. OthersApplied'
      <4> SUFFICES ASSUME NEW n \in Names, \A i \in 1 .. Len(waiting') : waiting'[i].name # n
                   PROVE  wanted'[n] = mapFile'[n]
        BY DEF OthersApplied
      <4>1. ASSUME NEW j \in 2 .. Len(waiting)
            PROVE  waiting[j].name # n
        <5>1. j - 1 \in 1 .. Len(waiting') /\ (j - 1) + 1 = j
          BY <3>2
        <5> QED
          BY <3>2, <5>1
      <4> QED
        BY <3>1, <4>1 DEF AskedAgain
    <3>6. ServedOrStale'
      BY <2>3 DEF ServedOrStale, ApplyFails, WriteFails, Throws
    <3> QED
      BY <3>4, <3>5, <3>6
  <2>4. CASE Reload
    BY <2>4 DEF Reload, LastWaits, OthersApplied, ServedOrStale
  <2>5. CASE CaddyRestarts
    BY <2>5 DEF CaddyRestarts, LastWaits, OthersApplied, ServedOrStale
  <2>6. CASE ApiRestarts
    <3>1. 1 .. Len(waiting') = {} /\ wanted' = mapFile'
      BY <2>6, NoCalls DEF ApiRestarts
    <3>2. LastWaits' /\ OthersApplied'
      BY <3>1 DEF LastWaits, OthersApplied
    <3> QED
      BY <2>6, <3>2 DEF ApiRestarts, ServedOrStale
  <2>7. CASE UNCHANGED proxyVars
    BY <2>7 DEF proxyVars, LastWaits, OthersApplied, ServedOrStale
  <2> QED
    BY <1>2, <2>1, <2>2, <2>3, <2>4, <2>5, <2>6, <2>7 DEF ProxyNext
<1>3. ProxyInv => LastCallWins
  <2> SUFFICES ASSUME ProxyInv, waiting = <<>>, ~reloading
               PROVE  mapFile = wanted /\ (stale \/ served = mapFile)
    BY DEF LastCallWins
  <2>1. 1 .. Len(waiting) = {}
    BY NoCalls
  <2>2. \A n \in Names : wanted[n] = mapFile[n]
    BY <2>1 DEF ProxyInv, OthersApplied
  <2> QED
    BY <2>2 DEF ProxyInv, ProxyTypeOK, Map, ServedOrStale
<1> QED
  BY <1>1, <1>2, <1>3, ProxyTypeCorrect, PTL DEF ProxySpec
==============================================================================
