--------------------------- MODULE ProgramProofs ----------------------------
(***************************************************************************)
(* Savitar_core_finalize waits for every thread it should wait for: proofs *)
(* about Program for any number of workers and any machine.                *)
(***************************************************************************)
EXTENDS Program, FiniteSetTheorems, WellFoundedInduction, TLAPS

USE ProgramAssumption

(* The workers whose logger is counted on core c.                          *)
Counted(w) == logger[w] \in {"run", "decrement"}
Home(c) == core_ht_map[c][0]
Tenant(c) == {w \in Thread : Counted(w) /\ cpu[w] = Home(c)}

(* core_tenants counts the loggers placed on each core that have not given *)
(* it back.                                                                *)
TenancyInv ==
    /\ tenants \in [Core -> Nat]
    /\ \A c \in Core : IsFiniteSet(Tenant(c)) /\ tenants[c] = Cardinality(Tenant(c))
    /\ \A w \in Thread : Counted(w) => \E c \in Core : cpu[w] = Home(c)

(* The pairs of threads, and the cores that the final loop has passed.     *)
PairInv ==
    /\ worker \in [Thread -> {"none", "run", "ended"}]
    /\ logger \in [Thread -> {"none", "run", "decrement", "unlock", "ended"}]
    /\ cpu \in [Thread -> Processor \cup {None}]
    /\ \A w \in Thread : worker[w] = "run" => logger[w] = "run"
    /\ \A w \in Thread : worker[w] = "none" => logger[w] = "none"

SpinInv ==
    /\ next \in Core
    /\ mpc \notin {"spin", "destroy", "done", "assert"} => next = 0
    /\ mpc = "spin" => \A w \in Thread \ late : Counted(w) =>
           \A c \in Core : cpu[w] = Home(c) => next <= c
    /\ mpc \in {"destroy", "done", "assert"} => \A w \in Thread \ late : ~Counted(w)

IInv == TenancyInv /\ PairInv /\ SpinInv

-----------------------------------------------------------------------------
(* core_ht_map and the search for a core.                                  *)

(* A processor has more processors before it than any of those has.        *)
LEMMA BeforeGrows ==
    ASSUME NEW p \in Processor, NEW q \in Processor,
           CoreInfo[q] < CoreInfo[p] \/ (CoreInfo[q] = CoreInfo[p] /\ q < p)
    PROVE  Cardinality(Before(q)) < Cardinality(Before(p))
<1>1. \A x \in Processor : x \in Int /\ CoreInfo[x] \in Int
  BY MachineAssumption
<1>2. Before(q) \cup {q} \subseteq Before(p)
  BY <1>1 DEF Before
<1>3. q \notin Before(q)
  BY <1>1 DEF Before
<1>4. Before(p) \subseteq Processor
  BY Zenon DEF Before
<1>5. IsFiniteSet(Before(p))
  BY Zenon, <1>4, MachineAssumption, FS_Subset
<1>6. IsFiniteSet(Before(q))
  <2>1. Before(q) \subseteq Before(p)
    BY Zenon, <1>2
  <2> QED
    BY Zenon, <2>1, <1>5, FS_Subset
<1>7. Cardinality(Before(q) \cup {q}) = Cardinality(Before(q)) + 1
  BY Zenon, <1>3, <1>6, FS_AddElement
<1>8. Cardinality(Before(q) \cup {q}) <= Cardinality(Before(p))
  BY Zenon, <1>2, <1>5, FS_Subset
<1>9. Cardinality(Before(q)) \in Nat /\ Cardinality(Before(p)) \in Nat
  BY Zenon, <1>5, <1>6, FS_CardinalityType
<1> QED
  BY <1>7, <1>8, <1>9

(* No two processors have the same number of processors before them.       *)
LEMMA RankIsUnique ==
    ASSUME NEW p \in Processor, NEW q \in Processor,
           Cardinality(Before(q)) = Cardinality(Before(p))
    PROVE  p = q
<1>1. p \in Int /\ q \in Int /\ CoreInfo[p] \in Int /\ CoreInfo[q] \in Int
  BY MachineAssumption
<1>2. Cardinality(Before(p)) \in Nat
  <2>1. Before(p) \subseteq Processor
    BY Zenon DEF Before
  <2> QED
    BY Zenon, <2>1, MachineAssumption, FS_Subset, FS_CardinalityType
<1>3. ~(Cardinality(Before(q)) < Cardinality(Before(p)))
      /\ ~(Cardinality(Before(p)) < Cardinality(Before(q)))
  BY <1>2
<1>4. /\ ~(CoreInfo[q] < CoreInfo[p] \/ (CoreInfo[q] = CoreInfo[p] /\ q < p))
      /\ ~(CoreInfo[p] < CoreInfo[q] \/ (CoreInfo[p] = CoreInfo[q] /\ p < q))
  BY Zenon, <1>3, BeforeGrows
<1> QED
  BY <1>1, <1>4

(* The loop of Savitar_core_init finds a processor in every round.         *)
LEMMA RankExists ==
    ASSUME NEW r \in 0 .. Cardinality(Processor) - 1
    PROVE  \E p \in Processor : Cardinality(Before(p)) = r
<1> DEFINE N == Cardinality(Processor)
           rank == [p \in Processor |-> Cardinality(Before(p))]
<1>1. N \in Nat
  BY Zenon, MachineAssumption, FS_CardinalityType
<1>2. ASSUME NEW p \in Processor PROVE Cardinality(Before(p)) \in 0 .. N - 1
  <2>1. Before(p) \subseteq Processor \ {p}
    BY MachineAssumption DEF Before
  <2>2. IsFiniteSet(Processor \ {p}) /\ Cardinality(Processor \ {p}) = N - 1
    BY MachineAssumption, FS_RemoveElement
  <2>3. IsFiniteSet(Before(p)) /\ Cardinality(Before(p)) <= Cardinality(Processor \ {p})
    BY Zenon, <2>1, <2>2, FS_Subset
  <2>4. Cardinality(Before(p)) \in Nat
    BY Zenon, <2>3, FS_CardinalityType
  <2> QED
    BY <2>2, <2>3, <2>4, <1>1
<1> HIDE DEF N
<1>3. rank \in [Processor -> 0 .. N - 1]
  BY <1>2
<1>4. IsInjective(rank)
  BY Zenon, RankIsUnique DEF IsInjective
<1>5. rank \in Injection(Processor, 0 .. N - 1)
  BY Zenon, <1>3, <1>4 DEF Injection
<1>6. IsFiniteSet(0 .. N - 1) /\ Cardinality(0 .. N - 1) = N
  <2>1. 0 \in Int /\ N - 1 \in Int
    BY <1>1
  <2>2. /\ IsFiniteSet(0 .. N - 1)
        /\ Cardinality(0 .. N - 1) = IF 0 > N - 1 THEN 0 ELSE (N - 1) - 0 + 1
    BY Zenon, <2>1, FS_Interval
  <2> QED
    BY <2>2, <1>1
<1>7. rank \in Surjection(Processor, 0 .. N - 1)
  <2>1. Cardinality(Processor) = Cardinality(0 .. N - 1)
    BY Zenon, <1>6 DEF N
  <2> QED
    BY Zenon, <2>1, <1>5, <1>6, FS_Injection
<1>8. r \in 0 .. N - 1
  BY Zenon DEF N
<1> QED
  BY Zenon, <1>7, <1>8 DEF Surjection

(* The processors of a core are next to each other in that order.          *)
LEMMA MapRank ==
    ASSUME NEW c \in Core, NEW ht \in {0, 1}
    PROVE  /\ core_ht_map[c][ht] \in Processor
           /\ Cardinality(Before(core_ht_map[c][ht])) = 2 * c + ht
<1>1. Cardinality(Processor) \in Nat
  BY Zenon, MachineAssumption, FS_CardinalityType
<1>2. 2 * c + ht \in 0 .. Cardinality(Processor) - 1
  BY <1>1 DEF Core
<1>3. \E p \in Processor : Cardinality(Before(p)) = 2 * c + ht
  BY Zenon, <1>2, RankExists
<1>4. core_ht_map[c][ht] = CHOOSE p \in Processor : Cardinality(Before(p)) = 2 * c + ht
  BY Zenon DEF core_ht_map
<1> QED
  BY Zenon, <1>3, <1>4

(* Savitar_core_free finds the core that Savitar_core_alloc has given.     *)
LEMMA HomeIsFound ==
    ASSUME NEW c \in Core
    PROVE  /\ Home(c) \in Processor
           /\ physical_core(Home(c)) = c
           /\ \A d \in Core : Home(d) = Home(c) => d = c
<1>1. \A d \in Core : d \in Int
  BY DEF Core
<1>2. \A d \in Core, ht \in {0, 1} : core_ht_map[d][ht] = Home(c) => d = c
  <2> SUFFICES ASSUME NEW d \in Core, NEW ht \in {0, 1}, core_ht_map[d][ht] = Home(c)
               PROVE  d = c
    BY Zenon
  <2>1. Cardinality(Before(Home(c))) = 2 * d + ht
    BY Zenon, MapRank
  <2>2. Cardinality(Before(Home(c))) = 2 * c + 0
    BY Zenon, MapRank DEF Home
  <2>3. d \in Int /\ c \in Int
    BY Zenon, <1>1
  <2>4. 2 * d + ht = 2 * c
    BY <2>1, <2>2, <2>3
  <2>5. CASE ht = 0
    BY <2>3, <2>4, <2>5
  <2>6. CASE ht = 1
    BY <2>3, <2>4, <2>6
  <2> QED
    BY Zenon, <2>5, <2>6
<1>3. \E ht \in {0, 1} : core_ht_map[c][ht] = Home(c)
  BY Zenon DEF Home
<1>4. physical_core(Home(c)) = c
  BY Zenon, <1>2, <1>3 DEF physical_core
<1>5. Home(c) \in Processor
  BY Zenon, MapRank DEF Home
<1> QED
  BY Zenon, <1>2, <1>4, <1>5 DEF Home

(* A set of numbers that is not empty has a least one.                     *)
LEMMA LeastOf ==
    ASSUME NEW S \in SUBSET Nat, S # {}
    PROVE  \E x \in S : \A y \in S : x <= y
<1>1. \E x \in S : \A y \in S : ~(<<y, x>> \in OpToRel(<, Nat))
  BY Zenon, NatLessThanWellFounded, WFMin
<1>2. PICK x \in S : \A y \in S : ~(<<y, x>> \in OpToRel(<, Nat))
  BY Zenon, <1>1
<1>3. \A y \in S : ~(y < x)
  BY <1>2 DEF OpToRel
<1> QED
  BY <1>3

(* The search of Savitar_core_alloc ends with a core.                      *)
LEMMA LeastIsCore ==
    ASSUME tenants \in [Core -> Nat]
    PROVE  least_occupied \in Core
<1>1. Core \subseteq Nat /\ 0 \in Core
  <2>1. Cardinality(Processor) \in Nat /\ Cardinality(Processor) >= 2
    BY Zenon, MachineAssumption, FS_CardinalityType
  <2> QED
    BY <2>1 DEF Core
<1>2. PICK m \in {tenants[c] : c \in Core} : \A n \in {tenants[c] : c \in Core} : m <= n
  <2>1. {tenants[c] : c \in Core} \in SUBSET Nat /\ {tenants[c] : c \in Core} # {}
    BY Zenon, <1>1
  <2> QED
    BY Zenon, <2>1, LeastOf
<1>3. PICK c \in {d \in Core : tenants[d] = m} : \A e \in {d \in Core : tenants[d] = m} : c <= e
  <2>1. {d \in Core : tenants[d] = m} \in SUBSET Nat /\ {d \in Core : tenants[d] = m} # {}
    BY Zenon, <1>1, <1>2
  <2> QED
    BY Zenon, <2>1, LeastOf
<1>4. \A d \in Core : tenants[c] < tenants[d] \/ (tenants[c] = tenants[d] /\ c <= d)
  BY <1>2, <1>3
<1> QED
  BY Zenon, <1>3, <1>4 DEF least_occupied

-----------------------------------------------------------------------------
(* Initially no logger is counted and every counter is zero.               *)
LEMMA InitIInv == Init => IInv
<1> SUFFICES ASSUME Init PROVE IInv
  OBVIOUS
<1>1. \A w \in Thread : ~Counted(w)
  BY DEF Init, Counted
<1>2. TenancyInv
  <2>1. \A c \in Core : Tenant(c) = {}
    BY Zenon, <1>1 DEF Tenant
  <2>2. IsFiniteSet({}) /\ Cardinality({}) = 0
    BY Zenon, FS_EmptySet
  <2>3. tenants \in [Core -> Nat] /\ \A c \in Core : tenants[c] = 0
    BY DEF Init
  <2> QED
    BY Zenon, <1>1, <2>1, <2>2, <2>3 DEF TenancyInv
<1>3. PairInv
  BY DEF Init, PairInv
<1>4. SpinInv
  <2>1. Cardinality(Processor) \in Nat /\ Cardinality(Processor) >= 2
    BY Zenon, MachineAssumption, FS_CardinalityType
  <2>2. next = 0 /\ 0 \in Core
    BY <2>1 DEF Init, Core
  <2>3. mpc \notin {"spin", "destroy", "done", "assert"}
    BY DEF Init
  <2> QED
    BY Zenon, <2>2, <2>3 DEF SpinInv
<1> QED
  BY Zenon, <1>2, <1>3, <1>4 DEF IInv

(* A step that leaves the threads and the counters alone.                  *)
LEMMA ThreadsFrame ==
    ASSUME IInv, UNCHANGED <<worker, logger, cpu, late, tenants>>
    PROVE  /\ TenancyInv' /\ PairInv'
           /\ \A w \in Thread : Counted(w)' <=> Counted(w)
<1>1. \A w \in Thread : Counted(w)' <=> Counted(w)
  BY Zenon DEF Counted
<1>2. \A c \in Core : Tenant(c)' = Tenant(c)
  BY Zenon, <1>1 DEF Tenant
<1>3. TenancyInv'
  BY Zenon, <1>1, <1>2 DEF IInv, TenancyInv
<1>4. PairInv'
  BY Zenon DEF IInv, PairInv
<1> QED
  BY Zenon, <1>1, <1>3, <1>4

(* The signal handler, a worker's transactions, the snapshot's thread, and *)
(* nothing at all.                                                         *)
LEMMA QuietStep ==
    ASSUME IInv, UNCHANGED <<mpc, next, worker, logger, cpu, late, tenants>>
    PROVE  IInv'
<1>1. TenancyInv' /\ PairInv' /\ \A w \in Thread : Counted(w)' <=> Counted(w)
  BY Zenon, ThreadsFrame
<1>2. SpinInv'
  BY Zenon, <1>1 DEF IInv, SpinInv
<1> QED
  BY Zenon, <1>1, <1>2 DEF IInv

(* A counter that is zero counts nobody.                                   *)
LEMMA ZeroIsEmpty ==
    ASSUME TenancyInv, NEW c \in Core, tenants[c] = 0
    PROVE  \A w \in Thread : Counted(w) => cpu[w] # Home(c)
<1>1. IsFiniteSet(Tenant(c)) /\ Cardinality(Tenant(c)) = 0
  BY Zenon DEF TenancyInv
<1>2. Tenant(c) = {}
  BY Zenon, <1>1, FS_EmptySet
<1> QED
  BY Zenon, <1>2 DEF Tenant

(* Savitar_main, from the first join to the end of Savitar_core_finalize.  *)
LEMMA MainStep ==
    ASSUME IInv, JoinFirst \/ LockSnapshot \/ JoinSnapshot \/ Spin \/ Destroy
    PROVE  IInv'
<1> USE DEF threads, snapshots
<1>0. TenancyInv /\ PairInv /\ SpinInv
  BY Zenon DEF IInv
<1>1. UNCHANGED <<worker, logger, cpu, late, tenants>>
  BY Zenon DEF JoinFirst, LockSnapshot, JoinSnapshot, Spin, Destroy
<1>2. TenancyInv' /\ PairInv' /\ \A w \in Thread : Counted(w)' <=> Counted(w)
  BY Zenon, <1>1, ThreadsFrame
<1>3. \A c \in Core : c \in Int /\ 0 <= c
  BY DEF Core
<1>4. ASSUME JoinFirst \/ LockSnapshot PROVE SpinInv'
  <2>1. /\ mpc \notin {"spin", "destroy", "done", "assert"}
        /\ mpc' \notin {"spin", "destroy", "done", "assert"} /\ next' = next
    BY <1>4 DEF JoinFirst, LockSnapshot
  <2> QED
    BY Zenon, <2>1, <1>0 DEF SpinInv
<1>5. ASSUME JoinSnapshot PROVE SpinInv'
  <2>1. mpc \notin {"spin", "destroy", "done", "assert"} /\ mpc' = "spin" /\ next' = next
    BY <1>5 DEF JoinSnapshot
  <2>2. next' = 0 /\ next' \in Core /\ mpc' \notin {"destroy", "done", "assert"}
    BY <2>1, <1>0 DEF SpinInv
  <2> QED
    BY Zenon, <2>1, <2>2, <1>3 DEF SpinInv
<1>6. ASSUME Destroy PROVE SpinInv'
  <2>1. mpc = "destroy" /\ mpc' \in {"done", "assert"} /\ next' = next
    BY Zenon, <1>6 DEF Destroy
  <2>2. mpc' # "spin" /\ ~(mpc' \notin {"spin", "destroy", "done", "assert"})
    BY <2>1
  <2>3. \A w \in Thread \ late : ~Counted(w)
    BY <2>1, <1>0 DEF SpinInv
  <2> QED
    BY Zenon, <2>1, <2>2, <2>3, <1>0, <1>1, <1>2 DEF SpinInv
<1>7. ASSUME Spin PROVE SpinInv'
  <2>1. mpc = "spin" /\ tenants[next] = 0 /\ next \in Core
    BY Zenon, <1>7, <1>0 DEF Spin, SpinInv
  <2>2. \A w \in Thread \ late : Counted(w) => \A c \in Core : cpu[w] = Home(c) => next < c
    <3>1. \A w \in Thread \ late : Counted(w) =>
             \A c \in Core : cpu[w] = Home(c) => next <= c /\ c # next
      BY Zenon, <2>1, <1>0, ZeroIsEmpty DEF SpinInv
    <3>2. \A c \in Core : next <= c /\ c # next => next < c
      BY <2>1, <1>3
    <3> QED
      BY Zenon, <3>1, <3>2
  <2>3. ASSUME next + 1 \in Core PROVE SpinInv'
    <3>1. next' = next + 1 /\ mpc' = mpc
      BY Zenon, <1>7, <2>3 DEF Spin
    <3>2. \A c \in Core : next < c => next' <= c
      BY <3>1, <2>1, <1>3
    <3>3. mpc' = "spin" /\ mpc' \in {"spin", "destroy", "done", "assert"}
          /\ mpc' \notin {"destroy", "done", "assert"}
      BY <3>1, <2>1
    <3> QED
      BY Zenon, <3>1, <3>2, <3>3, <2>2, <2>3, <1>1, <1>2 DEF SpinInv
  <2>4. ASSUME next + 1 \notin Core PROVE SpinInv'
    <3>1. next' = next /\ mpc' = "destroy"
      BY Zenon, <1>7, <2>4 DEF Spin
    <3>2. \A c \in Core : ~(next < c)
      <4>1. Cardinality(Processor) \in Nat
        BY Zenon, MachineAssumption, FS_CardinalityType
      <4> QED
        BY <4>1, <2>1, <2>4 DEF Core
    <3>3. \A w \in Thread \ late : ~Counted(w)
      BY Zenon, <3>2, <2>2, <1>0 DEF TenancyInv
    <3>4. mpc' # "spin" /\ mpc' \in {"spin", "destroy", "done", "assert"}
      BY <3>1
    <3> QED
      BY Zenon, <3>1, <3>3, <3>4, <2>1, <1>1, <1>2 DEF SpinInv
  <2> QED
    BY Zenon, <2>3, <2>4
<1>8. SpinInv'
  BY Zenon, <1>4, <1>5, <1>6, <1>7
<1> QED
  BY Zenon, <1>2, <1>8 DEF IInv

-----------------------------------------------------------------------------
(* Savitar_thread_create: the new pair is counted on the core it is given, *)
(* and on no other.                                                        *)
LEMMA CreateTenancy ==
    ASSUME IInv, NEW w \in Thread, Create(w)
    PROVE  /\ TenancyInv' /\ PairInv'
           /\ Counted(w)'
           /\ \A v \in Thread \ {w} : (Counted(v)' <=> Counted(v)) /\ cpu'[v] = cpu[v]
<1> USE DEF threads, snapshots
<1>0. TenancyInv /\ PairInv
  BY Zenon DEF IInv
<1>1. PICK k \in Core : k = least_occupied
  BY Zenon, <1>0, LeastIsCore DEF TenancyInv
<1>2. /\ worker[w] = "none"
      /\ worker' = [worker EXCEPT ![w] = "run"] /\ logger' = [logger EXCEPT ![w] = "run"]
      /\ cpu' = [cpu EXCEPT ![w] = Home(k)]
      /\ tenants' = [tenants EXCEPT ![k] = @ + 1]
  BY Zenon, <1>1 DEF Create, Home
<1>3. /\ Home(k) \in Processor
      /\ \A d \in Core : Home(d) = Home(k) => d = k
  BY Zenon, HomeIsFound
<1>4. PairInv'
  BY <1>0, <1>2, <1>3 DEF PairInv
<1>5. /\ logger'[w] = "run" /\ cpu'[w] = Home(k) /\ logger[w] = "none"
      /\ \A v \in Thread \ {w} : logger'[v] = logger[v] /\ cpu'[v] = cpu[v]
  BY Zenon, <1>0, <1>2 DEF PairInv
<1>6. Counted(w)' /\ ~Counted(w)
  BY <1>5 DEF Counted
<1>7. \A v \in Thread \ {w} : (Counted(v)' <=> Counted(v)) /\ cpu'[v] = cpu[v]
  BY Zenon, <1>5 DEF Counted
<1>8. Tenant(k)' = Tenant(k) \cup {w} /\ w \notin Tenant(k)
  BY Zenon, <1>5, <1>6, <1>7 DEF Tenant
<1>9. \A d \in Core \ {k} : Tenant(d)' = Tenant(d)
  BY Zenon, <1>3, <1>5, <1>6, <1>7 DEF Tenant
<1>10. /\ tenants' \in [Core -> Nat]
       /\ tenants'[k] = tenants[k] + 1
       /\ \A d \in Core \ {k} : tenants'[d] = tenants[d]
  BY <1>0, <1>2 DEF TenancyInv
<1>11. IsFiniteSet(Tenant(k)') /\ tenants'[k] = Cardinality(Tenant(k)')
  <2>1. IsFiniteSet(Tenant(k)) /\ tenants[k] = Cardinality(Tenant(k))
    BY Zenon, <1>0 DEF TenancyInv
  <2>2. IsFiniteSet(Tenant(k)') /\ Cardinality(Tenant(k)') = Cardinality(Tenant(k)) + 1
    BY <1>8, <2>1, FS_AddElement
  <2> QED
    BY Zenon, <1>10, <2>1, <2>2
<1>12. \A d \in Core : IsFiniteSet(Tenant(d)') /\ tenants'[d] = Cardinality(Tenant(d)')
  BY Zenon, <1>0, <1>9, <1>10, <1>11 DEF TenancyInv
<1>13. \A v \in Thread : Counted(v)' => \E c \in Core : cpu'[v] = Home(c)
  BY Zenon, <1>0, <1>5, <1>7 DEF TenancyInv
<1>14. TenancyInv'
  BY Zenon, <1>10, <1>12, <1>13 DEF TenancyInv
<1> QED
  BY Zenon, <1>4, <1>6, <1>7, <1>14

(* A worker created while Savitar_core_finalize runs is late; before that, *)
(* the loop has passed no core.                                            *)
LEMMA CreateStep ==
    ASSUME IInv, NEW w \in Thread,
           \/ CreateFirst /\ w = First
           \/ \E v \in Thread : CreateWorker(w, v)
    PROVE  IInv'
<1>0. SpinInv
  BY Zenon DEF IInv
<1>1. Create(w)
  BY Zenon DEF CreateFirst, CreateWorker
<1>2. /\ TenancyInv' /\ PairInv'
      /\ \A v \in Thread \ {w} : (Counted(v)' <=> Counted(v)) /\ cpu'[v] = cpu[v]
  BY Zenon, <1>1, CreateTenancy
<1>3. next' = next /\ late' = IF mpc \in {"spin", "destroy"} THEN late \cup {w} ELSE late
  BY Zenon, <1>1 DEF Create, CreateFirst, CreateWorker
<1>4. CASE CreateFirst
  <2>1. /\ mpc \notin {"spin", "destroy", "done", "assert"}
        /\ mpc' \notin {"spin", "destroy", "done", "assert"}
    BY <1>4 DEF CreateFirst
  <2>2. SpinInv'
    BY Zenon, <2>1, <1>0, <1>3 DEF SpinInv
  <2> QED
    BY Zenon, <1>2, <2>2 DEF IInv
<1>5. CASE \E v \in Thread : CreateWorker(w, v)
  <2>1. mpc' = mpc /\ mpc \notin {"done", "assert"}
    BY Zenon, <1>5 DEF CreateWorker, Runs, Over
  <2>2. CASE mpc \in {"spin", "destroy"}
    <3>1. late' = late \cup {w}
      BY Zenon, <2>2, <1>3
    <3>2. \A v \in Thread \ late' : v \in Thread \ late /\ v # w
      BY Zenon, <3>1
    <3>3. \A v \in Thread \ late' : v \in Thread \ late /\ (Counted(v)' <=> Counted(v))
                                     /\ cpu'[v] = cpu[v]
      BY Zenon, <3>2, <1>2
    <3>4. SpinInv'
      BY Zenon, <3>3, <2>1, <1>0, <1>3 DEF SpinInv
    <3> QED
      BY Zenon, <1>2, <3>4 DEF IInv
  <2>3. CASE mpc \notin {"spin", "destroy"}
    <3>1. mpc' \notin {"spin", "destroy", "done", "assert"}
      BY Zenon, <2>1, <2>3
    <3>2. SpinInv'
      BY Zenon, <3>1, <2>1, <1>0, <1>3 DEF SpinInv
    <3> QED
      BY Zenon, <1>2, <3>2 DEF IInv
  <2> QED
    BY Zenon, <2>2, <2>3
<1> QED
  BY Zenon, <1>4, <1>5

(* A step that counts the same loggers on the same cores.                  *)
LEMMA SameCount ==
    ASSUME IInv, PairInv', UNCHANGED <<mpc, next, cpu, late, tenants>>,
           \A v \in Thread : Counted(v)' <=> Counted(v)
    PROVE  IInv'
<1>1. \A c \in Core : Tenant(c)' = Tenant(c)
  BY Zenon DEF Tenant
<1>2. TenancyInv'
  BY Zenon, <1>1 DEF IInv, TenancyInv
<1>3. SpinInv'
  BY Zenon DEF IInv, SpinInv
<1> QED
  BY Zenon, <1>2, <1>3 DEF IInv

(* The end of a worker, and the lock of Savitar_core_free on either side   *)
(* of the decrement.                                                       *)
LEMMA EndStep ==
    ASSUME IInv, NEW w \in Thread, WorkerEnds(w) \/ FreeLock(w) \/ FreeUnlock(w)
    PROVE  IInv'
<1> USE DEF snapshots
<1>1. PairInv
  BY Zenon DEF IInv
<1>2. UNCHANGED <<mpc, next, cpu, late, tenants>>
  BY Zenon DEF WorkerEnds, FreeLock, FreeUnlock
<1>3. PairInv'
  BY <1>1 DEF WorkerEnds, FreeLock, FreeUnlock, PairInv
<1>4. \A v \in Thread \ {w} : logger'[v] = logger[v]
  BY Zenon, <1>1 DEF WorkerEnds, FreeLock, FreeUnlock, PairInv
<1>5. Counted(w)' <=> Counted(w)
  BY <1>1 DEF WorkerEnds, FreeLock, FreeUnlock, PairInv, Counted
<1>6. \A v \in Thread : Counted(v)' <=> Counted(v)
  BY Zenon, <1>4, <1>5 DEF Counted
<1> QED
  BY Zenon, <1>2, <1>3, <1>6, SameCount

(* Savitar_core_free gives back the core the logger was counted on.        *)
LEMMA DecrementStep ==
    ASSUME IInv, NEW w \in Thread, FreeDecrement(w)
    PROVE  IInv'
<1> USE DEF snapshots
<1>0. TenancyInv /\ PairInv /\ SpinInv
  BY Zenon DEF IInv
<1>1. /\ UNCHANGED <<mpc, next, worker, cpu, late>>
      /\ logger[w] = "decrement" /\ logger' = [logger EXCEPT ![w] = "unlock"]
      /\ tenants' = [tenants EXCEPT ![physical_core(cpu[w])] = @ - 1]
  BY Zenon DEF FreeDecrement
<1>2. Counted(w)
  BY Zenon, <1>1 DEF Counted
<1>3. PICK k \in Core : cpu[w] = Home(k)
  BY Zenon, <1>0, <1>2 DEF TenancyInv
<1>4. physical_core(cpu[w]) = k /\ \A d \in Core : Home(d) = Home(k) => d = k
  BY Zenon, <1>3, HomeIsFound
<1>5. logger'[w] = "unlock" /\ \A v \in Thread \ {w} : logger'[v] = logger[v]
  BY Zenon, <1>0, <1>1 DEF PairInv
<1>6. ~Counted(w)' /\ \A v \in Thread \ {w} : Counted(v)' <=> Counted(v)
  <2>1. ~Counted(w)'
    BY <1>5 DEF Counted
  <2>2. \A v \in Thread \ {w} : Counted(v)' <=> Counted(v)
    BY Zenon, <1>5 DEF Counted
  <2> QED
    BY Zenon, <2>1, <2>2
<1>7. PairInv'
  BY <1>0, <1>1 DEF PairInv
<1>8. Tenant(k)' = Tenant(k) \ {w} /\ w \in Tenant(k)
  BY Zenon, <1>1, <1>2, <1>3, <1>6 DEF Tenant
<1>9. \A d \in Core \ {k} : Tenant(d)' = Tenant(d)
  BY Zenon, <1>1, <1>3, <1>4, <1>6 DEF Tenant
<1>10. /\ IsFiniteSet(Tenant(k)) /\ tenants[k] = Cardinality(Tenant(k))
       /\ IsFiniteSet(Tenant(k)') /\ Cardinality(Tenant(k)') = Cardinality(Tenant(k)) - 1
       /\ Cardinality(Tenant(k)') \in Nat
  <2>1. IsFiniteSet(Tenant(k)) /\ tenants[k] = Cardinality(Tenant(k))
    BY Zenon, <1>0 DEF TenancyInv
  <2>2. IsFiniteSet(Tenant(k)') /\ Cardinality(Tenant(k)') = Cardinality(Tenant(k)) - 1
    BY <1>8, <2>1, FS_RemoveElement
  <2> QED
    BY Zenon, <2>1, <2>2, FS_CardinalityType
<1>11. /\ tenants' \in [Core -> Nat]
       /\ tenants'[k] = tenants[k] - 1
       /\ \A d \in Core \ {k} : tenants'[d] = tenants[d]
  <2>1. tenants \in [Core -> Nat] /\ tenants' = [tenants EXCEPT ![k] = @ - 1]
    BY Zenon, <1>0, <1>1, <1>4 DEF TenancyInv
  <2>2. tenants[k] - 1 \in Nat
    BY Zenon, <1>10
  <2> QED
    BY <2>1, <2>2
<1>12. \A d \in Core : IsFiniteSet(Tenant(d)') /\ tenants'[d] = Cardinality(Tenant(d)')
  <2>1. tenants'[k] = Cardinality(Tenant(k)')
    BY Zenon, <1>10, <1>11
  <2>2. \A d \in Core \ {k} : IsFiniteSet(Tenant(d)') /\ tenants'[d] = Cardinality(Tenant(d)')
    BY Zenon, <1>0, <1>9, <1>11 DEF TenancyInv
  <2> QED
    BY Zenon, <2>1, <2>2, <1>10
<1>13. \A v \in Thread : Counted(v)' => \E c \in Core : cpu'[v] = Home(c)
  BY Zenon, <1>0, <1>1, <1>6 DEF TenancyInv
<1>14. TenancyInv'
  BY Zenon, <1>11, <1>12, <1>13 DEF TenancyInv
<1>15. SpinInv'
  <2>1. \A v \in Thread : Counted(v)' => Counted(v)
    BY Zenon, <1>6
  <2> QED
    BY Zenon, <2>1, <1>0, <1>1 DEF SpinInv
<1> QED
  BY Zenon, <1>7, <1>14, <1>15 DEF IInv

(* Every step of every thread keeps the invariant.                         *)
LEMMA NextIInv == IInv /\ [Next]_vars => IInv'
<1> SUFFICES ASSUME IInv, [Next]_vars PROVE IInv'
  OBVIOUS
<1> USE DEF threads, snapshots
<1>1. CASE CreateFirst
  BY Zenon, <1>1, CreateStep
<1>2. CASE \E w, v \in Thread : CreateWorker(w, v)
  BY Zenon, <1>2, CreateStep
<1>3. CASE JoinFirst \/ LockSnapshot \/ JoinSnapshot \/ Spin \/ Destroy
  BY Zenon, <1>3, MainStep
<1>4. CASE \E w \in Thread : WorkerEnds(w) \/ FreeLock(w) \/ FreeUnlock(w)
  BY Zenon, <1>4, EndStep
<1>5. CASE \E w \in Thread : FreeDecrement(w)
  BY Zenon, <1>5, DecrementStep
<1>6. CASE \/ \E x \in Thread \cup {Main} : Signal(x) \/ HandlerLock(x) \/ HandlerUnlock(x)
           \/ \E w \in Thread : BeginTx(w) \/ Wake(w) \/ EndTx(w)
           \/ SnapshotFreezes \/ SnapshotFrozen \/ SnapshotEnds \/ UNCHANGED vars
  <2>1. UNCHANGED <<mpc, next, worker, logger, cpu, late, tenants>>
    BY Zenon, <1>6 DEF Signal, HandlerLock, HandlerUnlock, BeginTx, Wake, EndTx,
                       SnapshotFreezes, SnapshotFrozen, SnapshotEnds, vars
  <2> QED
    BY Zenon, <2>1, QuietStep
<1> QED
  BY Zenon, <1>1, <1>2, <1>3, <1>4, <1>5, <1>6 DEF Next

(* The inductive invariant: core_tenants counts the pairs on each core.    *)
THEOREM Invariance == Spec => []IInv
BY InitIInv, NextIInv, PTL DEF Spec

(* "wait for all threads to terminate" (Savitar_core_finalize): past the   *)
(* loop no worker runs and no logger has a core, but for those created     *)
(* since it began, whatever the machine and the number of threads.         *)
THEOREM Terminated == Spec => []AllTerminated
<1>1. IInv => AllTerminated
  <2> SUFFICES ASSUME IInv, mpc \in {"destroy", "done", "assert"}, NEW w \in Thread \ late
               PROVE  worker[w] # "run" /\ logger[w] \notin {"run", "decrement"}
    BY Zenon DEF AllTerminated
  <2>1. logger[w] \notin {"run", "decrement"}
    BY Zenon DEF IInv, SpinInv, Counted
  <2>2. worker[w] # "run"
    BY Zenon, <2>1 DEF IInv, PairInv
  <2> QED
    BY Zenon, <2>1, <2>2
<1> QED
  BY <1>1, Invariance, PTL
=============================================================================
