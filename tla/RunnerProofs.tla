---------------------------- MODULE RunnerProofs ----------------------------
(* Proofs about Runner, for any set of jobs, any number of permits and any *)
(* memory budget.                                                          *)
EXTENDS Runner, FiniteSetTheorems, TLAPS

Flags == slot_free \in BOOLEAN /\ shutdown \in BOOLEAN
           /\ signalled \in BOOLEAN /\ panicked \in BOOLEAN

LEMMA InitType == Init => TypeOK
  <1> SUFFICES ASSUME Init PROVE TypeOK
    OBVIOUS
  <1>1. Flags
    BY DEF Init, Flags
  <1>2. st \in [Job -> St]
    BY DEF Init, St
  <1> QED BY <1>1, <1>2, RunnerAssumption DEF Init, TypeOK, Flags

\* permits stays in range because every permit is accounted for, so the type
\* of `permits` and its conservation are proved together; that no task starves for
\* memory follows from the account of it.
Inv == TypeOK /\ PermitsConserved /\ NoLostSlotWake /\ MemoryWithinBudget

LEMMA HoldersFinite ==
    IsFiniteSet(Holders) /\ Cardinality(Holders) \in Nat
  <1>1. IsFiniteSet(Holders)
    BY RunnerAssumption, FS_Subset DEF Holders
  <1> QED BY <1>1, FS_CardinalityType

\* What one sandbox reserves, and what all of them do.
LEMMA WantBounds == ASSUME NEW j \in Job PROVE Want(j) \in 1 .. MemBudget
  BY RunnerAssumption DEF Want

LEMMA MegabytesCount ==
    ASSUME NEW j \in Job
    PROVE  IsFiniteSet(Megabytes(j)) /\ Cardinality(Megabytes(j)) = Want(j)
  <1>1. Want(j) \in Nat /\ Want(j) >= 1
    BY WantBounds, RunnerAssumption
  <1>2. IsFiniteSet(1 .. Want(j)) /\ Cardinality(1 .. Want(j)) = Want(j)
    BY <1>1, FS_Interval
  <1>3. IsFiniteSet({j}) /\ Cardinality({j}) = 1
    BY FS_Singleton
  <1>4. /\ IsFiniteSet({j} \X (1 .. Want(j)))
        /\ Cardinality({j} \X (1 .. Want(j))) = Cardinality({j}) * Cardinality(1 .. Want(j))
    BY <1>2, <1>3, FS_Product
  <1> QED BY <1>1, <1>2, <1>3, <1>4 DEF Megabytes

LEMMA ReservedFinite ==
    ASSUME NEW R \in SUBSET Job
    PROVE  /\ IsFiniteSet(UNION {Megabytes(j) : j \in R})
           /\ Cardinality(UNION {Megabytes(j) : j \in R}) \in Nat
  <1>1. IsFiniteSet(Job \X (1 .. MemBudget))
    <2>1. IsFiniteSet(1 .. MemBudget) /\ IsFiniteSet(Job)
      BY RunnerAssumption, FS_Interval
    <2> QED BY <2>1, FS_Product
  <1>2. ASSUME NEW j \in R PROVE Megabytes(j) \subseteq Job \X (1 .. MemBudget)
    <2>1. Want(j) \in Nat /\ Want(j) <= MemBudget
      BY WantBounds, RunnerAssumption
    <2>2. 1 .. Want(j) \subseteq 1 .. MemBudget
      BY <2>1, RunnerAssumption
    <2> QED BY <2>2 DEF Megabytes
  <1>3. UNION {Megabytes(j) : j \in R} \subseteq Job \X (1 .. MemBudget)
    BY <1>2
  <1>4. IsFiniteSet(UNION {Megabytes(j) : j \in R})
    BY <1>1, <1>3, FS_Subset
  <1> QED BY <1>4, FS_CardinalityType

\* One sandbox more holds exactly its own megabytes more.
LEMMA ReservedAdded ==
    ASSUME NEW R \in SUBSET Job, NEW j \in Job \ R
    PROVE  Cardinality(UNION {Megabytes(i) : i \in R \cup {j}}) =
             Cardinality(UNION {Megabytes(i) : i \in R}) + Want(j)
  <1> DEFINE U == UNION {Megabytes(i) : i \in R}
             M == Megabytes(j)
  <1>1. UNION {Megabytes(i) : i \in R \cup {j}} = U \cup M
    OBVIOUS
  <1>2. U \cap M = {}
    BY DEF Megabytes
  <1>3. IsFiniteSet(U) /\ Cardinality(U) \in Nat
    BY ReservedFinite
  <1>4. IsFiniteSet(M) /\ Cardinality(M) = Want(j) /\ Want(j) \in Nat
    BY MegabytesCount, WantBounds, RunnerAssumption
  <1> HIDE DEF U, M
  <1>5. Cardinality(U \cup M) = Cardinality(U) + Cardinality(M) - Cardinality(U \cap M)
    BY <1>3, <1>4, FS_Union
  <1>6. Cardinality(U \cap M) = 0
    BY <1>2, FS_EmptySet
  <1>7. Cardinality(U \cup M) = Cardinality(U) + Want(j)
    BY <1>3, <1>4, <1>5, <1>6
  <1> QED BY <1>1, <1>7 DEF U

LEMMA InitInv == Init => Inv
  <1> SUFFICES ASSUME Init PROVE Inv
    OBVIOUS
  <1>1. Holders = {}
    BY DEF Init, Holders, Holding
  <1>2. PermitsConserved
    BY <1>1, FS_EmptySet, RunnerAssumption DEF Init, PermitsConserved
  <1>3. NoLostSlotWake
    BY DEF Init, NoLostSlotWake
  <1>4. MemoryWithinBudget
    <2>1. ReservedMb = {}
      BY DEF Init, ReservedMb, Reserved
    <2> QED BY <2>1, FS_EmptySet, RunnerAssumption DEF Init, MemoryWithinBudget
  <1> QED BY InitType, <1>2, <1>3, <1>4 DEF Inv

\* A job that starts, or stops, holding a permit changes the count by one.
LEMMA HolderAdded ==
    ASSUME TypeOK, NEW j \in Job, NEW s \in Holding, st[j] \notin Holding,
           st' = [st EXCEPT ![j] = s]
    PROVE  Cardinality(Holders') = Cardinality(Holders) + 1
  <1>1. Holders' = Holders \cup {j} /\ j \notin Holders
    BY DEF Holders, TypeOK
  <1> QED BY <1>1, HoldersFinite, FS_AddElement

LEMMA HolderRemoved ==
    ASSUME TypeOK, NEW j \in Job, NEW s \in St \ Holding, st[j] \in Holding,
           st' = [st EXCEPT ![j] = s]
    PROVE  Cardinality(Holders') = Cardinality(Holders) - 1
  <1>1. Holders' = Holders \ {j} /\ j \in Holders
    BY DEF Holders, TypeOK
  <1> QED BY <1>1, HoldersFinite, FS_RemoveElement

LEMMA HoldersSame ==
    ASSUME TypeOK, NEW j \in Job, NEW s \in St, st' = [st EXCEPT ![j] = s],
           st[j] \in Holding <=> s \in Holding
    PROVE  Holders' = Holders
  BY DEF Holders, TypeOK

LEMMA PermitsStep == TypeOK /\ PermitsConserved /\ [Next]_vars => PermitsConserved'
  <1> SUFFICES ASSUME TypeOK, PermitsConserved, [Next]_vars PROVE PermitsConserved'
    OBVIOUS
  <1> USE HoldersFinite DEF PermitsConserved
  <1>1. ASSUME NEW j \in Job, Insert(j) \/ Steal(j) PROVE PermitsConserved'
    <2>1. Holders' = Holders
      BY <1>1, HoldersSame DEF Insert, Steal, St, Holding
    <2> QED BY <1>1, <2>1 DEF Insert, Steal
  <1>2. CASE try_acquire
    <2>1. Holders' = Holders
      BY <1>2 DEF try_acquire, Holders
    <2> QED BY <1>2, <2>1, RunnerAssumption DEF try_acquire, TypeOK
  <1>3. CASE claim("job")
    <2>1. PICK j \in Job : st[j] = "queued" /\ st' = [st EXCEPT ![j] = "spawned"]
      BY <1>3 DEF claim
    <2>2. Cardinality(Holders') = Cardinality(Holders) + 1
      BY <2>1, HolderAdded DEF Holding
    <2> QED BY <1>3, <2>2, RunnerAssumption DEF claim, TypeOK
  <1>4. CASE claim("none") \/ claim("error")
    <2>1. Holders' = Holders
      BY <1>4 DEF claim, Holders
    <2> QED BY <1>4, <2>1, RunnerAssumption DEF claim, TypeOK
  <1>5. CASE notify \/ SlotWake \/ Listen \/ ListenerError \/ JobWake \/ PollWake \/ Stop \/ Exit
               \/ Sigterm \/ EnterSelect \/ UNCHANGED vars
    <2>1. Holders' = Holders /\ permits' = permits
      BY <1>5 DEF notify, SlotWake, Listen, ListenerError, JobWake, PollWake, Stop, Exit, Sigterm,
                  EnterSelect, LeaveSelect, vars, Holders
    <2>2. loop' # "claim" <=> loop # "claim"
      BY <1>5 DEF notify, SlotWake, Listen, ListenerError, JobWake, PollWake, Stop, Exit, Sigterm,
                  EnterSelect, LeaveSelect, vars
    <2> QED BY <2>1, <2>2
  <1>6. ASSUME NEW j \in Job, Enqueue(j) \/ Admit(j) \/ DropMem(j) \/ NotifyOne(j)
        PROVE  PermitsConserved'
    <2>1. Holders' = Holders
      BY <1>6, HoldersSame DEF Enqueue, Admit, DropMem, NotifyOne, St, Holding
    <2> QED BY <1>6, <2>1 DEF Enqueue, Admit, DropMem, NotifyOne
  <1>7. ASSUME NEW j \in Job, DropPermit(j) \/ Panic(j) PROVE PermitsConserved'
    <2>1. Cardinality(Holders') = Cardinality(Holders) - 1
      BY <1>7, HolderRemoved DEF DropPermit, Panic, St, Holding
    <2> QED BY <1>7, <2>1, RunnerAssumption DEF DropPermit, Panic, TypeOK
  <1> QED
    BY <1>1, <1>2, <1>3, <1>4, <1>5, <1>6, <1>7 DEF Next, Drain, TaskStep

LEMMA TypeStep == TypeOK /\ PermitsConserved /\ [Next]_vars => TypeOK'
  <1> SUFFICES ASSUME TypeOK, PermitsConserved, [Next]_vars PROVE TypeOK'
    OBVIOUS
  <1> USE RunnerAssumption
  <1>0. permits' \in Int => permits' \in 0 .. MaxParallel
    <2> SUFFICES ASSUME permits' \in Int PROVE permits' \in 0 .. MaxParallel
      OBVIOUS
    <2>1. PermitsConserved'
      BY PermitsStep
    <2>2. IsFiniteSet(Holders') /\ Cardinality(Holders') \in Nat
      BY FS_Subset, FS_CardinalityType DEF Holders
    <2>3. permits' <= MaxParallel
      BY <2>1, <2>2 DEF PermitsConserved
    <2>4. permits' >= 0
      BY DEF Next, Drain, TaskStep, Insert, Steal, notify, try_acquire, claim,
             SlotWake, Listen, ListenerError, JobWake, PollWake, Stop, Exit, Sigterm, EnterSelect, Enqueue,
             Admit, DropMem, DropPermit, NotifyOne, Panic, LeaveSelect, vars, TypeOK
    <2> QED BY <2>3, <2>4
  <1>1. ASSUME NEW j \in Job, Insert(j) \/ Steal(j) PROVE TypeOK'
    <2>1. {"queued", "elsewhere"} \subseteq St
      BY DEF St
    <2>2. st' \in [Job -> St]
      BY <1>1, <2>1 DEF Insert, Steal, TypeOK
    <2> QED BY <1>1, <2>2 DEF Insert, Steal, TypeOK
  <1>2. CASE try_acquire
    <2>1. Flags'
      BY <1>2 DEF try_acquire, TypeOK, Flags
    <2>2. permits' \in Int
      BY <1>2 DEF try_acquire, TypeOK
    <2> QED BY <1>0, <1>2, <2>1, <2>2 DEF try_acquire, TypeOK, Flags
  <1>3. ASSUME NEW r \in {"job", "none", "error"}, claim(r) PROVE TypeOK'
    <2>1. Flags'
      BY <1>3 DEF claim, TypeOK, Flags
    <2>2. permits' \in Int
      BY <1>3 DEF claim, TypeOK
    <2>3. "spawned" \in St
      BY DEF St, Holding
    <2>4. st' \in [Job -> St]
      BY <1>3, <2>3 DEF claim, TypeOK
    <2> QED BY <1>0, <1>3, <2>1, <2>2, <2>4 DEF claim, TypeOK, Flags
  <1>4. CASE notify \/ SlotWake \/ Listen \/ ListenerError \/ JobWake \/ PollWake \/ EnterSelect
    <2>1. Flags'
      BY <1>4 DEF notify, SlotWake, Listen, ListenerError, JobWake, PollWake,
                  EnterSelect, LeaveSelect, TypeOK, Flags
    <2> QED
      BY <1>4, <2>1 DEF notify, SlotWake, Listen, ListenerError, JobWake, PollWake,
                        EnterSelect, LeaveSelect, TypeOK, Flags
  <1>5. CASE Stop \/ Exit \/ Sigterm \/ UNCHANGED vars
    <2>1. Flags'
      BY <1>5 DEF Stop, Exit, Sigterm, vars, TypeOK, Flags
    <2> QED BY <1>5, <2>1 DEF Stop, Exit, Sigterm, vars, TypeOK, Flags
  <1>6. ASSUME NEW j \in Job, TaskStep(j) PROVE TypeOK'
    <2>1. Want(j) \in Int
      BY DEF Want
    <2>2. CASE Enqueue(j)
      BY <2>2 DEF Enqueue, TypeOK, St, Holding
    <2>3. CASE Admit(j)
      BY <2>1, <2>3 DEF Admit, TypeOK, St, Holding
    <2>4. CASE DropMem(j)
      BY <2>1, <2>4 DEF DropMem, TypeOK, St, Holding
    <2>5. CASE DropPermit(j) \/ NotifyOne(j)
      <3>1. Flags'
        BY <2>5 DEF DropPermit, NotifyOne, TypeOK, Flags
      <3>2. permits' \in Int
        BY <2>5 DEF DropPermit, NotifyOne, TypeOK
      <3>3. {"freed", "done"} \subseteq St
        BY DEF St
      <3>4. st' \in [Job -> St]
        BY <2>5, <3>3 DEF DropPermit, NotifyOne, TypeOK
      <3> QED BY <1>0, <2>5, <3>1, <3>2, <3>4 DEF DropPermit, NotifyOne, TypeOK, Flags
    <2> QED BY <1>6, <2>2, <2>3, <2>4, <2>5 DEF TaskStep
  <1>7. ASSUME NEW j \in Job, Panic(j) PROVE TypeOK'
    <2>1. Want(j) \in Int
      BY DEF Want
    <2> QED BY <1>0, <1>7, <2>1 DEF Panic, TypeOK, St
  <1> QED
    BY <1>1, <1>2, <1>3, <1>4, <1>5, <1>6, <1>7 DEF Next, Drain

LEMMA SlotWakeStep ==
    Inv /\ [Next]_vars => NoLostSlotWake'
  <1> SUFFICES ASSUME Inv, [Next]_vars, loop' \in {"returned", "select"}, why' = "busy",
                      ~panicked'
               PROVE  \/ slot_free'
                      \/ \E j \in Job : st'[j] \in Holding \cup {"freed"}
    BY DEF NoLostSlotWake
  <1>1. CASE try_acquire
    \* The drain stopped for want of a permit, so some task holds one.
    <2>1. permits = 0 /\ loop # "claim" /\ st' = st
      BY <1>1 DEF try_acquire, Inv, TypeOK
    <2>2. Cardinality(Holders) # 0
      BY <2>1, HoldersFinite, RunnerAssumption DEF Inv, PermitsConserved
    <2>3. Holders # {}
      BY <2>2, FS_EmptySet
    <2> QED BY <2>1, <2>3 DEF Holders
  <1>2. ASSUME loop \in {"returned", "select"}, why = "busy", ~panicked,
               slot_free => slot_free',
               \A j \in Job : st[j] \in Holding \cup {"freed"} =>
                   slot_free' \/ st'[j] \in Holding \cup {"freed"}
        PROVE  \/ slot_free'
               \/ \E j \in Job : st'[j] \in Holding \cup {"freed"}
    BY <1>2 DEF Inv, NoLostSlotWake
  <1>3. ASSUME NEW j \in Job, Insert(j) \/ Steal(j)
        PROVE  \/ slot_free'
               \/ \E i \in Job : st'[i] \in Holding \cup {"freed"}
    BY <1>2, <1>3 DEF Insert, Steal, Inv, TypeOK, Holding
  <1>4. ASSUME NEW j \in Job, TaskStep(j)
        PROVE  \/ slot_free'
               \/ \E i \in Job : st'[i] \in Holding \cup {"freed"}
    BY <1>2, <1>4 DEF TaskStep, Enqueue, Admit, DropMem, DropPermit, NotifyOne,
                      Inv, TypeOK, Holding
  <1>5. CASE notify \/ Listen \/ ListenerError \/ EnterSelect \/ Sigterm \/ UNCHANGED vars
    BY <1>2, <1>5 DEF notify, Listen, ListenerError, EnterSelect, Sigterm, vars
  <1>6. ASSUME NEW j \in Job, Panic(j) PROVE FALSE
    BY <1>6 DEF Panic
  <1>7. ASSUME NEW r \in {"job", "none", "error"}, claim(r) PROVE FALSE
    BY <1>7 DEF claim
  <1>8. ~(SlotWake \/ JobWake \/ PollWake \/ Stop \/ Exit)
    BY DEF SlotWake, JobWake, PollWake, Stop, Exit, LeaveSelect
  <1> QED
    BY <1>1, <1>3, <1>4, <1>5, <1>6, <1>7, <1>8 DEF Next, Drain

LEMMA MemoryStep == TypeOK /\ MemoryWithinBudget /\ [Next]_vars => MemoryWithinBudget'
  <1> SUFFICES ASSUME TypeOK, MemoryWithinBudget, [Next]_vars PROVE MemoryWithinBudget'
    OBVIOUS
  <1>0. /\ Reserved \in SUBSET Job /\ Reserved' \in SUBSET Job
        /\ Cardinality(ReservedMb) \in Nat /\ memory \in Int /\ MemBudget \in Nat
    <2>1. Reserved \in SUBSET Job /\ Reserved' \in SUBSET Job
      BY DEF Reserved
    <2> QED BY <2>1, ReservedFinite, RunnerAssumption DEF ReservedMb, TypeOK
  <1>1. ASSUME memory' = memory, Reserved' = Reserved PROVE MemoryWithinBudget'
    BY <1>1 DEF MemoryWithinBudget, ReservedMb
  <1>2. ASSUME NEW j \in Job, Insert(j) \/ Steal(j) \/ Enqueue(j) \/ DropPermit(j) \/ NotifyOne(j)
        PROVE  MemoryWithinBudget'
    BY <1>1, <1>2 DEF Insert, Steal, Enqueue, DropPermit, NotifyOne, Reserved, TypeOK
  <1>3. CASE try_acquire \/ notify \/ EnterSelect \/ SlotWake \/ Listen \/ ListenerError \/ JobWake
               \/ PollWake \/ Stop \/ Exit \/ Sigterm \/ UNCHANGED vars
    BY <1>1, <1>3 DEF try_acquire, notify, EnterSelect, SlotWake, Listen, ListenerError, JobWake,
                      PollWake, Stop, Exit, Sigterm, LeaveSelect, vars, Reserved
  <1>4. ASSUME NEW r \in {"job", "none", "error"}, claim(r) PROVE MemoryWithinBudget'
    BY <1>1, <1>4 DEF claim, Reserved, TypeOK
  <1>5. ASSUME NEW j \in Job, Admit(j) PROVE MemoryWithinBudget'
    <2>1. j \in Job \ Reserved /\ Reserved' = Reserved \cup {j}
      BY <1>5 DEF Admit, Reserved, TypeOK
    <2>2. Cardinality(ReservedMb') = Cardinality(ReservedMb) + Want(j)
      BY <1>0, <2>1, ReservedAdded DEF ReservedMb
    <2>3. Want(j) \in Nat
      BY WantBounds, RunnerAssumption
    <2>4. memory' = memory - Want(j) /\ memory' >= 0
      BY <1>0, <1>5, <2>3 DEF Admit
    <2> QED BY <1>0, <2>2, <2>3, <2>4 DEF MemoryWithinBudget
  <1>6. ASSUME NEW j \in Job, DropMem(j) \/ Panic(j) PROVE MemoryWithinBudget'
    <2>1. j \in Job \ Reserved' /\ Reserved = Reserved' \cup {j}
      BY <1>6 DEF DropMem, Panic, Reserved, TypeOK
    <2>2. Cardinality(ReservedMb) = Cardinality(ReservedMb') + Want(j)
      BY <1>0, <2>1, ReservedAdded DEF ReservedMb
    <2>3. Want(j) \in Nat /\ Cardinality(ReservedMb') \in Nat
      <3>1. Cardinality(ReservedMb') \in Nat
        BY <1>0, ReservedFinite, Zenon DEF ReservedMb
      <3> QED BY <3>1, WantBounds, RunnerAssumption
    <2>4. memory' = memory + Want(j)
      BY <1>6 DEF DropMem, Panic
    <2> QED BY <1>0, <2>2, <2>3, <2>4 DEF MemoryWithinBudget
  <1> QED
    BY <1>2, <1>3, <1>4, <1>5, <1>6 DEF Next, Drain, TaskStep

\* With nothing running the whole budget is free, which no task exceeds.
LEMMA NobodyStarves == TypeOK /\ MemoryWithinBudget => NoMemoryStarvation
  <1> SUFFICES ASSUME TypeOK, MemoryWithinBudget, waiters # <<>>, Reserved = {}
               PROVE  Want(Head(waiters)) <= memory
    BY DEF NoMemoryStarvation
  <1>1. ReservedMb = {}
    BY DEF ReservedMb
  <1>2. memory = MemBudget
    BY <1>1, FS_EmptySet, RunnerAssumption DEF MemoryWithinBudget, TypeOK
  <1>3. Head(waiters) \in Job
    BY DEF TypeOK
  <1>4. Want(Head(waiters)) \in 1 .. MemBudget
    BY <1>3, WantBounds
  <1> QED BY <1>2, <1>4, RunnerAssumption

\* The invariant is inductive.
THEOREM Invariance == Spec => []Inv
  <1>1. Inv /\ [Next]_vars => Inv'
    BY PermitsStep, TypeStep, SlotWakeStep, MemoryStep DEF Inv
  <1> QED BY InitInv, <1>1, PTL DEF Spec

\* The admission state is well formed; the count of permits stays in range.
THEOREM TypeCorrect == Spec => []TypeOK
  BY Invariance, PTL DEF Inv

\* No path through drain() or a task loses or invents a permit.
THEOREM PermitsConservedHolds == Spec => []PermitsConserved
  BY Invariance, PTL DEF Inv

\* A drain that stopped for want of a permit never sleeps through the end of
\* the task that frees one.
THEOREM NoLostSlotWakeHolds == Spec => []NoLostSlotWake
  BY Invariance, PTL DEF Inv

\* The memory semaphore is accounted for to the megabyte, and a task at the head of
\* its queue is not stuck behind nothing (the memory semaphore of runner.rs).
THEOREM MemorySoundHolds == Spec => []MemorySound
  <1>1. Inv => MemorySound
    BY NobodyStarves DEF Inv, MemorySound
  <1> QED BY <1>1, Invariance, PTL
=============================================================================
