---------------------------- MODULE ShmLockProofs ----------------------------
(***************************************************************************)
(* Proofs about the lock of the shared memory area, for any number of      *)
(* programs.  The hypothesis of every theorem but Typed is that a process  *)
(* uses its handle from one thread only: MCShmThreads shows what happens   *)
(* otherwise.                                                              *)
(***************************************************************************)
EXTENDS ShmLock, TLAPS

OneThreadPerProcess ==
  \A t, u \in Thread : ProcOf[t] = ProcOf[u] => t = u

\* The thread took the semaphore and has not posted it.
Holds(t) ==
  \/ pc[t] \in {"open", "made", "opened", "remap", "body", "half", "done", "post"}
  \/ pc[t] \in {"inc", "dec"} /\ nest[t] > 0

SemaphoreInv ==
  /\ sem \in {0, 1}
  /\ sem = 1 <=> owner = NoThread
  /\ \A t \in Thread : Holds(t) <=> owner = t

\* The counter of a handle is the depth of its thread's calls, and a ++ or --
\* under way has loaded the value that is still there.
CounterInv ==
  \A t \in Thread :
    /\ lock[ProcOf[t]] = IF pc[t] = "post" THEN 0 ELSE nest[t]
    /\ pc[t] \in {"inc", "dec"} => reg[t] = nest[t]

DepthInv ==
  \A t \in Thread :
    /\ pc[t] \in {"off", "create", "setup", "idle", "post"} => nest[t] = 0
    /\ pc[t] \in {"open", "made", "opened", "wait", "remap"} => nest[t] = 1
    /\ pc[t] \in {"body", "half", "done", "dec"} => nest[t] > 0
    /\ pc[t] = "inc" => nest[t] < 3

MappedInv ==
  /\ \A p \in Proc : mapped[p] <= area
  /\ \A t \in Thread : InSection(t) => mapped[ProcOf[t]] = area

LockInv == TypeOK /\ SemaphoreInv /\ CounterInv /\ DepthInv /\ MappedInv

\* The invariant holds before any program.
LEMMA LockInit == Init => LockInv
<1> SUFFICES ASSUME Init PROVE LockInv
  OBVIOUS
<1> USE ConstAssumption DEF Init
<1>1. TypeOK
  <2>1. mapped \in [Proc -> 0 .. MaxArea] /\ area \in 0 .. MaxArea
    OBVIOUS
  <2>2. pc \in [Thread -> PC] /\ op \in [Thread -> Op]
    BY DEF PC, Op
  <2>3. cfg \in [1 .. 2 -> Value] /\ buf \in [Thread -> Value]
    OBVIOUS
  <2>4. nest \in [Thread -> 0 .. 3] /\ reg \in [Thread -> Int]
    OBVIOUS
  <2>5. snap \in [Thread -> Value \cup {Torn}]
    OBVIOUS
  <2>6. sem \in Nat /\ lock \in [Proc -> Int]
    OBVIOUS
  <2>7. inited \in BOOLEAN /\ owner \in Thread \cup {NoThread, Lost}
    BY Zenon
  <2>8. QED
    BY <2>1, <2>2, <2>3, <2>4, <2>5, <2>6, <2>7, Zenon DEF TypeOK
<1>2. SemaphoreInv /\ CounterInv
  BY DEF SemaphoreInv, CounterInv, Holds
<1>3. DepthInv /\ MappedInv
  BY DEF DepthInv, MappedInv, InSection
<1>4. QED
  BY <1>1, <1>2, <1>3 DEF LockInv

\* Every step of every thread keeps it.
LEMMA LockStep ==
  ASSUME OneThreadPerProcess, LockInv, [Next]_vars
  PROVE  LockInv'
<1> USE ConstAssumption
    DEF OneThreadPerProcess, LockInv, TypeOK, SemaphoreInv, CounterInv,
        DepthInv, MappedInv, Holds, InSection, PC, Op, Move, Goto
<1>1. ASSUME NEW t \in Thread, Start(t) PROVE LockInv'
  BY <1>1 DEF Start
<1>2. ASSUME NEW t \in Thread, CreateLock(t) PROVE LockInv'
  BY <1>2 DEF CreateLock
<1>3. ASSUME NEW t \in Thread, CreateMap(t) PROVE LockInv'
  BY <1>3 DEF CreateMap
<1>4. ASSUME NEW t \in Thread, CreateUnlock(t) PROVE LockInv'
  BY <1>4 DEF CreateUnlock, CreateDone, ProcessReady
<1>5. ASSUME NEW t \in Thread, CreateFail(t) PROVE LockInv'
  BY <1>5 DEF CreateFail, CreateDone
<1>6. ASSUME NEW t \in Thread, Setup(t) PROVE LockInv'
  BY <1>6 DEF Setup, ProcessReady
<1>7. ASSUME NEW t \in Thread, NEW kind \in Op, LockLoad(t, kind) PROVE LockInv'
  BY <1>7 DEF LockLoad
<1>8. ASSUME NEW t \in Thread, NestedLoad(t) PROVE LockInv'
  BY <1>8 DEF NestedLoad
<1>9. ASSUME NEW t \in Thread, LockStore(t) PROVE LockInv'
  BY <1>9 DEF LockStore
<1>10. ASSUME NEW t \in Thread, SemWait(t) PROVE LockInv'
  BY <1>10 DEF SemWait
<1>11. ASSUME NEW t \in Thread, Remap(t) PROVE LockInv'
  BY <1>11 DEF Remap
<1>12. ASSUME NEW t \in Thread, UnlockLoad(t) PROVE LockInv'
  BY <1>12 DEF UnlockLoad
<1>13. ASSUME NEW t \in Thread, UnlockStore(t) PROVE LockInv'
  BY <1>13 DEF UnlockStore, Returned
<1>14. ASSUME NEW t \in Thread, SemPost(t) PROVE LockInv'
  BY <1>14 DEF SemPost, Returned
<1>15. ASSUME NEW t \in Thread, CopyFirst(t) PROVE LockInv'
  BY <1>15 DEF CopyFirst
<1>16. ASSUME NEW t \in Thread, CopySecond(t) PROVE LockInv'
  BY <1>16 DEF CopySecond
<1>17. ASSUME NEW t \in Thread, NEW v \in Value, StoreFirst(t, v) PROVE LockInv'
  BY <1>17 DEF StoreFirst
<1>18. ASSUME NEW t \in Thread, StoreSecond(t) PROVE LockInv'
  BY <1>18 DEF StoreSecond
<1>19. ASSUME NEW t \in Thread, AllocReturns(t) PROVE LockInv'
  BY <1>19 DEF AllocReturns
<1>20. ASSUME NEW t \in Thread, Extend(t) PROVE LockInv'
  BY <1>20 DEF Extend
<1>21. ASSUME NEW p \in Proc, Crash(p) PROVE LockInv'
  BY <1>21 DEF Crash
<1>22. ASSUME UNCHANGED vars PROVE LockInv'
  BY <1>22 DEF vars
<1> HIDE DEF OneThreadPerProcess, LockInv, TypeOK, SemaphoreInv, CounterInv,
             DepthInv, MappedInv, Holds, InSection, PC, Op, Move, Goto
<1>23. ASSUME NEW t \in Thread, Advance(t) PROVE LockInv'
  BY <1>2, <1>3, <1>4, <1>6, <1>8, <1>9, <1>10, <1>11, <1>12, <1>13, <1>14, <1>15, <1>16,
     <1>17, <1>18, <1>19, <1>20, <1>23 DEF Advance
<1>24. QED
  BY <1>1, <1>5, <1>7, <1>21, <1>22, <1>23 DEF Next

\* The lock's invariant holds in every state.
LEMMA LockInvariant == OneThreadPerProcess /\ Spec => []LockInv
<1>1. OneThreadPerProcess => []OneThreadPerProcess
  <2>1. OneThreadPerProcess => OneThreadPerProcess'
    BY DEF OneThreadPerProcess
  <2>2. QED
    BY <2>1, PTL
<1>2. OneThreadPerProcess /\ LockInv /\ [Next]_vars => LockInv'
  BY LockStep
<1>3. QED
  BY <1>1, <1>2, LockInit, PTL DEF Spec

\* Who is in a critical section has been through mm_lock().
LEMMA InSectionHolds == ASSUME NEW t \in Thread, InSection(t) PROVE Holds(t)
  BY DEF InSection, Holds

\* mm_lock() and mm_unlock() keep the threads apart, for any number of
\* programs, killed and restarted at any time.
THEOREM Exclusion == OneThreadPerProcess /\ Spec => []SectionExclusive
<1>1. LockInv => SectionExclusive
  BY InSectionHolds DEF LockInv, SemaphoreInv, SectionExclusive
<1>2. QED
  BY <1>1, LockInvariant, PTL

\* The semaphore is taken during the whole of every critical section, however
\* deep mm_alloc() and mm_extend() nest it.
THEOREM SemaphoreTaken == OneThreadPerProcess /\ Spec => []SectionHoldsSemaphore
<1>1. LockInv => SectionHoldsSemaphore
  <2> SUFFICES ASSUME LockInv, NEW t \in Thread, InSection(t) PROVE sem = 0
    BY DEF SectionHoldsSemaphore
  <2>1. owner = t
    BY InSectionHolds DEF LockInv, SemaphoreInv
  <2>2. sem # 1
    BY <2>1, ConstAssumption DEF LockInv, SemaphoreInv
  <2>3. QED
    BY <2>2 DEF LockInv, SemaphoreInv
<1>2. QED
  BY <1>1, LockInvariant, PTL

\* A critical section sees the whole area, whoever enlarged it meanwhile.
THEOREM WholeAreaMapped == OneThreadPerProcess /\ Spec => []SectionMapped
<1>1. LockInv => SectionMapped
  BY DEF LockInv, MappedInv, SectionMapped, InSection
<1>2. QED
  BY <1>1, LockInvariant, PTL

\* Everyone waits only when a process was killed inside: the semaphore that
\* is taken has an owner, and an owner that lives is on its way to post it.
THEOREM StuckOnlyByLoss == OneThreadPerProcess /\ Spec => []StuckOnlyIfLost
<1>1. LockInv => StuckOnlyIfLost
  <2> SUFFICES ASSUME LockInv, sem = 0, \A t \in Thread : pc[t] \in {"create", "wait"}
               PROVE  owner = Lost
    BY DEF StuckOnlyIfLost
  <2>1. owner # NoThread
    BY DEF LockInv, SemaphoreInv
  <2>2. owner \notin Thread
    BY DEF LockInv, SemaphoreInv, Holds
  <2>3. QED
    BY <2>1, <2>2 DEF LockInv, TypeOK
<1>2. QED
  BY <1>1, LockInvariant, PTL

-----------------------------------------------------------------------------
(* Whatever the threads of a process do to the counter they share, no call *)
(* nests deeper than mm_extend() in mm_alloc() in the caller.              *)

\* The depth of a thread at each place, and the threads of a process that is
\* being set up wait for the one that does it.
DepthOK ==
  /\ TypeOK
  /\ \A t \in Thread :
        /\ pc[t] \in {"off", "create", "setup", "idle"} => nest[t] = 0
        /\ pc[t] \in {"wait", "remap", "body", "half", "done", "dec"} => nest[t] > 0
        /\ pc[t] = "inc" => nest[t] < 3
  /\ \A t, u \in Thread :
        pc[t] \in {"create", "open", "made", "opened", "setup"} /\ ProcOf[t] = ProcOf[u] =>
           t = u \/ pc[u] = "off"

\* Every action keeps the depths.
LEMMA DepthStep == ASSUME DepthOK, [Next]_vars PROVE DepthOK'
<1> USE ConstAssumption DEF DepthOK, TypeOK, PC, Op, Move, Goto
<1>1. ASSUME NEW t \in Thread, Start(t) PROVE DepthOK'
  BY <1>1 DEF Start
<1>2. ASSUME NEW t \in Thread, CreateLock(t) PROVE DepthOK'
  BY <1>2 DEF CreateLock
<1>3. ASSUME NEW t \in Thread, CreateMap(t) PROVE DepthOK'
  BY <1>3 DEF CreateMap
<1>4. ASSUME NEW t \in Thread, CreateUnlock(t) PROVE DepthOK'
  BY <1>4 DEF CreateUnlock, CreateDone, ProcessReady
<1>5. ASSUME NEW t \in Thread, CreateFail(t) PROVE DepthOK'
  BY <1>5 DEF CreateFail, CreateDone
<1>6. ASSUME NEW t \in Thread, Setup(t) PROVE DepthOK'
  BY <1>6 DEF Setup, ProcessReady
<1>7. ASSUME NEW t \in Thread, NEW kind \in Op, LockLoad(t, kind) PROVE DepthOK'
  BY <1>7 DEF LockLoad
<1>8. ASSUME NEW t \in Thread, NestedLoad(t) PROVE DepthOK'
  BY <1>8 DEF NestedLoad
<1>9. ASSUME NEW t \in Thread, LockStore(t) PROVE DepthOK'
  BY <1>9 DEF LockStore
<1>10. ASSUME NEW t \in Thread, SemWait(t) PROVE DepthOK'
  BY <1>10 DEF SemWait
<1>11. ASSUME NEW t \in Thread, Remap(t) PROVE DepthOK'
  BY <1>11 DEF Remap
<1>12. ASSUME NEW t \in Thread, UnlockLoad(t) PROVE DepthOK'
  BY <1>12 DEF UnlockLoad
<1>13. ASSUME NEW t \in Thread, UnlockStore(t) PROVE DepthOK'
  BY <1>13 DEF UnlockStore, Returned
<1>14. ASSUME NEW t \in Thread, SemPost(t) PROVE DepthOK'
  BY <1>14 DEF SemPost, Returned
<1>15. ASSUME NEW t \in Thread, CopyFirst(t) PROVE DepthOK'
  BY <1>15 DEF CopyFirst
<1>16. ASSUME NEW t \in Thread, CopySecond(t) PROVE DepthOK'
  BY <1>16 DEF CopySecond
<1>17. ASSUME NEW t \in Thread, NEW v \in Value, StoreFirst(t, v) PROVE DepthOK'
  BY <1>17 DEF StoreFirst
<1>18. ASSUME NEW t \in Thread, StoreSecond(t) PROVE DepthOK'
  BY <1>18 DEF StoreSecond
<1>19. ASSUME NEW t \in Thread, AllocReturns(t) PROVE DepthOK'
  BY <1>19 DEF AllocReturns
<1>20. ASSUME NEW t \in Thread, Extend(t) PROVE DepthOK'
  BY <1>20 DEF Extend
<1>21. ASSUME NEW p \in Proc, Crash(p) PROVE DepthOK'
  BY <1>21 DEF Crash
<1>22. ASSUME UNCHANGED vars PROVE DepthOK'
  BY <1>22 DEF vars
<1>23. QED
  BY <1>1, <1>2, <1>3, <1>4, <1>5, <1>6, <1>7, <1>8, <1>9, <1>10, <1>11, <1>12,
     <1>13, <1>14, <1>15, <1>16, <1>17, <1>18, <1>19, <1>20, <1>21, <1>22 DEF Next, Advance

\* The variables keep their types and mm_lock() its depth of at most three,
\* with any number of threads in a process.
THEOREM Typed == Spec => []TypeOK
<1>1. Init => DepthOK
  BY LockInit DEF Init, DepthOK, LockInv
<1>2. DepthOK /\ [Next]_vars => DepthOK'
  BY DepthStep
<1>3. DepthOK => TypeOK
  BY DEF DepthOK
<1>4. QED
  BY <1>1, <1>2, <1>3, PTL DEF Spec

-----------------------------------------------------------------------------
(* The critical sections make the configuration atomic, provided no other  *)
(* program is started while the first is setting up the area.              *)

\* While the area is not laid out, one program at most is running.
BootInv ==
  /\ \A t \in Thread : pc[t] \in {"made", "setup"} => ~inited /\ area # 0
  /\ inited => area # 0
  /\ ~inited => \A t, u \in Thread : pc[t] # "off" /\ pc[u] # "off" => t = u

\* The halves differ only while a set is under way, or for ever after its
\* process was killed; what a thread has copied is what is in the area.
ConfigInv ==
  /\ \A t \in Thread : pc[t] = "half" => buf[t] = cfg[1]
  /\ \A t \in Thread : pc[t] = "half" /\ op[t] = "get" => cfg[1] = cfg[2]
  /\ cfg[1] # cfg[2] =>
        \/ owner = Lost
        \/ \E t \in Thread : owner = t /\ pc[t] = "half" /\ op[t] = "set"
  /\ snap \in [Thread -> Value]

AtomicInv == LockInv /\ BootInv /\ ConfigInv

\* After the creator has laid out the area no one lays it out again.
LEMMA BootStep ==
  ASSUME OneThreadPerProcess, BootOrdered, LockInv, BootInv, [Next]_vars
  PROVE  BootInv'
<1> USE ConstAssumption
    DEF OneThreadPerProcess, LockInv, TypeOK, BootInv, PC, Op, Move, Goto
<1>1. ASSUME NEW t \in Thread, Start(t) PROVE BootInv'
  BY <1>1 DEF Start
<1>2. ASSUME NEW t \in Thread, CreateLock(t) PROVE BootInv'
  BY <1>2 DEF CreateLock
<1>3. ASSUME NEW t \in Thread, CreateMap(t) PROVE BootInv'
  BY <1>3 DEF CreateMap
<1>4. ASSUME NEW t \in Thread, CreateUnlock(t) PROVE BootInv'
  BY <1>4 DEF CreateUnlock, CreateDone, ProcessReady
<1>5. ASSUME NEW t \in Thread, CreateFail(t) PROVE BootInv'
  BY <1>5 DEF CreateFail, CreateDone
<1>6. ASSUME NEW t \in Thread, Setup(t) PROVE BootInv'
  BY <1>6 DEF Setup, ProcessReady
<1>7. ASSUME NEW t \in Thread, NEW kind \in Op, LockLoad(t, kind) PROVE BootInv'
  BY <1>7 DEF LockLoad
<1>8. ASSUME NEW t \in Thread, NestedLoad(t) PROVE BootInv'
  BY <1>8 DEF NestedLoad
<1>9. ASSUME NEW t \in Thread, LockStore(t) PROVE BootInv'
  BY <1>9 DEF LockStore
<1>10. ASSUME NEW t \in Thread, SemWait(t) PROVE BootInv'
  BY <1>10 DEF SemWait
<1>11. ASSUME NEW t \in Thread, Remap(t) PROVE BootInv'
  BY <1>11 DEF Remap
<1>12. ASSUME NEW t \in Thread, UnlockLoad(t) PROVE BootInv'
  BY <1>12 DEF UnlockLoad
<1>13. ASSUME NEW t \in Thread, UnlockStore(t) PROVE BootInv'
  BY <1>13 DEF UnlockStore, Returned
<1>14. ASSUME NEW t \in Thread, SemPost(t) PROVE BootInv'
  BY <1>14 DEF SemPost, Returned
<1>15. ASSUME NEW t \in Thread, CopyFirst(t) PROVE BootInv'
  BY <1>15 DEF CopyFirst
<1>16. ASSUME NEW t \in Thread, CopySecond(t) PROVE BootInv'
  BY <1>16 DEF CopySecond
<1>17. ASSUME NEW t \in Thread, NEW v \in Value, StoreFirst(t, v) PROVE BootInv'
  BY <1>17 DEF StoreFirst
<1>18. ASSUME NEW t \in Thread, StoreSecond(t) PROVE BootInv'
  BY <1>18 DEF StoreSecond
<1>19. ASSUME NEW t \in Thread, AllocReturns(t) PROVE BootInv'
  BY <1>19 DEF AllocReturns
<1>20. ASSUME NEW t \in Thread, Extend(t) PROVE BootInv'
  BY <1>20 DEF Extend
<1>21. ASSUME NEW p \in Proc, Crash(p) PROVE BootInv'
  BY <1>21 DEF Crash
<1>22. ASSUME UNCHANGED vars PROVE BootInv'
  BY <1>22 DEF vars
<1>23. QED
  BY <1>1, <1>2, <1>3, <1>4, <1>5, <1>6, <1>7, <1>8, <1>9, <1>10, <1>11, <1>12,
     <1>13, <1>14, <1>15, <1>16, <1>17, <1>18, <1>19, <1>20, <1>21, <1>22 DEF Next, Advance

\* The halves of the configuration, and of a copy, differ only while the thread
\* in the critical section is between them.
LEMMA ConfigStep ==
  ASSUME OneThreadPerProcess, BootOrdered, AtomicInv, [Next]_vars
  PROVE  ConfigInv'
<1> USE ConstAssumption
    DEF OneThreadPerProcess, AtomicInv, LockInv, TypeOK, SemaphoreInv,
        BootInv, ConfigInv, Holds, PC, Op, Move, Goto
<1>1. ASSUME NEW t \in Thread, Start(t) PROVE ConfigInv'
  BY <1>1 DEF Start
<1>2. ASSUME NEW t \in Thread, CreateLock(t) PROVE ConfigInv'
  BY <1>2 DEF CreateLock
<1>3. ASSUME NEW t \in Thread, CreateMap(t) PROVE ConfigInv'
  BY <1>3 DEF CreateMap
<1>4. ASSUME NEW t \in Thread, CreateUnlock(t) PROVE ConfigInv'
  BY <1>4 DEF CreateUnlock, CreateDone, ProcessReady
<1>5. ASSUME NEW t \in Thread, CreateFail(t) PROVE ConfigInv'
  BY <1>5 DEF CreateFail, CreateDone
<1>6. ASSUME NEW t \in Thread, Setup(t) PROVE ConfigInv'
  BY <1>6 DEF Setup, ProcessReady
<1>7. ASSUME NEW t \in Thread, NEW kind \in Op, LockLoad(t, kind) PROVE ConfigInv'
  BY <1>7 DEF LockLoad
<1>8. ASSUME NEW t \in Thread, NestedLoad(t) PROVE ConfigInv'
  BY <1>8 DEF NestedLoad
<1>9. ASSUME NEW t \in Thread, LockStore(t) PROVE ConfigInv'
  BY <1>9 DEF LockStore
<1>10. ASSUME NEW t \in Thread, SemWait(t) PROVE ConfigInv'
  BY <1>10 DEF SemWait
<1>11. ASSUME NEW t \in Thread, Remap(t) PROVE ConfigInv'
  BY <1>11 DEF Remap
<1>12. ASSUME NEW t \in Thread, UnlockLoad(t) PROVE ConfigInv'
  BY <1>12 DEF UnlockLoad
<1>13. ASSUME NEW t \in Thread, UnlockStore(t) PROVE ConfigInv'
  BY <1>13 DEF UnlockStore, Returned
<1>14. ASSUME NEW t \in Thread, SemPost(t) PROVE ConfigInv'
  BY <1>14 DEF SemPost, Returned
<1>15. ASSUME NEW t \in Thread, CopyFirst(t) PROVE ConfigInv'
  BY <1>15 DEF CopyFirst
<1>16. ASSUME NEW t \in Thread, CopySecond(t) PROVE ConfigInv'
  BY <1>16 DEF CopySecond
<1>17. ASSUME NEW t \in Thread, NEW v \in Value, StoreFirst(t, v) PROVE ConfigInv'
  BY <1>17 DEF StoreFirst
<1>18. ASSUME NEW t \in Thread, StoreSecond(t) PROVE ConfigInv'
  BY <1>18 DEF StoreSecond
<1>19. ASSUME NEW t \in Thread, AllocReturns(t) PROVE ConfigInv'
  BY <1>19 DEF AllocReturns
<1>20. ASSUME NEW t \in Thread, Extend(t) PROVE ConfigInv'
  BY <1>20 DEF Extend
<1>21. ASSUME NEW p \in Proc, Crash(p) PROVE ConfigInv'
  BY <1>21 DEF Crash
<1>22. ASSUME UNCHANGED vars PROVE ConfigInv'
  BY <1>22 DEF vars
<1>23. QED
  BY <1>1, <1>2, <1>3, <1>4, <1>5, <1>6, <1>7, <1>8, <1>9, <1>10, <1>11, <1>12,
     <1>13, <1>14, <1>15, <1>16, <1>17, <1>18, <1>19, <1>20, <1>21, <1>22 DEF Next, Advance

\* StoreSecond is the abstract set, CopySecond the abstract get, the rest stutters.
LEMMA RefinementStep ==
  ASSUME BootOrdered, AtomicInv, [Next]_vars
  PROVE  [Atomic!Next]_<<cfg[2], snap>>
<1> USE ConstAssumption
    DEF AtomicInv, LockInv, TypeOK, ConfigInv, PC, Op, Move, Goto,
        Atomic!Next, Atomic!Set, Atomic!Get
<1>1. ASSUME NEW t \in Thread, Start(t) PROVE [Atomic!Next]_<<cfg[2], snap>>
  BY <1>1 DEF Start
<1>2. ASSUME NEW t \in Thread, CreateLock(t) PROVE [Atomic!Next]_<<cfg[2], snap>>
  BY <1>2 DEF CreateLock
<1>3. ASSUME NEW t \in Thread, CreateMap(t) PROVE [Atomic!Next]_<<cfg[2], snap>>
  BY <1>3 DEF CreateMap
<1>4. ASSUME NEW t \in Thread, CreateUnlock(t) PROVE [Atomic!Next]_<<cfg[2], snap>>
  BY <1>4 DEF CreateUnlock, CreateDone, ProcessReady
<1>5. ASSUME NEW t \in Thread, CreateFail(t) PROVE [Atomic!Next]_<<cfg[2], snap>>
  BY <1>5 DEF CreateFail, CreateDone
<1>6. ASSUME NEW t \in Thread, Setup(t) PROVE [Atomic!Next]_<<cfg[2], snap>>
  BY <1>6 DEF Setup, ProcessReady
<1>7. ASSUME NEW t \in Thread, NEW kind \in Op, LockLoad(t, kind) PROVE [Atomic!Next]_<<cfg[2], snap>>
  BY <1>7 DEF LockLoad
<1>8. ASSUME NEW t \in Thread, NestedLoad(t) PROVE [Atomic!Next]_<<cfg[2], snap>>
  BY <1>8 DEF NestedLoad
<1>9. ASSUME NEW t \in Thread, LockStore(t) PROVE [Atomic!Next]_<<cfg[2], snap>>
  BY <1>9 DEF LockStore
<1>10. ASSUME NEW t \in Thread, SemWait(t) PROVE [Atomic!Next]_<<cfg[2], snap>>
  BY <1>10 DEF SemWait
<1>11. ASSUME NEW t \in Thread, Remap(t) PROVE [Atomic!Next]_<<cfg[2], snap>>
  BY <1>11 DEF Remap
<1>12. ASSUME NEW t \in Thread, UnlockLoad(t) PROVE [Atomic!Next]_<<cfg[2], snap>>
  BY <1>12 DEF UnlockLoad
<1>13. ASSUME NEW t \in Thread, UnlockStore(t) PROVE [Atomic!Next]_<<cfg[2], snap>>
  BY <1>13 DEF UnlockStore, Returned
<1>14. ASSUME NEW t \in Thread, SemPost(t) PROVE [Atomic!Next]_<<cfg[2], snap>>
  BY <1>14 DEF SemPost, Returned
<1>15. ASSUME NEW t \in Thread, CopyFirst(t) PROVE [Atomic!Next]_<<cfg[2], snap>>
  BY <1>15 DEF CopyFirst
<1>16. ASSUME NEW t \in Thread, CopySecond(t) PROVE [Atomic!Next]_<<cfg[2], snap>>
  BY <1>16 DEF CopySecond
<1>17. ASSUME NEW t \in Thread, NEW v \in Value, StoreFirst(t, v) PROVE [Atomic!Next]_<<cfg[2], snap>>
  BY <1>17 DEF StoreFirst
<1>18. ASSUME NEW t \in Thread, StoreSecond(t) PROVE [Atomic!Next]_<<cfg[2], snap>>
  BY <1>18 DEF StoreSecond
<1>19. ASSUME NEW t \in Thread, AllocReturns(t) PROVE [Atomic!Next]_<<cfg[2], snap>>
  BY <1>19 DEF AllocReturns
<1>20. ASSUME NEW t \in Thread, Extend(t) PROVE [Atomic!Next]_<<cfg[2], snap>>
  BY <1>20 DEF Extend
<1>21. ASSUME NEW p \in Proc, Crash(p) PROVE [Atomic!Next]_<<cfg[2], snap>>
  BY <1>21 DEF Crash
<1>22. ASSUME UNCHANGED vars PROVE [Atomic!Next]_<<cfg[2], snap>>
  BY <1>22 DEF vars
<1>23. QED
  BY <1>1, <1>2, <1>3, <1>4, <1>5, <1>6, <1>7, <1>8, <1>9, <1>10, <1>11, <1>12,
     <1>13, <1>14, <1>15, <1>16, <1>17, <1>18, <1>19, <1>20, <1>21, <1>22 DEF Next, Advance

\* The invariant of the refinement holds at first.
LEMMA AtomicInitial == Init => AtomicInv
<1> SUFFICES ASSUME Init PROVE AtomicInv
  OBVIOUS
<1>1. LockInv
  BY LockInit
<1>2. BootInv
  BY ConstAssumption DEF Init, BootInv
<1>3. ConfigInv
  BY ConstAssumption DEF Init, ConfigInv
<1>4. QED
  BY <1>1, <1>2, <1>3 DEF AtomicInv

\* The invariant of the refinement holds in every state.
LEMMA AtomicInvariant ==
  OneThreadPerProcess /\ BootOrdered /\ Spec => []AtomicInv
<1>1. OneThreadPerProcess /\ BootOrdered => [](OneThreadPerProcess /\ BootOrdered)
  <2>1. OneThreadPerProcess /\ BootOrdered => OneThreadPerProcess' /\ BootOrdered'
    BY DEF OneThreadPerProcess
  <2>2. QED
    BY <2>1, PTL
<1>2. OneThreadPerProcess /\ BootOrdered /\ AtomicInv /\ [Next]_vars => AtomicInv'
  BY LockStep, BootStep, ConfigStep DEF AtomicInv
<1>3. QED
  BY <1>1, <1>2, AtomicInitial, PTL DEF Spec

\* The programs see an atomic configuration: switch_set_*() replaces it whole
\* and switch_get_*() returns one that was stored whole, although memcpy()
\* moves it piece by piece and processes are killed at any point.
THEOREM ImplementsAtomic ==
  OneThreadPerProcess /\ BootOrdered /\ Spec => ImplementsAtomicConfig
<1>1. Init => Atomic!Init
  BY ConstAssumption DEF Init, Atomic!Init
<1>2. BootOrdered /\ AtomicInv /\ [Next]_vars => [Atomic!Next]_<<cfg[2], snap>>
  BY RefinementStep
<1>3. BootOrdered => []BootOrdered
  <2>1. BootOrdered => BootOrdered'
    OBVIOUS
  <2>2. QED
    BY <2>1, PTL
<1>4. QED
  BY <1>1, <1>2, <1>3, AtomicInvariant, PTL DEF Spec, ImplementsAtomicConfig, Atomic!Spec
=============================================================================
