------------------------------ MODULE ShmLock ------------------------------
(***************************************************************************)
(* The lock of the shared memory area "lisa" (lib/mm.c, include/mm.h) and  *)
(* the programs that use it through switch/switch.c: the command line      *)
(* programs, swctl, cdpd and rstpd.                                        *)
(*                                                                         *)
(* The area is protected by one POSIX semaphore.  Every process has one    *)
(* handle (struct mm_private) with a counter of nested mm_lock() calls;    *)
(* only the call that finds the counter at 0 waits for the semaphore.  The *)
(* counter is a plain int, so ++ and -- are a load and a store, and it     *)
(* belongs to the process, not to the thread.                              *)
(*                                                                         *)
(* A thread's critical section is one of the three kinds switch.c has:     *)
(* copy a configuration out ("get"), copy one in ("set"), or allocate in   *)
(* the area ("alloc": mm_alloc() locks again, and mm_extend() once more).  *)
(* A configuration is copied by memcpy(), here in two halves.  A process   *)
(* may be killed between any two steps.                                    *)
(***************************************************************************)
EXTENDS Integers

CONSTANTS
  Proc,         \* process identities
  Thread,       \* thread identities
  ProcOf,       \* the process of each thread
  Value,        \* configurations
  Zero,         \* the all-zero configuration
  MaxArea,      \* bound on the number of times the area is enlarged
  BootOrdered,  \* is every program started after the first has set up the area?
  NoThread,     \* nobody holds the semaphore
  Lost,         \* the process that held the semaphore was killed
  Torn          \* a configuration put together from two different ones

ASSUME ConstAssumption ==
  /\ ProcOf \in [Thread -> Proc]
  /\ Zero \in Value
  /\ Torn \notin Value
  /\ MaxArea \in Nat \ {0}
  /\ BootOrdered \in BOOLEAN
  /\ NoThread \notin Thread
  /\ Lost \notin Thread
  /\ NoThread # Lost

VARIABLES
  sem,      \* value of the semaphore
  lock,     \* mm_private.lock of each process
  mapped,   \* mm_private.mapped_size of each process, 0 when it has no mapping
  area,     \* size of the area, 0 before it is created
  inited,   \* has the creator laid out the lists of struct switch_mem?
  cfg,      \* the two halves of the configuration in the area
  pc,       \* where each thread is
  reg,      \* the counter as the thread's last ++ or -- loaded it
  nest,     \* mm_lock() calls the thread has not yet undone
  op,       \* kind of the thread's critical section
  buf,      \* the half a thread has copied, or the configuration it stores
  snap,     \* the caller's copy that the thread's last get returned
  owner     \* history: who took the semaphore and has not posted it

vars == <<sem, lock, mapped, area, inited, cfg, pc, reg, nest, op, buf, snap, owner>>

Op == {"get", "set", "alloc"}

PC == {"off", "create", "open", "made", "opened", "setup", "idle", "inc",
       "wait", "remap", "body", "half", "done", "dec", "post"}

TypeOK ==
  /\ sem \in Nat
  /\ lock \in [Proc -> Int]
  /\ mapped \in [Proc -> 0 .. MaxArea]
  /\ area \in 0 .. MaxArea
  /\ inited \in BOOLEAN
  /\ cfg \in [1 .. 2 -> Value]
  /\ pc \in [Thread -> PC]
  /\ reg \in [Thread -> Int]
  /\ nest \in [Thread -> 0 .. 3]
  /\ op \in [Thread -> Op]
  /\ buf \in [Thread -> Value]
  /\ snap \in [Thread -> Value \cup {Torn}]
  /\ owner \in Thread \cup {NoThread, Lost}

Init ==
  /\ sem = 1
  /\ lock = [p \in Proc |-> 0]
  /\ mapped = [p \in Proc |-> 0]
  /\ area = 0
  /\ inited = FALSE
  /\ cfg = [i \in 1 .. 2 |-> Zero]
  /\ pc = [t \in Thread |-> "off"]
  /\ reg = [t \in Thread |-> 0]
  /\ nest = [t \in Thread |-> 0]
  /\ op = [t \in Thread |-> "get"]
  /\ buf = [t \in Thread |-> Zero]
  /\ snap = [t \in Thread |-> Zero]
  /\ owner = NoThread

Goto(t, l) == pc' = [pc EXCEPT ![t] = l]

Move(t, from, to) == pc[t] = from /\ Goto(t, to)

\* The thread that ran switch_init() goes on, and starts the other threads.
ProcessReady(t) ==
  pc' = [u \in Thread |-> IF ProcOf[u] = ProcOf[t] THEN "idle" ELSE pc[u]]

-----------------------------------------------------------------------------
(* switch_init(): mm_create(), then the set-up its creator does unlocked.  *)

Start(t) ==
  /\ \A u \in Thread : ProcOf[u] = ProcOf[t] => pc[u] = "off"
  /\ BootOrdered => inited \/ \A u \in Thread : pc[u] = "off"
  /\ Goto(t, "create")
  /\ UNCHANGED <<sem, lock, mapped, area, inited, cfg, reg, nest, op, buf, snap, owner>>

\* __mm_lock() on the new handle, which no other thread can see yet.
CreateLock(t) ==
  /\ sem > 0
  /\ Move(t, "create", "open")
  /\ sem' = sem - 1
  /\ owner' = t
  /\ lock' = [lock EXCEPT ![ProcOf[t]] = 1]
  /\ nest' = [nest EXCEPT ![t] = 1]
  /\ UNCHANGED <<mapped, area, inited, cfg, reg, op, buf, snap>>

\* O_EXCL decides whether this process creates the area or opens it.
CreateMap(t) ==
  /\ Move(t, "open", IF area = 0 THEN "made" ELSE "opened")
  /\ area' = IF area = 0 THEN 1 ELSE area
  /\ mapped' = [mapped EXCEPT ![ProcOf[t]] = area']
  /\ UNCHANGED <<sem, lock, inited, cfg, reg, nest, op, buf, snap, owner>>

CreateDone(t) ==
  /\ sem' = sem + 1
  /\ owner' = NoThread
  /\ lock' = [lock EXCEPT ![ProcOf[t]] = 0]
  /\ nest' = [nest EXCEPT ![t] = 0]
  /\ UNCHANGED <<area, inited, cfg, reg, op, buf, snap>>

\* mm_unlock() at the end of mm_create(): a process that opened the area is
\* through with switch_init(), the creator still has to set it up.
CreateUnlock(t) ==
  /\ \/ pc[t] = "opened" /\ ProcessReady(t)
     \/ Move(t, "made", "setup")
  /\ CreateDone(t)
  /\ UNCHANGED mapped

\* Mutant: the error path of mm_create() forgets mm_unlock().
CreateFailKeepsSemaphore(t) ==
  /\ Move(t, "open", "off")
  /\ lock' = [lock EXCEPT ![ProcOf[t]] = 0]
  /\ nest' = [nest EXCEPT ![t] = 0]
  /\ UNCHANGED <<sem, mapped, area, inited, cfg, reg, op, buf, snap, owner>>

\* shm_open() or ftruncate() fails: what was created is unlinked.  A failure of
\* mmap() is not noticed, since the code asks for NULL and not for MAP_FAILED:
\* the process faults at its first access, which is Crash.
CreateFail(t) ==
  /\ Move(t, "open", "off")
  /\ CreateDone(t)
  /\ UNCHANGED mapped

\* memset() of struct switch_mem, MM_INIT_LIST_HEAD() of its lists, and the
\* defaults that switch_init_cdp() and switch_init_rstp() set, as one step.
Setup(t) ==
  /\ pc[t] = "setup"
  /\ ProcessReady(t)
  /\ inited' = TRUE
  /\ cfg' = [i \in 1 .. 2 |-> Zero]
  /\ UNCHANGED <<sem, lock, mapped, area, reg, nest, op, buf, snap, owner>>

-----------------------------------------------------------------------------
(* mm_lock() and mm_unlock().                                              *)

\* The load of mm->lock++, by a thread that begins a critical section.
LockLoad(t, kind) ==
  /\ Move(t, "idle", "inc")
  /\ reg' = [reg EXCEPT ![t] = lock[ProcOf[t]]]
  /\ op' = [op EXCEPT ![t] = kind]
  /\ UNCHANGED <<sem, lock, mapped, area, inited, cfg, nest, buf, snap, owner>>

\* ... and inside one: mm_alloc() locks, and mm_extend() when it needs to.
NestedLoad(t) ==
  /\ op[t] = "alloc"
  /\ nest[t] < 3
  /\ Move(t, "body", "inc")
  /\ reg' = [reg EXCEPT ![t] = lock[ProcOf[t]]]
  /\ UNCHANGED <<sem, lock, mapped, area, inited, cfg, nest, op, buf, snap, owner>>

\* The store of mm->lock++: only a counter that was 0 leads to sem_wait().
LockStore(t) ==
  /\ Move(t, "inc", IF reg[t] # 0 THEN "body" ELSE "wait")
  /\ lock' = [lock EXCEPT ![ProcOf[t]] = reg[t] + 1]
  /\ nest' = [nest EXCEPT ![t] = @ + 1]
  /\ reg' = [reg EXCEPT ![t] = 0]
  /\ UNCHANGED <<sem, mapped, area, inited, cfg, op, buf, snap, owner>>

\* Mutant: mm_lock() takes the area without waiting.
SemWaitPasses(t) ==
  /\ Move(t, "wait", "remap")
  /\ sem' = 0
  /\ owner' = t
  /\ UNCHANGED <<lock, mapped, area, inited, cfg, reg, nest, op, buf, snap>>

SemWait(t) ==
  /\ sem > 0
  /\ Move(t, "wait", "remap")
  /\ sem' = sem - 1
  /\ owner' = t
  /\ UNCHANGED <<lock, mapped, area, inited, cfg, reg, nest, op, buf, snap>>

\* Mutant: mm_lock() keeps the mapping it has.
RemapForgotten(t) ==
  /\ Move(t, "remap", "body")
  /\ UNCHANGED <<sem, lock, mapped, area, inited, cfg, reg, nest, op, buf, snap, owner>>

\* The area may have been enlarged since this process last mapped it.
Remap(t) ==
  /\ Move(t, "remap", "body")
  /\ mapped' = [mapped EXCEPT ![ProcOf[t]] = IF area <= @ THEN @ ELSE area]
  /\ UNCHANGED <<sem, lock, area, inited, cfg, reg, nest, op, buf, snap, owner>>

\* The load and the store of --mm->lock.
UnlockLoad(t) ==
  /\ Move(t, "done", "dec")
  /\ reg' = [reg EXCEPT ![t] = lock[ProcOf[t]]]
  /\ UNCHANGED <<sem, lock, mapped, area, inited, cfg, nest, op, buf, snap, owner>>

\* Where a thread is after an mm_unlock() that leaves it n calls deep.
Returned(n) == IF n = 0 THEN "idle" ELSE "done"

\* Mutant: every mm_unlock() posts, the nested ones too.
UnlockStorePosts(t) ==
  /\ Move(t, "dec", "post")
  /\ lock' = [lock EXCEPT ![ProcOf[t]] = reg[t] - 1]
  /\ nest' = [nest EXCEPT ![t] = @ - 1]
  /\ reg' = [reg EXCEPT ![t] = 0]
  /\ UNCHANGED <<sem, mapped, area, inited, cfg, op, buf, snap, owner>>

UnlockStore(t) ==
  /\ Move(t, "dec", IF reg[t] = 1 THEN "post" ELSE Returned(nest[t] - 1))
  /\ lock' = [lock EXCEPT ![ProcOf[t]] = reg[t] - 1]
  /\ nest' = [nest EXCEPT ![t] = @ - 1]
  /\ reg' = [reg EXCEPT ![t] = 0]
  /\ UNCHANGED <<sem, mapped, area, inited, cfg, op, buf, snap, owner>>

SemPost(t) ==
  /\ Move(t, "post", Returned(nest[t]))
  /\ sem' = sem + 1
  /\ owner' = NoThread
  /\ UNCHANGED <<lock, mapped, area, inited, cfg, reg, nest, op, buf, snap>>

-----------------------------------------------------------------------------
(* What is done in a critical section.                                     *)

\* switch_get_cdp(), switch_get_rstp(): memcpy() from the area.
CopyFirst(t) ==
  /\ op[t] = "get"
  /\ Move(t, "body", "half")
  /\ buf' = [buf EXCEPT ![t] = cfg[1]]
  /\ UNCHANGED <<sem, lock, mapped, area, inited, cfg, reg, nest, op, snap, owner>>

CopySecond(t) ==
  /\ op[t] = "get"
  /\ Move(t, "half", "done")
  /\ snap' = [snap EXCEPT ![t] = IF buf[t] = cfg[2] THEN cfg[2] ELSE Torn]
  /\ buf' = [buf EXCEPT ![t] = Zero]
  /\ UNCHANGED <<sem, lock, mapped, area, inited, cfg, reg, nest, op, owner>>

\* switch_set_cdp(), switch_set_rstp(): memcpy() into the area.
StoreFirst(t, v) ==
  /\ op[t] = "set"
  /\ Move(t, "body", "half")
  /\ cfg' = [cfg EXCEPT ![1] = v]
  /\ buf' = [buf EXCEPT ![t] = v]
  /\ UNCHANGED <<sem, lock, mapped, area, inited, reg, nest, op, snap, owner>>

StoreSecond(t) ==
  /\ op[t] = "set"
  /\ Move(t, "half", "done")
  /\ cfg' = [cfg EXCEPT ![2] = buf[t]]
  /\ buf' = [buf EXCEPT ![t] = Zero]
  /\ UNCHANGED <<sem, lock, mapped, area, inited, reg, nest, op, snap, owner>>

\* Mutant: mm_alloc() returns without its mm_unlock().
AllocReturnsLocked(t) ==
  /\ op[t] = "alloc"
  /\ nest[t] > 1
  /\ Move(t, "body", "idle")
  /\ UNCHANGED <<sem, lock, mapped, area, inited, cfg, reg, nest, op, buf, snap, owner>>

\* mm_alloc() found room, or mm_extend()'s ftruncate() failed.
AllocReturns(t) ==
  /\ op[t] = "alloc"
  /\ nest[t] > 1
  /\ Move(t, "body", "done")
  /\ UNCHANGED <<sem, lock, mapped, area, inited, cfg, reg, nest, op, buf, snap, owner>>

\* Mutant: the file grows by two pages and one of them is mapped.
ExtendTwice(t) ==
  /\ op[t] = "alloc"
  /\ nest[t] = 3
  /\ mapped[ProcOf[t]] < MaxArea
  /\ Move(t, "body", "done")
  /\ area' = mapped[ProcOf[t]] + 2
  /\ mapped' = [mapped EXCEPT ![ProcOf[t]] = @ + 1]
  /\ UNCHANGED <<sem, lock, inited, cfg, reg, nest, op, buf, snap, owner>>

\* mm_extend(): the file grows from the size this process has mapped.
Extend(t) ==
  /\ op[t] = "alloc"
  /\ nest[t] = 3
  /\ mapped[ProcOf[t]] < MaxArea
  /\ Move(t, "body", "done")
  /\ area' = mapped[ProcOf[t]] + 1
  /\ mapped' = [mapped EXCEPT ![ProcOf[t]] = @ + 1]
  /\ UNCHANGED <<sem, lock, inited, cfg, reg, nest, op, buf, snap, owner>>

-----------------------------------------------------------------------------
\* Mutant: the semaphore is posted for a process killed inside (SEM_UNDO).
CrashUndoes(p) ==
  /\ \E t \in Thread : ProcOf[t] = p /\ pc[t] # "off"
  /\ pc' = [t \in Thread |-> IF ProcOf[t] = p THEN "off" ELSE pc[t]]
  /\ reg' = [t \in Thread |-> IF ProcOf[t] = p THEN 0 ELSE reg[t]]
  /\ nest' = [t \in Thread |-> IF ProcOf[t] = p THEN 0 ELSE nest[t]]
  /\ buf' = [t \in Thread |-> IF ProcOf[t] = p THEN Zero ELSE buf[t]]
  /\ lock' = [lock EXCEPT ![p] = 0]
  /\ mapped' = [mapped EXCEPT ![p] = 0]
  /\ sem' = IF owner \in Thread /\ ProcOf[owner] = p THEN sem + 1 ELSE sem
  /\ owner' = IF owner \in Thread /\ ProcOf[owner] = p THEN NoThread ELSE owner
  /\ UNCHANGED <<area, inited, cfg, op, snap>>

(* A process is killed.  The kernel does not post a semaphore it holds.    *)
Crash(p) ==
  /\ \E t \in Thread : ProcOf[t] = p /\ pc[t] # "off"
  /\ pc' = [t \in Thread |-> IF ProcOf[t] = p THEN "off" ELSE pc[t]]
  /\ reg' = [t \in Thread |-> IF ProcOf[t] = p THEN 0 ELSE reg[t]]
  /\ nest' = [t \in Thread |-> IF ProcOf[t] = p THEN 0 ELSE nest[t]]
  /\ buf' = [t \in Thread |-> IF ProcOf[t] = p THEN Zero ELSE buf[t]]
  /\ lock' = [lock EXCEPT ![p] = 0]
  /\ mapped' = [mapped EXCEPT ![p] = 0]
  /\ owner' = IF owner \in Thread /\ ProcOf[owner] = p THEN Lost ELSE owner
  /\ UNCHANGED <<sem, area, inited, cfg, op, snap>>

-----------------------------------------------------------------------------
\* What a thread that has begun something does next.
Advance(t) ==
  \/ CreateLock(t) \/ CreateMap(t) \/ CreateUnlock(t) \/ Setup(t)
  \/ NestedLoad(t) \/ LockStore(t) \/ SemWait(t) \/ Remap(t)
  \/ UnlockLoad(t) \/ UnlockStore(t) \/ SemPost(t)
  \/ CopyFirst(t) \/ CopySecond(t)
  \/ StoreSecond(t) \/ \E v \in Value : StoreFirst(t, v)
  \/ AllocReturns(t) \/ Extend(t)

Next ==
  \/ \E t \in Thread : Start(t) \/ CreateFail(t) \/ Advance(t)
  \/ \E t \in Thread, kind \in Op : LockLoad(t, kind)
  \/ \E p \in Proc : Crash(p)

Spec == Init /\ [][Next]_vars

\* A thread runs until it blocks or its process is killed: the scheduler's
\* promise.  That a program calls mm_lock() again, or is started, is not.
FairSpec == Spec /\ \A t \in Thread : WF_vars(Advance(t))

-----------------------------------------------------------------------------
\* Between the return of the first mm_lock() and the last mm_unlock().
InSection(t) ==
  \/ pc[t] \in {"body", "half", "done"}
  \/ pc[t] \in {"inc", "dec"} /\ nest[t] > 0

\* Two threads are never inside mm_lock()/mm_unlock() at once: lib/mm.c lines
\* 123-144, the purpose of the lock.
SectionExclusive ==
  \A t, u \in Thread : InSection(t) /\ InSection(u) => t = u

\* mm_lock() returns with the semaphore taken (its comment, lib/mm.c:123), and
\* it stays taken until the mm_unlock() that undoes it, nested calls included.
SectionHoldsSemaphore ==
  \A t \in Thread : InSection(t) => sem = 0

\* A thread that looks at the area sees all of it, whatever other processes
\* added since it last looked (README.mm lines 57-59).
SectionMapped ==
  \A t \in Thread : pc[t] \in {"body", "half"} => mapped[ProcOf[t]] = area

\* Nobody uses the lists of struct switch_mem before their creator has laid
\* them out ("don't leave half-initialized garbage", lib/mm.c:86).
UsesLaidOutArea ==
  \A t \in Thread : InSection(t) => inited

\* Everyone waits for the semaphore only when a process was killed inside.
StuckOnlyIfLost ==
  (sem = 0 /\ \A t \in Thread : pc[t] \in {"create", "wait"}) => owner = Lost

\* The semaphore always comes back, unless its holder is killed: no path
\* through mm_create(), mm_alloc() or mm_extend() keeps it.
SemaphoreReturns == owner \in Thread ~> owner \notin Thread

-----------------------------------------------------------------------------
\* Taken together the critical sections make the configuration atomic.  The
\* second half stored is the moment it changes.
Atomic == INSTANCE AtomicConfig WITH stored <- cfg[2], got <- snap

ImplementsAtomicConfig == Atomic!Spec
=============================================================================
