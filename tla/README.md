# Verification of the LiSA userspace (lisa-user)

LiSA turns a Linux box into an Ethernet switch with a Cisco-like command line. This
directory models its userspace (`src/userspace/`) in TLA+, checks the models with TLC on
small instances and proves the main results with TLAPS for every value of the constants.
`PROJECT.json` gives, for every definition, the lines of code it stands for. Paths below
are relative to `src/userspace/`.

## 1. The system

| Component | State | Operations | Talks to |
|---|---|---|---|
| Shared memory (`lib/mm.c`, `include/mm.h`) | the area "lisa", its semaphore; per process a handle: nesting counter, mapping | `mm_create`, `mm_lock`, `mm_unlock`, `mm_extend`, `mm_alloc`, `mm_free`, `mm_realloc` | every process |
| Switch core (`switch/switch.c`) | in the area: cdp and rstp configuration, passwords, lists of tags, descriptions, VLAN and interface data | `switch_init`, get/set/add/del of each record | shared memory, a backend |
| Backends (`switch/linux`, `switch/lisa`, `switch/swconfig`) | kernel bridges and interfaces; for Linux also the VLAN and interface data | VLAN, interface, trunk, multicast and MAC operations | kernel, switch core |
| rstpd (`rstp/`) | per port: nine state machines, priority vectors, timers, a BPDU buffer and two semaphores; the bridge's root | receive, FSM loop, timer signal, register/unregister | switch core (configuration), its clients by message queue |
| cdpd (`cdpd/`) | interfaces, neighbours, a heap of expiry times, counters | receive, send, clean, answer requests | switch core, its clients |
| Client libraries (`lib/cdp_client.c`, `lib/rstp_client.c`) | a reply queue per process | request, wait 3 s for the answer | daemons |
| Command line (`cli/`) | the session: mode, privilege, current interface | parse, complete, execute; load and build a configuration | switch core, backend, client libraries |
| Tools (`tools/`) | swclid: list of telnet sessions | swctl (one-shot commands), swclid, login | switch core |

Everything but the machines of one daemon is a *process*: several command line sessions,
swctl, cdpd, rstpd run at once and share one memory area under one semaphore. Inside
cdpd and rstpd there are threads and a signal handler.

### What is hard

- **Shared memory.** Locks nest by a counter kept per process, not per thread; processes
  are killed while they hold the semaphore; another process enlarges the area; two
  programs start at once. Correct means: exclusion, the whole area mapped, the semaphore
  comes back, set and get are atomic.
- **Allocator.** Long sequences of calls, gaps one byte too small, growth. Correct
  means: blocks are apart and inside the area, and nothing leaks.
- **rstpd.** A receiver thread, the machine loop and a signal handler share each port
  without locks but for two semaphores per port; a decision taken in one turn of the
  loop is executed in a later one. Correct means: no port goes deaf, no decision is
  executed on stale grounds, better information is kept, old information ages, the roles
  that result are coherent.
- **Records and backend.** Process pointers into an area that may move, locks released
  between look-up and use, sequences of kernel calls that fail halfway. Correct means:
  the kernel's bridges and devices are what the records say, and no frame reaches a VLAN
  its interface is not in.
- **cdpd.** Two semaphores taken in opposite orders, a heap whose nodes are pointed at
  from outside, an unlocked list of interfaces. Correct means: lists and heap hold the
  same neighbours, only expired ones go, and no thread hangs.
- **Client sessions.** Answers later than the timeout.
- **Command line.** A filter that every move between menus changes, several sessions on
  one configuration, a file that is executed line by line by commands that depend on the
  state. Correct means: privilege holds, a session is offered what fits, and what was
  saved comes back.

`PROJECT.json` lists each of these hazards at its line, with the properties that cover
it or the reason none does yet.

## 2. The modules

| Module | Content |
|---|---|
| `AtomicConfig` | abstract: set and get of a configuration are atomic |
| `ShmLock` | the lock, the mapping, start-up, crashes; critical sections in small steps; `Atomic!Spec` as a property |
| `MCShmLock` | assignments of threads to processes for TLC |
| `ShmLockProofs` | theorems about `ShmLock` |
| `Heap` | abstract: blocks handed out are apart and inside |
| `MmAlloc` | the allocator on its list of chunks; `Abstract!Spec` as a property |
| `MmAllocProofs` | theorems about `MmAlloc` |
| `PortInfo` | rstpd from a BPDU to the roles of the ports |
| `MCPortInfo` | BPDUs and neighbours for TLC |
| `PortInfoProofs` | theorems about `PortInfo` |
| `RstpPort` | rstpd from the role of a port to its forwarding, with the timer signal |
| `MCRstpPort` | the bound on histories for TLC |
| `RstpPortProofs` | theorems about `RstpPort` |
| `LinuxSwitch` | the Linux backend: records in the area, bridges and devices in the kernel |
| `MCLinuxSwitch` | symmetry and the bound on histories for TLC |
| `LinuxSwitchProofs` | theorems about `LinuxSwitch` |
| `SavedConfig` | `write memory`, restart, `swcfgload` |
| `MCSavedConfig` | the VLAN lists an operator types |
| `SavedConfigProofs` | theorems about `SavedConfig` |
| `Cdpd` | the three threads of cdpd and a client |
| `MCCdpd` | interfaces and neighbours for TLC |
| `CdpdProofs` | theorems about `Cdpd` |
| `Menus` | the menus of the command line, as sets of entries |
| `CommandLine` | sessions in these menus, the CDP configuration they change, swclid |
| `MCCommandLine` | sessions and the bound on histories for TLC |
| `CommandLineProofs` | theorems about `CommandLine` |

### ShmLock

One action is one access to something shared. `mm->lock++` is `LockLoad` (or
`NestedLoad` inside `mm_alloc` and `mm_extend`) and `LockStore`; `SemWait` and `Remap`
are the rest of `mm_lock()`; `UnlockLoad`, `UnlockStore` and `SemPost` are
`mm_unlock()`. A critical section is a get, a set or an allocation, the three kinds of
`switch.c`; the configuration is copied in two halves, so that a reader can meet a
writer halfway. `Start` to `Setup` are `switch_init()`: create the semaphore and lock
(`CreateLock`), create or open the area (`CreateMap`), unlock, and lay the area out,
which the creator does *without* the lock (`Setup`). `CreateFail` is every failure
between lock and unlock of `mm_create()` that the code notices. It does not notice one
of `mmap()`, which it compares with NULL (`mm.c:74,81,94`): the program then dies at its
first access, which is a `Crash`. `Crash` kills a process between any two steps: its
mapping and counter go, the semaphore stays as it is. `Setup` is one step, the locked
sets of the CDP and RSTP defaults at its end included, since no other program may rely
on any of it before.

`BootOrdered` says whether programs start only after the first has set up the area,
`ProcOf` which threads belong to one process. The proofs name what they need of both;
two runs show what happens otherwise.

### MmAlloc

The dynamic part of the area is the range from 0 to `top`, `chunks` the list in it. One
call is one step, which `ShmLock` justifies. The position where `mm_alloc()`'s walk
stops is described, not computed: `StopsAt` says that every gap before it is too small.
`ReallocMoves` includes the copy: `status` becomes "overrun" when it writes outside the
new block, "faulted" when the area was moved while `mm_realloc()` kept a pointer into
it, and the model stops, since anything may follow.

### PortInfo

The bridge has `N` ports, registered before the model starts. The receiver takes
`processed[p]` (`TakeToken`), reads (`Receive`, or `ReceiveFails`, at most once per
port) and posts `rcvd[p]` (`PostReceived`). The machine loop is a single thread: `turn`
says which machine of which port runs next, and one step is one call of a state function
of `prx.c`, `pim.c` or `prs.c`, exec flag included. The timer signal tests, loads and
stores `rcvdInfoWhile` in three steps, since `if (x) x = x - 1` on a volatile is three
accesses and any thread may run in between. Priority vectors keep the four bytes of the
path cost, because the code adds to them in the byte order of the machine; identifiers
are one byte, only their order counts. Fields that only other machines read are left
out.

### RstpPort

`PortInfo` has what a BPDU says and which role a port gets; `RstpPort` takes both as any
that the code allows, and follows one port to forwarding: the information machine as far
as it sets the flags of the others (`Pim...`), the role transition machine (`Prt...`,
one action per state function of `prt.c`) and the port state machine (`Pst...`). Each
call of a state function is one step, by `turn`, in the order of `fsm_run()`: a BPDU is
compared in `PimReceive` and acted on a turn later, in `PimHandle`. `OtherPorts` is what
the other ports of the bridge do to this one (`setSyncTree`, `setReRootTree`). `Jumped`
is `checkGlobalConditions()`, which the code runs before every state of `prt.c`. The
signal handler decrements `fdWhile` in three steps, as in `PortInfo`. `Garbage` is what
`malloc()` left in the fields that registration does not assign. `due`, `approved`,
`initiated` and `torn` are history, for the properties only.

### LinuxSwitch

`vlans`, `named`, `vlanIfs`, `port` and `entry` are the records that `switch.c` keeps in
the area; `bridges`, `up`, `devs` and `at` are the kernel's. One action is one operation
of `linux.c` with the tool or command that calls it (`CmdVlan`, `SwctlVlan`,
`UseIfEther`, ...), each with the set of kernel calls that fail in it: those that must
fail in the current state of the kernel (adding a bridge that exists or a device that is
in another bridge, deleting a bridge that is up) always do, and up to `MaxFaults` for a
reason of their own.

That a bridge which is up cannot be deleted decides much. `br_add()` brings every bridge
up (`Enabled`), also one that was there, and `br_remove()` does not bring it down
(`Closes`, `Refused`). A bridge goes down only by `shutdown` in the menu of the VLAN
interface or by `swctl disable` (`IfDisable`), so that in the menus the way to delete a
VLAN is to add a VLAN interface, shut it down, remove it, and then delete the VLAN. A
deletion that is refused takes the access interfaces out of the bridge and keeps the
record. `refused` remembers such VLANs, for the properties only. `DefaultVlans` is
`sw_is_default_vlan()`: these are added at the start and no command deletes them.

What is undone after a failure, and what is not, is as in the code. Operations stop once
`damage` says that the lists of the area may be broken; what follows is undefined.

### SavedConfig

The running configuration is one record, `live`. Commands are operators from a
configuration to the next (`CmdVlan`, `CmdTrunkVlan`, ...), so that an operator's
command and a line that `swcfgload` reads are the same definition, as they are the same
function in the code. `BuildConfigGlobal` and `BuildConfigInterface` write the lines;
`ListVlans` and `ParseVlanList` are the two directions of a VLAN list, line breaks and
the error of the parser included. `DefaultVlans` (1 and 1002 to 1005 in the code,
`switch.h:218`) are there after every start, because `switch_init()` adds them with
their names (`switch.c:330-340`); no command deletes or renames one and none is written
to the file (`cfgbuild.c:312`). `Restart` may lose an interface, and may find the file
cut after any line, since `write memory` truncates it and writes in place. A line that
the current menu refuses leaves the menu as it is.

### Cdpd

What a thread does between two waits for a semaphore is one step: the receiver takes the
list of its interface (`TakesList`), then the heap (`Refresh`, `Push`); the cleaner
tests the root (`WakesUp`), takes the heap and tests again (`TakesHeap`), then takes the
list (`Removes`); the listener visits the interfaces for a request (`Handle`, `Visits`,
`Copies`): one interface, or every registered one after the other, and the answer goes
out after the last. A client asks, waits and gives up. The heap is an array with its
index arithmetic, the wrong distance given to `sift_down()` included (`SiftUp`,
`SiftDown`, `Told`): it may be out of order, and no property claims that it is in order.

### Menus and CommandLine

`Menus` lists, per menu, the handler, the privilege and the interface types of every
command that runs something; `Offered` is what `cli_mask_apply()` leaves of it. A
session is what `struct cli_context` keeps: the menu, the bits of the filter, what it
configures. A handler may be run only if it is offered. `reload` is offered at privilege
1, as in `menu/exec.c:316-323`; the question it asks first is left out. `changed`
remembers in which ways sessions of privilege 1 changed something. The commands that
change one field of the CDP configuration are two steps, `ReadsCdp` and `WritesCdp`,
with the `unsigned char` they store in. `CreateTelnetConn`, `ListsConn` and `SghChild`
are swclid between its fork and its signal handler.

### How the modules fit together

`ShmLock` shows that a critical section is atomic, which `MmAlloc`, `LinuxSwitch` and
`CommandLine` rely on. `MmAlloc` implements `Heap`, `ShmLock` implements `AtomicConfig`.
`PortInfo` and `RstpPort` split rstpd at the selected role: `RstpPort.Selectable` allows
every role that `PortInfo`'s selection can give from the same `infoIs`. `CommandLine`
says who may run a command, `LinuxSwitch` and `SavedConfig` what the command does, with
the kernel and with the saved file. `CommandLine` EXTENDS `Menus`; otherwise the modules
are separate, since their product would be too large for TLC and shows nothing that the
parts do not.

## 3. The runs

| Run | Instance | States | What it shows |
|---|---|---|---|
| `shm_lock` | 2 programs, 2 configurations, area of up to 2 pages | 35 000 | exclusion, semaphore taken, area mapped, nobody stuck but by a crash, the semaphore returns, refinement of `AtomicConfig` |
| `shm_threads` | 2 threads of one process | | **violated**: a thread inside without the semaphore |
| `shm_boot` | 2 programs, start not ordered | | **violated**: use of an area not laid out |
| `mm_alloc` | header 2, sizes 1, 2, 4, area of 6 to 18 | 7 500 | order, backing, growth only when full, refinement of `Heap` |
| `port_info` | 2 ports, 2 BPDUs of 8 kinds | 167 000 | no deaf port, designated ports announce their own, coherent tree, better information kept, information ages, every BPDU is read |
| `port_overwrite` | 1 port, 4 BPDUs | | **violated**: the buffer changes while it is used |
| `rstp_port` | 1 port, 4 events, a delay of 2 s | 3 920 000 | a stopped port is still, forwarding waits for the delay or an agreement |
| `linux_switch` | 2 interfaces, 2 VLANs, 1 failed call | 85 000 | a recorded VLAN has its bridge, no leak into another VLAN, access ports forward and nothing is left behind unless the kernel refused a deletion |
| `linux_delete` | the same | | **violated**: a VLAN that was added cannot be deleted |
| `saved_config` | 2 interfaces, 5 VLANs, 3 commands | 1 836 000 | trunks never widen, ports and VLANs survive, what the file can express comes back |
| `cdpd` | 3 neighbours on 2 interfaces, 2 s, 2 requests | 409 000 | lists and heap agree, only expired neighbours go, no thread hangs but by lock order, an answer is the right one |
| `cli_session` | 2 shells, 1 console, 2 telnets | 58 000 | menus fit their target, privilege 1 changes nothing but by `reload`, the last setting stays, swclid's list |

### Bounds

- `shm_lock`: two programs are enough for a lock whose users differ only in their
  identity, and the theorems cover any number.
- `mm_alloc`: sizes 1, 2 and 4 with a header of 2 have gaps that miss by one byte, by a
  header and not at all; `MaxTop` allows three extensions.
- `port_info`: `MaxFrames` bounds the BPDUs of one behaviour; two are
  enough for a port to hear, change its mind and age, on both ports; `port_info` was
  also run once with three (3.1 million states, no error). `TimerModulus` stands for
  2^32: what counts is that a wrapped timer is larger than any life of information.
- `rstp_port`: four events let a port be designated, agree, become root or alternate and
  come back. A delay of 2 is the least in which a tick before and a tick after a restart
  of the timer differ from the whole delay. `Whole` cuts histories in which the handler
  undid an assignment, which `ForwardsAfterDelay` excludes anyway, and gives those that
  start from memory that was not zero one event.
- `linux_switch`: one interface leaves a VLAN that the other still uses; VLAN 1 is the
  one default VLAN, VLAN 2 can be deleted. A default VLAN's bridge is never deleted, so
  it stays up and without a VLAN interface (`DefaultsAsStarted`), and `WhatIsRead` leaves
  out of a state what no operation and no property reads. After a failure one interface goes on (`OneAfterTrouble`): the
  properties of regular histories are silent from there, and `VlanHasBridge` does not
  speak of interfaces.
- `saved_config`: the default VLANs 1 and 4 stand for 1 and 1002 to 1005: the default
  access VLAN, and others in the middle of a list. Five VLANs have a range of three with
  a token after it, and with two tokens to a line a list needs a second line. Three
  commands add an interface and give it two settings, or add both and set one.
- `cdpd`: three heap entries are the least in which the last entry becomes the root
  unsifted; two requests are one given up and one repeated. Once the client has asked,
  one neighbour is enough, and one second in which its entry may expire
  (`OneOnceAsked`); only its first request may be for every interface (`EveryFirst`).
  What the constraints cut off, a frame, a tick or a request, owes nothing under the
  fairness of `Spec`.
- `cli_session`: two operators overlap in a change of the configuration; two telnet
  connections lose a SIGCHLD. 254 and 255 are the ends of a byte. `Apart` keeps the
  three themes from multiplying.

Deadlock is checked except where the system stops: in `MmAlloc` after a write outside a
block, in `LinuxSwitch` once lists are damaged, in `Cdpd` when the two threads wait for
each other or the bounds are reached, and in `ShmLock`, where a killed process keeps the
semaphore: `StuckOnlyIfLost` says that this is the only reason.

### What the violated runs say of the code

1. `shm_threads`: cdpd calls `switch_get_cdp()` from two threads, and `mm_lock()` counts
   nesting per process. `lock++` returns non-zero to the second thread, which goes on
   without the semaphore. `src/README.mm:55` and `lib/mm.c:123` promise otherwise.
2. `shm_boot`: `switch_init()` lays out the area after `mm_create()` has released it.
   `dist/etc/rc.d/rc.sysinit:36-40` starts two programs at once.
3. `port_overwrite`: `prx_receive()` and the port information machine both post
   `processedBPDU`. `rstp_receiver.c:39` promises that a BPDU is not read before the
   previous one is dealt with.
4. `linux_delete`: without any call that fails for a reason of its own, a VLAN that was
   added cannot be deleted: its bridge is up, Linux refuses `SIOCBRDELBR` with EBUSY,
   and `br_remove()` (`util_linux.c:132-144`) never brings a bridge down.
   `test/vlan_rename.c:66,90` deletes what it added.

### What the properties exclude, and why

Where the code is wrong, a property that holds says exactly around what. Each exclusion
is a finding or a hazard in `PROJECT.json`:

- `SettledTree`: `updtRolesTree()` adds the path cost in host byte order (`prs.c:53`,
  marked `/*fix*/` there); the property excepts the bridge whose first cost byte wraps.
  It is silent when a follower has lost what it heard (`FollowersHear`): an update
  decided before and executed after a change of role (`pim.c:187`).
- `ForwardsAfterDelay`: a timer that the signal handler tore (`rstpd.c:58`), and fields
  that nobody initialises (`rstpd.c:140`).
- `Isolation`, `AccessForwards`, `NothingLeftBehind`: failed kernel calls, and a VLAN
  list changed on a routed interface (`linux.c:811`).
- `AccessForwards`, `NothingLeftBehind`: what a refused deletion leaves
  (`util_linux.c:140`): access interfaces in no bridge though their VLAN is recorded,
  and a bridge without a record. No other deviation is excused.
- `StuckOnlyIfLost`, `SemaphoreReturns`: a program killed while it owns the semaphore,
  which nothing in the code repairs (`mm.c:132`).
- `DesignatedAnnounces`: silent of a root port with a stale update (`pim.c:187`).
- `ReadOnlyAtPrivilegeOne`: `reload` (`menu/exec.c:316-323`), by which privilege 1
  brings back the saved configuration and so loses what is not saved.
- `ReloadRestores`: `Reloadable` names what the file cannot express: VLAN 4094, the
  enable secret, timers of a switch without CDP, a range before another token, ... The
  default VLANs are not written either, but need not be: they are back with their names
  after every start.
- `KeepsRunning`: the two semaphores taken in opposite orders (`cdp_aging.c:110`).
- `AnswerMatches`: a client that gave up a request.
- `LastWins`: two commands that overlap. `SessionsListed`: a SIGCHLD that was lost or
  came before the child was listed (`swclid.c:183`).
- `MmAlloc.CopiesInside`, that `mm_realloc()` copies inside the new block, is false
  (`mm.c:266`: `chunk->size` counts the header, `include/mm.h:53` says it does not) and
  no run checks it; theorem `CopyInside` says for which sizes it is true. No program of
  the repository calls `mm_realloc()` today.

### Fairness

`ShmLock!FairSpec`: a thread that has begun something goes on until it blocks or is
killed (weak fairness of `Advance(t)`), which is what a scheduler gives. It is weak for
`SemWait` too: a waiting thread may starve, and no property says it does not. Starting
programs, calling `mm_lock()` and crashing are not fair.

`PortInfo!FairSpec`: the main thread never blocks, `select()` returns while a socket is
readable and the receiver goes through all ports, and SIGALRM comes every second.
Neighbours need not send. `ForgetsDeadNeighbour` is "eventually": when the machine
clears `rcvdInfoWhile` between the test and the load of the signal handler the timer
wraps to 2^32-1 seconds, and "eventually" is 136 years.

`Cdpd!Spec`: a thread of cdpd that is not blocked goes on: the receiver from its wait
for a list back to `select()`, the cleaner at each of its rounds, the listener through a
request. The arrival of packets, the clock and the client owe nothing. The other modules
state safety only and need no fairness.

## 4. The proofs

All theorems are for every value of the constants that meets the `ASSUME` of the module;
`tlapm` checks them to the last leaf.

**`ShmLockProofs`.** Hypothesis `OneThreadPerProcess`. The inductive invariant is
`LockInv`: the semaphore is 1 exactly when nobody owns it and a thread owns it exactly
in the states between wait and post (`SemaphoreInv`); the handle's counter is the depth
of its thread, and a `++` under way has loaded the current value (`CounterInv`, where
two threads per process break it); what depth each state has (`DepthInv`); mappings
never exceed the area (`MappedInv`). From it `Exclusion`, `SemaphoreTaken`,
`WholeAreaMapped`, `Typed`, and `StuckOnlyByLoss`: where everyone waits, the semaphore
is 0 and so has an owner, which is none of those who wait. `ImplementsAtomic` needs
`BootOrdered` besides, and an invariant that relates the two halves to where the writer
and the reader are: the refinement maps the configuration to its second half, so
`StoreSecond` is the abstract set and `CopySecond` the abstract get.

**`MmAllocProofs`.** The invariant is order plus backing; the lemmas say what inserting
and removing an element does to an ordered list and to its set of blocks.
`AddressOrder`, `Backed`, `ImplementsTheHeap`, and `CopyInside` under the hypothesis on
sizes stated there. `FullBeforeExtending` says more than that the walk found no gap: *no
range* of the area is free. For that, every free range lies in a gap between two
neighbours of the list, which takes the least chunk behind it (`Least`).

**`PortInfoProofs`.** `Typed` first: semaphores and timers stay natural numbers and the
sums of bytes bytes. `NeverDeaf` from `TokenInv`: each port that never failed has its
token somewhere (`Alive`), and a port whose first pass has not begun has no message.
`DesignatedIsOwn` and `OnlyImproves` from `InfoInv`: between the comparison of a BPDU
and its recording the port's information does not change (`NoWorse`), since a single
thread runs the machines and none but this one writes it. `OneTree` from `TreeInv`,
which holds in the middle of the machines' work, too: the selected roles have at most
one root (`AtMostOneRoot`), without one every designated port offers the bridge's own
vector (`OwnWithoutRoot`), with one that still has what it heard it offers the root's
plus the cost (`OffersRootPath`), and announces that offer unless an update is still due
(`AnnouncesOffer`). Only `SelectTree` looks at all ports at once; every other step is
shown to leave what the invariant reads, or to set a flag that excuses it.

**`RstpPortProofs`.** `StoppedIsStill`: `BlockedIsStill` is not inductive, because the
transition machine tests `learning` and `forwarding` in one turn and the port state
machine has its own state. `PortInv` adds what the state of `pst.c` says of the two
flags (`StateOf`), and that a port being stopped has been told not to learn and not to
forward, whereupon the port state machine cannot be at forwarding (`Stops`). The jump to
another role (`JumpedKeeps`) always leaves the states of a stopped port. `DelayIsWhole`:
while a port learns and does not forward, the seconds since it began and what `fdWhile`
still has make up the delay, the signal's half-done decrement included; `Careful` is
what a step may do without breaking that.

**`LinuxSwitchProofs`.** `SharedBridge`: `VlanHasBridge` is inductive as it stands; the
proof shows which operations may touch a bridge and what each looks at before. `NoLeak`,
`AccessJoined` and `NothingLeft` follow from one invariant of regular histories,
`InPlace`: tagged devices are those of the trunks' lists and recorded VLANs, each in its
bridge and listed; an interface itself is in a bridge exactly if its record says so, or
in none if the deletion of its VLAN was refused; and a bridge that nobody uses is one
whose deletion was refused. No single property of the three is inductive: what
`if_mode_trunk()` takes out of a bridge, `vlan_add()` must not find there. The proof has
one lemma per operation; those that go through `add_vifs_to_trunk()` and
`remove_vifs_from_trunk()` share `RetagExact`.

**`CommandLineProofs`.** All four invariants of the run. `PrivilegeOneReads`: from the
entries of the first menu follows that what privilege 1 is offered reads, ends the
session or reloads (`MainReads`, `OfferedReads`); with it the invariant, that such a
session stays in the first menu, holds no copy of the CDP configuration and changes
nothing but by `reload`, is inductive. `LastOneWins`: while no commands overlapped, at
most one session holds a copy, and it is the configuration as it is (`OneAtATime`);
`BytesSuffice` says that the limits of the menus keep the stored bytes what was typed.
`TargetFits`: entering a menu sets filter and target together, and only another
session's removal takes the record (`AllFit`). `ConnectionsListed`: who runs is no
zombie, and without a lost signal there is at most one zombie, whose signal is pending
(`Listing`).

**`CdpdProofs`.** `OwnAnswer`: at most one message is on its way between the client and
cdpd (`OneOnItsWay`), and the listener visits interfaces only for a request that is
still on the queue. `OneEntryEach`, `ExpiredFirst` and `Typed` from `NeighboursInv`:
lists and heap hold the same neighbours, but for the one the receiver has in hand, and
the cleaner's neighbour is the root it tested. The heap may be out of order, so nothing
is said of its order; what counts is that sifting loses no entry. `sift_up()` and
`sift_down()` pass the positions of a path of the tree (`PathUp`, `PathDown`), whose
entries then move by one (`MovedUp`, `MovedDown`): a permutation, from whatever position
it starts. That the heap has room for every neighbour is the injection into `Stations`.

**`SavedConfigProofs`.** What a file says, and what its lines make of a switch. Every
command keeps a configuration sound (`ConfigInv`, and with it `Typed`). `FileIs` shows
what `build_config_global()` writes, for any configuration: each VLAN that is saved has
its line, directly followed by that of its name; each interface has a section, no two
overlap, and the lines of one come in the order of `Rank`; CDP is stopped after the last
of them. In the middle of a load, the lines that were read decide everything: the VLANs
and names are those of lines before `Place` (`VlansLoaded`), and the record of an
interface is what the lines of its section make of a new one (`PortIs`, `PortsLoaded`),
with the menu where the next line needs it, or at the main menu if the interface is
missing. `VlansBack` and `PortsBack` are these at the last line, the VLANs together with
the default ones that the start added, whatever set these are. `NeverWider` holds at
each line, for the first line of a list has a lower rank than the mode.

`Restored` is about the whole configuration: `Reloadable` names what the file can
express, and a load gives exactly that back. A list of VLANs is back in full because
every VLAN of it is in a token (`TokenCovers`), every token on a line (`TokenInLine`),
and the command reads each line whole (`Reloadable`). The parts of the file come in a
fixed order (`MainRank`, `OthersAt`), and each setting needs it: snooping is switched
off before the first VLAN line, so that VLANs start with it on; an address is read when
the interfaces and VLANs are back (`PortsWhole`), and no line after it moves a device;
the CDP timer is read while CDP runs. `RestLoaded` says so for each setting and line.
That `MaxVlan` is not among the VLANs is needed twice: it is not written, and
`set_global_igmp()` passes it over.

### What the prover cannot do, and how far one gets

Liveness under fairness (`SemaphoreReturns`, `ForgetsDeadNeighbour`, `ReadsEveryBpdu`,
`KeepsRunning`) and `ENABLED` are out of its reach and stay with TLC. The induction
theorems of the library take an operator as a parameter, which no backend can
instantiate. Where an induction over data is needed (the paths of the heap, the chunks
of the area) the proofs take a least counterexample instead: a set of natural numbers
that is not empty has a least one, which follows from the well-foundedness of `<`. Each
recursive function is shown to exist first, by the partial functions below every number.
No module uses a RECURSIVE operator.

Every invariant of the passing runs is stated by a theorem, and so are their action
properties and refinements; the four liveness properties above are only model-checked.

## 5. Not modelled, and why

- Two programs in the middle of an operation of the backend: `LinuxSwitch` takes each as
  one step, while the code locks the area per record. The hazards at
  `switch/switch.c:584` and `753` are therefore without a property.
- The lists of records as pointers into the area (`switch/switch.c`, `include/list.h`):
  sets and functions here. Their order, tags and passwords are left out.
- IGMP snooping and multicast routers in the backend, `get` operations, the MAC table
  but for its static entries in `SavedConfig`: they hand a request to the kernel, or
  walk a list to print it.
- The LiSA and swconfig backends hand each operation to the kernel, whose code is not
  here. `lib/netlink.c`, `lib/if_generic.c`, `lib/util.c`: wrappers without state.
- Of rstpd: transmission (`ptx.c`), protocol migration (`ppm.c`), topology change
  (`tcm.c`), registration of ports while it runs. `bdm.c` and `prt_disabled_port()`
  never run.
- Of cdpd: sending, the fields of a packet, and the heap beyond its first size, where
  the behaviour is undefined (`cdpd.c:372`, a finding). The walk over the interfaces in
  `cdpd.c:531` is not locked, and an unregister meanwhile moves the entry it stands on
  to the list of the deregistered ones, where the walk then goes on; `Cdpd` unregisters
  when nobody walks.
- Of the saved configuration: VLAN interfaces, and that interfaces with tags have files
  of their own (`cfgbuild.c:344-352`).
- Tokens, completion and output filters of the shell; the show commands and the other
  tools, which are sequential and write text.
- Patches of kernels, packaging and the manual test programs.

## 6. Plan

1. The records of `switch.c` on top of `ShmLock`: look-up, unlock, use by two programs.
2. `ptx.c` and `tcm.c` on top of `RstpPort`: the limit of transmissions under the timer
   signal, and that a topology change is passed on.
3. Registration and removal of interfaces in both daemons while they run.
