# A TLA+ verification of OS-Code

The repository is a collection of small C++ programs that go with a course on
operating systems: threads and locks (Lab3, Lab5, Lab6), schedulers (Lab4),
deadlocks (Lab7), memory management and paging (Lab8, Lab9).  They share no
code; each file is a program with its own `main`.  What they have in common is
that each one *claims* something (a lock that excludes, a banker that stays
safe, a detector that finds cycles, an allocator that shares nothing), and
the modules here say exactly what, check it with TLC on small instances, and
prove the most important part of it with TLAPS for every instance.

1. [The system](#1-the-system): components, state, operations, what is hard
2. [The modules](#2-the-modules), and how they correspond to the code
3. [The runs](#3-the-runs): what is checked, with which bounds
4. [Fairness](#4-fairness)
5. [The proofs](#5-the-proofs)
6. [Where code and claim differ](#6-where-code-and-claim-differ)
7. [What is not modelled](#7-what-is-not-modelled), and what could come next

## 1. The system

### Concurrent programs

| component | state | operations | interaction | what is hard | what makes it correct |
|---|---|---|---|---|---|
| `Semaphore`, `SemaphoreDemo` (Lab5) | `mtx`, `cv`, `count` | `acquire`, `try_acquire`, `release` | five threads share one object | a woken thread must retake the mutex and may be overtaken; one `notify_one` per release; spurious wakeups | no permit is lost or invented, no waiter sleeps beside a free permit, everyone gets through |
| counters (Lab5 `RaceConditionDemo`, `HardwareInstructions`, `MutexDemo`; `test-thread`; Lab3 `Practice3`, `Advanced1`) | one number, a lock | load and store under no lock, a spin lock, a mutex, or as compare-and-swap | two threads, one number | lost updates, weak compare-and-swap, test before withdrawal | under each discipline the number is what it would be if updates were atomic |
| `PetersonSolution` (Lab5) | `flag[2]`, `turn`, `shared_data` | entry and exit section | two threads | plain variables: a data race in C++ | mutual exclusion, progress |
| `ProducerConsumer` (Lab5) | ring buffer, `in`, `out`, `count`, two condition variables, `done` | `producer`, `consumer` | four threads | lost wakeups, overtaking, wrap-around, `done` set after the joins | the ring is a FIFO queue, nobody sleeps with work to do, the demonstration ends |
| `Monitor`, `ResourceAllocator` (Lab5) | `monitor_mutex`, `condition_x`, `x_count`, `busy` | `execute`, `wait_x`, `signal_x` | several processes | `wait_x` and `signal_x` lock a mutex that `execute` holds | one process uses the resource at a time, all finish (they do not: see 6) |
| philosophers (Lab5, Lab3 `Advanced4`), deadlock (Lab6), prevention (Lab7) | mutexes | `lock`, `unlock`, `std::lock` | threads that hold one mutex and want another | circular wait; a mutex that its own thread locks again | no reachable state in which nobody can move |
| thread pool (Lab3 `Advanced5`) | `tasks`, `mtx`, `cv`, `done` | `worker`, pushing, the end | three workers and main | `done` is tested and stored without the mutex; one notification per task | no task is lost, the pool ends |
| starvation (Lab6) | `resource_mutex`, `request_queue`, `cv` | `process` | five threads | who is first in the queue is not who waited longest | every process is served; nobody is overtaken (they may be: see 6) |
| readers and writers, bounded buffer (Lab3 `Advanced3`, `2`) | a number, a queue | read, write; put, get | threads | wakeups | not modelled |
| `ThreadScheduler` (Lab4) | priority queue, `queue_mutex`, `cv`, atomics `running`, `submitted_threads`, `completed_threads` | `addThread`, `scheduler`, `stop`, `waitForCompletion` | main and the scheduler thread | counters and flag are read without the mutex; `stop` notifies without it | each thread is executed once, completion is not announced early, the scheduler ends |
| `MultiProcessorScheduler`, `CPUCore` (Lab4) | a queue per core, a global queue, atomics | `addTask`, `cpuScheduler`, `workStealing`, `executeTask`, `loadBalancer`, `waitForCompletion`, `stop` | a thread per core, the balancer, main | sizes of queues are stale when acted on; tasks in flight between queues; counters that lag | each task is executed once, completion is not announced early, all threads end |

### Sequential programs

| component | state | operations | what is hard | what makes it correct |
|---|---|---|---|---|
| banker (Lab7) | `available`, `maximum`, `allocation` | `isSafeState`, `requestResources` | rollback; long sequences of requests; the rounds of the search | resources are conserved, the state stays safe, printed sequences are safe |
| deadlock detector (Lab7) | the wait-for graph; `visited`, `recStack`, `cycle` of a search | `addWaitEdge`, `removeWaitEdge`, `detectDeadlock` | marks shared by all roots, trimming of the path | a reported cycle is one, none is missed |
| page replacement, working set (Lab8, Lab9) | frames, queues, time stamps | one reference | two copies of one thing; ties; look-ahead | FIFO is FIFO, LRU is LRU, optimal is optimal |
| TLBs (Lab8, Lab9) | a list, a map into it, a page table | `lookup`, `insert`, `translateAddress`; `access` | map and list must agree | the entries used last, each with the frame of its page |
| CPU scheduling (Lab4) | process table, clock, queues | FCFS, SJF, SRTF, round robin, priority | ties, idle times, arrivals during a slice, burst time 0 | the times are those of one busy CPU; nobody waits longer than the policy allows; all complete |
| contiguous allocation (Lab8) | the list of blocks | first, best, worst fit; `deallocate` with merging | splits and merges in any order | blocks in use are disjoint; a request fails only if nothing is long enough |
| buddy system (Lab8) | a free list per size, all blocks, pointers of the clients | `allocate`, `splitBlock`, `deallocate`, `coalesce` | chains of merges, pointers that outlive blocks | the same, and no block is handed out twice (it may be: see 6) |
| buddy allocator (Lab9) | a free list per order, the allocated addresses | `allocate`, `deallocate` | the search for a block | the same, and the search ends (it may not: see 6) |
| page table, segment table (Lab8) | page to frame; segment to base and limit | the constructor, `addSegment`, `addSegmentAuto`, `translateAddress` | random frames, overlapping segments, limits | no two logical addresses share a physical one |
| the rest (NUMA table, metrics, I/O devices, files, `fork`) | none or a flag | | | pure arithmetic, output and system calls |

Nothing here is persisted and nothing goes over a network: there are no crashes
to recover from and no messages to lose.  What is hard is concurrency (about
half of the programs) and long sequences of legal calls (the other half).
`PROJECT.json` lists the hazards one by one with their lines.

## 2. The modules

| module | models | abstract specification, composition |
|---|---|---|
| `Semaphore` | Lab5 `Semaphore` and the threads of `SemaphoreDemo` | implements `CountingSemaphore` |
| `SharedCounter` | the counters of Lab5 and Lab3 | history `due`: the number if updates were atomic |
| `MutexPrograms` | threads that execute sequences of `lock`, `unlock` and `std::lock` | programs from `LabMutexPrograms` |
| `LabMutexPrograms` | the sequences of calls of the philosophers (Lab5, Lab3), of Lab6 and of Lab7 | |
| `ProducerConsumer` | Lab5 `ProducerConsumer` | implements `BoundedFIFO` |
| `ThreadScheduler` | Lab4 `ThreadScheduler`, and main | |
| `MultiProcessor` | Lab4 `MultiProcessorScheduler`, `CPUCore`, and main | |
| `Banker` | Lab7 `BankersAlgorithm` | safety stated by orders in which processes finish |
| `DeadlockDetector` | Lab7 `DeadlockDetector`, and main's recovery | |
| `PageReplacement` | Lab8 FIFO; Lab9 FIFO, LRU, optimal, working set | |
| `TLB` | Lab8 `TLB` and `MemorySystem`; Lab9 `TLB` | |
| `Paging` | the last two on one reference string | composes `PageReplacement` and `TLB` |
| `Peterson` | Lab5 `PetersonSolution` | |
| `ResourceMonitor` | Lab5 `Monitor` and `ResourceAllocator` | |
| `ThreadPool` | Lab3 `Advanced5` | |
| `RequestQueue` | Lab6 `starvation` | |
| `CPUScheduling` | Lab4 `complete-scheduling-algorithms` | |
| `ContiguousMemory` | Lab8 `MemoryManager` | implements `Allocator` |
| `BuddySystem` | Lab8 `BuddySystem` | |
| `BuddyAllocator` | Lab9 `BuddyAllocator` | implements `Allocator` |
| `AddressTranslation` | Lab8 `PageTable` and `SegmentationSystem` | |
| `Memory` | the programs of Lab8 and Lab9 side by side | composes `Paging`, the allocators and `AddressTranslation`; states the refinements of `Allocator` |

`MC*` modules give the constants small values; `*_proofs` modules hold the
theorems.  Three modules put programs side by side that do not call each
other, `MCDemonstrations` (threads), `MCDeadlock` (Lab7) and `Memory` (Lab8,
Lab9): a variable that the initial state sets picks one program, which then runs
alone while the variables of the others keep their values.  That is the sum of
the programs, not their product; it keeps one run per subject.  A definition has the name of the function or variable it translates
where there is one; the others are traced to lines by the `map` of
`PROJECT.json`.

Conventions, and what they rest on:

* **A critical section is one step, or two.**  What a thread does under a mutex
  is invisible to others until it unlocks.  A section that does not wait is one
  step (`AddThread`, `TakeLocal`); where the order in which threads get the
  mutex matters (`Semaphore`, `ProducerConsumer`), taking it is a step of its
  own.  Accesses to atomics outside a critical section are steps of their own.
* **A condition variable is the set of threads whose `pc` is "waiting".**
  `notify_one` moves any one of them to "woken", `notify_all` all of them; a
  woken thread competes for the mutex and tests its predicate again.  Spurious
  wakeups are an action.  Testing the predicate and blocking are one step when
  the predicate only depends on what the mutex protects; in `ThreadScheduler` it
  also reads the atomic `running`, so testing (`TestPredicate`) and blocking
  (`Block`) are two.
* **A plain variable that threads race on** (Lab5 `shared_counter`, line 66) is
  loaded and stored in separate steps, and the compiler may keep it in a
  register for several rounds: `StoreRacing` stores after any number of them.
* **Relocking a `std::mutex`** is undefined behavior; with glibc the thread
  blocks for ever, and so it does in `MutexPrograms`.
* **A plain variable that threads race on, as a lock** (`Peterson`): the initial
  state picks a build.  "in_order" is what the source says; in "buffered" stores
  wait in a queue per thread and later loads pass them, as x86 does; in "hoisted"
  the compiler has moved the reads of the waiting loop in front of it, as it may,
  since nothing in the loop synchronizes.
* **Undefined behavior that needs a pointer to outlive its object**
  (`BuddySystem`) ends the model: `Dangling` disables every action, and a property
  says in which states that can happen.  A loop that does not end is an action
  after which its program does nothing more (`SearchForEver`, `DrawForEver`).
* **Time and output** are left out, except the clock of `CPUScheduling`.  A sleep is an interval in which
  any other thread may run, which every step is anyway.
* **Loops of sequential code** are steps where states in between are of interest
  (the calls of `hasCycleDFS`), and operators where they are not (the rounds of
  `isSafeState`, `predict`).

Notes on single modules:

* `Semaphore`: `Lock`, `BeginAcquire`, `Relock`, `BeginRelease` take the mutex;
  `TakePermit`, `Block`, `TryAcquire`, `Release` are the bodies with the unlock.
  No program calls `try_acquire`; the class offers it, and each thread of the
  model may call it in place of `acquire`.
* `SharedCounter`: the initial state chooses a demonstration: discipline, start
  value, what each thread adds.  The bank account is the mutex discipline where
  one thread adds a negative amount and `Updated` refuses to overdraw.
* `MutexPrograms`: `LockFirst` and `TryOther` are the two halves of `std::lock`
  as libstdc++ does it.  The older version always starts with the first mutex,
  the newer one with the one that was taken; the model allows both.
* `ThreadScheduler`: `queue_mutex` is shown as held only over the steps of the
  scheduler; the critical section of main is one step that needs it free.
* `MultiProcessor`: each queue operation is a step, and so is each
  `getQueueSize` of `workStealing` and `loadBalancer`; their locals (`look`,
  `balance`) carry what was read to where it is used.  `is_busy` and `load` are
  written and displayed, never tested, and are left out.  main gives every third
  task an affinity; as tasks without one go to a queue of their own, several
  tasks may crowd one core, which is the case the run sets up.  `executed` is a
  history variable.
* `Banker`: `scenario` keeps the initial matrices, for `Conserved` and
  `StaysSafe`.  `isSafeState` iterates `Round`, and a round `Visit`.
  The setters of the class are called before everything else and make up the
  initial states.
* `DeadlockDetector`: `cycle` is the call stack as well: the code pushes a node
  when a call begins and pops it when it returns.  `passed[p]` holds the
  neighbors the call for `p` is done with; as the order of an adjacency list
  carries no meaning, the next neighbor is any that is left.
* `PageReplacement`, `TLB`, `Paging`: all simulators make one reference per step,
  on one string, so that they can be compared.
* `ResourceMonitor`: what comes after the calls of `wait_x` and `signal_x` is not in
  the model, because these calls do not return.
* `ThreadPool`: `TestDone` is the test at the top of the loop, without the mutex.
  Evaluating the predicate and blocking are two steps, as in `ThreadScheduler`.
  `missed` remembers who stood between them when main notified at the end.
* `RequestQueue`: a process pops itself, uses the resource and notifies under one
  lock of the mutex; the wait, with its test, is modelled in full to show that it
  never blocks.
* `CPUScheduling`: a step is one iteration of a policy's loop; the policies run
  one after the other on fresh copies, and `results` keeps their completion times.
  `std::sort` may produce any order of equal arrivals.  `Tick` advances the clock
  only while somebody is still to come; SRTF with a burst time of 0 counts on for
  ever, and the model stops there, with the policies after it never run.
* `ContiguousMemory`: the program makes one manager per policy; the model has one
  whose calls may mix the policies, which covers all three.  Sizes are positive.
  What a call asked for in vain (`unplaced`) is read off the history.
* `BuddySystem`: a block stands for its heap object, since no two existing blocks
  have the same address and size.  `splitBlock` and `coalesce` recurse from size to
  size and always reach a fixed end; each is one definition that says what is in
  the lists then.  Each client keeps one pointer, as main's locals do, and forgets
  it when it frees.
* The last call of `MemoryManager` and of the Lab9 `BuddyAllocator` is kept, with its
  process or address, its size and its answer (`fitCall`, `labCall`): no guard looks at
  these histories, they are what `Allocator` is told of the calls.
* `AddressTranslation`: main lets no negative address through to the page table (the
  class itself would accept -1023 to -1, which the division rounds to page 0).
  `addSegment` has no caller; the class offers it.

## 3. The runs

| run | instance | shows |
|---|---|---|
| `semaphore` | 5 threads, 3 permits, the numbers of the source | `NoLostWakeup`, refinement of the counting semaphore, all processes complete |
| `shared_counter` | 2 threads, 3 rounds, 5 demonstrations | `Exclusive`, `NothingLost` under the three disciplines, `RaceBounds` without one, everyone finishes |
| `demonstrations` | 4 philosophers of Lab5 or Lab3 with 2 meals each, the threads of Lab6; 2 iterations of Peterson; 3 users of the monitor; 2 workers, 3 tasks; 4 processes behind a queue | locks: the disciplined never deadlock, philosophers finish; `PetersonExcludes`, `PoolLosesNothing`, `QueueNeverDecides`; `DemosEnd`: how each of the others ends |
| `mutex_prevention` | 3 threads, 3 resources, as in the source | *violated*: the program never completes |
| `producer_consumer` | 2 producers, 2 consumers, 2 slots, 3 rounds each | the ring is a FIFO queue, no lost wakeup, the end is reached |
| `thread_scheduler` | the 4 submissions of main | `Accounting`, `CompletionMeansIdle`, all executed, `StopHeard` |
| `thread_scheduler_stop` | the same | *violated*: the scheduler may miss `stop()` |
| `multi_processor` | 2 cores, 4 tasks, threshold 2 | each task in one place until executed, no early completion, all threads end |
| `deadlock` | banker: 3 processes, 3 + 1 units, all allocations, claims and requests; detector: all graphs of 4 processes with up to 6 edges | conservation, safety is kept, printed sequences are safe; soundness and completeness of the search, before and after the recovery |
| `banker_safe_state` | the matrices of main | *violated*: a safe state is called unsafe |
| `memory` | paging: 3 frames, TLBs of 2 and 3 entries, all strings of 9 references to 5 pages, and the string of the programs; allocators: 7 or 8 units; 4 pages on 3 frames; 2 segments | both FIFOs agree, the LRUs keep the latest pages, optimal is optimal; `ImplementsAllocator`, when each allocator may refuse (`FailsOnlyIfNothingFits`, `RefusesOnlyWithoutBlock`), `SharedOnlyIfRemade`, `NoAliasing` |
| `cpu_scheduling` | the table of main, and 729 tables of three processes; quantum 2 | `SchedulesAreReal`, `SRTFWaitsLeast`, `TurnWithin`, and main ends unless some burst time is 0 |

What the properties about memory and scheduling say:

* `ImplementsAllocator`: first, best and worst fit, and the allocator of Lab9,
  refine `Allocator`, in which each call has a handle (the process, or the address), a
  size and an answer.  A granted block is as large as the call asked for, inside the
  memory and apart from all blocks in use; a deallocation takes back all that its handle
  holds and nothing of anybody else; calls that fail change nothing in use.  One mutant
  splits blocks too closely, the other frees the blocks of all processes.  The buddy
  system of Lab8 does not, because of its double
  entries; what it does instead is the next property.
* `SharedOnlyIfRemade`: two clients hold the same memory, or a pointer outlives its
  block, only if that block is the end of a chain of merges, which `coalesce` lists
  twice; and only who asks for more than there is gets less.
* `FailsOnlyIfNothingFits`, `RefusesOnlyWithoutBlock`: a request fails only if nothing
  long enough is free: no two free blocks stay side by side, free buddies always
  merge.  Lab9 merges nothing, so there a block that has been split counts as gone.
* `SchedulesAreReal` states what one CPU could have done, without saying how: no
  interval holds more work than it is long, and the last process ends when the work
  done without a break does.  It is the same statement for five policies.
* `SRTFWaitsLeast` compares with the other four, and `TurnWithin` bounds the wait of
  each process in round robin by one quantum per other process.

The type invariants (`TypeOK` and the like) are stated in the modules as the
description of their state; those of the modules with proofs are theorems.

Why the bounds are enough to meet the interesting cases:

* *semaphore*: more threads than permits by two, so two can wait while others
  release and newcomers overtake; at least two releases can come before the
  first woken thread runs.
* *shared_counter*: three rounds are the first number at which the minimum of the
  race (2) differs from the number of rounds.  The account starts below one
  withdrawal, so withdrawals are refused.
* *demonstrations*: with four on a ring non-neighbors exist, and two meals bring
  each back to forks that have been given back; the mutant that drops the
  ordering of Lab5 needs all four to deadlock.  Two iterations let a process of
  Peterson's algorithm come back while the other has not left.  Three tasks for two
  workers: tasks wait for workers and workers for tasks.
* *producer_consumer*: four threads on two slots: both kinds can sleep two at a
  time, and six items wrap the ring three times.
* *multi_processor*: queues of 3 and 0 are the smallest that differ by more than
  the threshold, so three tasks go to core 0, and the fourth to each place it
  can go to.  Stealing and migration both happen, and race.
* *deadlock*: two resources can block independently; three processes give safe
  states with one, two and six safe orders, and unsafe ones.  A path into a loop of
  two or three, two separate loops, a loop that a recovery does not break: all need
  at most four nodes and six edges.
* *memory*: five pages on three frames; nine references suffice to fill, evict,
  and come back to evicted pages.  Page numbers are only compared for equality,
  so one string stands for all its renamings.  Seven units are no power of two, so
  that the fits leave odd holes; eight units give buddies of three generations, and
  three clients fill, free and merge them in every order.
* *cpu_scheduling*: arrivals at 0, 1 and 4 are together, during a slice, or after a
  pause; bursts of 0, 1 and 3 are nothing, less than a quantum, or two slices.

Deadlock is checked except in `demonstrations` (Lab6 deadlocks on purpose, the
monitor by mistake), `memory` and `cpu_scheduling` (a search without end, a
dangling pointer, a clock without end), the two runs of `ThreadScheduler`, where a
missed `stop()` leaves everyone waiting, and `mutex_prevention`.  Programs that end stutter in an action of their own (`Joined`,
`Completed`, `Ended`), so TLC tells ending from getting stuck.

Every property has a mutant in `PROJECT.json`: a form of one operation as a
plausible mistake would have it, with which the property fails.

## 4. Fairness

* `WF_vars(Step(t))` for each thread: a thread that can go on for ever does go
  on.  The operating system schedules every runnable thread; nothing more is
  assumed.  No strong fairness: a mutex may be given to newcomers each time.
  The liveness properties still hold because threads make a bounded number of
  rounds (philosophers, producers, processes) or stop competing when there is
  nothing to do (scheduler).
* `<>[][~SpuriousWakeup]_vars`, and the same for spurious failures of
  `compare_exchange_weak`: they may happen any number of times, and come to an
  end.  Without it a thread could be woken and put to sleep for ever while it
  keeps others from the mutex, which no implementation does.
* Sleeps and polls get no fairness of their own: they are part of the thread.
* `Peterson`: a store that is delayed reaches memory some time (`WF` of `Drain`).
  Nothing is assumed of a compiler that has hoisted the reads of the loop.
* `CPUScheduling` is sequential: `WF` of its next step.

## 5. The proofs

All are checked by TLAPS from the assumptions that the modules name: threads are
a finite set without `NoThread`, numbers are natural, programs are sequences of
instructions.  None bounds a number.

**`Semaphore_proofs`.**  `TypeOK` is inductive by itself (the count is only
decremented when positive).  `StepRefines`: a step that takes or gives a permit is
a `Take` or `Give` of `CountingSemaphore`, every other leaves `count` and `Holders`
alone; with it `ImplementationCorrect`, and `PermitsConserved` follows because
`Take` and `Give` move one thread in or out of `Holders`.  `NoLostWakeup` is
inductive given `TypeOK`: a release that finds a waiter adds one to the count and
one to the woken, a thread goes to sleep only when the count is zero, and a woken
thread leaves the woken with a permit or with the count at zero, so a woken thread
that is overtaken does no harm.

**`SharedCounter_proofs`.**  The invariant adds to `TypeOK`, `Exclusive` and
`NothingLost` that a thread between load and store of a locked section has the
current number in its register (`Fresh`), and that it has a round left to make.
For compare-and-swap the guard of the swap says what `Fresh` says.  `RaceBounds`, of
the counter without a lock, needs what a thread between load and store has in its
register (`Racing`): never more than is due, and a positive number once it has stored
itself; so the store that ends its last round, after the first, leaves 2 or more.

**`ThreadScheduler_proofs`.**  The invariant adds to the three properties that what
is queued has been submitted (so that a submission is new to the queue), that
`current` is set exactly while it executes, and how far main is with its
submissions, by its `pc`.

**`ProducerConsumer_proofs`.**  `IInv` adds to the types that the thread in its round
owns the mutex, that `in` is where `out` gets by `count` steps around the ring
(`RingInv`), and that nobody moves after `done`.  `RingIsFIFO`: so a producer stores
its item right behind the content, and one that takes drops its first; all other
steps leave the content alone.  No arithmetic but one wrap is needed, for any size.
`WakeupsSuffice` looks at each group apart (`Enough`): a thread goes to sleep only when
there is nothing for it; one that takes leaves both sides one less; and a round that
adds something finds nobody asleep or adds one to those on their way.

**`Scheduling_proofs`.**  `PlaceInv`: a task that was added and has not run is in
one place, a queue, the hands of a core or of the balancer, and there once; a step
takes it from one place and puts it in another (`Moved`, `Put`, `Removed`).  `PcInv` and
`BalanceInv` say what the locals mean at each `pc`: before the balancer's first look its
minimum lies above every queue, so it migrates between two cores it has seen.
`CountInv`: `active_tasks` is what main has counted less what has run, so it is negative
while a task runs that main has still to count, and `completed_tasks` lags by the cores
between running and counting.  When main sees them in balance everything has run,
which is `CompletionMeansExecuted`.
*The policies of `CPUScheduling`*, for any table of processes and any quantum.
`Slice` is what all five have in common: a step serves a process that waits, from now
or, if nobody has come, from the next arrival on.  `WorkInv` follows a `Slice`
whoever it serves: the work done for those who came from `a` on fits into the time
since `a`, it fitted when each of them completed, and the CPU has either been busy
since some arrival (`BusySince`) or waits for the next (`IdleNow`).  Once all have
completed, it has been busy since some arrival, so the last completion is where the work
done without a break ends (`EndIsReal`).  `PolicyInv` has what single policies add: FCFS
goes along the arrival order, and SRTF completes nobody whose burst time is 0.  For
round robin `Turn` says what a slice does to the queue, and `QueueInv` is the
induction: who has `i - 1` others ahead of him has waited at most `N - i` quanta, so
`TurnWithin` is the case of the first.  Sums over sets are handled by induction over
finite sets, stated for a set of sets (`FiniteInduction`, `Total`).

**`Deadlock_proofs`.**  The two programs of Lab7.
*The banker*, for all matrices.  `Sound` says where a search stands: the sequence
lists the finished processes, each once; what there is to work with is what was
available and what they held (`Held`); and they can finish in that order.  A `Visit`
keeps it, hence a `Round`, hence all rounds of `isSafeState`; a round that finds
something makes the sequence longer, so after `NumCustomers` of them it names
everybody (`RoundGrows`, `FullSequence`).  `SequenceIsSafe` follows, and with it
`StaysSafe`: a request is granted with such a sequence, and a denial changes nothing
(`HeldChanges` gives `Conserved`).  `Held`, `Round` and `isSafeState` are recursive
functions on `0..NumCustomers`.  That they are what their equations say
(`IterationExists`), and what holds for all their values, is proved by induction over
the numbers, stated for a set rather than a predicate (`SetInduction`,
`BoundedInduction`).
*The detector*: the depth-first search, for every graph of any size
and every order of neighbors.  While it runs `SearchInv` holds:
`PathInv` (`cycle` names the calls in progress, each once, follows edges, and
`recStack` is its set of nodes), `PassedInv` (the neighbors a call is done with have
returned, but for the one whose call is next on the path), `ReturnedInv` (what a
returned process waits for has returned, and there is no cycle among the
returned), `RootsInv` (processes below `i` are visited).  Soundness follows from
the path: a neighbor on it closes a loop.  For completeness, a process that returns
joins a set it has edges into and that has none back to it; at the end every
process is visited and none is on the path, so all have returned.
"No cycle" is stated as "no non-empty set in which everyone waits for a member",
which is the same for finite graphs and needs no induction over paths.

**`Demonstrations_proofs`.**  Four of the programs that `MCDemonstrations` runs.
*The locking programs*: `HoldsWhatItLocked` is inductive: the mutexes a
thread owns are what its program has locked and not unlocked up to `pc`, plus
what `std::lock` holds tentatively.  `NoDeadlock` uses no induction over cycles:
suppose nobody can move.  Each unfinished thread waits for a mutex that someone
owns; the owner is unfinished (a disciplined program ends with nothing), blocked,
not in the middle of `std::lock` (that step is always enabled), and not at the
start of one (it would hold nothing), so it waits in `lock` for a mutex *greater*
than those it holds.  Take the greatest mutex that is waited for: its owner waits
for a greater one.  `DiningDisciplined` shows that the meal of Lab5 follows the
discipline for every number of philosophers from 2 on.
*The request queue*: whoever is between lock and unlock owns the mutex, and the queue
holds him while he tests and nobody otherwise; so he is its first, and nobody waits.
*Peterson's lock*, in the builds that delay no store: the flag of a process is up from
its announcement to its leaving, and who is inside has the turn unless its peer has
still to give it away (`PetersonLock`); two insiders would both have the turn.
`PetersonData` counts the updates from `left`, and needs the exclusion for the value
between load and store to stay current.  With buffered stores both processes can read
the other's flag before its announcement is in memory, and the statement leaves that
build out.
*The thread pool*: the mutex keeps the queue empty between the test of a worker
and its falling asleep (`PoolMutex`), so a worker joins the sleepers only when no task
is queued, and each task that is added while some sleep wakes one of them; the other
steps move a task from one place to the next.  Workers are a finite set.

**`Memory_proofs`.**  The programs that `Memory` runs, each with an invariant
of its own; `ProgramSteps` says that a step of the composition is one of the program
that runs.
*The FIFOs* (`FIFOBooks`): the queue of Lab9 names each used frame once, the frames
used are the first ones, and no page is in two frames; so the page at the head of the
Lab8 queue is the one in the frame that is overwritten.
*The LRUs and the TLBs* (`LRUInv`): a list is ordered by last use, and what is not in it
was never used or is older than all of a full list (`Keeps`); the frames are stamped with
the last use of their page (`FramesKeep`).  From either it follows by counting that what
is kept is the latest (`TheLatest`): a page that is kept has fewer than `n` pages after
it, one that is not has `n`.  The working set is among them, as the pages after one of
its pages have different last uses inside the window (`WorkingSetKept`).
*MemoryManager* (`FitInv`): the blocks tile the memory (`Tiles`: each begins where the
one before ends, and together they cover every unit), no two free ones are side by
side, and what failed last fits in no hole.  A split puts a block in between
(`SplitTiles`); a merge is a recursive function over the blocks, and `MergeTiles` goes
along it with `MergedInv`: what is merged so far tiles the memory up to where it got.
`FailsOnlyWithoutRun` follows because a run of free units that crosses from one block into the next
would cross from a free block into a free one.  The steps of the refinement are one
lemma per call, such as `AllocateGrants` and `DeallocateReclaims`: the blocks in use
before and after differ by the block that is granted, or by those of the process that
calls.
*BuddyAllocator* (`LabInv`): free and allocated blocks are pairwise apart and inside the
memory.  The halves that a split leaves over lie between the block that is taken and
its end (`SplitPieces`, `Inside`), for which the proof only needs that 2^(k+1) is twice
2^k; that comes from counting subsets, as the provers know nothing of powers.
`SearchInv` adds that each block starts at a multiple of its size and that every unit is
in some block: so a place of the size that is searched for is met by an allocated block,
or contains a smaller free one (a larger or equal one would have ended the search).
*BuddySystem* (`BuddyInv`).  Existing blocks start at multiples of their sizes, which
are powers of two, and tile the memory; every one of them is in its list or with a
client; it is in one place only, unless a chain of merges has made it; and of two buddies
one is with a client.  What a pointer leads to exists or was made by merges, so whatever
dangles was listed twice (`SharingExplained`).  A refused request with a
free place of its size would have all blocks in that place free; the smallest of
them has its buddy in the place, of the same size and free as well, which `BuddyInv`
excludes (`RefusalsJustified`).  Most of the work is geometry: of two such blocks that
meet one contains the other (`AlignedNest`), a block and its buddy are the halves of the block
twice as large (`BuddiesAreHalves`), so the blocks that a chain of merges removes fill
exactly the one that it makes, and the upper halves of a split fill the rest of the
block.
*PageTable and SegmentationSystem* (`TableInv`, `SegmentInv`): the frames of the table
are the used ones, each for one page, and a physical address has one frame and one
offset (`FrameAndOffset`); the segments placed automatically end below
`nextAvailableAddress` and are pairwise apart.

Model-checked only:

* all liveness properties (fairness is out of the prover's reach);
* `OptimalIsOptimal`, which compares with the best of all choices of victims (the
  recursive operator `Fewest` of `MCPaging`), and `SRTFWaitsLeast`: both are exchange
  arguments, which transform one whole schedule into another.  Their statements are
  inductions over strings or tables, for which the library's theorems take a
  predicate that no installed prover can instantiate.  Recursive *functions* on
  numbers are within reach, by the induction over sets of `Deadlock_proofs` and
  `Memory_proofs`; that is why `InOrder`, `Removed` and `mergeAdjacentFreeBlocks`
  are written as such;
* how each of the smaller demonstrations ends (`DemosEnd`) and the monitor that blocks on
  itself, which are liveness properties.

## 6. Where code and claim differ

1. **`stop()` may be missed** (`Lab4/thread-scheduling-simulation.cpp:110`, run
   `thread_scheduler_stop`).  The flag is stored and notified without the mutex,
   so both can fall between the scheduler's test and its wait; `join` then hangs.
   `StopHeard` shows that this is the only window.
2. **The prevention program deadlocks** (`Lab7/deadlock-prevention.cpp:9`, run
   `mutex_prevention`).  Each thread locks again what `std::lock` has just
   locked; "Program completed successfully!" is never printed.
3. **A safe state is called unsafe** (`Lab7/deadlock-avoidance.cpp:82`, run
   `banker_safe_state`).  The search goes on for `numProcesses` rounds and fails
   on the first that finds nothing, even if every process has finished before.
   main's own example is not reported safe.  The error is on the safe side:
   `StaysSafe` and `SequenceIsSafe` hold.

More that the models show, without a run of its own:

4. **The monitor blocks on itself** (`Lab5/synchronization_tools.cpp:434`,
   `DemosEnd`).  `execute` holds `monitor_mutex`, `release` calls `signal_x`, which
   locks it again.  In every behavior the demonstration ends with a thread that
   waits for itself, so main of Lab5 never gets to the philosophers.
5. **Peterson prints FAILED when it works** (`:133` and `:143`,
   `PetersonExcludes`): `shared_data` starts at 1 and is compared with
   `2 * ITERATIONS`.  With delayed stores both processes may be inside, and with
   hoisted reads a process may spin for ever.
6. **The thread pool may miss its end** (`Lab3/Advanced5.cpp:43`): the same window as
   in 1; `DemosEnd` shows that it is the only one.  Tasks may be left in the queue,
   which the sleep of one second before makes unlikely.
7. **The queue of starvation.cpp decides nothing** (`:20`, `QueueNeverDecides`): a
   process that has locked the mutex finds the queue empty, is its own first, and
   never waits.  Who is served next is up to the mutex, which promises no order.
8. **The buddy system of Lab8 lists merged blocks twice**
   (`memory_allocation_with_buddy.cpp:197` and `:210`, `SharedOnlyIfRemade`).  main
   itself ends with its 1024 KB block listed twice.  The next two requests could get
   the same block, or a block that has been deleted.
9. **The maximum of that system is never exceeded** (`:35` and `:116`): a request for
   more than 1024 KB is rounded *down* and granted.
10. **The allocator of Lab9 never fails** (`Buddy_system_simulator.cpp:39`): without a
    free block the search goes up the orders until memory runs out; "Allocation
    failed" is not printed in any behavior.
11. **The page table of Lab8 is hardly ever finished**
    (`address_translation_simulator.cpp:27-32`): about 48 of 64 pages want one of 32
    frames, and the draw for the 33rd does not end.
12. **A burst time of 0 keeps SRTF counting** (`complete-scheduling-algorithms.cpp:140`,
    `EndsUnlessEmptyBurst`); the other four policies would cope with it.

## 7. What is not modelled

* Arithmetic or output: `basic-process-structure`, `performance-metrics-calculator`,
  `virtual_memory_address_calculator`, `NUMAScheduler`, `Page_table_simulation` (Lab9;
  a look-up in a table that main has filled), `memory_map_file_simulator` (Lab9; a set
  of pages that have been read).
* Calls of the operating system (Lab2, Lab11, Lab12), text (Lab1, Lab10, Lab13).
* Lab3 `Practice1` and `Practice2` start and join threads.  `Advanced2` is
  `ProducerConsumer` with one producer, one consumer and an unbounded queue, where one
  condition variable is enough.  `Advanced3` takes a `std::shared_mutex` around one
  number: a model would only be a model of that lock.
* `TLB::reset` and the update branch of `TLB::insert` are not reached by any caller.
* Frames are at least 1: what `front()` of an empty queue returns in the FIFO of Lab8
  with 0 frames is undefined.  Sizes and times are small numbers: no sum in these
  programs comes near the limits of `int`.

### What could come next

Every safety property that a run checks is a theorem, except `OptimalIsOptimal`
and `SRTFWaitsLeast`.  For these two the step to take is a model in which the schedule that is
compared with runs beside the simulator, so that the exchange becomes a step-by-step
invariant; as stated, over all schedules of a whole string or table, they are for TLC.
