# eventhub_os in TLA+

eventhub_os is an event-driven operating system of cooperative tasks in C, for
microcontrollers and desktop systems. This directory holds its specification in
TLA+: models of its components translated from the source, instances that TLC
checks exhaustively, and proofs that TLAPS checks. Paths below are relative to
the repository.

## The system

One kernel thread executes every task. A task gives up the processor only
inside `eh_task_next`, which it enters by yielding, by ending, or from the loop
of a wait. Interrupts and other threads run at any time; they share the state
of the kernel only inside critical sections (`eh_enter_critical`), which is a
recursive lock on desktop systems and a mask of interrupts on microcontrollers.

| Component | Source (under `src/src`) | State | Operations | Correct when |
| --- | --- | --- | --- | --- |
| Scheduler | `eh_core.c` | task states, ready ring, wait list, finish lists, poll tasks, dispatch count | create, yield, exit, join, wake up, `eh_task_next`, `eh_poll` | a task is in the list of its state; turns are kept; a finished task is freed once, off its stack; polls go on |
| Events | `eh_event.c` 24-249 | receptors linked in an event, their marks | wait, notify, notify and reorder, clean | no lost wake-up, no dangling receptor, errors reach every waiter |
| Semaphores | `eh_sem.c` | two wrapping counters | create, destroy, wait, post | counts; a token never stays with sleeping waiters |
| Mutexes | `eh_mutex.c` | lock count, holder, type | create, destroy, lock, unlock | exclusion; a free mutex never stays with sleeping waiters |
| Timers | `eh_timer.c` | tree ordered by remaining time, clock | start, stop, restart, check | fire in order, once per period, never too early |
| Epoll | `eh_event.c` 251-493 | tree of receptors, pending list, waiting task | add, delete, wait | pending exactly what is marked; no event lost |
| Event flags | `eh_event_flags.c` | bits | set, clear, update, wait | no set or cleared bit lost, no waiter stranded |
| Event callbacks | `eh_event_cb.c`, `eh_signal.h` | triggers with two reference counts, an epoll per task | connect, disconnect, clean, loop, quit | each event reaches the loop; nothing used after it is freed |
| Sleep | `eh_sleep.c` | a timer on the stack | sleep | wakes up after its time |
| Heap, pool | `eh_mem.c`, `eh_mem_pool.c` | free list, accounting | malloc, free | blocks disjoint, joined again, accounting exact |
| Ring buffer | `general/eh_ringbuf.c` | two indices modulo twice the size | read, write, peek, clear | a queue, for one reader and one writer without a lock |
| Hash table | `general/eh_hashtbl.c` | buckets, filled on the first look | insert, find, remove, refresh | a map |
| Red-black tree | `general/eh_rbtree.c` | nodes with colours, first node | add, delete, find, walk | an ordered multiset that keeps the order of insertion |
| Lists | `general/include/eh_list.h`, `eh_llist.*` | linked nodes | add, delete, move, splice, safe walks | sequences; walks meet what they set out to |
| Life cycle | `eh_core.c` 352-450 | modules in section order | init, exit | roll-back in reverse order; a second life starts clean |
| Platforms | `platform/*` | idle flag, break event | idle, break, critical section | a wake-up ends the idle wait |
| Coroutine contexts | `coroutine/*` | registers, stacks | make, swap | a task finds its registers and stack as it left them |
| Formatted output | `general/eh_formatio.c` | stream position, cache | printf family, streams | text of the argument; nothing lost between cache and function |

How they interact: a wait links a receptor into an event and calls
`eh_task_next`; a notifier walks the receptors and calls `eh_task_wake_up`; the
timer check inside `eh_poll` notifies the events of timers; semaphores, mutexes,
flags and joins are waits with a condition; epoll is a receptor with a list of
its own; callbacks are a loop around epoll; the idle handler of the platform is
called by `eh_poll` and is broken by wake-ups and timers; `eh_task_next` ends in
`co_context_swap` of the port.

What is hard: wake-ups that come between the decision to sleep and the swap;
several waiters of one event of which one is served; memory of tasks and
receptors (on the stacks of tasks) that must not be referred to once it has
been left; slots that change the structure that is calling them; timeouts
against notifications; counters and clocks that wrap; polling that depends on
counting dispatches; idle waits armed before the last wake-up; structures that
are repaired in several steps. `PROJECT.json` lists these hazards line by line.

## The modules

Tasks, events and what waits on them:

* `EhSched` models the scheduler. `state`, `waitList`, `finishList`, `autoList`
  are the task states and lists of `struct eh`; `ring` is the circular ready
  list from the current task onwards; `autoPoll` says whether
  `auto_destruct_task` is linked as a poll task; `fresh` holds the tasks whose
  context has not been entered; `tick` is `dispatch_cnt` modulo
  `EH_CONFIG_TASK_DISPATCH_CNT_PER_POLL`; `phase` is the position of the kernel
  thread. `eh_task_next` is the actions `NextPoll`, `NextNoPoll`, `AutoDestruct`,
  `AutoDestructEnd`, `PollReturn`, `EnterIdle`, `IdleReturn`, `Switch`, each at
  most one critical section; `WakeUp`, enabled between any two of them, is
  `eh_task_wake_up` in an interrupt or another thread.
* `EhEvent` extends it with events, waits with and without timeout, and joins.
  `recv[e]` is the receptor list of an event, `flags[t]` the bits of the
  receptor on the stack of `t`, `timer[t]` the timeout timer and the mark of its
  receptor, `wpc[t]` and `wev[t]` where the task is in its wait and for what.
  The loop of a notifier over the receptors is `WalkStep`, one receptor a step;
  it is inside a critical section, and `Unlocked` keeps every other action out.
  Every action that touches the scheduler does so by an operation of `EhSched`.
* `EhSem` extends `EhEvent`: the events are those of semaphores, and the wait
  has the condition `sem_num_p # sem_num_v`. The increment of `sem_num_p`, which
  the code makes outside the lock, is an action of its own (`SemTake`), so that
  posts happen before and after it. `SemDestroy` is enabled in any context.
  `Semaphore` is the abstract specification, a number of tokens;
  `ImplementsSemaphore` is the refinement.
* `EhMutex` extends `EhEvent` likewise; `Mutex` is its abstract specification.
* `EhFlags` extends `EhEvent`: the events are those of flag groups. `bits` are
  the bits of a group, `due` the notifications that setters have yet to send
  (the compare-exchange and the notification are two steps), `want` what a task
  waits for. `lock` says what a critical section is. Under a mask of interrupts
  the condition of a wait reads and writes the bits in one step (`FlagsOk`,
  `FlagsAtOnce`); under a mutex the two are `FlagsRead` or `FlagsReadAtOnce` and
  `FlagsWrite`, with the value in `rmw` between them, and setters of other
  threads, which do not take the lock, come in between. `silent` is a history of
  the waiters whose bits another wait has changed: nobody is notified of that.

Time and idleness:

* `EhTimer` models the timers: `tree` is the timer tree as a sequence in the
  order in which it was built (by time remaining at the moment of insertion),
  `expire` the deadlines on a `clock` that wraps at `ClockMod`, with signed
  differences. `eh_timer_check` is `CheckBegin` and the steps of its loop, with
  the lock held (`checking`) and time passing. `Alarms` is the abstract
  specification: alarms with the time each has left, without clock or tree.
* `EhIdle` composes it with the idle wait of a platform. `loop` is the position
  of the kernel thread in `eh_task_next`, `eh_poll` and
  `platform_idle_or_extern_event_handler`; `break` is the eventfd, pipe or
  completion packet that ends the wait, `pending` the flag with which the hub of
  Windows suppresses a second packet, `timeout` the time computed for the wait,
  and `waited` how old it is. `ready` is all that is left of the tasks. Other
  threads start, restart, stop and configure timers and wake tasks at any step.

Epoll and callbacks:

* `EhEpoll` models one epoll with one waiting task: `epollTree` are the events with a
  receptor, `linked` those whose receptor is in the event, `pending` the pending
  list, `mask` the two bits of each receptor. Each operation is one critical
  section; the wait looks (`EpollFound`, `EpollTimedOut`, `EpollSleep`) each time it
  has been woken (`EpollWoken`). `Epoll` is
  the abstract specification: a queue of what has happened.
* `EhEventCb` extends `EhEpoll`: the trigger of each receptor (`userdata`) with
  its list of slots, count of connections and the bit that keeps it allocated
  while the loop uses it. `eh_event_loop` takes a batch from the epoll, moves
  the slots of one event after the other to a list of its own (`used`) and calls
  them; between any two calls the running slot connects, disconnects, cleans
  any event, the one it is called for included, or quits.

Structures and other parts without shared state. Each module has variables with
a prefix of its own, and all of them meet in `MCLibrary`, with the epoll:

* `EhMem`: blocks with addresses and sizes; first fit, split and both joins as
  the code computes them, on integers of a fixed width. `EhMemPool`: the nodes
  and the index computed from a pointer, whatever pointer it is.
* `EhRingbuf`: each load and store of an index that one side makes while the
  other runs is a step. `RingQueue` is its abstract specification.
* `EhHashtbl`: buckets that are not filled before somebody looks, growth, and
  the move of a bucket from its parent, over several doublings.
* `EhRbtree`: pointers, colours and the two repair loops, one pass a step; the
  code's mirrored branches are one branch with a side.
* `EhList`: both kinds of lists pointer by pointer, with the walks whose body
  deletes.
* `EhPorts` gives the operations of `co_context_make` and `co_context_swap` of 13
  ports as tables; `EhContext` executes them on registers, stack words and
  stack limits, with exceptions between any two of them where the switch is not
  protected.
* `EhLife`: the sections as the linker, `eh_global_init` with its roll-back and
  `eh_global_exit`, any number of times, and the poll task that survives.
* `EhFormat`: the text of a directive as the code builds it (digits, sign,
  prefix, precision, padding, rounding, exponents, arrays), and the streams.

`MC...` modules and `.cfg` files are the instances for TLC, `..._proofs` modules
the proofs.

Operators whose name ends in `Mutant` are not part of the models. Each is a
plausible mistake in the definition that follows it (a dropped check, a missing
notification, a wrong order); `PROJECT.json` pairs it with the property that
TLC finds violated when the mutant takes the place of the definition.

## What the runs check

| Run | Instance | What it shows |
| --- | --- | --- |
| `sched` | part "sched": 4 tasks: main, joinable, detached, system; part "waits": 2 tasks, one event; a poll every 2 dispatches | `SchedInv`: lists and states agree. `FreedIsOffStack`, `TurnsAreKept`, `ReadyRuns`, `DetachedFreed`, `PollsWhileBusy`. `WaitersReturn`: a wait that has been told something, has timed out or whose joined task has finished returns |
| `sched_starved` | 3 tasks | a violation: polls may cease, see below |
| `sem` | 3 tasks, one detached; one semaphore; counters modulo 3; `SemCarefulSpec` | `SemInv`, `NoStrandedToken`, `ImplementsSemaphore` (refinement) |
| `sem_destroyed` | the same under `SemSpec` | a violation: a semaphore is destroyed under a wait, see below |
| `mutex` | 3 tasks, one detached; one recursive mutex with limit 2 | `MutexInv`, `NoStrandedWaiter`, `ImplementsMutex` (refinement), `FreeMutexServed` |
| `flags` | 2 tasks, one group of 2 bits, three kinds of wait, both kinds of lock | `NoStrandedWait`: nobody sleeps over bits that are as he wants them. `BitsAreAccounted`: with masked interrupts no bit is lost |
| `flags_threads` | the same | a violation: with a mutex bits are lost, see below |
| `idle` | 2 timers, one periodic and one that changes its kind; intervals 0 and 2; a clock of 8 values; Linux and Windows | `NoOversleep`: a wake-up is on the way for whatever the idle wait was not computed for. `ImplementsAlarms` (refinement), `ReadyTaskRuns`, `AlarmsRing` |
| `cb` | part "events": 3 tasks, one of them detached; one event; a poll at every dispatch; part "slots": 2 events and that of the task; 2 slots, one of them for both events; `CarefulSpec` | `EventInv`: a receptor is linked exactly as long as its wait needs it. `NoLostWakeup`, `JoinedIsAllocated`, `DestroysOnce`, and `ImplementsScheduler` (refinement). `SlotsInv`: reference counts are true and nothing hangs in freed memory. `QuitIsHeeded`, `NotificationsReachLoop` |
| `cb_cleaned` | part "slots" under `Spec` | a violation: slots hang in freed memory, see below |
| `library` | see below | `MemInv`, `PoolInv`, `HashInv`, `TreeInv`, `ListInv`, `ContextInv`, `LifeInv`, `FormatInv`, `ImplementsQueue` (refinement of the ring buffer). `EpollInv`: pending exactly what is marked, linked exactly what may still be notified. `ImplementsEpoll` (refinement), `TimedWaitEnds` |
| `hash_refreshed` | a hash table of 2 nodes that grows from 2 to 4 buckets | a violation: a key is refreshed into a bucket without a head, see below |

Three of the runs are for several instances at once: `MCTasks` (`sched`),
`MCCallbacks` (`cb`), `MCLibrary` (`library`). A variable `part` that never changes
says which of them a behaviour is about; the variables of the others keep their
first values, so that each is explored as it would be by itself (in `MCTasks`,
where both use the scheduler's variables, "waits" never creates the other two
tasks).

Bounds of the tasks and events. Nothing but the sets of tasks and events, the
poll period, the width of the counters and the limit of the lock count is
bounded: the behaviours are infinite and TLC explores all their states. Three
tasks are the smallest number with two waiters and a task that overtakes them,
or two joiners of one task; interrupts and other threads are not counted among
the tasks. Four tasks give the scheduler one of each kind. A poll period of 2
has dispatches with and without a poll; where the property does not depend on it
the period is 1. Counters modulo 3 allow two tokens and wrap after three posts.
In the part "waits" two tasks suffice for a wait, a join and a chain of wake-ups,
and keep the liveness check small. In `flags` the requests are one for either of
two bits that clears one of them, one that changes nothing and one for a clear
bit that sets another; `MaxDue = 1` bounds the notifications a group's setters
owe: a second one would find the waiters as the first left them.

Bounds of time. The clock has 8 values, so that intervals, a lateness of up to
`MaxLate = 2` before `eh_timer_check` comes round and a check that takes
`MaxLag = 1` stay within half its range, as the code's signed differences
require, and every order of two deadlines occurs across the wrap. An idle wait
takes up to `MaxIdle = 2`, and `Grain = 2` makes a wait of Windows, in whole
milliseconds, one of none or one of them: it ends before its deadline or at it.

Bounds of the library. The epoll has three events and waits for two of them at a
time, so that a wait leaves something pending. The heap has 19 bytes at an odd address and possibly a
second heap of 12: up to four blocks, with exact fits, remainders that are one
header large and sizes that wrap (63 of 64). The pool has up to three blocks,
and pointers inside and outside of them. The ring has one or two bytes and
indices modulo 16, for the difference of the indices, not their values, decides.
The table grows from 2 to 16 buckets with keys whose hashes part at each
doubling, two of them equal in hash. The tree has seven nodes, two of them with
one key: enough for each case of the deletion on both sides. The lists have
three nodes and two heads. Contexts are checked for all 13 ports, with stacks of
64 and 65 words (aligned and not). Five modules, two of them of one section, are
enough for every order of failure. Directives are those at a sign, at a width,
at a precision, at a tie, at a carry and at a power of ten, on integers of 4 to
10 bits and a table of 5 powers of ten; the text model was compared with the
compiled code, with the constants of the code, on 7454 directives.

Fairness. The kernel thread goes on inside `eh_task_next` (its idle wait has a
timeout, at most one minute, `eh_timer.c:21`), and cooperative tasks give the
processor up after a finite time. Interrupts and other threads may take the
lock again and again, but leave the kernel thread time to enter it: strong
fairness where the lock is needed. No notification, post, wake-up, join or
expiry of a timer is assumed in `EhEvent` and what extends it. In `EhIdle` the
thread goes on (`LoopStep`) and time passes (`Pass`). In `EhEpoll` a started
timer expires (`EpollTimer`), which is what `EhIdle` shows of timers, and the
task runs when it is ready (`EpollTask`), which is what `EhSched` shows of
tasks. In `EhEventCb` the loop goes on (`Loop`), slot functions included.

Assumptions of liveness, each of them the antecedent of a property because the
code does go wrong without it:

* `ReadyRuns` is checked with one system task. `eh_task_wake_up` puts a system
  task right behind the current one: two system tasks that wake each other keep
  every other task from running. This is the point of system tasks rather than a
  fault, and the README of the repository promises nothing else.
* `PeriodsStayPositive`: a periodic timer with interval 0, which
  `eh_timer_start` accepts, keeps `eh_timer_check` in its loop for ever.
* `RoundsEnd`: slots do not go on connecting slots in every call. A slot that is
  disconnected and connected again while it is called comes to the end of the
  list that is being walked, and is called again, for ever.

Assumptions of safety, for the same reason. Each is an action that the careful
specification adds to the next-state relation, which has none of them, and a run
shows what happens without it:

* `SparesWindow` (`SemCarefulSpec`): no semaphore is destroyed while a wait is
  between its first look and the linking of its receptor, or between its last
  look and `sem_num_p++` (`InWindow`). In the model a task cannot do that, as the
  waiting task is the running one there; an interrupt or another thread can.
  Everything else about destruction, from whichever context and whoever waits,
  stays in.
* `CleansReach` (`CarefulSpec`): no slot function cleans an event while slots of
  that event are in the list of the loop (`Unreached`).
* `HashAvoidsTrap` (`HashCarefulNext`): no key is refreshed into a bucket without a
  head (`HashTraps`). A program cannot see that, but a find of the new key in
  front of the change makes the bucket.

### Five divergences

`README.md:179` and `eh_config.h:148` say that
`EH_CONFIG_TASK_DISPATCH_CNT_PER_POLL` is the number of dispatches after which
there is a poll. The count is incremented behind `co_context_swap`
(`eh_core.c:189`), on the stack of the task that resumes. A task that runs for
the first time starts in `_task_entry` and increments nothing. In
`sched_starved` two tasks create, join and end one another in turns: every
dispatch enters a fresh context, `dispatch_cnt` stands still at a value that is
not a multiple of the period, and neither timers nor external events are polled
again. `PollsWhileBusy` and `DetachedFreed`, which hold, say that this is the
only way.

`eh_event_flags.h:85` marks `eh_event_flags_set_bits_change_notify` as
`__safety`, which `eh_types.h:89` explains as callable from interrupts and other
threads. The setters change the bits by compare-exchange without the lock. The
condition of a wait (`eh_event_flags.c:44` and 51) reads the bits and writes them
back without the wanted ones, under the lock. A thread that sets another bit
between the two loses it: `flags_threads`. `BitsAreAccounted` shows that this
needs a second core or a preemptive host: where the lock masks interrupts no bit
is lost.

`README.md:1036` and the `__safety` of `eh_sem.h:46` offer `eh_sem_destroy` to
interrupts and other threads. It tells the waits whose receptors are linked, and
then frees the memory. A wait that has looked at the counters, found no token and
not yet linked its receptor is not told, nor is one that has left its loop with a
token and is about to increment `sem_num_p` (`eh_sem.c:61` and 64): both go on in
freed memory. `sem_destroyed` has the first of the two in four steps.

`eh_event_cb.h:56` and `eh_signal.h:171` and 177 say that
`eh_event_cb_clean_from_task` removes the connections of the slots of an event.
While `eh_event_loop` calls the slots of an event it keeps those it has taken in a
list of its own (`eh_event_cb.c:183`), where `trigger_clean` does not see them. If
one of them cleans the event, the loop puts them back into the trigger (line 190)
and frees it (line 191): they stay linked in freed memory, against which
`trigger_disconnect` warns (line 58). `cb_cleaned` is this.

`eh_hashtbl.h:106` and 127 have `eh_hashtbl_node_key_refresh` called after every
change of a key. It links the node into the bucket of the new key
(`eh_hashtbl.c:193`) without `eh_hashtbl_try_remake`; after a growth that bucket may
be all zero, and `eh_list_add` stores through its null pointer.
`hash_refreshed` has it after two insertions. What follows such a store is
undefined; in the model the node is in no list then, and `RefreshedIsFound` fails.

## What is proved

`EhEvent_proofs` begins with the scheduler alone, for every set of tasks, every
choice of the system and detached ones among them, and every poll period
(`SchedAssumption`):

* `SchedCorrect`: `SchedSpec => []SchedInv`. The invariant is inductive as it
  stands. That a task in the ring is ready cannot be kept without knowing that
  the ring is injective, that a waiting or finished task is in the list of its
  state unless it is the current one, and that a fresh task is ready: these are
  its conjuncts. `EnqueueProperties` and `EnqueueMembers` say what inserting
  into the ring does to positions and to membership; there is one lemma per
  action that changes a list.
* `FreedOffStack`: `SchedSpec => FreedIsOffStack`, from the same invariant: what
  is freed comes from one of the finish lists, a task of which is finished and
  not current, while every task of the ring is current or ready.
* `TurnsKept`: `SchedSpec => TurnsAreKept`. Insertion shifts positions but keeps
  their order (`EnqueueKeepsOrder`), and a switch takes the first task away and
  at most links it behind all others (`SwitchKeepsOrder`).

It goes on with the events, for every such choice and every set of them
(`EventAssumption`), whatever interrupts and other threads notify and whenever:

* `EventsImplementScheduler`: `EventSpec => SchedSpec`. Each step is mapped to
  an operation of the scheduler or to a stutter (`EventNextStep`), so that
  `SchedInv` holds of the composition as well.
* `EventCorrect`, `NoWakeupLost`, `JoinedStaysAllocated`, `JoinsDestroyOnce`:
  `EventInv`, `NoLostWakeup`, `JoinedIsAllocated` and `DestroysOnce`. None of
  them is inductive alone; their conjunction with `SchedInv`, `EventIInv`, is. It
  is `CoreInv`, which every kind of wait shares, and what is special to joins.
  That a sleeping joiner is woken up needs it to be linked when the joined task
  notifies (`ReceptorsAreLive`); that a joined task is allocated needs its list
  to be empty when it is freed (`CleanedBeforeFree`), which needs a cleaning loop
  to hold the whole rest of the list (`WalkOnLinked`); that nothing is appended
  to it in between needs the task between two wait points to be the running one
  (`PointsOfCurrent`); that a fresh receptor is unmarked is `MarksInLoop`.
  `AppendMembers`, `TailMembers`, `RotateMembers` and `UnlinkMembers` say what
  the list operations keep. `SchedOnly` collects what a step of the scheduler
  must respect for the waits, and there is one lemma per other action.

`EhSem_proofs`, `EhMutex_proofs` and `EhFlags_proofs` put conditions on these
waits; each of them extends `EhEvent_proofs` and its `CoreInv`:

* `SemCorrect`, `TokensReachWaiters`, `SemaphoresCount`: `SemInv`,
  `NoStrandedToken` and `ImplementsSemaphore` follow from `SemSpec` and
  `[][SparesWindow]_allVars`, for every number of waiters and every width of the
  counters. `NoStrandedToken` speaks of the last `k` receptors
  (`Covered(e, k)`): a notification wakes the first one up and rotates it to the
  end, so that each step which posts or takes a token moves exactly one receptor
  into or out of the covered ones. A semaphore that is created where another one
  has been needs the list to be empty but for the loop that cleans it (`Gone`).
* `MutexCorrect`, `FreeMutexReachesWaiter`, `MutexesExclude`: `MutexInv`,
  `NoStrandedWaiter` and `ImplementsMutex`. `NoStrandedWaiter` asks for any
  waiter that is awake and is not inductive: the one it has may return by a
  timeout. The last receptor of a mutex that is free, and that no task is about
  to lock, is awake (`Open`, `Covered(x, 1)`).
* `BitsKept`: `FlagsSpec => BitsAreAccounted`. Under a lock that masks interrupts
  no condition ever lies between its read and its write (`FlagsIInv`).
* `WaitsAreTold`: `FlagsSpec => []NoStrandedWait`, whatever a critical section
  shuts out. It needs to know where a condition may lie between the two: in the
  running task, outside any wait or in the loop of its own (`FlagsShape`), so
  that a notification cannot pass a waiter by between its look and its sleep.

`EhEpoll_proofs` proves, for every set of events and every number of slots of a
batch:

* `EpollCorrect`: `EpollSpec => []EpollInv`, inductive with the shapes of the
  pending list and of the marks.
* `EpollsReportInOrder`: `EpollSpec => ImplementsEpoll`. The queue of `Epoll` is
  the pending list with what its marks say. A notification of what is pending
  already is a stutter or turns an event into an error at its place; a read is
  as many reads of the queue as it takes off.
* `SlotsKeepTheirTriggers`: `Spec /\ [][CleansReach]_vars => []SlotsInv` of
  `EhEventCb`, for every set of slots and of connections. `CbIInv` says that
  a receptor has a trigger of its event, with connections, and everything else
  none (`CbHolds`); that the entries the loop still has refer to one event each,
  and to triggers that it finds again, so that an event has at most two triggers
  in memory (`CbLoops`); and that the list of the loop and that of the trigger
  are disjoint, and together what the count of connections counts (`CbOwns`).

`EhIdle_proofs` proves, for every set of timers, every choice of intervals, every
modulus of the clock and every lateness that stay within half of it:

* `TimersAreAlarms`: `Spec => ImplementsAlarms`. `left` gives each timer in the
  tree the time it has left without a wrap. `TimerIInv` says that the difference
  of deadline and clock, with sign, is that number, and that the tree is ordered
  by it, although it has been built at many moments by differences to a clock
  that moved (`DiffFacts`, `DiffLater`, and what `InsertMembers` and
  `TreeDelMembers` say of the tree).
* `SleepsAreShort`: `Spec => []NoOversleep`. The idle handler is marked as idle
  from before it computes the time until it returns; a change before the mark is
  seen by the computation, one behind it breaks the wait (`SleepIsShort`), and the
  flag of Windows is set only while a packet is on the way (`FlagIsDue`).

`EhLibrary_proofs` proves of the library:

* `RingsAreQueues`: `RingSpec => ImplementsQueue`, for every size, every width of
  the indices half of which holds twice the size, and every set of bytes. What a side has
  read of the other's index stays true, for the other one moves it in its favour
  only (`PutFits`, `GetFits`, `PeekFits`); what it stores lies behind what the
  other one reads (`StoredBehind`). `Modulus` and its kin are the arithmetic.
* `PoolsAreSound`: `PoolSpec => []PoolInv`, for every number and size of blocks
  and all pointers that are released. The invariant names the order of the free
  list, a sequence without repetition of exactly the blocks nobody has; `ReachedIs`
  is that the walk of the code visits them, by induction over its steps.
* `LivesAreTidy`: `LifeSpec => []LifeInv`, for all modules and all orders of the
  linker. `SortedSorts` is that the bubble sort orders them and keeps the order of
  equals, by induction over its passes and over the exchanges of each
  (`OnePassSorts`).
* `HeapIsSound`: `MemSpec => []MemInv`, for all heaps that are disjoint and hold a
  header (`MemAssumption`), every alignment, header, width and request. `eh_mem_init`,
  `eh_malloc` and `eh_free` each replace a few neighbours of the free list by
  others, of which `SpliceInLine`, `SpliceBytes` and `SpliceTotal` say what becomes
  of the order, the bytes and the sum. `InsertIs` is `eh_mem_insert` with both
  joins, `TakeSound` and `SplitIs` are `eh_malloc`. The invariant (`MemIInv`) adds
  that the list is in line (`InLine`: there is something between any two free
  blocks), from which a gap that is long enough lies within one block
  (`HeapFinds`), and that all of it lies in the heaps (`WithinHeaps`): only so does
  the rest of a block that is too small to be split, a number without sign, never
  pass for one that is worth it.

`EhLists_proofs` proves, for all heads and every finite set of nodes (and of the
hash table, whose buckets are lists, for all keys and sizes):

* `ListsAreLists`: `ListSpec => []ListInv`, for both kinds of lists and the walks
  over them. `ListInv` speaks of what a loop over the pointers sees; the invariant
  of the proof (`ListInd`) says it of the pointers themselves: from the head `next`
  is a chain (`Chained`) through the content of a list back to the head, `prev`
  is one through the content backwards, a chain of `eh_llist.h` ends at NULL and
  `last` is its last node; no node is on two lists or twice on one (`Tidy`), or
  else an operation on one list would tear another one (`RingKept`, `LKept`); and
  a node off the lists that is deleted again points to itself. A walk cuts its
  list in two, what is in front of it and what is to come (`WalkAt`, `LWalkAt`);
  what it has seen and what is to come make up what it had to see. The cut is
  what a body that deletes or moves the node leaves in place, with `n` of
  `eh_list.h` the first node behind it and `prev` of `eh_llist.h` the last one
  before it. `DOutIs`, `DPlacedIs`, `DSplicedIs`, `LFrontIs`, `LBackIs`,
  `LInsertIs` and `LDeletedIs` are the operations on the pointers; `FollowedIs`
  is that a loop along a chain visits its nodes and ends, by induction over its
  steps.
* `HashTableFinds`: `HashSpec /\ [][HashAvoidsTrap]_hashVars => []HashInv`, for
  every minimal size (a power of
  two in the code, where `& mask` is the remainder), every set of hash values and
  every threshold above 0. The table may be behind by several growths, bucket by
  bucket, and `HashInv` says nothing of where a node is. The invariant (`HashIInv`) does: there is a set of sizes that
  the table has had, each the double of the one below (`TowerOf`), the buckets
  of the smallest are made, and a node is in the home of its hash value
  (`Home`): the bucket for the largest of these sizes where that bucket is
  made. Growth adds a size whose new buckets are unmade, so every home stays
  (`GrownIs`); the loop at the head of `eh_hashtbl_try_remake` ends at the home of
  the bucket it is to make (`HolderIs`), the loop behind it takes each node of that
  one where it belongs (`OneMoved`, `RemadeIs`), and no other value's home
  changes by that (`OthersStay`, the step that needs the arithmetic of remainders).
  After a remake the bucket is made at the largest size, so it is the home of all
  values that belong there, and a value has one home (`HomeOnce`): the find is
  complete (`FoundIs`). `WalkIs` is `eh_hashtbl_for_each_safe`. The recursive
  functions of the model are reached by their own equations, whose solutions
  are shown to exist by induction (`HolderExists`, `MovedExists`, `FlattenExists`).

The induction is over sets of numbers: `SetInduction`, from the well-foundedness
of the numbers, says that a set which has 0 and with each number the next has
them all, and needs no operator as a parameter.

Only model-checked:

* the liveness properties (`ReadyRuns`, `DetachedFreed`, `PollsWhileBusy`,
  `WaitersReturn`, `FreeMutexServed`, `ReadyTaskRuns`, `AlarmsRing`,
  `TimedWaitEnds`, `QuitIsHeeded`, `NotificationsReachLoop`), which need
  fairness and are out of the prover's reach;
* `TreeInv`: see the plan;
* `ContextInv` and `FormatInv`: contexts are tables of 13 ports, for which a
  complete check is the better evidence, and the texts of the formatted output
  are defined by recursion over digits, of which the run checks those at which
  something changes.

## What is not modelled, and why

Left out by rule or because nothing happens:

* `eh_task_destroy` outside module teardown: undefined by `README.md:311`.
* A wait with timeout 0: it changes nothing but what its condition changes.
* `eh_malloc` failing in `eh_task_create`: the call returns, nothing changes.
* The mutex functions outside tasks, which `README.md` forbids.
* `eh_sleep`: a timer on the stack and a wait for its event. Between the start
  and the wait nothing yields. `eh_usleep` ignores what `eh_timer_start` returns:
  a duration of 2^63 clocks or more is refused, and the task sleeps for ever.
* `rb_replace_node`, `eh_swab`, `riscv_encoding.h`, `eh_debug.c`, statistics and
  names: no caller, no state, or wording.
* The platforms of microcontrollers, whose critical section is a mask and whose
  idle handler is an instruction; macOS' hub takes the steps of Linux's.

Cases in which the code goes wrong beside those of the runs. Where nothing is said
of a model they are left out, as it would show that one step and nothing behind
it. A reader who changes the code should know them:

* Event callbacks. After `trigger_weak_ref_new` fails the receptor stays in the epoll without userdata, and the next connect
  dereferences it. A connection to an event that has been cleaned, but whose
  error the loop has not seen, returns success and is removed silently.
  `eh_event_loop_request_quit` notifies before it sets the flag; from another
  thread the loop may then quit only at the next event (this one is modelled,
  `ThreadQuitNotify` and `ThreadQuitFlag`).
* Flags: bits that a wait changes on its way out are notified to nobody
  (`eh_event_flags.h:66-73`), modelled as `silent`.
* Timers: `eh_timer_start` returns 1 when the timer has become the first, where
  `README.md:593` says 0.
* Heap: one registered after `eh_mem_init` is accepted and never used; one
  smaller than its header once it is aligned gets a size that wraps. Pool: 0
  blocks make the loop over the nodes run past the end. Ring: sizes beyond 2^30
  overflow the difference; the reader has no acquire barrier. Hash table: a load
  factor under 1/8 makes the first threshold 0. Lists: `eh_llist_last` of a list that has been emptied is stale;
  a node inserted behind the position of a safe walk and deleted again is lost
  (excluded).
* Contexts: on Windows `co_context_make` leaves `_task_entry` no home area.
* Life cycle: `eh_global_init` drops the error of `interior_init` and returns 0
  with no module initialised; a failure of `module_group_init` leaves the copy
  of the sections allocated; the poll task that frees detached tasks stays
  linked when the system is left with one pending, and is not linked again in
  the next life (`lifeTidy` excepts it); started timers survive as well;
  `epoll_hub_exit` does not close `wait_break_fd` (`LifeKeeps`); tasks on the
  wait and finish lists are not freed. pthread functions return positive
  errors, which `ret < 0` does not see.
* Formatting: `%.1f` of 0.95 prints `0.10`, as the carry is looked for above the
  tie only (line 365); `%.1e` of 100 prints `10.0e+01`; `%e` of zero divides by a
  factor of 0; `%k` with an unknown letter counts one less than it prints;
  `%3.0q` of an empty array pads too much. The model prints what the code prints; where that is not the value of the
  argument the property excepts it by name (`FloatMisprinted`). Not in the model:
  two contexts printing to `EH_STDOUT`, which has no lock, a null string,
  `eh_malloc` failing, and sizes of 0 in `eh_snprintf`.

## Plan

Done: the tasks and what waits on them (`EhSched`, `EhEvent`, `EhSem`, `EhMutex`,
`EhFlags`), time and idleness (`EhTimer`, `EhIdle`), epoll and callbacks
(`EhEpoll`, `EhEventCb`), the structures, contexts, the life cycle and the
formatted output.

What is left is proof: `TreeInv`, whose repair loops need the most: between two of
their steps the tree is red-black but for one node, and each case has its mirror.
