# A verification project for cppdatastream

`cppdatastream` is a header-only C++ library for block pipelines: a client pushes
blocks of data into a graph of elements, and an *end of processing* (EOP) block
with a status closes the stream. This directory holds TLA+ models of the
library, of its example programs and of the libraries the repository carries
with it, TLC configurations that check them on small instances, and proofs that
TLAPS checks for every value of the constants.

    tlc -workers 2 -config semaphore.cfg MCLightweightSemaphore
    tlapm LightweightSemaphoreProofs.tla

Paths below are relative to `src/`; `include` stands for
`src/include/cppdatastream`, `common` for `src/src/common`.

## 1. Inventory

| Component | Source | State | Operations |
|---|---|---|---|
| `LightweightSemaphore` | `include/moodycamel/atomicops.h` 677-759 | `m_count` (-1: a waiter is registered), `m_sema` | `tryWait`, `wait`, `wait(timeout)`, `signal`, `availableApprox` |
| `Semaphore` | `atomicops.h` 447-670: Windows, Mach, POSIX, FreeRTOS | the kernel object | `wait`, `try_wait`, `timed_wait`, `signal` |
| `BlockingReaderWriterCircularBuffer` | `readerwritercircularbuffer.h` | a block of memory, `mask`, `nextSlot`, `nextItem`, semaphores `slots_` and `items` | `try_/wait_/wait_timed` enqueue and dequeue, `peek`, `try_pop`, `size_approx`; construction, move, swap, destruction |
| `StreamProcessor` | `include/DataStream.hpp` 238-290 | `_had_error`, connected visitors and processors | `connect`, `pushData` |
| `StreamThreadedBuffer` | `DataStream.hpp` 326-376 | `_queue`, `_thread`, `_thread_started` | `pushData`, `run`, destructor (joins) |
| `StreamSink` | `DataStream.hpp` 417-454 | a promise and its future | `visitData`, `wait` |
| blocks and statuses | `DataStream.hpp` 138-212 | optional data, optional status | constructors and getters |
| other visitors | `DataStream.hpp` 378-415 | a user function | `visitData` |
| logger and its spdlog adapter | `DataStream.hpp` 68-99, `src/examples/Logging.hpp` | a `shared_ptr` behind a mutex | `getLogger`, `setLogger`, `log` |
| `SimpleSource` | `src/examples/Source.cpp` | a thread, `_stop_flag`, the downstream pointer | `start`, `stop`, `cancel`, `connect`, destructor |
| the example programs | `src/examples/Source.cpp`, `Simple.cpp` | locals of `main`, `g_cancel` | `main` |
| signal handlers | `common/Utilities.cpp` | `sigIntHandlerFunc` | registration, SIGINT, fatal signals |
| `prettyPrintBytes`, `AlignedAllocator` | `common/Utilities.cpp`, `AlignedAllocator.hpp` | none | sizes divided down, sizes multiplied up |
| `scope_guard` | `common/scope_guard.hpp` (vendored) | a callback, a flag | make, move, dismiss, destroy |
| CLI11 | `common/CLI11.hpp` (vendored) | a tree of apps, options with results | `parse`, `results`, `as<T>`, `clear` |
| date | `common/date.hpp` (vendored) | calendrical values | arithmetic, `to_stream`, `from_stream` |
| semver | `common/semver.hpp` (vendored) | a version | `from_chars`, `to_chars`, comparison, ranges |
| SignalTracer | `src/SignalTracer.cpp` | none | prints a trace in a process of its own |

How they interact. A client thread calls `pushData` of the first element. A
processor processes the block, shows the result to its visitors and calls
`pushData` of the connected elements, depth first on the same thread. A threaded
buffer copies the block into its ring (asking again every millisecond while the
ring is full) and its own thread, started by the first push, takes it out and
continues. The ring connects the two threads through two semaphores: the
producer waits on `slots_` and signals `items`, the consumer the other way
round; each is an atomic count over a semaphore of the platform's kernel. A sink
is a visitor that sets a promise when an EOP passes; `wait()` reads the future
on any thread. Everything logs through one shared logger that may be replaced.
The two `main`s parse their command line with CLI11, register a SIGINT handler,
build a pipeline, drive it (one through a thread, one itself), wait, and leave:
whichever thread drops the last reference to an element runs its destructor,
which joins the element's thread.

What is hard. (1) The semaphore: a fast path on a relaxed load, a slow path
through the kernel, a timeout that can race the signal, and four kernels that
interrupt, overflow and count time in their own way. (2) The ring: two indices
that wrap, three steps to publish an element, correctness that rests on the two
counts alone, and eight members that move together. (3) The pipeline: every
stream must end exactly once at every sink, through elements that fail and stop
listening, and across threads that exit when they see the end. (4) Teardown:
destructors that join, run wherever the last reference is dropped, while a
signal handler may still be called. (5) The vendored libraries: a parser in
which one argument is offered to many apps in turn, and computations whose
limits (widths, signs, eras, fields that imply each other) no test enumerates.

What makes each part correct: the semaphore neither loses nor invents a permit
and a signaled waiter gets one; a timed wait is neither early nor endless; the
ring is a bounded FIFO that owns its memory; sinks see a gapless prefix of what
was pushed and one truthful end; every thread ends and everything is destroyed
once, after its last use; no argument of a command line is lost and a parse that
succeeds has what the program asked for; what is written as text reads back.

## 2. Modules

| Module | Models | Correspondence |
|---|---|---|
| `CountingSemaphore` | what the semaphore promises | permits, and a wait that is outside, inside, or back with a result |
| `LightweightSemaphore` | `LightweightSemaphore` over a kernel semaphore | one step per atomic operation or kernel call |
| `KernelContract` | what `LightweightSemaphore` needs of the kernel | tokens, as many as were signaled, each taken by at most one wait |
| `KernelSemaphore` | the four `Semaphore` classes | one step per kernel call and per tick |
| `BoundedFifo` | what the ring promises its two threads | a sequence, and the consumer's variable |
| `CircularBuffer` | the ring; two instances of `LightweightSemaphore` | one step per semaphore step, per slot access, per signal |
| `RingValues` | what rings promise their owner | a capacity and a sequence per ring |
| `RingLifecycle` | construction, move, swap, destruction, over addresses | one step per operation |
| `StreamContract` | what a pipeline promises its sinks | pushed blocks, shown blocks, statuses |
| `StreamPipeline` | processors, threaded buffers, sinks and the client loop | one step per virtual call, visit, queue operation or return |
| `SharedOwnership` | the `shared_ptr` graph | one step per dropped reference, join, end of an object |
| `SourceExample`, `SimpleExample` | the two `main`s; each composes `StreamPipeline` and `SharedOwnership` | one step per statement of `main` or `run` |
| `Logging` | the logger, the adapter, the SIGINT handler | one step per lock, pointer read, count and write |
| `ScopeGuard`, `ByteSizes` | the small helpers | one step per operation, per turn of the loop |
| `CommandLine` | `App::parse` | one step per argument, per call that returns, per phase |
| `CommandLineResults` | `Option` | one step per member function |
| `Dates`, `CalendarWalk` | calendar arithmetic, and a walk that checks it | operators; one step per day |
| `DateText` | `to_stream` and `from_stream` | one step per character of the format |
| `SemanticVersion` | versions and ranges | one step per text read, per comparator |
| `MC...` | instances for TLC | constants and topologies |
| `LightweightSemaphoreProofs`, `CircularBufferProofs`, `StreamPipelineProofs`, `KernelSemaphoreProofs`, `RingLifecycleProofs`, `PlatformProofs`, `ExamplesProofs`, `VendoredProofs` | theorems about the module of that name (`PlatformProofs`: about `MCPlatform` and `Logging`, `ExamplesProofs`: about `MCExamples`, `VendoredProofs`: about `MCVendored`) | section 6 |

`MCExamples`, `MCPlatform` and `MCVendored` put several components into one run.
These share nothing, so no interleaving of two of them tells anything: a
behaviour is one of a single part, chosen in the first state, while the others
stay where they began, and a property is the conjunction of the parts' own.

Operators whose comment begins with "Fault" are plausible mistakes in the
definition they precede. They are used to see that a property fails when the
code is wrong; no specification refers to them.

### The semaphore

`sem` is one record: `count` and `kernel` are `m_count` and the kernel value,
`at` is the waiter's program point, `signaler` is the signaling thread between
its `fetch_add` and its `sem_post`. `TryLoad` and `SpinLoad` are relaxed loads:
they return any value between the one the waiter last saw and the current one
(`Visible`), because only the signaler changes the count behind its back, and
only upwards. `Register` is the decrement after the spin, `KernelWake` and
`KernelGiveUp` the return of the kernel wait, `Restore`, `Retake` and `TrySema`
the loop that undoes a registration. `KernelErrors` lets the kernel wait return
false for other reasons than its deadline. One waiter and one signaler are what
the ring uses.

### The kernel's semaphores

`KernelSemaphore` is one thread that waits and one that signals, on any of the
four platforms. `now` is the time that passes, `wall` is `CLOCK_REALTIME`, which
`SetClock` may move. `Deadline` is the timespec of the POSIX class with its
carry, `Msecs` and `Ticks` are the integer divisions and the 32-bit conversion
of the others. `Interrupt` is EINTR: POSIX calls again with the same deadline,
Mach's class returns false. `Post` gives the tokens of a `signal(n)`: one by one,
again and again while the kernel is full, except on Windows (all or none) and
FreeRTOS (a token that does not fit is lost). `KernelContract` counts what a signal
owes: a kernel that dropped or doubled a token anywhere else would not implement it.
`disturbed` says that the wall clock
was set forward during the wait, after which a POSIX wait may be short.

### The ring

`S` and `I` are `slots_` and `items`. A producer operation is `Enqueue` (the call
with its mode: `try_enqueue`, `wait_enqueue` or `wait_enqueue_timed`), the steps
of `slots_` (`WaitForSlot`), then `Construct` (index and placement new), `Publish`
(the `fetch_add` of `items->signal()`) and `WakeConsumer` (its `sem_post`); a
consumer operation mirrors it. `inner_dequeue` and `inner_pop` are one action,
`Take`, told apart by `consumer.op`. A slot is `Raw` when no object is alive in
it. `RingSize` is the capacity rounded up to a power of two, `WordSize` the
modulus of `size_t`; the assumption says that the former divides the latter.
`size_approx()` is a relaxed load and changes nothing: `SizeApproxSound` bounds every value that
the consumer may load (`Visible`) by what it can take, and the latest value from
both sides. A third thread, which may load any earlier value, is told a number that
was right once, and so at most the capacity.

`RingLifecycle` gives rings their memory: `ring` holds the eight members of each,
`heap` the blocks that malloc returned, at addresses that need not be aligned, and
`mem` the elements. `MaskOf` is the rounding by shifts, `AlignFor` the alignment of
the data inside its block, `Swap` the member-wise exchange, and `MoveConstruct` the
same exchange with members that are all zero. The operations of two threads
are not repeated here: this part of the interface is "not thread-safe".

### The pipeline

Elements form a tree, so each has one caller and is never re-entered; the call
stack of a thread is kept as one activation per element (`call[e]`), and a
buffer's `pushData` as the block it has on offer (`offer[b]`). `Enter` is
`pushData` up to the visitors: return at once after an earlier error, else
process, and latch an `EopError` output. `Visit` shows the output to the
visitors one after the other, in their order of connection: a sink, an
`OnEosVistor`, whose calls are counted, or a user's visitor. A second EOP at a
sink throws `promise_already_satisfied`, which nothing catches, so `terminated`
becomes true and nothing more happens. `Forward` and `Finish` are the loop over
`processors`. `StartThread`, `Enqueue` and `EnqueueTimesOut` are
`StreamThreadedBuffer::pushData`; `Dequeue` and `AfterPush` are `run()`.
`processData` belongs to the user: it passes a block on or fills out an EOP whose
status is in `Failures`. The client is the loop of `Simple.cpp`: data blocks,
which may stop early, and one EOP; `SimpleSource::run` has the same shape. The
queue of a buffer is a sequence with a capacity, the abstraction that
`CircularBuffer` is shown to implement. A slot of the real ring is freed a little
after the element has left the abstract queue, so the model may enqueue earlier
than the code can; it allows every order the code does.

### The example programs

Both instantiate `StreamPipeline` for the chain that their `main` wires, and
`SharedOwnership` for its objects. `main` and `run` are the program points of
`main()` and `SimpleSource::run`; `flag` is `_stop_flag` and `stopFlag` the copy
that `run` takes after its loop, a second read; `cancel` is `g_cancel` of
`Simple.cpp`. `Stop`, `Cancel` and `Interrupt` may come at any step of the others.
`sigint` is what the process does on SIGINT: the default handler prints, the one
of `main` cancels, and each restores `SIG_DFL` as it runs.

Ownership is `refs`, the holders of a `shared_ptr` per object: locals of `main`,
members of other objects, and the argument with which the source's thread was
started. `todo` is what a thread has still to do while it leaves a scope:
`DoRelease` drops a reference and, if it was the last, puts the object's
`Destructor` first: a join for the source and the buffer, then the object's end,
then its members. `alive` are the objects between constructor and destructor.

### The logger

A `shared_ptr` is copied in two steps, as the control block is: `ReadCurrent` reads
the pointer, `CountCopy` counts it. `AssignLogger` stores the new one and drops
the old. spdlog is external: it is the lock of its sink, which a thread
cannot take twice. `Signal` suspends the interrupted thread until the handler,
which logs and then stores the flag, has returned.

### The vendored libraries

`ScopeGuard`: the guards of a thread are a stack, and the latest scope is left
first. `ByteSizes`: `prettyPrintBytes` with its loop, and the guard and product of
`AlignedAllocator::allocate` modulo `Word`.

`CommandLine`: an argument is a token with its place on the command line, so that
`ArgumentsKept` can follow each one. `Grammars` are what programs say of their
apps and options. `stack` holds the nested calls of `_parse`; `Recognize` classifies
the next argument as `_recognize` does; `PositionalMark`, `Terminator`, `Positional`,
`Subcommand` and `Option` are the branches of `_parse_single` with the walks through
groups, parents (fallthrough) and subcommands; `Return` is the end of a nested
`_parse`, with the early completion of `parse_complete` and `immediate_callback`;
`Processed` and what follows are `_process` (environment, callbacks, help,
requirements) and `_process_extras`. A failed requirement is the error its order
in the code yields. `CommandLineResults` is one option: `Expected` and `TypeSize`
are the setters with their clamping, `Validated`, `Trim` and `Reduced` the three
stages, `RunCallback` and `Read` the two ways to ask for the outcome.

`Dates` keeps the widths: a year is a short, months and days unsigned chars, two
computations go through `unsigned`. Of 2^32 these need that it is even, its remainder by
7, and that all days fit, so the run gives `UnsignedWord` the value 2^26, which has
all three. `FromDays` and `ToDays` are the era-based conversions. `CalendarWalk` goes from day to day knowing only how long
months are. `DateText` steps through the format twice, writing and reading,
with the code's `command` and `modified`; `locals` are the fields `from_stream`
collects, and `Completed` how they complete or contradict each other at the end.
Between the two the text may be changed in one place. `SemanticVersion` reads
texts into one object, in turn, and lexes, parses and evaluates ranges as the
code does, a comparator at a time, without finishing what it need not read.

## 3. Runs

| Run | Instance | Shows |
|---|---|---|
| `semaphore` | initial count 1, signals of 1 or 2, spin limit 2, count at most 3, kernel errors, fair | one token per signaled waiter and none left over; refinement of `CountingSemaphore`; a signaled or bounded wait ends |
| `semaphore_signal_zero` | signals of 0 or 1 | **finding**: `signal(0)` breaks the assertion |
| `buffer_safety` | capacity 3 in a ring of 4, indices modulo 8, two elements, no spinning, kernel errors | slots are conserved, live elements are those between the indices, no slot is used by both threads, `size_approx`, read through a stale load too, never promises the consumer too much, no thread sleeps while the other has signaled for it; refinement of `BoundedFifo` |
| `buffer_liveness` | capacity 1, ring 1, spin limit 1, fair | no lost wake-up on either side |
| `pipeline_series` | buffer, processor, buffer, processor with sink; 5 blocks; capacity 1; any processor may fail | the end is shown once, success is the whole truth, backpressure, no circle of waiting, refinement of `StreamContract` |
| `pipeline_fork` | a processor with a sink-bearing child and a buffer that feeds another; 2 blocks; fair | ends and errors reach every sink below, `wait()` returns, the client and all threads end, a visitor behind the sink still sees the end |
| `pipeline_cancelled` | the same topology, elements fill out `EopCancelled` | **finding**: the program terminates before `wait()` reports |
| `examples` | both programs; buffer, accumulator and monitor; 3 blocks; capacity 1; SIGINT, and `stop()`, at any time; fair | a truthful outcome, a prompt end, nothing destroyed under its user, nothing left, both programs end |
| `example_interrupt` | `Source.cpp` without the accumulator | **finding**: the handler refers to a destroyed source |
| `platform` | four kernels with at most 2 tokens, timeouts of 1 and 4 units, one setting of the clock; 2 rings of capacity 0, 2 or 5 in words of 10 bits; 2 threads that log and replace the logger, one signal; fair | no timed wait is early, waits end, each kernel implements `KernelContract`; rings own their memory and implement `RingValues`; the logger is alive, counted and not stale |
| `logging_interrupt` | the logger's part alone, fair | **finding**: a signal on a thread inside spdlog never stops the source |
| `vendored` | see below | guards, sizes, command line, results, calendar, dates as text, versions |

Deadlock is checked except in three runs. In `pipeline_cancelled` a terminated
program stops. In `logging_interrupt` a thread waits for its own lock, which is
the finding. `platform` holds that part too, with the interrupt; and `vendored`
stops when a parse, a read or a computation has its answer.

Why the bounds are enough.

- The semaphore's count moves between -1 and what was signaled; three permits and
  two spins visit every program point with every sign of the count, and the
  proofs cover the rest.
- A ring of 4 with indices modulo 8 wraps both the ring and the index, and
  capacity 3 tells the capacity from the ring size. Two elements are enough to
  see an order: the abstract queue holds every sequence of them.
- In `pipeline_series` the two queues and the three threads hold five blocks at
  most (two per buffer and one at the client), so five blocks and an EOP fill
  everything and block the client. `pipeline_fork` needs a full queue (one block
  queued, one in the thread's hands, one on offer) at most, and so do the three
  blocks of the example programs, which a flag can cut off before the first,
  between any two, or after the last.
- The kernel's time is scaled: 2 ns to the us, 2 us to the ms, 1 ms to the second,
  2 ms to the tick, so that a second is 4 units of time and a timeout word has 16
  values. Calls begin up to time 2 and the model runs to time 12, so a deadline of
  4 us crosses a second, a setting of the clock by up to 2 falls inside a wait,
  and no deadline lies beyond the end. The values at which the 32-bit
  conversion of the timeout would wrap are not reached.
- Capacities 0, 2 and 5 are the special case, a power of two and a number that is
  rounded up through several shifts; the two blocks of memory are at one aligned
  and one unaligned address. `MaxIndex` bounds how often a ring is used.
- Two threads and one lock show every race of the logger's pointer and count; two
  calls let a thread log again after its logger was replaced.
- `vendored`: three callbacks in three scopes; sizes up to 511 with a unit of 4 and
  four suffixes, which reach the last suffix and go beyond; five programs and all
  command lines of up to four arguments over their tokens, among them a group,
  an unlimited option, a trigger, a subcommand that hands its arguments up, one
  that keeps them all, environment variables, a required, a needed and an excluded
  option, parsed again over what an earlier parse has left; options with up to two
  settings changed and up to three results, all policies, a validator that checks and
  one that changes the first value; walks of 40 days around the ends of February
  of leap years, of others, and of the era; 29 formats, over days at the ends of
  years, ISO years and eras, negative years and times of day, with one change in the
  text; 13 texts of versions, two reads in turn, 8 ranges and 11 texts that are
  almost ranges.

Fairness. Threads keep running (weak fairness of each thread's steps); a timed
kernel wait ends (`KernelGiveUp` belongs to the waiter's steps, and
`KernelSemaphore` shows it of the deadlines). In the example programs these are
`main`, the source's and the buffer's thread; no signal has to arrive. Nobody is
obliged to call the semaphore or the ring. In the pipeline the client's loop is
finite and ends with an EOP, as in both examples, and a repeated
`wait_enqueue_timed` succeeds once there is room, which is what `ThreadsServed`
and the refinement of `CountingSemaphore` (a timed wait fails only when there is
no permit) say of the layers below. A step of an element belongs to the only
thread that is inside its `pushData`, so fairness per element is fairness per
thread. Calls of the logger are fair per thread: each makes finitely many, so one
that waits for the mutex gets it. `App::parse` goes on until it returns.

## 4. Findings

- `signal()` asserts `count >= 0` but is not correct for 0 (`atomicops.h` 746-750):
  the waiter is woken with `m_count` still at -1, registers again at -2, and the
  next `signal` fails its own assertion. No caller in the library passes 0.
- `StreamProcessor::pushData` stops only after `EopError` (`DataStream.hpp` 265),
  while the comment at lines 135-137 promises for any status that it is passed
  down and reported by `wait()`. After an element fills out `EopCancelled` the
  stream goes on, a sink is shown a second end, `set_value` throws and the
  process terminates, possibly before `wait()` has reported. With a threaded
  buffer in between, its thread has exited at the first end and the client
  retries its enqueue for ever.
- The handler that `main` registers "to stop the source" (`Source.cpp` 223-224)
  holds its local `source` by reference and is never unregistered, so a SIGINT
  after `main` has destroyed its locals, and before the process has exited, uses
  a destroyed object (`Utilities.cpp` 65 calls whatever was registered).
- The same handler logs before it cancels (`Source.cpp` 225). A signal handler runs
  on the thread it interrupts; when that thread is inside spdlog, which holds its
  sink's lock there, the handler waits for its own thread and the source is never
  stopped.

## 5. Observations without a run

What the models or the reading of the code show beyond the findings. None of it
contradicts a comment that a run could check, or it lies outside the bounds.

- Ring: capacity is rounded in `size_t` and multiplied by the element's size
  without a check (`readerwritercircularbuffer.h` 46-58). A capacity above half
  the range, or whose bytes overflow, gets a block that is too small; the runs keep
  to capacities whose bytes fit a word. The result of malloc is not checked
  either (`MallocFails`). `max_capacity()` (268) still gives the number asked for.
- Timeouts: Windows and FreeRTOS cut a timeout to milliseconds or ticks
  (`atomicops.h` 483, 645-648), so a wait of at most 999 us is none at all,
  although `readerwritercircularbuffer.h` 146-148 speaks of microseconds.
  `NotEarly` asks for what the platform can count. FreeRTOS loses a token that
  does not fit.
- Mach's `wait()` fails when it is interrupted; `LightweightSemaphore` then
  undoes its registration and `wait_enqueue` asks again.
- `Simple.cpp` 203 logs the total that was asked for, also after an interrupt. The
  first SIGINT restores the default, so a second one kills the process
  (`Utilities.cpp` 80), and it reads a `std::function` that `main` may be
  assigning (107). The handler of fatal signals calls `std::exit` (35).
- CLI11. The maximum of an option group's subcommands is not enforced although
  `CLI11.hpp` 9072 says such an error cannot occur: the extra one takes the way
  of a repeated one, is not recorded, and its callback never runs. `clear()`
  leaves `proc_results_`, so a single value may be read stale, and
  `parse_order_`, which accumulates. A `parse_complete` subcommand that is
  repeated validates and transforms its earlier results again. What a nested
  subcommand of an immediate one left over is lost when that one is called
  again.
- date. `%F` pads a negative year as `00-1`; `%D`, `%x` with negative years and `%e`
  below 10 without a space do not read back. `%OI`, `%OU`, `%OV` and `%OW` are
  written as numbers and read as literals, `%OC` the reverse. The sign of a
  negative duration cannot be read by `%H` and is missing in `%R`. A day of the
  year beyond the year's end, a week 0 or 53 of an ISO year, an ISO week beside a
  date computed from `%U`, a century without a year, and `%p` without an
  hour of 1..12 are not checked. `%C%y` and `%g` share one century. The year of
  a `year_month` is not checked, and adding months wraps the short silently.
  `TextTrue` names these as `Unchecked`, or its formats' days leave them out.
- semver. A comparator that fails before the last of its set ends the evaluation:
  later alternatives are not tried, so `>2.0.0 <3.0.0 || 1.0.0` does not hold for
  1.0.0. A character of no kind (`^`, `~`, `*`) makes the lexer loop for ever.
  After a prerelease ranges need a number, which `to_string` omits when it is 0.
  Leading zeros are accepted in versions and throw in ranges. A read that fails
  leaves a version half assigned, and a text that ends within the word of a
  prerelease is compared beyond its end. An unknown one-letter prerelease in a
  range counts as a release. A prerelease passes when any comparator of the
  set has the same core.

## 6. Proofs

TLC checks the instances of section 3; the theorems below hold for every value of
the constants that meets the assumptions named. All proofs are in the modules
whose names end in `Proofs`.

| Theorem | Module | Says |
|---|---|---|
| `SemaphoreCorrect` | `LightweightSemaphoreProofs` | `TypeOK`, `SignalAssertion`, `ExactlyOneToken`, `FastPathHasPermit` |
| `SemaphoreImplements` | | `ImplementsCounting` |
| `BufferCorrect` | `CircularBufferProofs` | `TypeOK`, `SlotsConserved`, `SlotsExclusive`, `SizeApproxSound`, `AsleepForCause` |
| `BufferImplements` | | `ImplementsFifo` |
| `PipelineCorrect` | `StreamPipelineProofs` | `TypeOK`, `EndsOnce`, `SuccessIsTrue`, `InFlightBounded`, `NeverStuck` |
| `PipelineImplements` | | `ImplementsContract` |
| `TimedWaitNotEarly` | `KernelSemaphoreProofs` | `TypeOK`, `NotEarly` |
| `KernelImplements` | | the kernel's semaphores implement `KernelContract` |
| `MemoryOwned` | `RingLifecycleProofs` | `TypeOK`, `OwnedOnce`, `ElementsInside` |
| `RingImplements` | | rings implement `RingValues` |
| `LoggerCorrect` | `PlatformProofs` | `TypeOK`, `LoggerKept` of `Logging` |
| `PlatformTypes`, `PlatformNotEarly`, `PlatformRings`, `PlatformLogger`, `PlatformImplements` | | `TypesOK`, `NotEarly`, `RingsOwnMemory`, `LoggerKept`, `ImplementsPromises` of `MCPlatform` |
| `ExamplesTyped`, `ExamplesUseNothingDestroyed`, `ExamplesReportTruly`, `ExamplesStopPushing`, `ExamplesLeaveNothing` | `ExamplesProofs` | `TypesOK`, `NothingUsedAfterDestroy`, `OutcomeIsTrue`, `InterruptTakesEffect`, `AllDestroyed` of `MCExamples` |
| `HelpersCorrect` | `VendoredProofs` | `HelpersTrue` of `MCVendored` |
| `CalendarCorrect` | | `CalendarTrue` of `MCVendored` |
| `ResultsCorrect`, `ReadsCorrect` | | `ResultsTrue` of `MCVendored`, and `ReadIsSent` of `CommandLineResults`, which is half of `ParseAnswers` |

Each goes the same way: an inductive invariant, a lemma per action that the
action keeps it, a lemma that it implies the properties, and, for a refinement, a
lemma that each step is one of the abstract specification or a stutter.

**The semaphore.** Assumed: `SemaphoreAssumption` and `0 \notin SignalCounts`,
without which the first finding applies. `ExactlyOneToken` is not inductive
alone. The invariant adds that the count is at least -1, and is -1 only while the
waiter is registered (`CountBounded`), and that what the waiter last saw is not
above the count (`ViewBehind`): relaxed loads are then never too optimistic,
which is what the fast path needs. `Held` is the number of permits that the
semaphore still has, and the lemmas of the section on permits say which steps
change it; they are all that the proof of the ring needs to know about the
semaphores.

**The ring.** Assumed: `BufferAssumption` (the capacity is positive and fits the
ring, whose size divides the word's). `RingInv` takes the invariant of each of the two
semaphores from `LightweightSemaphoreProofs` by INSTANCE, and adds where the two
threads may be (`Places`), that permits and elements in flight add up to the
capacity (`HeldConserved`), and that the distance of the two indices is what the
two semaphores say (`IndicesAgree`), although the threads never compare the
indices and these wrap at the word size. From that the slot of a producer that
was let through is free, and the slot of a consumer is full. `AsleepForCause` is the
safety part of "no wake-up is lost": a thread that is registered with no token
posted or owed finds, by `ExactlyOneToken`, a count of -1, so its semaphore has given
nothing out that it could have had, and by `HeldConserved` the ring is full (for the
producer) or nothing is published (for the consumer). The lemmas on residues
that the module begins with say that an index that wraps is masked to the same slot, and that indices
less than a ring apart have slots of their own. The refinement maps the queue to the slots
from `nextItem` on, as many as `items` has permits.

**The pipeline.** Assumed: `PipelineAssumption` (a finite tree, any number of children, and at most one
visitor of each kind per element, in any order), and `Failures \subseteq {"error"}`: an element that
fills out an end itself fills out an error. Without it the theorems are false,
since only an error makes an element stop: after a `cancelled` of its own, a later
end reaches the same sink, whose promise is then set twice (`pipeline_cancelled`
shows the other side of it), or a buffer whose thread has ended, where the push
never returns. The state does not say what an element has put out, so
the invariant says that some history explains it: `PipelineInv` is
`\E out \in Histories : Explains(out) /\ Running(out)`, with one sequence of blocks per element. `Flow`
and `Order` say that what an element was given is what it put out, then what it works
on, its queue, and its offer; `Passed` that it put out what it was given or an error;
`EndsLast` that nothing follows an end; `Shown` and `Called` that visitors were told just that. The
step lemmas extend the history where an element puts out a block, and keep it
otherwise. `InFlightBounded` goes over the tree by the definition of `Path[s]`, the least set with
`s` that is closed upward: a set with `s` that is closed upward holds the root.

`NeverStuck` is the safety part of `PipelineEnds`, and TLC's own check for deadlock
does not cover it, since an attempt to enqueue that times out is always possible. It needs
`Running`: a buffer's thread runs exactly until the buffer has put out an end, and then
everything the buffer will ever be given has been pushed to it (`ThreadRuns`,
`AllPushed`). From that, a full queue is one whose thread is pushing, so each call that
waits does so for a call below it, and no two for the same one: in a finite tree the
map from each to the one it waits for would be onto, and the root's call would be waited for,
which nothing does (`AllReturned`). When no call is left, the end has reached
every element (`EndReachesAll`), so no thread waits for one.

**The kernel's semaphores.** `KernelImplements` needs `KernelAssumption` alone.
`TimedWaitNotEarly` also needs that timeouts fit the kernel's word of milliseconds
(`TimeoutsFit`; the only timed wait in the repository is for one, at
`DataStream.hpp:350`; longer ones are cut off by the conversion), and that the
model's clocks do not stop before a wait may be over (`ClocksLast`, about the bounds
of the model only). `TimerHolds` is what is inductive: the time that has
passed and the time left on the kernel's timer are together at least what was asked
for, by whichever clock the platform uses.

**The life of rings.** Assumed: `RingAssumption`, with `sizeof` a multiple of `alignof`
as the language has it; `MemoryAssumption`: the bytes asked for fit a `size_t`, the
blocks that malloc returns do not overlap, and the mask is at least the capacity
minus 1; and that malloc does not fail, which the constructor does not look at. The part
on the mask is about `MaskOf`, whose shifts are a recursive function: what such a
function computes is found by TLC for the capacities of the run, not proved. `RInv` says
of each ring that its members agree (`Whole`), of each block that one ring owns it
and that it is large enough for the ring's capacity wherever that has been moved, and
that the elements are those held. The arithmetic is in `SlotInside`, `SlotsDistinct`
and `SlotsApart`: slots are aligned, inside the block, and different for elements
of one ring or of two.

**The logger.** Assumed: `LoggingAssumption` (any finite set of threads, any loggers). The
references are exact because a thread that read the pointer and has not counted itself
yet holds the mutex (`Excluded`, `Pointers`, `Counts`); no message goes to a logger
that was replaced before the call because a logger is set once (`Fresh`) and does
not come back (`Gone`).

**The composition.** The parts of `MCPlatform` share no variable. `PlatformProofs`
shows that its definitions of the kernel's semaphores and of rings are those of the
modules with their proofs, that each of its behaviours is one of each part, which
stutters while another moves, and carries the theorems over. The logger's proofs are in
the module itself.

**The example programs.** Assumed: `ExampleAssumption` (any number of blocks, any positive
capacity of the buffer, with or without the accumulator, with or without a thread that
calls `stop()`). `ExamplesInv` is the invariant of whichever program runs, in three parts.

- *Types* (`SourceTypes`, `SimpleTypes`).
- *The stream* (`SourceStream`, `SimpleStream`). The programs' pipeline is an instance of
  `StreamPipelineProofs` whose elements never fail (`PipelineIsTree`, `SourcePipe`,
  `SimplePipe`), so `Stream` is its `PipelineInv` without an error in it, and each step
  of a program is one of the pipeline or leaves it alone. What is added ties the
  client's place to what was pushed: the end comes last, with the status of the second
  load of the flag; the loop ends with the last block, or with the one that was being
  pushed when the flag was set.
- *The memory* (`SourceMemory`, `SimpleMemory`). That nothing is used once destroyed is not
  inductive: a destructor is several steps, during which the object's members still
  refer to others, and another thread may drop references in between. The first
  section of the module proves what is, for any objects that own each other without a
  circle: an object that is referred to, or whose thread runs, exists and refers to all
  that it owns (`Standing`); whatever a thread has yet to do is to drop a reference
  of its own or to destroy an object that nobody refers to, joining its thread first
  (`Dutiful`); and each reference has someone who will drop it (`Accounted`). The three
  steps of `SharedOwnership` keep this (`ReleaseKeeps`, `JoinKeeps`, `FreeKeeps`).

Elements that a thread is in then stand because a chain of owners leads to them from
something that stands (`ChainStands`), the buffer because the thread that runs on it
has not ended, or because the source's thread holds its argument. When main has
returned and no task is left, nothing is referred to and so nothing is left
(`ChainIsGone`). That main's destructor of the source ends rests on the source never
being destroyed by its own thread, which would join itself: that thread's tasks spare
the source (`Spares`).

**The helpers.** Assumed: `VendoredAssumption`. `GuardInv` says of each callback made
that either it was called once or dismissed, and no active guard holds it, or neither,
and exactly one does; a move makes the old guard passive in the step that makes the new
one active, an exception only changes which guards end next. `SizesInv` says of the loop
of `prettyPrintBytes` that the number shown, times the unit of the suffix before the
one it has come to, is at most the input, and that one more would exceed it
(`Scale[n]`, a unit to the n-th power). `Scale` is a recursive function on the naturals. That it
has the values its definition says is a theorem of the library with operators as
parameters, which the provers cannot use; `VendoredProofs` shows it for the one function from the
well-foundedness of `<`, for as many powers as there are suffixes.

**The calendar.** Assumed: `DatesAssumption` (what the code needs of 2^32);
`CalendarAssumption`, by which no year leaves the range of a short: at most ten million
days are walked from an anchor, and at most twenty moves by at most a hundred years or
months made; and that the anchors are some of `MCAnchors`, whose days and weekdays the
proof computes. `date.hpp` checks none of these ranges: beyond them a year wraps. The
walk counts one day at a time with the lengths of the months; the code divides.
The proof goes between the two by counting years from March, where a leap day is the last of its
year:

- `ToDaysIs` and `MonthStartIs`: `to_days` is linear in the day, and the first of a month is
  `YearStart` of its year from March plus `DaysBefore` its month. `YearsFollow` and
  `MonthsFollow` give the distance of one year or month to the next, so
  `DayAfterIs` and `DayBeforeIs` say that a step of the walk changes `to_days` by one.
- `FromDaysInverts`: for every date of the calendar, `from_days` of its `to_days` is the date. The
  division of a day of an era by 1460, 36524 and 146096 finds the year because
  each of the three corrections is that of one kind of leap year.
- `WeekdayIs`, `LastDayIs`, `OccurrencesAre`: the weekday is the residue by 7, also where it
  goes through `unsigned`; the n-th weekday of a month lies in the n-th seven days.
- `YearMonthPlusIs`, `MonthPlusIs`, `MonthMinusIs`: sums of months are sums of counts of months,
  also through the narrow types.
- `FloorIs`, `CeilIs`, `RoundIs`: the roundings are those of integer division.

`WalkInv` is what is inductive: the day of the walk is `to_days` of its date and the residue of its
weekday (`OnTheDay`), its distance from an anchor is bounded (`InReach`), and a date that
was taken and moved is that of its count of months, with a year
that each move takes further by a bounded step (`Moved`). The theorem has no bound
on dates but those of the assumption: 27,000 years to either side, where the run walks
days near its anchors.

**The results of an option.** Assumed: `ResultsAssumption`, for which expectations and
arguments are any integers. `ResultsInv` says that an option whose callback has run
holds what `_reduce_results` makes of its results now (`Ran`), since whatever adds or clears
results starts over, and an option is configured while it has none; and that after an
`ArgumentMismatch` nothing reduced is kept. `SentIs` goes through the policies:
what is kept is a prefix or a suffix of the right length, turned round or not. `ReadsCorrect` is a
step property of `run_callback`, which `results()` must agree with on both sides of
the call; the single result that is read through what `clear()` has left is left out of
the statement (`StaleSingle`, section 5).

**Only model-checked.** Liveness (`WaitsEnd`, `ThreadsServed`, `EndsReported`,
`PipelineEnds`, `CallsAnswer`, `ProgramsEnd`, `ParseAnswers`):
fairness and ENABLED are outside what the prover handles. What folds and recursive functions over
texts compute, and the shifts of `MaskOf`: a fact for every text needs an induction for
each such function. Of `MCVendored`, `TypesOK`, `ArgumentsKept`, `ParsedIsTrue`,
`TextTrue` and `VersionsTrue`, whose references are such functions or depend on the
grammars of the run. The findings, which are counterexamples.

## 7. Not modelled, and why

- SignalTracer, the handlers of fatal signals, throughput lines, log levels and
  texts: pure output. What spdlog and `std::future` do inside is external.
- Graphs in which an element has two callers, and two producers of one buffer:
  the code neither supports nor rejects them, and leaves it to the client.
- Exceptions thrown by `processData` or by a user's visitor; malloc failure
  in the ring, whose outcome the code does not define (`MallocFails` is FALSE).
- The accumulator's and monitor's sums in the example programs.
- CLI11: building the tree (`add_option` and its relatives), dot notation,
  Windows style, `validate_positionals` and optional arguments, negative numbers
  as values, configuration files, disabled apps, pre-parse callbacks, needs and
  excludes of apps, completion callbacks of option groups, the separators between the
  results of an option whose type size is unlimited (`inject_separator`), conversions
  and help texts. Neither example uses them.
- date: widths between `%` and a letter, a format that ends after `%`, subseconds,
  locales, the stream operators of single fields.

## 8. Plan

Done: the models and runs of every component that section 1 lists as modelled, and the
proofs of the semaphore, the ring, the pipeline, the kernel's semaphores, the life of rings,
the logger, the example programs, the helpers, the calendar and the results of options. Left:

1. `ArgumentsKept` and `ParsedIsTrue` for every tree of apps.
2. That `KernelContract` is what `LightweightSemaphore` uses: the kernel's part of
   its steps as steps of the contract.
