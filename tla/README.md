# A TLA+ model of No.js

No.js is a JavaScript runtime on V8 and io_uring. This directory holds TLA+
modules that model its core, TLC configurations that check them on small
instances, and TLAPS proofs of what matters most for every size.

Line numbers refer to the sources at the commit this directory was written for.
`PROJECT.json` maps every definition that models code to its lines.

## 1. Inventory

The process has one thread. It runs the main script, then `RunIOUring`, and
all other JavaScript runs from callbacks of that loop. Besides the thread there
are two actors: the kernel, which completes requests at any time, and signal
handlers, which interrupt the thread anywhere.

| component | state | operations | interacts with |
|---|---|---|---|
| event loop, `core/io_uring.cc`, `env.cc` | the ring (submission queue of one entry, completion queue), `pending`, `stop` | `SubmitRequest`, `RunIOUring`, `incPending`, `decPending`, `Stop` (never called) | everything asynchronous submits to it; it calls `req->cb` |
| callbacks, `core/async.h` | the request, its `RequestContext` | `makeCallback(req)`, `makeCallback(ctx)` | called by the loop, calls JavaScript, submits again (flag AGAIN) or frees |
| asynchronous operations, `core/io.cc`, `net.cc`, `fs.cc`, `ipc/unix_domain.cc` | one `malloc`ed request per call | read, write, readv, writev, close, connect, listen, openat | JavaScript calls them, they call `SubmitRequest` |
| timers, `core/timer.cc` | `timerMap`, POSIX timers, a share of `pending` | setTimeout, setInterval, clearTimeout, clearInterval, the SIGUSR2 handler, `timer_cb` | the handler submits a NOP, the loop calls `timer_cb` |
| signals, `core/signal.cc` | `signalMap` | on, off, kill, the handler, `signal_cb` | as timers, without a share of `pending` |
| inotify, `core/inotify.cc`, `libs/inotify` | `inotifyMap`, `count`, `needSubmit`; in JavaScript a map of files | on, off, `inotifyHandler`; watch, unwatch | one read request at a time, a share of `pending` |
| HTTP, `core/http.cc`, `HTTP_Parser.cc`, `libs/http` | the llhttp state, header lists; response headers | Parse, the llhttp callbacks; end, setHeader | fed by the sockets of `libs/tcp` |
| TCP library, `libs/tcp` | fd, listeners | Server, ServerSocket.read, Socket.write, connect | `core/net.cc`, `core/io.cc`, `libs/events` |
| EventEmitter, `libs/events` | `_events`, `_eventsCount` | on, once, prepend, off, emit, removeAll | base of the socket and HTTP classes |
| module loader, `core/loader.cc`, `libs/module`, `No.js` | the cache | require, compile | `core/vm.cc` |
| buffer, `libs/buffer` | bytes | toUTF8, fromUTF8, concat | sockets, HTTP |
| process, `core/process.cc` | none of its own | fork, execve, wait, exit | fork duplicates the whole runtime and shares the ring |
| vm, UDP, console, util | none | wrappers around V8 or one system call | |

What is hard in each, and what makes it correct:

* **Event loop.** `SubmitRequest` ignores a NULL sqe and the result of
  `io_uring_submit`; the kernel may refuse (EBUSY) while its completion ring
  overflows; `io_uring_submit_and_wait` may return at once or with EINTR. The
  loop has one number, `pending`, to decide between sleeping and leaving.
  Correct: the number is exact, each request has one callback, callbacks never
  nest, the loop neither leaves with work outstanding nor sleeps for nothing,
  what is posted is dispatched.
* **Timers.** The handler runs in any window of setTimeout and clearTimeout;
  ticks of a cleared timer may be on the way; callbacks clear their own timer.
  Correct: a cleared timer stays silent, a registered one can still fire, the
  process stays alive exactly as long as something is registered.
* **Signals.** The handler interrupts `SubmitRequest` itself; a context may be
  freed before `signal_cb`. Correct: no request is lost or overwritten, no
  listener runs after `off`.
* **inotify.** Listeners change while they are iterated, `count` counts
  listeners on one side and watches on the other, one read request is shared.
  Correct: an event reaches each listener once, the process is kept alive
  exactly while something is watched.
* **HTTP, TCP.** Spans over chunk boundaries, one HTTPRequest for all messages
  of a connection, `strlen` in place of the length, writes in flight together,
  framing. Correct: a message parsed in pieces gives the headers and body of the
  message as sent, bodies reach their handlers in order, nothing but the end of a
  connection stops its reading, and the end is heard.
* **EventEmitter.** emit over a snapshot, methods that emit events in their
  middle. Correct: the listeners called are those at the time of emit, `once`
  calls once, `_eventsCount` counts, a promise leaves no listener behind.
* **Module loader, buffer.** Cycles of require; UTF-8 boundaries. Correct: a
  module runs once; decoding inverts encoding.
* **fork.** Two processes on one ring. Correct would be: each sees its own
  completions.

The hazards list of `PROJECT.json` places these at their lines, with the
properties that cover them.

## 2. Modules

    AsyncContract          what JavaScript is promised, no ring, no counter
         ^ refined by
    Ring  <-  EventLoop  <-  Timers
                         <-  Inotify
                         <-  Signals
    EmitterContract        what the users of an emitter are promised
         ^ refined by
    Events                 libs/events
    HttpServer             libs/http and libs/tcp over HTTP_Parser
    Utf8                   libs/buffer, with its theorems
    MCEventLoop, MCTimers, MCInotify, MCEvents, MCHttpServer
                           model values and symmetry for TLC
    Ring_proofs  <-  EventLoop_proofs  <-  Timers_proofs
                                       <-  Inotify_proofs
                 <-  Signals_proofs
    Events_proofs, HttpServer_proofs

**Ring** is `io_uring.cc` and the kernel's side of the ring. `where[r]` is the
place of a request on its way: `free`, `sq`, `kernel`, `cq`, `cb`. `cq` is
every completion not yet taken, in order; the first `ready` of them are in the
ring the process has mapped, the others are the kernel's backlog. `phase` is the
program counter of the thread: JavaScript runs (`js`), the native end of a
callback (`after`), the condition of the outer loop (`check`), the call of
`submit_and_wait` (`enter`), asleep (`wait`), the inner loop (`drain`).

| action | code |
|---|---|
| `SubmitRequest(r, k, ph)` | `SubmitRequest`: sqe or crash, `++pending`, submit with its result ignored |
| `LoopCheck` | the condition of the outer loop |
| `Enter` | `io_uring_submit_and_wait`: flush the backlog, submit, sleep |
| `Wake`, `Interrupted` | the sleep ends with a completion, or by a signal |
| `Deliver(ph)` | one turn of the inner loop: `--pending`, advance, call `cb` |
| `DrainDone` | the peek finds nothing |
| `Complete(r)` | the kernel posts the completion of r, to the ring or the backlog |

The kernel is not under `src/`; it is modelled by what the code relies on.
`CQEntries` is the size of the completion ring (2 for a queue of one entry).
`RefuseWhenBacklogged` distinguishes the kernels the README supports: from 5.5
to 5.18 `io_uring_enter` answers EBUSY while completions are backlogged, later
ones take the submission. Completions arrive in any order and at any time, also
while JavaScript runs.

**EventLoop** adds the operations JavaScript can call and `makeCallback`. The
JavaScript program is arbitrary: whenever it runs it may make any request, and
return, throw or exit. `kind[r]` is what distinguishes requests for the runtime:
whether the callback calls JavaScript and whether it submits again.

**AsyncContract** is the abstract specification: requests are issued by running
JavaScript, each gets one callback, callbacks do not nest, listeners are asked
again for ever, and the process ends by itself only when nothing is outstanding.
`EventLoop!ImplementsContract` is the refinement, with `sq`, `kernel` and `cq`
mapped to `outstanding`.

**Timers** adds `timer.cc`. The signal handler is one action, `Tick(t)`, because
SIGUSR2 is blocked while it runs. It can happen between any two steps of the
thread, and the thread is cut into steps where it matters: inside setTimeout
between `timer_settime` and the insertion into `timerMap` (phase `setting`), inside
clearTimeout between the erase and `timer_delete` (phase `clearing`), and between
the load and the store of every `++pending` and `--pending` (`Windows`; `loaded` is
the register). The store overwrites what the handler has counted in between.
Inside the thread's own SubmitRequest the handler finds the sqe taken and crashes
the process (`TickInSubmit`). An operation of `timerMap` together with the load
after it is one step: a signal between the two does what it does after the store
before. Four history variables carry no state of the program: `cleared`, `lost` (a
one-shot timer that was disarmed without a tick, or made with a timeout of zero),
`surplus` (calls of `decPending` for a timer that is not registered) and
`overwritten` (increments of the handler that a store has overwritten). As in
`Signals`, `Deliver` of the loop is replaced by `LoadPending` and the `Reap` actions.

| action | code |
|---|---|
| `SetTimer(t)`, `RegisterTimer`, `SetTimerDone` | setTimeout, setInterval: up to `timer_settime`, the insert and the load, the store |
| `ClearTimer(t)`, `DeleteTimer`, `ClearTimerDone` | clearTimeout, clearInterval: the erase, `timer_delete` and the load, the store |
| `Tick(t)`, `TickInSubmit(t)` | `signalHandler` |
| `LoadPending`, `ReapIO`, `ReapTick` | the inner loop with its `--pending`, into the callbacks |
| `RetireTimer`, `TimerCbDone` | the end of `timer_cb`: a one-shot timer is erased and uncounted, the request freed |

**Inotify** adds `core/inotify.cc`. The read of the inotify descriptor is a
request of its own kind; `kernelWatch` and `evq` are the kernel's watches and
event queue, `inotifyMap[w]` the vector of listeners of a descriptor. The handler
is one step per listener, because a listener may call `on` and `off`: `batch` holds
the events not yet visited, `pos` the iterator, and `stale` says whether the
vector under it was erased or moved. What the compiled loop does then is a
choice: it may still see the old end, or it runs away (`crashed`). `Handled`
translates the narrowing of the result to `char`. `told` and `drops` are
history. `HandlerDone` frees the request and submits a new one; the model uses
the same slot of the pool for both.

| action | code |
|---|---|
| `On(w, f)` | `Inotify::On`: watch, `count++`, the read if there is none, the new listener last |
| `Off(w, f)`, `OffAll(w)` | `Inotify::Off` with and without a `funcId`; both end in `RemoveWatch` |
| `FileChanged`, `FileDeleted`, `CompleteRead` | the kernel: events, a watch that ends by itself, the read completes |
| `ReapRead`, `NextEvent`, `NextListener`, `HandlerDone` | `inotifyHandler`: the narrowed size, the two loops, the new read |

**Signals** takes the loop apart where a handler can interrupt it. The thread's
`SubmitRequest` is two steps: the sqe is taken and filled (`BeginSubmit`), then
the request is counted and the kernel entered (`EndSubmit`); a handler's own
`SubmitRequest` is the same two steps, so that handlers of other signals can
interrupt it there. `--pending` is a load and a store, as the build without
optimisation compiles it. `handlers` is the stack of running handlers; while it
is not empty the thread stands still. A context is a slot of memory, which `off`
frees and `on` may take again: `stale` are the requests that point to a freed one.
`owed` and `lost` are history: the deliveries a listener was not yet called for, and
the increments that the store of `--pending` has overwritten. Three steps of
`EventLoop` are interruptible here and therefore replaced: `SubmitRequest` by its
halves, `Deliver` by `LoadPending` and the `Reap` actions (which share `CallBack` with
it), `Rearm` by `RearmListener`. The rest is used as it is.

| action | code |
|---|---|
| `On(s, c)`, `Off(s)` | `signal.on`, `signal.off` |
| `HandlerEnter(s)`, `HandlerSubmit(r)`, `HandlerSubmitted`, `HandlerReturn` | the handler: delivered, one sqe and count per listener, return |
| `Operate`, `RearmListener`, `EndSubmit` | the thread's `SubmitRequest` |
| `LoadPending`, `ReapIO`, `ReapSignal`, `ReapStale` | the inner loop with its `--pending`, into the callbacks |
| `SignalCbDone` | the end of `signal_cb` |

What the module shows is sharper than "correct": `pending` is short by exactly
`lost`, so a signal that arrives between the load and the store makes the loop
leave, in the end, with a request outstanding. While nothing is lost the loop
decides well.

**Events** is one EventEmitter and any program that uses it. JavaScript is
synchronous, but the methods call listeners in their middle and listeners call
the methods, so the call stack is a variable: `stack` holds what each suspended
method has still to do, and `js` frames are the program. `emit` keeps the rest of
its copy, `_addListener` stands between 'newListener' and the insertion (and reads
`_events` again), `removeAllListeners(type)` walks an array that others change or
detach (`live`, `list`), `once` has a wrapper with `fired`. The promise of
`once(emitter, name)` adds two listeners and settles by removing the other. It may
settle while `once` still runs, by a listener of 'newListener' that emits (`early`),
and a listener of 'newListener' may throw: the executor of a promise catches that,
the promise is rejected and the caller of `once` goes on (`thrown`). The program is
any but for one thing: 'newListener', 'removeListener' and `listeners(type)` hand it
the two listeners of the promise, and it does not itself register, remove or call
them.

**EmitterContract** has no stack and no methods. Lists change by one listener or
are emptied. Emissions nest and each has a depth; one begins with the whole list of
a type and calls it from the front, whatever is done to the lists meanwhile. `turn` is
the depth of the emission that goes on, 0 while other code runs: only the
innermost emission may have the turn, only with the turn does it call or end, and
only code that is not an emission abandons emissions, which is an exception caught
outside them. A spent wrapper is in no list. `Events!ImplementsContract` is the
refinement: `EmissionsOf(stack)` has the rest of every `emit` frame at its place
on the stack, `TurnOf(stack)` is the top if that is such a frame.

| action | code |
|---|---|
| `On`, `Once`, `Off`, `Emit`, `RemoveAllListeners`, `RemoveEverything`, `PromiseOnce` | the methods, up to the first listener they call |
| `CallNext`, `EmitDone`, `Fire` | the loop of `emit`, `onceWrapper` |
| `Added` | `_addListener` after 'newListener' |
| `RemoveNext`, `ClearNext` | the loops of `removeAllListeners` |
| `PromiseSecond`, `PromiseMade`, `Settle` | `once(emitter, name)` and its two listeners |
| `Return`, `ThrowOne` | the running listener returns or throws |

**HttpServer** is one connection of a server. The stream is a sequence of units: the
request line, the halves of names and values, the empty line, and in the body
characters of one byte, the two bytes of another (`lead`, `trail`) and NULs; a read
takes any number of them, up to the buffer. Each part of a body becomes a string of
its own (`NewFromUtf8`), in which a byte without the rest of its character is
replaced; `cut` is history, the characters that a read has cut. What is parsed is what
`strlen` makes of the buffer (`Strings`): the part before a NUL, or more than the
buffer holds. llhttp is three variables (`expect`, `left`, `span`): the part it is
in, the rest of the body, an open span, which the end of a chunk closes. `keys`,
`values` and `body` are the members of `HTTP_Parser`; `requests` is what 'request'
was emitted with; `listeners` are those of the one HTTPRequest, in the order of
the messages whose handler added them. Headers are of one line each: a value folded
over several lines would give several spans in one read. How many replacements a
longer character leaves is not modelled, nor are the strings made of header names
and values.

| action | code |
|---|---|
| `Send(b)`, `Leave(how)`, `Accept(ok)` | the client, and the accept of a connection or of an error |
| `ReadData(n)`, `ReadEnd`, `ReadFails` | the callback of read, by the sign of its status |
| `MessageBegin`, `SpanGoesOn`, `SpanEnds`, `HeadersComplete`, `Body` | the callbacks of llhttp and the listeners they call |
| `ParseError`, `ParseReturns` | llhttp's error; the end of the chunk and the next read |

**Utf8** has the encoder and decoder of one character as operators over all code
points, `CodePoints`. They have no state and no run: every statement about them is a
theorem of the module.

## 3. Runs

| run | instance | shows |
|---|---|---|
| `event_loop` | 4 requests, ring of 2, refusing kernel | the invariants of the loop and the refinement of AsyncContract |
| `event_loop_live` | 3 requests, ring of 1, fair | a posted completion is dispatched, a refused submission is retried |
| `event_loop_crash` | 4 requests, ring of 2, refusing kernel | **violation**: a NULL sqe is written |
| `timers` | 2 timers, 3 ticks, 1 request, ring of 1, one clear of a dead timer, 2 overwritten increments | the invariants of the timers and `NoCallbackAfterClear` |
| `timers_live` | 2 timers, 2 ticks, 1 request, 1 overwritten increment, fair | an armed timer fires |
| `timers_surplus` | 2 timers, 1 tick, 1 request, no overwritten increment | **violation**: a second clear of a timer ends the process under a live interval |
| `inotify` | 3 requests, 2 descriptors, 3 listener ids, 1 queued change, ring of 1 | the invariants of the watches and `ToldOnce` |
| `inotify_live` | 3 requests, 1 descriptor, 2 listener ids, fair | queued events reach the handler |
| `inotify_iteration` | 1 descriptor, 2 listener ids | **violation**: a listener that removes itself derails the iteration |
| `signals` | 2 signals, 2 contexts, 3 requests (2 of handlers), ring of 1, refusing kernel, 2 lost increments, fair | the books of `pending` under interruption, each delivery reaches each listener once, the loop decides well, and a handler's request is dispatched |
| `events` | 1 name and the 3 special types, 1 function, 2 wrappers, 4 additions, 2 other calls, 1 exception | lists, count, `once`, removal, the promise, and the refinement of EmitterContract |
| `http` | 2 messages of 1 header, bodies of 0, 2 and 3 units with a character of two bytes, buffer of 4, fair | the headers and bodies as sent, everything is read, the end is heard |

*Bounds.* Requests are a pool, so runs are unbounded in time and only the number
of requests in flight is limited. Four requests on a ring of two is the smallest
instance in which the ring is full, one completion is backlogged and a further
submission is refused, after which the loop may crash: `NoCrashWithRoom` proves
that fewer requests never do. On a ring of one three suffice. Timer ids are never used again (the kernel counts them up), so
`TimerIds` bounds the timers of a whole run; two are enough for one timer's
count to be taken by the other. `MaxSurplus` bounds the clears of dead timers the
program makes; timer_cb's own second decrement is not bounded. `MaxOverwritten`
bounds the increments that stores overwrite: two are enough for one store to lose both
ticks it was interrupted by; one suffices for liveness, and none is needed for the
violation, whose cause is another. Watch
descriptors and listener ids are not used again either; two descriptors let a
watch be made after the last one was removed, three listener ids let one vector
grow, shrink and move under the iterator. A batch still holds several events, for
deletions and removals queue events beyond `MaxEvents`. `EventSize` is 48 in
`inotify` (an event with a name padded to 32 bytes), where two events of a batch
are handled and a batch of three, 144 bytes, becomes negative in a `char` and is
dropped; it is 16, an event of a watched file, in the other two. The run sees only
those batches; the proof of `NeverReadsPastTheBatch` covers every length and size.
In `signals` the requests of handlers are a pool like the others, and `Room` lets
a handler run only if the pool has a request for each listener: the program has
`malloc`. `MaxLost` bounds the increments overwritten by stores of `--pending`; two are enough
for a store that loses more than one. Two signals nest one handler in the other;
one more would nest the same way. In `events` `MaxAdds`, `MaxCalls` and `MaxThrows` bound the calls of a
behaviour, not the depth: four additions are a listener of 'newListener' or
'removeListener', two of the type, and one from a listener; one function is enough
because the same function may be listed several times, with and without wrapper,
and the removals must tell these apart. In `http` a buffer of 4 units is shorter
than a message (6 units and its body), so that every name, value and body is cut
everywhere, and longer than a body, so that a read spans two messages; two
messages are enough for the listeners of the first to hear the second. `MCBodies`
has a character of two bytes, which every cut of a read can hit, two bytes that are
no character, and a NUL at the end.
Symmetry is used where no liveness is checked; within a pool requests differ only
by name.

*Deadlock* is checked: `Idle` stands for an emitter the program leaves alone and
for a connection that waits for its client. In the loop the only states without a step of the program are those in
which the process is over, which `Over` covers, and the sleeping thread always
has `Interrupted`.

*Fairness.* `WF(LoopStep)`: the thread is scheduled and goes on as long as it
can; `Wake` is part of it because the kernel wakes a waiter whose condition holds.
`WF(JSReturn)`: callbacks return; a callback that loops for ever stops the
runtime by design. No fairness is assumed of `Complete` in the loop, for a read
may never complete. For the timers, `SF(Tick(t))`: a POSIX timer that is armed
expires and its signal is delivered; it is strong because in the model `Tick` can
be disabled for a while by the bound on the ticks in flight. `WF(Complete)` for
ticks: a NOP completes. For inotify, `WF(CompleteRead)`: a read with events
queued completes. For signals the thread's
steps are `SF`: signals may come without end and the thread runs only between
them, but it does run between them; `WF(HandlerStep)`: handlers go on;
`WF(Complete)` for their NOPs. For the server `WF(ServerStep)`: the loop runs its
callbacks, which `PostedIsDispatched` shows of the loop itself, and a read of a
client that has sent or left completes. Nothing is assumed of the client, nor of
the JavaScript program except that its callbacks return.

*Findings.* `NeverCrashes` fails. The submission queue has one entry and the
result of submit is dropped, so on a kernel that answers EBUSY a second
submission in the same callback dereferences NULL, while README.md:3 promises all
kernels from 5.5. `IntervalKeepsProcessAlive` fails because `clearTimer`
decrements `pending` unconditionally; test/signal/signal.js:14 relies on an
interval keeping the process alive. `LoopStaysInside` fails
because the handler's iterator survives neither a removal nor an insertion by the
listener it calls, in spite of the comment at inotify.cc:25.

Two defects explain the form of the timer properties: `decPending` in `clearTimer`, and
the increments that a store of the thread overwrites. `ExitsOnlyWhenDone` and
`SleepsOnlyIfSomethingIsLeft` hold as long as `surplus` and `overwritten` are zero, and
`TimerAccounting` says exactly by how much the count is wrong otherwise. An overwritten
increment alone also ends the process under an interval; `timers_surplus` excludes
it, so that its trace shows the first defect.

Every property of a passing run has a mutant in the module it is about, an
operator named in its comment as such: a plausible bug of that code for which TLC
finds the property violated.

## 4. Proofs

TLAPS checks these for every pool of requests, ring size, kernel, number of
timers, watches, listeners and events, from the named assumptions of the modules only (the pools are finite,
`None` is not in them, a ring has at least one entry).

* `Ring_proofs`: how each step of the ring keeps the invariant `RingCore` and
  changes `Balance`, the part of `pending` that is not a request. The heart is
  arithmetic on cardinalities: one request in or out of `Outstanding` with each
  change of `pending`.
* `EventLoop_proofs`: `IInv` is inductive. It is the conjunction of the type
  invariant, `CompletionQueueExact` (needed to know that the head of the queue is
  a request in place `cq`, so that taking it lowers `Outstanding` by one),
  `FreeIsNothing` (a request that is free is no listener), `OneCallbackAtATime`
  and `PendingIsOutstanding`. A second layer, `LoopInv`, relates the phase to the
  places: at `enter` and `wait` something is outstanding, at `wait` the
  submission queue is empty and the backlog flushed. From these follow
  `TypeCorrect`, `PendingIsExact`, `CompletionsAreExact`, `CallbacksDoNotNest`,
  `ListenersLive`, `SleepsForAReason`, and `Refinement`: every step is a step of
  AsyncContract or a stutter. `NoCrashWithRoom` says when the loop does not
  crash: if the kernel does not refuse, or at most `CQEntries + 1` requests are alive
  at once. The request submitted is in no queue and the others fit into the
  completion ring (the pigeonhole principle on `cq`), so nothing is backlogged, no
  submission refused and the sqe always free (`Unrefused`). The bound is exact:
  `event_loop_crash` has one request more, and crashes. It is a theorem about a
  process without signal handlers: one that interrupts `SubmitRequest` finds the
  sqe taken on any kernel (`HandlerSubmit` of `Signals`).
* `Timers_proofs`: `TimersIInv` adds that `pending` is short by `surplus` and
  `overwritten`, what the thread is in the middle of (`TargetInv`), and that a
  registered timer was never cleared. In a window `loaded` is at most `pending` (`WindowInv`);
  their difference is what the store will add to `overwritten`. From it `TimersTypeCorrect`, `TimersAreCounted` and
  `ClearedTimersAreSilent`. `AliveInv` adds that a tick is of a timer that was made
  and is not the one being set, that `timer_cb` holds the timer of its request or
  that timer is registered no more (`TickInv`), and that the kernel goes on with an
  interval until it is cleared: so the tick `timer_cb` frees is never the last
  thing a registered timer had, which is `RegisteredTimersLive`. `ExitInv` has what
  the loop knows when it decides: a zero of `pending` that no dead timer falsified
  means that nothing is left. From it `ExitMeansDone`, and with `AliveInv`
  `SleepsForATimerOrARequest`. The proof also corrected a property: `TimerAccounting`
  does not hold after a crash inside clearTimeout, a state the first bounds of the
  run were too small to reach.
* `Inotify_proofs`: `InotifyIInv` joins the state of the ring, the count of the
  watches (`WatchInv`), the one read request and the flag that stands for it
  (`ReaderInv`), and that the handler's iterator exists only while that read is in
  its callback (`IteratorInv`): a completion cannot replace the batch under the
  iterator, because the only request that could complete is the one whose
  callback runs. From it `InotifyTypeCorrect`, `PendingIsCounted`,
  `WatchesAlwaysCounted`, `AlwaysOneReader`, `ReadsStayInside` (with `HandledBound`,
  arithmetic on the narrowed size for every size of an event), and
  `WatchesKeepTheLoop`, which also needs that the loop is left only at zero.
  `ListenersAreToldOnce` needs one more layer, `ToldInv`: a vector holds a listener
  once, and none behind a good iterator was called for the event; it is kept
  because `off` moves the rest of the vector to the front, never back.
* `Signals_proofs`: `SigInv` has, for every state that is not a crash, where the
  current callback is (`CallbackInv`), that the one sqe that is taken and not
  counted has exactly one holder, the thread or one handler of the stack
  (`SqeInv`), the books with that holder and with `lost` in them (`CountInv`), what
  `--pending` has loaded (`LoadInv`) and what the loop knows at each phase
  (`LoopInv`). `SqeInv` is the point: `HandlerSubmit` crashes when the sqe is taken,
  so `Uncounted` never has two members, however deep handlers nest, and each half
  of a submission moves the books by one. From it `SignalsTypesCorrect`,
  `ShortIsLost` and `LoopDecides`. `OwedInv` is a second layer: a context is in one
  list at one place (`Placed`), the requests of signals and no others carry a
  context (`SignalsMarked`), and what a context is owed is the number of its requests
  that are outstanding and not stale, plus the places of running handlers that they
  have not come to. A handler's submission moves one from the second set to
  the first, `ReapSignal` takes one from the first, and `off` empties both for
  its contexts while no handler runs. From it `OwedComes`.
* `Events_proofs`: `EventsInv` is the types of the lists, of the stack and of the
  rest, with `CountIsExact`. Each part of a method (`Insert`, `AddListener`,
  `RemoveListener`, `RemoveAllOf`) changes a list and the count in one step of the
  model because no listener runs between these lines; `FilledChange` is the
  arithmetic. From it `CountCorrect` and `EventsTypes`. The rest of the module is about
  what a suspended method can rely on, whatever the listeners above it do, so each
  invariant speaks of every frame of the stack:
  - `LoopsInv`: a `removeAllListeners(type)` to whose list nothing was added has
    at least as many turns left as the list has listeners, or, once the array was
    detached, that array is the list's last listener and one turn is left. From it
    `LeavesNone`.
  - `OnceInv`: a wrapper is being added by one frame and nowhere else yet, or in one
    list at one place, or running, and then in no list and in no emission above the
    frame that runs it. Emissions below may still hold it, which is why `fired` is
    needed: the wrapper is in a list only before it has fired, and `Fire` sets it before
    the listener runs. From it `OnceIsOnce`.
  - `PromiseInv`: each of the two listeners of `once(emitter, name)` has its own
    wrapper and its own type (`Home`), is added only while a frame below is still
    making the promise, and both are gone when the promise is settled or a frame
    is settling it after both were added (`NothingLeft`). A promise that settles
    while `once` runs is settled by the first listener, which is then gone for good
    (`ResolverGone`), so that only the second can be left. From it `NothingStays`. It
    needs `FunctionsAssumption`, that the program does not itself pass one of the two
    as a listener. They are closures of `once` (events/index.js:451, 456), but the
    events 'newListener' and 'removeListener' (179-180, 289, 315) hand them out, so
    this is a restriction of the program. The promise whose `once` throws is not
    covered: its first listener may stay.
  - `EmitterRefinement`: `ImplementsContract`, one case per action. `EmitDone` maps
    to `Finish`, an exception to `Abandon`, a method that emits in its middle to a change of a list together
    with the beginning of an emission. `OnceInv` gives the abstract `Spend`.
* `HttpServer_proofs`: `HttpIInv` adds to the types where a span may be open
  (`SpanInv`), that names and values are in step in a head that no read has split
  (`HeaderInv`), and that 'end' was not emitted while the connection goes on
  (`EndInv`). From it `HttpTypes`, `NoWildHeaderUnlessSplit` and
  `EndIsEmittedOnce`. That llhttp is given damaged input is no exception: the
  junk a full buffer appends is among the units.
  `StreamsInv` is about the connections whose input was not damaged, and says nothing
  of the others. What was sent is a sequence of whole messages numbered from 1
  (`StreamInv`); the chunk is what was read and is not parsed yet (`ChunkInv`); the
  parser is before the first message, in a head with some headers complete and
  `keys`, `values` and `span` holding what belongs to that place, or in a body
  with `left` units to come (`PlaceInv`); and so the requests emitted are the heads
  passed (`RequestsInv`) and the listeners heard the text passed (`HeardInv`), in
  order and none for a message still to come. `CutInv` has that the
  place where the parser stands is in `cut` if it is inside a character, and that
  `cut` has no place further on but the end of what was read: so the bytes replaced
  in a part are those at the cuts. From it `RequestsAreAsSent` and
  `BodiesAreHeard`. That a sequence is the selection of some places of another
  (`Selects`) is said with cardinalities of sets of places, one per element, because
  `SelectSeq` is defined by recursion, which would need induction.
* `Utf8`: `RoundTrip` (fromUTF8 inverts toUTF8 for every code point, in spite of
  the open ranges of toUTF8), `FirstByteCounts` (the first byte tells how many
  follow) and `EndsTakeSix` (exactly the eight ends of the ranges take six bytes;
  lone surrogates, in three bytes, are another output that is not UTF-8), all by
  arithmetic.

Every invariant and every safety property that a passing run checks is stated by one
of these theorems. Only model-checked is liveness (`PostedIsDispatched`,
`RefusedIsRetried`, `ArmedTimerFires`, `EventsAreRead`, `SignalIsDispatched`,
`EverythingIsRead`, `EndIsHeard`), which needs fairness and is out of the prover's
reach; and the three violations are counterexamples.

## 5. Not modelled

* Memory lifetime: the pointers to dead stack in accept and connect, the freed
  path of openat, buffers the collector may free while the kernel uses them, and
  the context of a timer that is freed before a handler reads it are hazards of the
  list without a property. For contexts of signals, `ReapStale` has the outcomes.
* `malloc` inside a handler, and `signal.on(SIGUSR2)`, which takes the handler of
  the timers.
* Timers and signals together: in `Timers` the handler of SIGUSR2 is one step, which
  the handlers of other signals could interrupt as those of `Signals` interrupt each
  other. In `EventLoop` and `Inotify` no handler runs.
* A promise of `once(emitter, name)` whose `once` throws, a program that registers the
  promise's listeners itself, folded header values, and characters of more than two
  bytes: see §2.
* Results of requests, and the contents of buffers, addresses and paths.
* Timer id reuse, `CLOCK_REALTIME` steps, and values of the timeout other than
  zero or not zero.
* An exception of the main script aborts the process (`Terminate`); one of a
  callback is dropped.
* HTTPResponse, which formats one string, and the writes of a socket: each is a
  request of `EventLoop`, with no order between two of them.
* The map of `libs/inotify` on top of `Inotify`; the module loader, whose
  `require` is one synchronous recursion; the loops of `libs/buffer` over a string.
* fork: parent and child go on with one ring between them, and the code does not
  say which of the two takes a completion.
* vm, UDP, console, util: wrappers without state. llhttp, V8 and liburing are
  vendored and appear only by what the code relies on. Most of the lines under
  `src/` are their headers.

## 6. Plan

The order in which modules were written follows what depends on what: the ring and
the loop, the users of the loop that count in `pending` (timers, inotify), the
handlers that interrupt it, then the libraries above. What is left:

1. `InotifyLib`, the map of `libs/inotify` on top of `Inotify`: its entry that
   outlives the last unwatch.
2. The writes of a connection, composed with `EventLoop`: two in flight, short
   writes, and the end of the reading side.
