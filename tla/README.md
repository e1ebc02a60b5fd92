# python-libei: verification

TLA+ models of [python-libei](../src/README.md), Python bindings for libei and
libeis with a client for the desktop portals that hand out EIS connections.
The models cover what the Python code decides: who holds a C reference, what a
thread may find in a cache, how a portal request ends, who closes a file
descriptor. What the C libraries, GLib, D-Bus, the portal and the compositor do
is modelled from how `src/` uses them and marked external in `PROJECT.json`.
Line numbers below are of files in `src/src/libei/`.

* `M.tla` is a component, `MCM.tla` the module TLC runs, `*.cfg` one question.
* `MProofs.tla` holds the theorems about `M` and their proofs.
* `PROJECT.json` lists runs, mutants, hazards, theorems, findings, and for each
  definition the source lines it translates.

Checking a run: `tlc -config CObjectCache.cfg MCCObjectCache.tla`. Checking the
proofs: `tlapm CObjectCacheProofs.tla`.

## 1. The system

| part | file | state | operations | speaks to |
|---|---|---|---|---|
| identity cache | `_cobject.py` | `_instances` per hierarchy, its lock, each wrapper's `_pointer` and finalizer | `wrap`, `adopt`, construction, `release`, finalizer, use as argument | C reference counts; every class of `ei.py`, `eis.py` |
| lazy loader | `_capi/loader.py` | `_lib`, `_load_error`, `_lock`, one cache slot per binding | `function` and the call it returns, `is_available` | `dlopen`; all binding tables |
| portal request | `portal.py:424-570` | subscriptions, result, timer, `timed_out` | `_request` | GLib main loop, D-Bus, portal |
| signal wait | `portal.py:1065-1380` | subscriptions, result, malformed, timer, closed | `_wait_for_signal` | the same |
| portal sessions | `portal.py` | `_eis_fd`, `_eis_fd_claimed`, `_closed`, `_session_handle` | `negotiate`, `eis_fd`, `close`, `__exit__`, `__del__` | a sequence of portal requests; fds |
| capture phase | `portal.py:1500-1752` | none of its own beyond the session handle | `zones`, `set_pointer_barriers`, `enable`, `disable`, `release`, two waits, `close` | requests, waits, the compositor |
| oeffis | `oeffis.py` | `_state`, `_eis_fd`, `_eis_fd_claimed` | `create`, `dispatch`, `eis_fd`, `__del__` | liboeffis |
| event queues | `ei.py`, `eis.py` | the generator frames of `events` | `dispatch`, `events`, `peek_event_type`, `Event.release`, the typed accessors, `new_ping`, `Ping.send` | libei/libeis; the identity cache |
| contexts and fds | `ei.py:1056-1300`, `eis.py:1121-1260` | none in Python; a number handed on or kept | `create_for_fd`, `set_fd`, `add_client`, `release` | sessions, oeffis, the caller's file objects |
| device setup | `eis.py:343-510`, `ei.py:390-438` | the locals of `configure` | `configure`, `new_keymap`, `Keymap.fd`, `add` | libeis; the file offset shared with the peer |
| emulation numbers | `ei.py:58-74` | one process-wide counter | `start_emulating` on both sides | libei/libeis |
| client and server objects | rest of `ei.py`, `eis.py` | none (C state) | getters, setters, requests | C |
| binding tables | `_capi/lib*.py` | none | declarations | loader |

The parts meet in four ways. Every object of `ei.py` and `eis.py` is a wrapper
of the identity cache, and every C call goes through the loader. Sessions are
sequences of portal requests, and the capture phase is a sequence of requests
and waits. The fd a session or an oeffis context obtains is handed to an
`ei.Context`, which is why its ownership matters. Threads are supported by the
cache, the loader and the counter, which lock or say why they need not. Portal
sessions make no promise to threads and are modelled with one caller, who is
concurrent with the portal, the compositor and the main loop.

What is hard here, and where each item is listed with its line (`hazards` in
`PROJECT.json`):

* *concurrency*: racing wraps, a finalizer against a new wrap of its pointer,
  release against lookup, first calls of the loader, counter draws;
* *ordering*: answers before the call returns, several callbacks in one
  iteration of the main loop, events queued behind the event that ends a drain;
* *failure*: a negotiation or a `configure` that stops halfway, a token spent, Ctrl-C in a blocking call, a
  portal that never answers, -1 for an fd, a `dlopen` that fails;
* *stale state*: reused addresses, reused fd numbers, zone sets and activation
  ids that are over when they arrive, signals between two subscriptions, an
  accessor that has checked an event another loop then gives back;
* *timeouts* that race an answer, and late answers to calls already given up.

## 2. Modules

```
ObjectIdentity <- CObjectCache <- MCCObjectCache        (<- refines)
MainLoop       <- PortalRequest, SignalWait             (EXTENDS)
RoundTrip      <- PortalRequest                         (refines)
SessionWait    <- SignalWait                            (refines)
InputCapture      a call is a RoundTrip, a wait is a SessionWait
EisFd          <- PortalSession, Oeffis                 (EXTENDS)
PortalSession, Oeffis <- EisSource                      (composed over EisFd)
LazyLoader
EventQueue
DeviceRegions, KeymapFd, Emulation <- MCDevice          (one part at a time)

CObjectCache, LazyLoader, PortalRequest, SignalWait, EisSource, InputCapture,
EventQueue, MCDevice  <-  the module of that name with Proofs  (DeviceProofs)
```

**CObjectCache** models one wrapper hierarchy. Python wrappers go `free -> live
-> dead -> free`; between `live` and `dead` the weak dictionary forgets them
(`Collect`), and between `dead` and `free` their finalizer gives the reference
back (`Finalize`), so another thread may wrap the same pointer in between. The
C side counts references and reuses an address once the count is 0; `gen` tells
the objects at one address apart. `_get_or_create` is `GetOrCreateHit`, or
`GetOrCreateMiss` followed by `InitRef` and `InitRegister` with the lock held;
root objects (`Context`, `Eis`) skip the lookup (`Construct`) and take the lock
for the registration only. `release()` is `ReleaseInvalidate`, `ReleaseEvict`,
`ReleaseUnref`. Two constants give the three shapes of hierarchy,
and `MCCObjectCache` instantiates all three for one run:

| `HasRef`, `Wrappable` | classes |
|---|---|
| true, true | Region, Keymap, Device, Seat, Ping, Client |
| false, true | Event, Touch |
| false, false | Context, Sender, Receiver; Eis |

Rules of use it assumes, each a guard with a comment: a borrowed pointer stays
valid until the wrap that uses it has taken its reference, an owned pointer is
new (every `adopt` takes the result of a C constructor, which nobody else knows,
so its lookup never hits: `ei.py:684,1214`,
`eis.py:491,507,697,761,819,831`), and nobody releases a wrapper that another thread
is passing to C at that moment. The `isinstance` check that raises `TypeError`
(182-198) changes no state and is left out.

**ObjectIdentity** is what a user may rely on: while a wrapper stands for a C
object, no other does, and the object lives. `CObjectCache` implements it with
`alive` = addresses with a positive count and `proxy` = the cached wrapper that
has not been released.

**LazyLoader** has one action per Python read, write or C call of
`_ensure_loaded` and of the `call` closure: the double-checked read, the lock,
`dlopen`, `getattr`, `argtypes`, `restype`, the cache slot. The lock is not
reentrant. The second look at the arguments after `ArgumentError` (135-149)
changes no state and is left out.

**MainLoop** is the GLib loop both waits nest: an iteration takes every source
that is ready and dispatches all of them in attach order, whatever an earlier
one did about quitting; `quit` before `run` is forgotten; a source whose
callback returns False is gone, and removing it again is the critical warning
the code guards against (`timer = "missing"`).

**PortalRequest** is `_request` over that loop. Responses may come on the
derived path or on the returned handle, before or after the call returns, more
than once, or with contents that are no pair. Signals may be dispatched inside
the call (as the test doubles do) or only by the loop (as GDBus does).
Interrupts arrive in the two blocking calls. **RoundTrip** is what it promises:
one end; only a code that was sent; a timeout only when it was due.

**SignalWait** is `_wait_for_signal`: two subscriptions taken one after the
other, signals of this session, of another and of none, good and malformed
payloads, `Closed`, an optional deadline. **SessionWait** is what it promises:
one end, with the first thing the portal told this session, with a timeout only
after the deadline, or with an interrupt. `first` is a history variable of
`SignalWait`: the first cause that was delivered to it.

**EisFd** is the process's fd table and the life of an EIS fd after its session:
`create_for_fd` with an int gives the number away, also when the setup fails;
with a file object it duplicates, and both numbers live on; `add_client` mints
fds of a server in the same process; strangers open files under numbers that
became free. `misclosed` records a close by anyone who no longer owns the number.

**PortalSession** is `negotiate()` of both classes (`kind`), one action per
step, each ending as a round trip may, then the session object: reading
`eis_fd`, `close()` in its two halves, of which the first may fail, `__del__`. A restore token of an earlier
run is checked, presented in the step that has it among its options, consumed
and perhaps replaced. A `Close` call that is interrupted may or may not have
reached the portal.

**InputCapture** is the phase after that: a sequence of calls and waits of one
caller against a compositor that moves on by itself. Requests and answers are
FIFO in each direction; a call given up is still handled and its answer still
comes, and is matched by serial and `handle_token`. A signal that arrives while
nobody is subscribed to it is lost. Its waits are one step, which is what
`SignalWait` implementing `SessionWait` allows.

**Oeffis** is the polling session of liboeffis: the library may go several
events further in one `oeffis_dispatch` and queues them; `Drain` takes them one
by one. **EisSource** composes it with `PortalSession` over `EisFd`: a process
gets its fd from one or the other (`source`), and the ownership rule is stated
once for both (`EisFdClosedByOwner`, `FileStaysOpen`).

**EventQueue** is the `events` generators of `ei.Context` and `eis.Eis` (the two
are the same code): several loops, nested or left half-way, addresses of events
reused, events released by the program itself, `peek_event_type` in between. A
typed accessor is two steps, the check of the type (`Require`) and the last read by
address (`Read`); it reads one field after the other in between, which changes
nothing, so `ReadsOwnPayload` is an invariant of the whole stretch. A ping has up to three holders: its wrapper (`new_ping` adopts,
`pong` wraps), the library while the answer is out, and the PONG event. The
table `Valid` is the accessors' own.

**DeviceRegions** is `Device.configure` of the server: one action per C call of
its loop, any of which may raise (`Fail`); the exception keeps the wrapper of the
region in hand until it is dropped (`Collect`). The server may retry or add the
device as it is. **KeymapFd** is the keymap's text with every number it is open
under and the one offset they share: the server's file, the library's number,
the duplicates of `Keymap.fd`, which asks for the number, duplicates it and
rewinds in three steps; another thread may release the keymap between the first
two, and the history variable `torn` marks a reader that this happened to.
**Emulation** is `start_emulating` on both sides, by any thread on any device,
the 32-bit modulus scaled down so that the counter goes round within a run. Its
history variable `overtaken` marks a thread whose device was started by another
after it had drawn its number.
`MCDevice` checks the three in one run. They share no variable, so a behaviour
moves one of them only (`part`): interleaving them would add nothing.

## 3. Runs

One run per component, or per group of components that share state, asks
everything of it; each ends within a minute or two. The four runs that end in a
counterexample are the findings of section 6.

| run | asks | bounds | distinct states |
|---|---|---|---|
| `cobject_cache` | references balance, no wrapper is stale or doubled, calls get live objects, abandoned objects are freed, the abstract map is implemented | all three shapes; 2 threads, 2 addresses, 2 wrappers, 2 objects per address | 152,793 |
| `lazy_loader` | one `dlopen`, types before calls, one answer; every call returns; no deadlock | 2 threads, 2 bindings | 8,821 |
| `portal_request` | a request leaves nothing behind, hears early answers, keeps the first, is a round trip, and ends whatever the portal does | 2 codes, 2 paths, each Response once | 3,000 |
| `signal_wait` | the first outcome wins, the abstract wait is implemented, nothing is left, every wait that has a deadline or a cause ends | 3 signals of any kind | 104,888 |
| `eis_source` | a failed negotiation and close end the session; a restore token is not wasted; the fd is closed once, by its owner, through `ei.Context` and file objects too; no connection without an fd; an ended session is reported and keeps raising | both classes and oeffis, 2 bus names, 3 fds, 2 unknown events | 342,550 |
| `input_capture` | reports in order, fresh layouts, a release ends its own capture | 4 calls, 2 captures, 2 layouts | 628,518 |
| `event_queue` | each event once and in order, held by its loop, freed by its own wrapper, read as what it is; pings balance; SYNC is answered | 2 loops, 2 addresses, 4 events, 1 ping, 2 accessors | 221,656 |
| `device` | regions whole and not leaked; keymap files open and read from the start; numbers go up per device and differ between devices | 3 regions, 2 configures of up to 2; 2 readers, 4 fds, 2 chunks; 2 threads, 2 devices, 2 rounds of the counter | 784,280 |
| `request_timeout`, `wait_closed`, `capture_wait`, `keymap_shared` | findings | | |

Why the bounds are enough. A race in the cache needs two threads and one
address; the second address lets a wrapper be reused for another pointer, two
wrappers let one be dead while the other takes its place, and two objects per
address is a reuse. The proofs of section 5 remove these bounds for safety. A
request has two subscriptions, so all four Responses (two paths, two codes) and
the malformed ones may be in flight together. A wait can tell three signals
apart: one that is dropped, the one that decides and one too late. Three fds are
a number of ours, a duplicate or another session's, and one that takes over a
number. In the capture phase four calls
allow a call given up, its late answer and a second one of the same method, with
two captures around them. Two loops and more events than addresses
give nesting, abandonment and reuse at once; one ping reaches all three of its
holders. Two `configure` calls are a failure and a retry, with a region left over
from the first. Two readers, the library's number, the server's and a stranger's
contend for four numbers. The counter runs past the modulus twice.

No run uses symmetry. Deadlock is checked for the loader; elsewhere the
environment may stop and programs may end. The type invariants are parts of the
inductive invariants of section 5, which are proved; they and the other parts are
left out of the runs. Each `IInv` was model-checked with the configuration of its
module before it was proved (`INVARIANT IInv`), and a reader who changes a model
does well to do that again first.

Each property of each passing run has a mutant of the code in `PROJECT.json`
that TLC finds to violate it: a lock not taken, a guard dropped, a reset
forgotten, an order swapped. The mutated operator stands next to the one it
replaces, marked "Mutant of".

## 4. Fairness

Liveness is claimed under what the code's environment really gives.

* `CObjectCache` (stated in `MCCObjectCache`, for the shape of the behaviour):
  CPython frees an unreachable object and runs its finalizer, a
  thread inside the package keeps running. Nothing is assumed of the program or
  of the library, in particular not that it ever drops its own reference.
* `LazyLoader`: threads keep running, and *strong* fairness for taking the lock.
  A Python lock is not fair, but after the first load it is held for an instant
  and by finitely many callers, so a waiting thread is not passed over for ever.
* `PortalRequest`, `SignalWait`: time passes, GDBus bounds the call by the time
  left, the loop runs. The portal owes nothing: neither an answer nor an end.
* `EventQueue`: `peek_event_type` returns, and, *strongly*, a program resumes or
  leaves each of its loops. A loop is disabled while another piece of code is
  inside a peek, which comes and goes; a thread is not stopped by that for ever.
* `EisSource`, for its `Oeffis`: the C call returns, the drain goes on, and the program dispatches
  again while the fd is readable, as `dispatch` asks it to. That the fd is
  readable while events are queued is assumed of liboeffis.
* `InputCapture` (`capture_wait` only): the portal handles what it is sent and
  the bus delivers.

## 5. Theorems

Every invariant and every action property of the passing runs, and each of the
three refinements, is proved with TLAPS for every value of the constants. What
is assumed of the constants is named in the modules:

* finite sets of threads and wrappers, `HasRef => Wrappable` (`CObjectCache`);
* bounds are natural numbers, `NULL` is no code, signal, address, region, thread
  or fd, there is a first zone set, and the default bus name is a bus name;
* there is a device (`Emulation`);
* fd numbers are natural numbers, as -1 means none (`KeymapFd`); they are finite
  in number (`EisFd`);
* a PONG and a ping are not among the other event types (`EventQueue`).

No safety property here is inductive by itself. Each module ends with the
invariant that is, `IInv` (`RegionsInv`, `KeymapInv`, `EmulationInv` of the device
parts), as a conjunction of named parts; the proofs have one lemma per action
and one step per part that the action can disturb.

**CObjectCacheProofs.** Whether a finalizer's unref frees the right object depends on who
else holds a reference, on what the lock holder has half done and on the cache
agreeing with the wrappers. `IInv` says so in parts:
fields of a wrapper against each other (`WrapperInv`), locals of a thread
against its program counter (`ThreadInv`), who may hold the lock (`LockInv`), a
wrapper under construction is private (`BuildInv`), cached wrappers are valid
except one being evicted (`CacheInv`), live wrappers are cached
(`RegisteredInv`), an owned pointer on its way in is private (`OwnerInv`), and
`RefBalance`.

| theorem | property |
|---|---|
| `Typing` | `TypeOK` |
| `Balance` | `RefBalance`: references = armed finalizers + owned pointers in flight + the library's own |
| `Freshness` | `NoStaleWrapper` |
| `Uniqueness` | `OneWrapper`: live wrappers that `__eq__` calls equal are one |
| `SafeCalls` | `CallsOnLive` |
| `ValidHits` | `CacheValid` |
| `Refinement` | `KeepsIdentity`: `Spec => Identity!Spec` |

**LazyLoaderProofs.** `IInv` of the loader relates the two flags to the number
of opens, the lock to the program counters, and each binding's cache slot to the
types of its function. From it follow `OneDlopen`
(`OpensOnce`), `TypedCalls` (`TypedBeforeCall`) and `SameAnswer`
(`AnswersAgree`).

**PortalRequestProofs.** The hard part is the one iteration in which an answer
and the deadline are both ready. `InTimeInv` says why an answer recorded in time
wins: it has made the loop quit, and the iteration that dispatches it does not
dispatch the deadline. `TimerInv` follows the deadline's source from its creation
to the `finally` (it is never removed twice), `SubsInv` the subscriptions,
`SentInv` ties what is queued or recorded to what was sent, and `EndInv` says why
the loop was left. What one iteration of `MainLoop` delivers is a lemma of its
own (`DeliverFacts`, `TakeSignalFacts`, `IterateFacts`); the wait has the same
three about its own signals.

| theorem | property |
|---|---|
| `Typing` | `TypeOK` |
| `Cleanup` | `CleanedUp` |
| `Racelessness` | `AnswerHeard`: an early answer is heard, one in time is not turned into a timeout |
| `FirstReply` | `FirstReplyWins` |
| `Refinement` | `IsRoundTrip`: `Spec => RoundTrip!Spec` |

**SignalWaitProofs.** That a wait ends with the *first* thing the session was
told needs to be known before anything is recorded: `HeardInv` says that the
first signal that tells the session anything is then still ahead of everything
else that does, in the current batch or behind it. `OutcomeInv` says that at most
one outcome is recorded, and which one may be.

| theorem | property |
|---|---|
| `Typing` | `TypeOK` |
| `Cleanup` | `CleanedUp` |
| `FirstOutcome` | `FirstOutcomeWins` |
| `Refinement` | `IsWait`: `Spec => SessionWait!Spec` |

**EisSourceProofs.** `PortalInv` is kept by the steps of a portal session and
`OeffisInv` by those of a liboeffis context; `IInv` joins them, the source that is
not in use being as it began (`SourceInv`). An fd has one owner: a table entry is
the object's if and only if the object has it and has not handed it on
(`OwnerInv` of either). `SessionInv` ties the handle to the portal's session:
whoever knows a handle has still to close what is behind it. `TokenInv` says at
which step a new restore token can have come. `QueueInv` of `Oeffis`: liboeffis
connects once, so no fd is obtained over one that is there.

| theorem | property |
|---|---|
| `FailureEnds` | `FailureEndsSession` |
| `CloseEnds` | `CloseEndsSession` |
| `Token` | `TokenKept` |
| `Ownership` | `EisFdClosedByOwner` |
| `FileOpen` | `FileStaysOpen` |
| `LiveFd` | `ConnectedHasFd` |
| `Raising` | `EndKeepsRaising`, the safety half of `EndIsReported` |

**InputCaptureProofs.** Captures begin and end in the order of their ranks
(`Rank`), and the compositor's past has a rank too (`Now`). `SignalInv`: the
reports under way are in the order of their ranks, none is younger than `Now`, and all are younger than what
the caller knows of, though signals were dropped from between them. `AnswerInv`:
no answer under way bears a number to come, and one that bears the number of the
current `zones()` was given since that call began, which is what `handle_token`s
are for. `CallInv`: releases under way name a capture. The three are restated of
an arbitrary queue (`InOrder`, `Timely`, `Named`), so that what an append and a
delivery do to them is one lemma each.

| theorem | property |
|---|---|
| `Typing` | `TypeOK` |
| `Ordered` | `ReportsInOrder` |
| `Current` | `FreshLayout` |
| `Released` | `ReleasesOwn` |

**EventQueueProofs.** An event's references are the queue's, its wrapper's and a
peek's, once each (`CountInv`). That a wrapper frees its own event though
addresses are reused needs `PlaceInv` (an address has one event, and it is
referenced) and `WrapperInv` (a wrapper with a pointer is the cached one of its
address, its event is there and its loop is at it). `OrderInv`: what was yielded
and what is queued are all that arrived, in order. `AnswerInv`: a ping is
answered by one PONG; `ReadInv`: the type an accessor checked is still the
event's when it reads.

| theorem | property |
|---|---|
| `Typing` | `TypeOK` |
| `Order` | `EachEventOnce` |
| `Held` | `HeldByItsLoop` |
| `Freed` | `OwnEventFreed` |
| `Pinged` | `PingRefs` |
| `OwnPayload` | `ReadsOwnPayload` |

**DeviceProofs.** `Parts` says that every behaviour of `MCDevice` is one of each
of the three parts (`RegionsSpec`, `KeymapSpec`, `EmulationSpec`), which the other
theorems are about. A region is held by the device, by `configure` and by an
exception, once by each (`RegionsInv`); every number open on a keymap is one
holder's alone, and the number a reader was told is still the keymap's unless it
was `torn` (`KeymapInv`); no draw is used twice, and one about to be used is
younger than what its device was started with before unless it was `overtaken`
(`EmulationInv`). That the
numbers themselves differ and go up holds within a round of the counter only,
which is what the two properties say.

| theorem | property |
|---|---|
| `Settled` | `RegionsSettle` |
| `Intact` | `KeymapIntact` |
| `Different` | `NumbersDiffer` |
| `GoUp` | `DefaultsGoUp` |

Only model-checked: what must happen eventually (`Reclaimed`, `CallsReturn`,
`Ends`, `WaitEnds`, `SyncAnswered` and that an end is reported at all in
`EndIsReported`), which the prover does not reach, and the four findings of
section 6, which are counterexamples.

## 6. Disagreements between the code and what is said of it

Each is a run that TLC ends with a counterexample.

1. `request_timeout` (`portal.py:568`). Response and deadline are dispatched in
   one iteration: `_request` raises `PortalTimeoutError` with the answer
   recorded, while `docs/troubleshooting.md:88` says of that error that the step
   was "never answered". `_wait_for_signal` had the same race and was fixed
   (`CHANGELOG.md:94-98`). The same race in `CreateSession` (866, outside the
   `try` of 899-915) leaves a session open that `negotiate`'s docstring
   (805-809) says is closed.
2. `wait_closed` (`portal.py:1304`). A session closed between two waits hangs
   the next unbounded wait, against `CHANGELOG.md:104,109-110`.
3. `capture_wait` (`portal.py:1702-1718`). `wait_for_deactivation` blocks
   although the current capture has ended, if it ended before the wait
   subscribed; its docstring says it blocks "until the current capture ends".

4. `keymap_shared` (`ei.py:437`, `eis.py:383`). Two file objects from one
   keymap share the offset the rewind resets, so what is read through one is
   missing from the other, against "Rewound to position 0 where the fd allows
   it, so the data is simply readable" (`ei.py:415-417`). What does hold,
   `KeymapIntact`, is about a file object nobody else's reading disturbs.

Two threads that start one device at the same moment draw and pass on their
numbers in two steps each (`ei.py:586-588`), so that the younger number may reach
the library first and the device's numbers go down. The comment at `ei.py:58-66`
argues that one counter "trivially satisfies the per-device requirement", which
it does for a device started by one thread at a time; `DefaultsGoUp` excepts the
thread that was overtaken, and only it.

A keymap released by another thread while its `fd` is being read may make
`os.dup` duplicate whatever has taken its number (`ei.py:422-427`).
`KeymapIntact` excepts that reader; the rest holds however the two interleave.

After an explicit larger sequence number the default number of a device goes
down again (`ei.py:586`). The docstring (582-584) can be read as excluding that;
`DefaultsGoUp` compares drawn numbers only.

## 7. Not modelled, and why

* Getters, setters and one-call methods of `ei.py` and `eis.py`, and the binding
  tables: no state in Python, no decision.
* A `configure` called again after it failed adds its first regions twice; the
  code does not say whether it may be, and no property forbids it.
* What a caller does with an fd twice: `EisFd` hands each number on once.
* `KeyboardInterrupt` between two bytecodes: interrupts are modelled where the
  program blocks. Elsewhere no Python cleanup survives them; so a C constructor
  and the `adopt` of what it returns are one step (`NewRegion`, `NewPing`).
* `adopt` of a pointer that has a wrapper (`_cobject.py:199`): no caller does it.
* A Response emitted on a handle the code has not been told of yet, before it
  subscribes: the step is in `PortalRequest`; no property asks for the answer,
  the code cannot get it.
* Wrap-around of activation ids; a compositor that reuses them.
* Enumerations and conversions of C values, log forwarding, documentation,
  tests and tools.

## 8. Plan

Done: every module of section 2 with its runs, and the proofs of all their
safety properties and refinements.

Next, proving:

1. What the findings leave standing, as theorems with their condition stated:
   without the race of `request_timeout` a timeout does mean that nothing was
   answered, and a wait that begins before the session is closed does end with
   `Closed`.
2. The safety half of what must happen eventually: a state from which nothing
   more is possible has nothing left to report (`SyncAnswered`), to reclaim
   (`Reclaimed`) or to wait for (`Ends`, `WaitEnds`).

Next, extending the model:

1. `PortalSession` over `PortalRequest` itself instead of a round trip in one
   step, so that the session stranded by a timed-out `CreateSession` follows
   from `request_timeout`'s own steps.
2. A capture session that composes `SignalWait` with `InputCapture`, with the
   two subscriptions as steps.
