# woob in TLA+

TLA+ models of the core of woob (`src/woob`): the code that calls a function on
many backends at once, runs scheduled events, repeats what a site interrupted,
loads and unloads backends, keeps their state, logs in with two factors and
installs modules.  Sites,
pages and applications are the environment of these models.

`PROJECT.json` says for each definition which lines it stands for (`map`), for
each part of the program whether it is modelled (`components`), and lists what
can go wrong in the code and is hard to test (`hazards`), at the line where it
bites.

## 1. The system

| Component (source) | State | Operations | What is hard |
|---|---|---|---|
| BackendsCall (`core/bcall.py`) | task queue and its `unfinished_tasks`, response queue, error list, stop event, one thread per backend, the backends' locks | constructor, `backend_process`, `store_result`, iteration, `callback_thread`, `wait`, `stop` | every thread and consumer interleaves on the two queues; the loops' condition is read in three steps; a backend listed twice; `stop()` at any point |
| Scheduler (`core/scheduler.py`) | mutex, stop event, counter, queue of timers, a thread per timer | `schedule`, `repeat`, `cancel`, `want_stop`, `run` | timers race with `cancel` and `want_stop`; functions that call the scheduler; an interrupted `run()` that joins under the mutex |
| retry_on_logout (`browser/retry.py`) | tries left, the current iterator, items already given | the wrapper's loop, `iter_retry.__next__` | a logout at every point of a call, a replay or an iteration; a site that changes its answer |
| WoobBase / Woob (`core/woob.py`) and Module (`tools/backend.py`) | loaded backends, their locks, browsers and states | `load_backend(s)`, `unload_backends`, `do`, `iter_backends`, `Module.deinit`, `Module.browser` | backends unloaded while calls are queued or running on them; an exception half-way; locks held by a suspended generator |
| StandardStorage (`tools/storage.py`, `tools/config/yamlconfig.py`) | one shared YAML document, one subtree per backend, the file | `load`, `set`, `delete`, `save` | threads of several backends save the same document; the program is killed |
| Dependencies (`core/repositories.py`) | the growing list of modules, `DepList` | `_get_all_dependencies`, `recursive_deps`, `dependency_sort` | cycles, missing modules, places that shift while a value is moved |
| Installation (`core/repositories.py`) | index, `versions.list`, module directories | `update`, `install`, `_install_one_module`, `Woob.update` | a kill or an error between two steps; archives newer than the index; new dependencies |
| Index files (`core/repositories.py`) | `sources.list`, index files, loaded repositories | `update_repositories`, `load`, `check_repositories` | sources that are unavailable in part; files named after places |
| BackendsConfig (`core/backendscfg.py`) | the backends file | `add_backend`, `edit_backend`, `remove_backend` | read, modify and rewrite without a lock, from several programs |
| Saved configurations (`tools/config/*.py`) | values in memory, the file, the last save, the saving process | `save`, `force_save`, `__exit__` | delayed and forked saves |
| Two-factor browsers (`browser/mfa.py`, `switch.py`, `StatesMixin` of `browsers.py`, `_do_and_retry` of `tools/application/repl.py`) | cookies, page and date of the second factor; the state kept in the storage with its expiry; codes in the configuration | `load_state`, `dump_state`, `locate_browser`, `do_double_authentication`, `set_browser` | a login that one program begins and another ends; a code that a new challenge makes void; states that expire at one of two dates; programs that are killed or may not ask |
| Cached responses (`browser/cache.py`) | responses by request | `open_with_cache` | revalidation |

The parts interact as follows.  An application holds a `Woob` object; `Woob.do()`
selects loaded backends and makes a `BackendsCall`, whose threads lock a backend
and run its function; the function drives the backend's browser, often under
`retry_on_logout`, and saves its state through the backend's storage.  The
`Scheduler` runs functions of the application in timer threads, which make calls
of their own.  `Woob.load_backends()` reads `BackendsConfig` and asks
`Repositories` for modules, which it may install on the way: the dependencies
are sorted, then installed one after the other.

Three rows of the table are not modelled: the backends file, saved
configurations and cached responses (section 7).

## 2. The modules

| Module | Models | Composed with |
|---|---|---|
| `BackendsCall` | `core/bcall.py` | implements `ResultStream`; `MCBackendsCall` gives it small instances; `BackendsCallProofs` |
| `ResultStream` | what a call promises to its consumers (abstract) | |
| `Scheduler` | `core/scheduler.py` | `SchedulerProofs` |
| `RetryOnLogout` | `browser/retry.py`, 28-86 and 124-184 | `MCRetryOnLogout`; `RetryOnLogoutProofs` |
| `WoobBackends` | `core/woob.py` with the life of a `Module` | stands for a `BackendsCall` by one worker for each backend called; `WoobBackendsProofs` |
| `StandardStorage` | `tools/storage.py` over `YamlConfig` | `StandardStorageProofs`; what `WoobBackends` calls `storage` |
| `DependencyOrder` | the order in which modules are installed | gives `ModuleInstall` its `Orders`; `DependencyOrderProofs`, and `RepositoriesProofs` for this step |
| `ModuleInstall` | the installation of the modules of that list | `MCModuleInstall`; `RepositoriesProofs` |
| `RepositoryIndexes` | the index files of the sources | gives `ModuleInstall` its `index`; `RepositoriesProofs` |
| `TwoFactor` | `browser/mfa.py` with the state kept between programs, `switch.py` and the application's question | `MCTwoFactor`; `TwoFactorProofs`; its `browser_state` is a subtree of `StandardStorage`, dumped by the `deinit()` of `WoobBackends` |

### BackendsCall

A *task* is the position of a backend in the list given to the constructor, so a
backend may be listed twice.  `tasks` and `unfinished` are `queue.Queue` and its
counter, `responses` and `errors` are what threads store, `stopped` is
`stop_event`, `lock` the backends' `RLock`s.  `pc[t]` is the place of thread `t`
in `backend_process()`: `get` (a thread takes whatever task is first), `lock`,
`call`, `iter` and `check` (one result is stored, then the stop event is
looked at), `done` (`task_done()`, in the finally clause), `release`.  What the
function does is a choice: a value or `None`, an iterator of up to `MaxItems`
values (an `Endless` one goes on with `None`), an exception at any point, or an
exit that is not an `Exception`, which stores nothing.

`cpc[c]` is the place of a consumer.  Iterators and callback threads run the
loop whose condition the code writes in one line and Python reads in three
steps (`loop`, `count`, `peek`), then wait for a response with a timeout
(`get`), hand it out (`hand`: here the program may leave its loop, which closes
the generator and stops the call, or its callback may raise) and finally deal
with the errors: the others test the list and then raise it (`raise`), a
callback thread pops an error (`popped`) and then calls its `errback` (`errback`).
It may die there too (`broken`), of its `errback` or of a list that another one has emptied.
`handed` is history: for each task the items the consumers got, in that order;
`delivered` is what it contains.  Waiters join the threads; stoppers call `stop()`, with or
without wait.  Holders are other code that locks a backend (`iter_backends()`).
`queue.Queue`, `Event` and `RLock` are taken for what they are documented to do.

### Scheduler

`queue`, `count`, `stop_event` are the attributes; the mutex is only in the model
where it is kept for more than a step, by `_wait_to_stop()` (`held`): any other
body under it is one action, guarded by `~held`.  What is outside the mutex is a
step of its own: `_schedule()` reads the stop event (`ReadStopEvent`) before it
registers (`Register`, or `RegisterFails`, which loses an identifier), `want_stop()` sets it (`WantStop`) before it cancels
(`Clear`).  `tpc[e]` is the thread of timer `e`, a `Timer` or a `RepeatedTimer`;
while its function runs (`run`) it may call the scheduler like any program
thread.  `rpc` is `run()`, which polls until it is interrupted.

### RetryOnLogout

The wrapper calls the function up to `Tries` times; when it returns an iterator
the caller gets an `iter_retry`, whose `__next__()` calls the function again when
the iterator was dropped, replays what was already given (`replay`), and draws
the next item (`draw`).  A `LoggedOut` may come at each of these points, or
another exception (`CallFails`, `ItemFails`), which is not retried and ends the
iterator.  A site
gives one of `Replies` each time it is asked, so the new answer may be shorter
or differ.  `errors` counts the exceptions the program saw; it asks again after
`MaxErrors` of them.

### WoobBackends

`backend_instances` is the dict; objects are numbered as they are created.  Each
program thread is in one operation (`ppc`): `load_backend()` creates the object
long before it stores it (`build`, `put`); `unload_backends()` pops a name, waits
for the lock, calls `deinit()`, releases, name after name, and an exception from
`deinit()` or a name that another thread popped leaves the rest loaded.  A
configured backend that is loaded again is unloaded first (`reload`).
`iter_backends()` keeps a backend locked while the program's body runs.
Workers are the threads of calls, one call after the other: `Do` picks the
object, `Enter` takes its lock, which may be after the object's `deinit()`
(`late`; what such a function does to the browser is not kept).  The browser is created by
its first use, with the state of the storage, and functions advance that state;
`deinit()` dumps it, or fails to, and closes the browser.  `clash` remembers the
names that two programs were loading or unloading at once, of which
`NoneForgotten` and `StateNeverBack` say nothing: `load_backend()` looks at the
name long before it stores the backend.

### StandardStorage

A backend is a thread.  `values` is the document in memory, shared by the
backends of a program.  A backend loads its subtree when it is created, in a
program whose other backends are at work: `StartLoad` takes out what it finds
(`found`) and leaves its default (`Bare`) in the document, `EndLoad` puts it back.
A `Change` is numbered, and that number stands for the subtree.  `Save` opens a temporary file, `Dump` writes one subtree at a
time (so another backend may change its own in the meantime), `Replace` renames
the file.  `Restart` kills the program at any step and starts it again, with the
document of the file and no backend loaded.

### DependencyOrder

Modules are any finite set, requested in any order.  `CollectNext` is a round of the loop of
`_get_all_dependencies()`, on a list that grows, `CollectFails` its
`ModuleInstallError`; `SortNext` is one call of `move_value_after()`, with the
assertion that may fail there.  `Found` is `recursive_deps()`, whose recursive
calls share one result: a function of the modules still to visit and of those
found, since what a `RECURSIVE` operator computes could not be reasoned about.  `Reach` and `Needed` are the reference: they are
defined by sets that are closed under dependencies, not by a recursion.

### ModuleInstall

One remote repository publishes versions (`Publish`), and may once go back to an
older one (`back`), after which it publishes nothing: then a module that is newer
than the index is refused as already at its latest version (`RefuseLatest`), and
the properties say nothing any more.
`StartUpdate` fetches the index and plans what is updatable, `StartInstall` plans
one module, both with dependencies, in any order that `DependencyOrder` allows.
`Loadable` is what `ModulesLoader.load_module()` needs: the files of the module and
of all that they import.  `Fetch`, `RemoveOld`, `Extract` (or `ExtractPart`, cut by a kill or a bad
archive), `SetVersion` and `RetrieveIcon` are the steps of
`_install_one_module()` that leave something on the disk; `RefuseLatest`,
`FetchFails` and `LooksInvalid` are its errors, which `update()` reports before
it goes on and `install()` does not catch.  `InstallMissing` is the end of
`Woob.update()`.  `Stop` is a kill or an exception that nobody catches.

### RepositoryIndexes

`index_files` has for each index file the place in its name and its
source.  `UpdateRepositories` removes them all; `Retrieve`, `IndexFails` and
`KeyringFails` deal with one line of `sources.list`; `Restart` loads the files
in the order of their names: `Loaded` puts a file behind those that are `Ahead`
of it.  Lines may be edited at any time.  Places are numbers, as names with two
digits are as long as `sources.list` has no more than 100 lines
(`IndexesAssumption`).

### TwoFactor

One backend, used by one program after the other.  The site is the environment:
it numbers its challenges, `asked[i]` is the session of challenge `i`, and a
code answers one challenge, rightly or not.  A session is named after its first
challenge, and that name is the `cookie` of a browser; `open` holds the sessions
that are logged in, and the site may close one at any time.  `now` is a clock
that `Tick` advances; dates are compared with it.

`pc` is the place of the program.  `Call` uses the backend: `create` is
`Module.browser`, which loads the state in the browser of the site that was used
last and then goes to the page it names (`CreateLocated`, an `HTTPError` that is
swallowed, another exception, or a login page that makes the site send another
challenge, `CreateSendsAgain`), unless a code is there
(`ShouldSkipLocateBrowser`).  `login` is `need_login` and
`do_double_authentication()`: the first method that has a code (`HandleAccepts`,
`HandleAsks`, `HandleFails`), or `init_login()`, which may ask, open a session,
fail, or switch to the other browser.  `ask` is the application at the question;
it may call again at once, give the code to the configuration for a later call,
or end.  The next program may get the code in its configuration
(`StartProgram`).  `Deinit` dumps the state with its expiry, `Kill` does not.

Constants have the code's class attributes.  Of `SwitchingBrowserWithState` its
users are modelled (the modules caissedepargne and creditcooperatif): the
session and the attributes are kept, and `init_login()` raises `SiteSwitch`.
`told`, `field` and `want` are history: the question that is open, and the session it or
the last login is in.  `forgotten` is what the properties make an exception of:
a state that expired, a program killed before it dumped, a page that was
lost, a login that failed after it cleared the cookies, another challenge that was
sent to a program which went to the page of the state, having no code or one in a key
that is not in `SKIP_LOCATE_BROWSER_ON_CONFIG_VALUES`.

## 3. The runs

Every passing run has all its properties checked on the complete state space.
A mutant in `PROJECT.json` goes with each property: a plausible mistake in the
code that makes the property fail.  Mutated operators are in the modules, next
to the definition they replace, and are marked so.

| Run | Instance | Shows |
|---|---|---|
| `call_iterate` | 2 backends, up to 2 values each, the first may yield for ever; an iteration and a `stop()` | `NoLostResult`, `OnceInOrder`: no result is lost, repeated or reordered by the loop that is read in three steps; `IsResultStream`: refinement of `ResultStream`; `AtMostOneLate`, `StopEndsThreads` |
| `call_shared` | one backend listed twice, two callback threads, a `wait()`, another holder of the backend's lock | `BackendExclusive`, `NoLostError`, `ConsumersEnd` |
| `scheduler_stops` | 2 program threads, 2 events, up to 2 starts of a repeated one | `CancelOrRun`, `NoOrphanTimer`, `EventHandled`, `TimersStop` |
| `scheduler_blocked` | the same | violated: `WantStopReturns` (section 6) |
| `retry_loop` | 4 tries, answers of 0 to 3 items that agree or not, one more `next()` after an error | `AtMostTries`, `GivesReply`, `Answers` |
| `woob_threads` | 2 program threads, one of which loads and iterates; 2 names, 2 objects, any number of calls, one at a time | `NoneForgotten`, `StateNeverBack`, `DeinitOnce`, `StateDumped`, `UnloadEnds` |
| `storage_killed` | 1 program, 2 backends, which may be loaded again at any time, 3 changes | `AlwaysWhole`, `QuietSaveKept` |
| `order_3` | all graphs of 3 modules, all sets available and requested | `Complete`, `DependedOnFirst`, `Ends` |
| `install_forward` | 3 modules with 2 versions; a new version with a dependency that has one too | `Repairable`, `InstallDelivers`, `UpdateDelivers`, `DependenciesFirst` |
| `update_incomplete` | the same | violated: `UpdateLoads` (section 6) |
| `indexes_update` | lists of up to 3 lines of 3 sources | `UpdatedAll`, `LoadedAgain` |
| `two_factor` | 2 methods, of which `locate_browser()` is skipped for one, 2 sites, 3 challenges or sessions, clock up to 4 | `CodeMeetsItsChallenge`, `LoginOnlyIfNeeded` |

### Bounds

- *Calls*: two threads are what a race on the two queues needs, and the theorems
  of section 5 hold for any number; two values per task tell an order; two
  callback threads are needed for one to empty the error list under the other.
- *Scheduler*: two events are a timer and one that its function registers or
  cancels; two starts of a repeated event show one after a cancellation.
- *Retries*: four tries allow a logout in the call, in the replay and in the
  iteration of one loop; three items allow a replay of two.
- *Woob*: two objects are a backend and its reload, or two names; two threads
  dispute a name.  `Loaders` and `Iterators` leave one thread to load and iterate,
  which halves the states twice; with both threads as loaders the
  properties but `UnloadEnds` hold too (714,504 states), but the liveness check
  takes too long.  One worker at a time: `BackendsCall` has the threads of one call.
- *Storage*: two backends dispute the file; three changes are two of one backend,
  so an older state can come back, and one of the other; loads, saves and restarts are
  not bounded.
- *Orders*: three modules have every cycle, chain and double path;
  with them each module can be moved behind, and over, the two others.
- *Installation*: `back` ends what is published, so one withdrawal is
  explored with all that follows it; the chain of three is a new dependency of an installed module
  that brings another; two versions are an index that is older than the archive.
- *Two factors*: a state lasts one unit and a second factor two, so the clock of
  four separates both dates and lets a state expire after a program that
  used it; three challenges are two sessions and a challenge sent again, or a
  question asked twice in a session after another one.
- *Indexes*: three places are a first, a middle and a last one; doubles included.

### Deadlock

`CHECK_DEADLOCK FALSE` stands where the program may simply stop: `scheduler_*`
(once every bound is used up, or when the interrupted `run()` blocks, which
`scheduler_blocked` is about) and `woob_threads` (objects are used up).
Elsewhere deadlock is checked, and the end of a finite program is an explicit
`Terminated` step.

## 4. Fairness

- `BackendsCall`: weak, for the constructor, each thread of the call, each
  consumer once it has begun, and the release of a lock by a holder.  Threads
  are scheduled by the interpreter, functions and iterators return (an endless
  iterator yields), and `get()` has a timeout.  Nobody has to begin to consume or
  to stop.  Locks need no strong fairness here, since each thread takes its lock
  once.
- `Scheduler`: strong for a timer thread, which competes for the mutex with
  callers that may come back for ever; weak for a caller that is inside
  `_schedule()` or `want_stop()` and for an interrupted `run()`.  Nobody has to
  call the scheduler.
- `WoobBackends`: weak for loading and for the end of a function; strong for what
  waits for a lock (`Unload`, `Iterate`, `Enter`), which others take and release
  again and again.
- `RetryOnLogout`, `DependencyOrder`: weak, for the one thread; the site answers
  every request, and the program need not ask.

The other runs check safety only.

## 5. What is proved

Each theorem holds for every value of the constants that the named assumption of
its module allows.

`BackendsCallProofs` (from `CallAssumption`: any number of backends in any list,
any iterators, callbacks, waiters, stoppers and holders):

- `TypeCorrect`: `TypeOK`.  It is not inductive alone: that `tasks` holds tasks
  that exist and that `unfinished` does not fall below zero needs to know where
  each task is.
- `ResultsNotLost`: `NoLostResult`.  `IInv` adds to `TypeOK` that a thread that
  was not started is at its beginning (`NewInv`), that each task is queued once, taken by one
  thread or finished (`TasksInv`), that `unfinished` counts the tasks that are not
  finished (`CountInv`), that what was stored is queued or was handed out
  (`ResultsInv`), and what a program counter of a loop means (`LoopsInv`).  The last is
  the argument: a consumer that read zero unfinished tasks knows that every
  thread has called `task_done()`, hence has stored all it will store, so the
  queue it then finds empty stays empty.
- `BackendsExclusive`: `BackendExclusive`, from `LockInv`: whoever is inside a
  backend owns its lock.
- `OneLateResult`: `AtMostOneLate`, from `LateInv`, which rests on `IInv`: one
  thread has one task, and leaves it at the check that follows a late result.
- `ErrorsNotLost`: `NoLostError`, from `ErrorsInv`: what a backend raised is in the
  list, in the hands of a callback thread that popped it, or was reported, and
  once every thread has ended and a consumer found the list empty nothing is
  raised any more.
- `GivenOnceInOrder`: `OnceInOrder`, from `OrderInv`: items of one backend are
  numbered upwards in the queue and in `handed`, those handed out are below those
  that are queued, and none is numbered beyond what was drawn.  A result that is
  handed out twice would be twice in `handed`.
- `ImplementsResultStream`: `IsResultStream`, a step of the call at a time, from
  `IInv`.  A first attempt failed on a callback thread whose `errback` raises: its
  loop was over and it then went back to a place that counts as inside.  TLC does
  not meet it in `call_iterate`, which has no callback thread; the place
  `broken` of `BackendsCall` came from there.
- `ThreadsNotStuck`: `NoThreadStuck`, from `WaitInv`.  A thread waits for a task or for
  a lock.  Once all are started, a thread that waits for a task has one in the queue: each task
  is queued or was taken by a thread of its own (`TakenInv`), so if none is
  queued there are as many threads that took one as there are threads
  (`TasksLeft`).  A lock that a thread waits for is free or its owner is inside
  the backend and has no other to wait for (`OwnerInv`, the converse of `LockInv`).
- `StopNearsTheEnd`: after `stop()` every step of a thread lowers its `Distance` to the end, also in
  an iterator without end.

`StandardStorageProofs` (from `StorageAssumption`: any programs on one file, any
number of backends and changes):

- `FileWhole`: `AlwaysWhole`, from `WholeInv`: what a dump has visited is a subtree,
  and a dump that is about to replace the file has visited all of them.
- `QuietKept`: `QuietSaveKept`, for one program (`Single`), from `QuietInv`: what is in
  the file, in memory, in the hands of a load and in the visited part of every dump
  under way is not older than what a quiet save wrote, or the bare default of a load
  (`KeptInv`), and while a quiet save is under way a
  dump that visited its backend's subtree holds what memory does (`AloneInv`).
  Without `Single` it is false: another program has a document of its own.

`WoobBackendsProofs` (from `WoobAssumption`: any names, program threads, calls and
objects):

- `TypeCorrect`: `TypeOK`, from `MadeInv`: an object that a name, a program or a
  worker refers to was made.
- `UnloadedOnce`: `DeinitOnce`, from `OwnInv`: an object that is in the dict, or that
  a program has taken out or not yet put there, is not unloaded and belongs to
  that name or program alone.  Without the last, two programs could call its
  `deinit()` one after the other.
- `WorkDumped`: `StateDumped`, from `LockInv` (whoever is inside an object owns its lock) and
  `DumpInv` (a function that runs on an object that is unloaded came late): what
  was dumped is the browser's last state because nobody was at work on it.
- `NotForgotten`: `NoneForgotten`, and `StateNotLost`: `StateNeverBack`, an action
  property, from `NInv`, which is proved after `IInv`.  `AloneInv` says that two
  programs at one name are always in `clash`, where a program is at the name it
  loads, at those it has still to unload and at that of the object in its hands.
  While it is alone there, nothing is loaded that it would overwrite (`FreeInv`), so a
  backend that is not unloaded is in the dict or in its hands (`KeptInv`), and the
  state of its browser is not older than what is stored (`StateInv`).
- `LocksGivenBack`: `LockedInside`, the converse of `LockInv`: a lock that is taken is
  with somebody who is inside the object, and every way out gives it back, those
  of exceptions and of a generator that is closed included.
- `UnloadNears`: each step of an unload or an iteration leaves fewer names or
  objects, or as many and a smaller `Distance`; what others load in the meantime
  does not lengthen it.

`TwoFactorProofs` (from `TwoFactorAssumption`: any methods, sites and durations):

- `TypeCorrect`: `TypeOK`.  `CodesInv` is needed because a code that is accepted
  opens the session of its challenge, which has to exist: the only key with a
  code is `field`, and its code is for `told`, a challenge of `want`.
- `CodeMeets`: `CodeMeetsItsChallenge`, and `LoginNeeded`: `LoginOnlyIfNeeded`,
  whichever keys `SKIP_LOCATE_BROWSER_ON_CONFIG_VALUES` has, its default `()` included:
  a program that is not to skip the page for the key of its code may make
  the site send another, and then (`forgotten`) nothing is said of the code.  Nothing is
  said of the browser of a program that has not made one, so `KeptInv` follows the
  session through the storage too: `StoredInv` says that a session that was dumped
  (`safe`) is there until the date that both durations give (`Good`), `BrowserInv`
  that it is in the browser, or, if there is none, was dumped, that nothing was
  sent after its last challenge, and that while it is open the browser and the
  storage are at a page of the right site that is logged in.

`SchedulerProofs` (from `SchedulerAssumption`: any threads, events and starts of
repeated events):

- `TypeCorrect`: `TypeOK`; identifiers that were not given belong to no timer
  (`CountInv`).
- `CancelledOrRun`: `CancelOrRun`, from `CancelInv`, whoever cancels takes the event out
  of the queue and sets the flag of its timer, and `StartInv`, a timer past its check
  was not started since it was cancelled, so that start is the last, and a one-shot
  event that ran is in the queue no more, so nobody can cancel it.
- `NoOrphan`: `NoOrphanTimer`, from `OrphanInv`: a timer that goes on, including a
  repeated one whose function is running, is in the queue or has its flag set.

`RetryOnLogoutProofs` (from `RetryAssumption`: any number of tries, any set of finite
answers):

- `TypeCorrect`: `TypeOK`, and `TriesBounded`: `AtMostTries`.  `CountInv` is the
  reason: the call that made the iterator in use is counted in `calls` and still
  in `remaining`, which only a logout decreases.
- `ReplyGiven`: `GivesReply`, from `DrawnInv`: what a replay has drawn is what was
  given, and after it the iterator stands behind the last item given.  Nothing is
  said once the program saw an exception, since `__next__()` may have left then
  in the middle of a replay.
- `CallsNearTheirEnd`: each step of a call leaves fewer tries, or as many and fewer
  items to replay (`StepsLeft`), or is its last; that `drawn` is at most what was given
  (`DrawnInv`) keeps the measure a natural number.

`DependencyOrderProofs` (from `OrderAssumption`: any finite set of modules), for every graph:

- `RecursiveDepsReach`: what `recursive_deps()` computes, with the result that its
  calls share, is `Reach`.  `FoundExists` gives a function that satisfies the recursive
  equation, `FoundIsClosed` shows that no other does, at a pair where fewest
  modules are left to be found.
- `ResultComplete`: `Complete`, from `CollectInv`: the dict has what was read of the
  list, and what that depends on is in the list.  At its end the keys are closed
  under dependencies, hence all that is needed.  That `move_value_after()`
  finds a place, and leaves each value once, is `Inserted`.
- `MostDependedOnFirst`: `DependedOnFirst`, from `SortInv`: the values moved so far are
  behind what they depend on; a later move keeps this (`MoveKeeps`), because it puts
  a value right behind something it depends on, and so not behind a value that
  depends on both.
- `TurnsNearTheEnd`: a turn of the loop on the growing list reads a module that has no key
  yet, of which one less is left, or a double, and then adds nothing to what is
  unread and has a key; a turn of the sort goes on to the next key.

`RepositoriesProofs` is about the class `Repositories`, that is about `ModuleInstall` and
`RepositoryIndexes`, whose names are kept apart for it.  For `ModuleInstall`
(from `InstallAssumption`: any finite set of modules, any versions and dependencies):

- `TypeCorrect`: `TypeOK`.
- `RepairedLater`: `Repairable`, from `RepairInv` and `PlaceInv`: the first step that
  damages a module is taken when the version recorded is older than that of the index,
  and the version is recorded only when the files are whole.
- `UpdateDelivered`: `UpdateDelivers`, and `InstallDelivered`: `InstallDelivers`, from
  `ListInv`: what an operation has to deliver and is not in its list any more is as
  the index says.  That the module then loads needs that all it imports is among its
  dependencies (`DependenciesLoad`).
- `DependenciesAreFirst`: `DependenciesFirst`, an action property, if no two modules
  depend on each other whatever their versions (`NoCycle`, true of the instance of
  `install_forward`).  In a cycle one of two modules has to be recorded before the
  other; `DependenciesThere` is what remains: what does not depend on the module in
  turn is there.  It rests on the order of the list (`OrderInv`), which is what
  `ResultComplete` and `MostDependedOnFirst` say of the sort.

For `RepositoryIndexes` (from `IndexesAssumption`: any sources, up to 100 lines):

- `AllUpdated`: `UpdatedAll`, and `AllLoadedAgain`: `LoadedAgain`, from `IndexesInv`.  Either
  the repositories were loaded from the files there are, or each has the file of
  its place (`NumberedInv`); while nothing is missing there is no other file, and
  what is done with what is left are the lines of `sources.list` (`CompleteInv`).
  That `Loaded` is then the list needs the rank of a file, the number of those
  that are `Ahead` of it: it is below the number of files and no two files share
  one (`RankGrows`), and among numbered files it is the place (`LoadedIsList`).

For both and `DependencyOrder`:

- `SortedIsInstalled`: `InstallsSorted`.  `Sort` is an instance of `DependencyOrderProofs`
  with the modules of `ModuleInstall` and variables of its own.  For every index, when the sort of what is requested
  is done, the list less what is up to date is one of the `Orders` of
  `ModuleInstall`, and if the repository has every module the sort does not fail, as
  `ModuleInstall` takes for granted.  The two modules define what a module
  needs in different ways (`Reach`, by the sets closed under dependencies, and
  `AllDependencies`), which `ReachIsDependencies` shows to be the same; that what
  is kept of a list keeps its order and loses no module is `KeptInOrder`.

Only model-checked: liveness, which rests on fairness and ENABLED, of which the
prover handles neither.  What liveness means beyond fairness is proved for
four of these properties: their measures decrease (`StopNearsTheEnd` for
`StopEndsThreads`, `CallsNearTheirEnd` for `Answers`, `TurnsNearTheEnd` for `Ends`,
`UnloadNears` for `UnloadEnds`), and who waits for a lock waits for somebody who goes on
(`ThreadsNotStuck`, `LocksGivenBack`).  What is left to TLC is that the next step is
enabled and is taken, and `ConsumersEnd`, `EventHandled` and `TimersStop`, where a
step depends on what other threads do in turn.

## 6. Where the code and its words disagree

Two disagreements have a run that shows them.

- `scheduler_blocked`: `want_stop()` "have to be non-blocking"
  (`scheduler.py:170`), but it takes the mutex that `_wait_to_stop()` keeps while
  it joins timers; a timer that was registered late, past the check of the stop
  event, needs the mutex too, and nothing moves any more.
- `update_incomplete`: `update()` reports a new dependency that it could not
  install and goes on with the module that needs it (`repositories.py:833`).  That
  module is then recorded with its version; the dependency is neither recorded nor
  asked for again, so later updates say "All modules are up-to-date."
  (`repositories.py:824`) of a module that cannot be imported.

Others were met while modelling and are left out of the properties, or the
properties are stated around them:

- `callback_thread()` announces a last call with `None` (`bcall.py:154`) that
  never comes; `finishback()` is called instead.
- `run()` of the scheduler loops on `while True` (`scheduler.py:155`): after
  `want_stop()` it goes on until it is interrupted, and the branch at 160 is dead.
- `_wait_to_stop()` begins with `want_stop()`, which empties the queue, so it
  joins only what was registered late (`scheduler.py:146-150`).
- A `LoggedOut` raised by the function itself, when `iter_retry` calls it again,
  reaches the program though tries remain (`retry.py:147`), hence `AtMostTries`
  counts `errors`.
- A call that was queued before its backend is unloaded runs on it after
  `deinit()` (`woob.py:192`), the `late` workers of `WoobBackends`.
- `DependenciesFirst` leaves `update()` out, for the reason of
  `update_incomplete`.  An archive has no version in its URL and may be newer
  than the index (`repositories.py:892`), and then need modules that the index
  does not list; `AsIndexed` leaves this case out of `InstallDelivers` and `UpdateLoads`.
- `YamlConfig.save()` replaces the file with a dump of the shared document
  without a lock, so of two saves at once the one that ends later may put back
  what the other had replaced (`yamlconfig.py:86-91`); `QuietSaveKept` is about a
  save that met no other.
- `StandardStorage.load()` puts the default in the document before it puts back what
  it found (`storage.py:73-74`), and is called each time a backend is created.  If
  another backend saves in between, the file has the bare default, and if the
  program is killed before the next save the state is lost, also one that a quiet
  save had written; `QuietSaveKept` leaves room for that default, and for no
  older change.
- `wait()` may return, or an iteration end, with an error that a callback thread has
  popped and not yet given to its `errback` (`bcall.py:139`); `NoLostError` counts
  it as being in that thread's hands (`InHands`).
- The thread that loads a name while another has popped and not yet dumped its
  backend starts from the older state (`woob.py:194`, `clash`).
- An index file whose keyring is refused stays (`repositories.py:741`) and the next
  program loads it; `LoadedAgain` is about the order of what was loaded, with such
  files in between.
- A code whose handler fails with another exception than `BrowserInteraction`
  stays in the configuration (`mfa.py:179`) and is tried again before anything else.
- None in `request_information` is to mean "do not trigger 2FA challenges"
  (`repl.py:436`), but `locate_browser()` of a program without a code goes back to
  the page of the state, which may be the one that sends a challenge
  (`CreateSendsAgain`); the subclasses prevent it with
  `SKIP_LOCATE_BROWSER_ON_CONFIG_VALUES` only where a code is there.
  By default that is for no key (`mfa.py:69`), and the code of another key may
  be made void by the program that has it: `CodeMeetsItsChallenge` is about the keys
  for which the page is skipped, and `two_factor` has one of each sort.
- A version that goes back is planned by `update()`, whose test is `!=`
  (`repositories.py:776`), and refused by `_install_one_module()`, whose test is
  `>` (`repositories.py:884`), hence `~ back` in the properties of
  `ModuleInstall`.
- `check_repositories()` does not see the file of a line that was removed from
  the end of `sources.list` (`repositories.py:771`), so `UpdatedAll` is about a
  list that was not edited since.

## 7. What is not modelled, and the plan

Not modelled because they are sequential and their result is a site's matter:
pages, elements, filters, URLs, capabilities, site modules, captcha solvers.
Not modelled because they are bindings to other libraries or the user's
terminal: selenium, NSS, HAR, sessions and adapters, the application framework.
Abstracted in what is modelled: contents of results, errors and states; HTTP; how
an index is retrieved and parsed; time (timeouts and intervals may end at any
moment); the removal of a directory file by file (`RemoveOld`,
`UpdateRepositories`), as a directory that is not whole is like none; which backends
`do()` selects (`Do` takes any); what a late worker does to a browser (`Advance`).

Not modelled, though the core has them, because there is little for a model to
find:

- `BackendsConfig`: every operation reads and rewrites the file without a lock or
  a copy; what programs do to each other, or a kill to the file, is plain, and
  no property of the code holds against it (listed as hazards).
- The classes of `tools/config/extra.py` and `util.py`: nothing in the repository
  uses them.
- `CacheMixin`: a browser is used by one thread at a time, so nothing comes
  between a request and the look-up of its entry.
- `retry_on_logout_context()`: its generator yields again after an exception was
  thrown into it, so any retry raises `RuntimeError`.
- `fillobj()`, `Values`, `decorators.retry`, `RequestsManager`: a loop or one
  assignment around what site modules or applications do.

Left for the modules there are: damaged index files, several repositories and
programs in `ModuleInstall`; the table of loaded modules; a `SiteSwitch` in the
middle of a function in `TwoFactor`.

Worth doing next: several repositories in `ModuleInstall`, whose index would then be what
`RepositoryIndexes` loads, the later one overriding the earlier; and the storage of
`WoobBackends` as an instance of `StandardStorage`.
