# A TLA+ verification of nginx-tools

The repository holds one application of its own, the rate limiting test
(`src/apps/test-rate-limiting`), and a small utility library (`src/libs/utils`). Everything
under `3rdplibs` is vendored: nginx, its `vts` and `echo` modules, curl, openssl, json-c,
gnuplot. The test launches an nginx *origin*, then, for each of a table of *settings*, an nginx
*proxy* that limits the request rate. Client threads send bursts of requests to the proxy, a
plotting thread samples the proxy's status, and gnuplot draws what was sampled.

## Inventory

| Part | State | Operations | Hard about it |
|---|---|---|---|
| `interr_usleep.c` | `flag_exit`, mutex, condition variable, an own or a borrowed logger | open, sleep, unblock, close | several sleepers, spurious wake-ups, time-out against unblock, close against sleepers, unblock from a signal handler |
| `main()` | loop index, `flag_exit`, `flag_exit_plotting_thr`, the `std::thread` objects | prompt, setup, one iteration per setting, shutdown at `end` | a signal may divert it to `end` from five places |
| client threads (`curl_req`) | `clients_stats` and its mutex | request, push a line | share a vector with a thread that takes no lock |
| plotting thread (`plottingThr`, `trace_stats`) | `burst_level`, `stats.dat`, the client log | sample loop, write log, start gnuplot | works on stale samples, needs a live proxy and a live directory |
| signal handler | `flag_exit`, the sleep context | set flag, unblock | runs on any thread at any point |
| nginx wrapper | pid files | fork/exec, SIGQUIT and `waitpid` | finds the server through a file which that server writes and removes |
| nginx instances | process state, pid file, counters | start, serve, count, quit | start and count with a delay |
| limit_req and the vts status | per zone a tree and a queue of leaky buckets in shared memory; per worker a cached clock and one reference per zone | lookup, account, expire, delay; read the level | workers whose clocks differ, test and charge in two critical sections, nodes freed under a pointer, unlocked reads |
| `libcurl_wrap.c` | the blocks of one request, libcurl's own counter | one blocking request, its callbacks | ownership on a dozen error exits, initialisation by the first user |
| `utils_files.cpp` | the file system | rmpath, mkpath, dump, read | rmpath takes two passes |
| `utils_logs.cpp`, `utils_time.c` | a logger instance; none | open, close, trace; read a clock | - |
| docker files, Makefile | - | - | - |

How the parts interact: `main()` starts and joins the threads, talks to the plotting thread
through two volatile flags and reads `burst_level` from it; clients and the plotting thread share
`clients_stats`; every thread that sends requests depends on the proxy that `main()` starts and
kills through its pid file; `main()` sleeps only in `interr_usleep()`, which the handler unblocks.

What makes each part correct:

* sleep: no wake-up is lost, no sleep ends early, the status says why it ended, every sleep ends,
  an interruption is permanent, open and close balance their logger;
* test: it ends, also after a signal; it leaves no server, thread or file behind; nobody talks to
  a proxy that was told to quit; two proxies never overlap; a plot shows its setting and all of it;
  nothing races on `clients_stats`.

* rate limit: over every interval no more requests are charged than the burst and the leak allow;
  a request is charged once or, if refused, never; every delay ends; the reported level is 0 only
  when nobody waits;
* HTTP client: whatever fails, every block has one owner and is freed; a reply comes whole or not
  at all; the body of a POST has an end.

`PROJECT.json` lists the hazards behind these, each at its line.

## Modules

| Module | Contents |
|---|---|
| `InterruptibleSleep` | abstract: what `interr_usleep.h` promises, without mutex, condition or flag |
| `InterrUsleep` | `interr_usleep.c`, one action per step another thread can observe |
| `MCInterrUsleep` | symmetry for TLC |
| `InterrUsleepProofs` | proofs about `InterrUsleep`, and that it implements `InterruptibleSleep` |
| `TestRateLimiting` | the application with its threads, servers and files |
| `MCTestRateLimiting` | small tables of settings |
| `TestRateLimitingProofs` | proofs about `TestRateLimiting` |
| `LimitReq` | nginx's limit_req handler in several workers, and the status extension that reads it |
| `MCLimitReq` | limits, keys and scenarios |
| `LimitReqSharedProofs` | lemmas: the trees, the queues and the reference counts in shared memory |
| `LimitReqProofs` | proofs about `LimitReq`: types, shared memory, who is charged |
| `LimitReqRateProofs` | the proof that the rate is respected |
| `LimitReqLevelProofs` | the proof that a level of 0, read undisturbed, is exact |
| `LibcurlWrap` | `libcurl_wrap.c` with the callbacks and the initialisation of libcurl |
| `MCLibcurlWrap` | the requests, symmetry |
| `LibcurlWrapProofs` | proofs about `LibcurlWrap` |
| `Extrema` | lemmas on least and greatest numbers, used where one would reach for an induction |

### InterrUsleep

`pc[a]` is where a thread or a handler is. `UNLOCK()` is four actions (`UnlockSetFlag`,
`UnlockLock`, `UnlockBroadcast`, `UnlockUnlock`), shared by unblock and close as in the code;
`interr_usleep()` is `SleepCall`, `SleepLock`, the loop test (`SleepTest` or `SleepStop`), the wait
(`SleepWait`), its end (`WaitTimesOut`, `WaitSpurious`, or somebody's broadcast), `WaitRelock` and
`SleepReturn`. The test and the wait are two steps: `flag_exit` is written without the mutex, so it
may be set in between. The condition variable is POSIX's: release-and-block is atomic, wake-ups may
be spurious at any time, the mutex is retaken before the call returns. A handler `h` runs on an actor `on[h]`,
which does not run until the handler is done; it may itself be interrupted by another handler.
`QuiescentClose` tells the two kinds of callers apart: with `TRUE` a handle is closed only when
nobody is inside the module (as this application does, from a static destructor), with `FALSE` at
any time.

Left out: calls with a NULL handle other than the sleep's `-1`; the text of log messages; the
conversion of the deadline to seconds and nanoseconds, which only changes its unit.

### TestRateLimiting

`mpc`, `cpc[c]` and `ppc` are the positions of `main()`, of the client threads and of the plotting
thread. `proc` and `pidfile` are the two nginx instances, `files` what is in the test directory,
`clilog` and `row` what the two data files contain (the client lines; the responses that the rows
add up to), `plot` what gnuplot drew from them. `crash` is why the process died: a parsed NULL
response, a NULL stream, a data race, a joinable `std::thread` destroyed, or `exit()` after a
failed `fork()`.

`interr_usleep()` is used at the level of `InterruptibleSleep`: `Expires` or `Interrupted`. So the
handler takes effect in one step after it has set `flag_exit`; that the handler itself may block on
the mutex of the sleep is the subject of `interr_signal`, not of this module. The `-1` of a sleep
without a handle is left out, as `main()` opens one first. The sleeps bring one timing assumption
of the code into the model: one second is enough for an nginx to have started or failed ("make sure
server thread is up"). Without it, a status request may meet a proxy that is not up. The 100 ms of
the drain loop and the pause after the join assume nothing. gnuplot needs no such assumption:
`fclose()` of a stream that `popen()` opened waits for the child in glibc (`PlotterCloses`), so the
join of the plotting thread is also a wait for gnuplot.

The servers are modelled by what the application observes of them. An nginx reads its configuration, creates its pid file, writes it and
serves, and after SIGQUIT removes the file and exits. limit_req is a bucket of at most
`BurstSize + 1` requests that leaks; it rejects at the limit, where the fraction of a request that
has not leaked yet may decide. The status shows the bucket's level (a lone request counts as 1
until the next leak, where the real extension says 0: the leak may follow at once) and the
responses, which are counted some time after they were sent.

A configuration that cannot be written (`dump2file`, fault `"dump"`) is only logged: the server
starts with the one of the setting before, or, if there is none, does not start.

Left out: terminal settings, printed text, the gnuplot script, the time stamps of the lines, the
row of accepted connections, the retries of `waitpid()` for a child that does not exit.

### LimitReq

`node[z]` is the tree of zone `z` (a function from keys to `excess`, `last`, `count`), `queue[z]`
its queue, `ctxNode[w][z]` the pointer `ctx->node` of a worker. A zone's lock is held for a whole
lookup or a whole update, so `LookupFound`, `LookupMissing`, each turn of `RollBack` and each turn
of `Account` are one step. `pc` and `job` are the handler a worker is in; a worker runs one handler
to its end, but others run in between, which is where the test and the charge of a request come
apart. `clock[w]` is `ngx_current_msec`: it is read when a worker wakes up (`UpdateTime`) and not
again during the batch, so it may be up to `MaxBatch` behind `now`. A missing node is made by
`MakeRoom`: `expire()` frees idle entries from the end of the queue, then one by force if the pool
(`MaxNodes`) is full. `Release` re-enters the handler as the timer does; a write event that comes
before the timer changes nothing, unless it cannot be handled (`WakeFails`).

`StatsStart`, `StatsLast` and `StatsExcess` are `_limit_req_stats_get()`: for each zone it reads
`last` and then `excess` of the root (any node: the shape of the tree depends on hashes), without a
lock. Its product is unsigned: `Word` stands for 2^64 and is only assumed to be larger than
anything the clocks of an instance can produce.

`charges` and `lost` are history: who was charged to a node, with the `lr->last` that resulted, and
the references that an early return has dropped (`KeyFails`). Failures are the key's evaluation,
the registration of an event before or after the delay, and a client that leaves.

Left out: log messages; the parsing of directives; `$limit_req_status`; the reload of a zone, which
this application never does; subrequests.

### LibcurlWrap

One action per group of steps with the same clean-up. Any of them may fail and jump to `end`.
`heap` is what is allocated, `ptr` what the locals of the call hold, `out` what was given to the
caller; `lost` is a list of headers that a failed `curl_slist_append()` has replaced by NULL, the
one leak of the code. During `perform` the callbacks run in any order (`ReadBody`, `WriteBody`,
`WriteHeader`). A header is its name (the one looked for, a prefix of it, another, malformed) and
whether its value says "chunked": `find_header()` compares over the length of the given name, so a
prefix matches. The application never calls `libcurl_wrap_init_global()` or
`libcurl_wrap_deinit_global()`, so neither is an action: each `curl_easy_init()` that finds libcurl
not initialised initialises it. `initialized++` in `global_init()` is a load and a store, and the
failure of an initialisation counts back.

Left out: the text of URLs, the statistics structure, the verbose flag.

## Runs

| Run | Bounds | Shows |
|---|---|---|
| `interr_contract` | 2 threads, 2 handlers, sleeps of 0 and 1, clock to 2 | the type invariant, `MutexDiscipline`, `NoLostWakeup`, `StatusJustified`, `LoggersBalanced`, `InterruptSticks`, and `ImplementsPromise` (refinement) |
| `interr_liveness` | 3 threads, no handler, sleeps of 1 | `UnblockWakesAll`, `EverySleepEnds` |
| `interr_close` | 2 threads, close at any time | violation: `SleepersLeaveBeforeDestroy` |
| `interr_signal` | 1 thread, 1 handler | violation: `UnblockWakesAll` |
| `app_normal` | 2 settings (a burst of 2; two bursts of 1), 2 clients, burst size 0 | with failing client requests and no signal: `NoCrash`, `NoDataRace`, `ServersKilled`, `TestDirRemoved`, `PlotShowsSetting`, `ProxiesDisjoint`, `Terminates` |
| `app_signal` | 2 settings of one request, 1 client, 2 signals, all the faults but a client's | `ProxyOutlivesRequests`, `OriginKilledOnceUp`, `EndsAfterSignal` |
| `app_leak` | 1 setting, 2 clients, 1 signal | violation: `ProxyKilled` |
| `app_plot` | 1 setting, 2 clients, no signal | violation: `ResponsesPlotted` |
| `app_abort` | 1 setting, 2 clients, 1 signal | violation: `JoinedBeforeReturn` |
| `limitreq_zones` | 2 workers, 2 zones with memory for 1 node, 2 keys (one without a key in the second zone), 3 requests, clocks up to 100 ms apart; four scenarios: failures, dry run, a status request, requests a minute apart | the type invariant, `ReferencesCounted`, `QueueMatchesTree`, `RateRespected`, `ChargedOnce`, `ExactLevel`, `WaitingIsServed`, `DelaysEnd` |
| `limitreq_status` | 2 workers, 1 zone, 1 key, 2 requests, 1 status request | violation: `LevelZeroMeansDrained` |
| `libcurl_requests` | 2 threads, 1 of 9 requests each, at most 2 headers looked at | the type invariant, `OneOwner`, `NothingLeaks`, `RepliesWhole`, `PostIsFramed`, `UnreadyOnlyMeanwhile` |

Why the bounds are enough: the interesting schedules of the sleep involve one sleeper, one
unblocker and one handler, and a third thread is needed only to tell a broadcast from a signal,
which the liveness run has. For the application, two settings are needed to see one setting's
leftovers in the next, two clients to see one push while another is answered, and a burst size of
0 to see both an admitted and a rejected request. Two signals make the second one arrive during
the shutdown that the first one began.

For limit_req two workers are needed for every hazard and a third adds none: the overshoot of a
zone before the last, one request for each other worker, shows with two. A zone with room for one
node makes the second key meet a full pool. A tick of 100 ms is one request at 10 r/s; the scenario
`Minutes` ticks by 60 s, the age at which entries expire. `lastArrival` is before the horizon, so
that the delay of a request that is admitted (at most 100 ms) ends within it; `Elapsed`'s case of a
clock more than a minute behind is a system time set back, which the scenarios do not have. For
libcurl one request per thread is enough, since a call leaves nothing behind but libcurl's
counter; the header bound of 2 (40 in the code) puts a chunked header last within it and first
beyond it.

Deadlock checking is off: a handle that nobody uses, a finished test and a dead process may stop.

Symmetry (permutations of the threads) is used in `interr_contract` and `libcurl_requests`, which
have no liveness property.

### Fairness

`InterrUsleep!Fairness`: an actor inside the module keeps going (weak), and a mutex that is free
again and again is obtained (strong; POSIX gives no such guarantee, but any scheduler that does
not starve a thread for ever does). Nothing is assumed of callers, so nobody need ever unblock or
close. `EverySleepEnds` assumes in addition that the clock advances and that the time-out of that
thread's wait, which spurious wake-ups may interrupt again and again, comes in the end (`Timer`,
strong); `UnblockWakesAll` does not.

`TestRateLimiting!Fairness`: each thread and process keeps going, a running handler returns, a user
who has not pressed CTRL^c presses a key at the prompt (the program waits for it otherwise), the
proxy answers, its bucket leaks. Signals and faults need not happen. Nothing is assumed of a user
who has pressed CTRL^c, so `EndsAfterSignal` leaves one wait out (`AwaitsKey`): a signal that comes
before `select()` blocks, or whose handler runs on another thread, does not interrupt it, and
`main()` waits for a key although `flag_exit` is set. Without the exclusion TLC shows that.

`LimitReq!FairSpec`: the event loop of each worker keeps running, and time passes. Failures and
leaving clients need not happen.

### What the violations say

Six places where the code does not do what its comments or headers say; `PROJECT.json` quotes
them under `findings`.

* `interr_close`: close destroys the mutex that the sleepers it has just woken need to get out.
  The application is safe because it closes after `main()`.
* `interr_signal`: the handler calls `interr_usleep_unblock()`, which locks; if the interrupted
  thread is inside `interr_usleep()` with the mutex, neither goes on.
* `app_leak`: the jumps to `end` from inside the loop skip the kill of the proxy.
* `app_abort`: the jump to `end` out of the drain loop skips the join of the plotting thread.
* `app_plot`: the drain loop waits for the level of the last sample to be 0, not for the responses
  to be sampled.
* `limitreq_status`: and that level may be 0 while requests wait. The extension does not clamp a
  negative time as limit_req does, and its unsigned product makes a worker that is a little behind
  believe that everything has leaked. With one worker the same property holds.

Three more that the models show, beside these runs. `main()` may wait for a key after a signal
(under Fairness above). A thread may use libcurl while another one is still inside `global_init()`,
which has counted itself already: the header wants libcurl initialised "once at the beginning",
nobody does it, and `UnreadyOnlyMeanwhile` says how far it goes, namely to the end of that
initialisation. After a signal or a failed `fopen()` or status request the process may race on
`clients_stats`, write to a NULL stream or parse a NULL response (`crash`, which `app_signal`
reaches): the properties that exclude it are stated, checked and proved of tests without these.

`Overshoot` in `RateRespected` is needed: with 0 TLC shows two workers admitting one request
too many in the first of two zones.

## Proofs

All for every value of the constants, under the assumptions stated in the modules (named
`...Assumption`): the actors, keys and requests are distinct from the values that stand for none,
bounds are natural numbers, workers and clients are finite sets, a limit has a rate, `Word` is
large. TLC evaluates each of them on the instances. Two theorems have a condition more: the rate
needs short batches, and what holds of uninterrupted tests is stated for those. The proofs follow
one pattern: an inductive invariant whose parts are named and whose preservation has one step per
action, and for each property the implication from the invariant.

### InterrUsleepProofs

None of the safety properties is inductive alone. `IInv` adds to them that a waiter is at the wait
(`WaitersWait`), that nothing happens to a handle before it is opened (`FreshHandle`), and that a
local `ETIMEDOUT` is truthful and a loop left without it was left for the flag (`LoopExit`). The
argument for `NoLostWakeup`: a sleeper that is committed to a wait, be it blocked or between its test
and the wait, saw the flag clear, so who set the flag did it later and has lock and broadcast ahead.
It cannot broadcast before the sleeper blocks, because the sleeper holds the mutex until then, which
is what the lock in `UNLOCK()` is for: with a broadcast outside of it the property fails. From `IInv` follow `TypeCorrect`, `MutexHeld`, `WakeupsNotLost`,
`StatusTrue`, `InterruptionSticks` and `Refinement`, the last one step by step with the mapping of
`Promise`. `LoggersReleased` has an invariant of its own, `LoggerHeld`: a logger that open created
is open only while the context refers to it. All hold for quiescent and other closes alike; only
the promise about destroyed mutexes does not.

### TestRateLimitingProofs

`IInv` says which threads and processes can exist while `main()` is where it is: clients only while
they are started or joined (`ClientsJoined`), a running plotting thread only while `main()` owns it
(`PlotterOwned`), a proxy told to quit only after the join (`ProxyStays`), an origin with its pid
file until the directory goes (`OriginStops`), and, before the first signal, no early exit
(`Quiet`). It yields, for any settings, clients, signals and faults, `TypeCorrect`,
`RequestsServed`, `OriginKilled` and `NoRaceUnlessInterrupted`.

The other theorems are about tests in which no signal has arrived and no fork, server start,
status request or `fopen()` fails (`Benign`; requests of clients, status documents and gnuplot may
fail). Without these conditions they are false: `app_leak` and `app_abort` show it for signals, and
a proxy that does not start is never reaped. Two more invariants carry them. `ServersUp`: the proxy
is up whenever somebody needs it, and `TEST_DIR` is there; it yields `NeverDiesUninterrupted`.
`Tidy`, of five parts: a pid file says what its server's state says, and each server is gone where
it must be (`Lifecycle`); the directory is emptied before it is removed (`Removal`); a client is
answered once in a setting and before it pushes (`Answers`); `clients_stats` holds exactly the lines
pushed while the plotting thread samples, and nothing before and after (`Collected`); gnuplot is
started on the lines of the whole setting and is done before they are removed (`Plotted`). It yields
`ServersDead`, `DirectoryRemoved`, `PlotsShowTheirSetting` and `ProxiesInTurn`.

### LimitReqSharedProofs, LimitReqProofs

`IInv` has three groups. `SharedInv`: tree, queue and counts of each zone agree, a node of the last
zone is never referred to, a node that goes takes its history with it. `JobType` and `RestType`: the
types, where each worker is and what its handler has left to do. `RequestInv`: a request belongs to
one handler at most, and the zones that handler may still charge have not been charged with it. The
count of a node is the cardinality of the workers that point to it plus the references lost by
`KeyFails`; a lookup, an account and a roll-back change both sides by the same amount
(`Balanced`), and since `expire()` frees only nodes with a count of 0, no pointer dangles. From it
follow `TypeCorrect`, `TreeAndQueue`, `NoUseAfterFree`, `NeverChargedTwice` and `NotLimitedTwice`.

### LimitReqRateProofs

`RateBounded`: the requests charged to a node between any two charges are at most the burst, what
leaks between them, and, in a zone before the last, one request for each other worker. It is not
inductive: between the lookup of a request and its charge any number of other lookups and charges
happen, by workers whose clocks differ. The invariant says three things of every node. `Filled`: the
excess is at least what the charges since any one of them have added, less the leak (not equal to
it: the leak rounds down at each charge and the excess is cut at 0). `Admitted`: for each worker that
refers to the node, the charges so far, seen from the later of its time and `lr->last`, fit in the
burst and one request for each worker that is not a rival, where the rivals are the workers that
refer to the node and whose time is not later; so each of them still has its own request in
reserve, and a charge uses up the reserve of the worker that makes it. `Respected`: the property
itself. The laws of the leak (`LeakLaws`) are that it is monotonic and superadditive: what leaks in
two intervals, each rounded down, is at most what leaks in both together. In the last zone lookup and
charge are one critical section, so nobody comes between and nothing is added to the burst.

The theorem assumes `MaxBatch <= 60000`. A worker whose clock is more than a minute behind
`lr->last` is taken for one after a change of the system time: `lookup()` then sets `lr->last` back,
and the interval between two charges no longer says how much has leaked. A handler that is busy for
a minute is outside of what nginx is written for. The references that `KeyFails` leaves behind do not
disturb the proof: such a worker stays a rival until it looks the zone up again.

### LimitReqLevelProofs

`LevelIsExact`: the status may be trusted where nobody interferes. The step that ends the two reads
sees only the excess of the node, while the delay of a request was computed when it was charged, and
other requests have been charged since. The invariant ties the two: a moment until which a request is
delayed for the sake of a zone, be it the due time of its timer or what its handler has found so far
(`Ends`), is `Covered` by the node it is charged to, that is, the rate times the time from the charge
to that moment is at most the excess of the node now and what leaks from the charge to `lr->last`. A
later charge of any worker keeps it, because it adds at least what it lets leak and the leak is
superadditive (`CoveredCharge`). A request's own delay is covered by the excess that its charge leaves
(`CoveredNew`). If what the status read has leaked by the time of its worker, so have all the delays
(`CoveredOver`); the remainder modulo `Word` only makes the leak of the status smaller (`LevelZero`).
`LimitAbove` says that the zone with the longest delay so far is one that the handler has passed, so
that the zone it charges next has no delay yet. With it go the inductive invariant of
`LimitReqProofs`, for who is charged where, and that of `LimitReqRateProofs`, for the clocks, with the
same assumption `MaxBatch <= 60000`. The condition on the clock is needed: the run `limitreq_status`
shows a worker that is behind the node report 0 while requests wait.

### LibcurlWrapProofs

`IInv` says of every call, at each step: which blocks exist and who owns them (`Blocks`), what the
results say of the transfer (`Outcome`), how the body is framed (`Framing`); and of the threads
together: whoever has counted, or has seen that somebody has, can rely on a thread that is inside
`global_init()` or has left it with success (`Initialisation`). From it follow `TypeCorrect`,
`OwnerUnique`, `CleansUp`, `WholeOrNothing`, `BodyFramed` and `UsedInitialised`, for any number of
threads and calls and any headers. `BodyFramed` needs that `find_header()` finds a header only if the list
that is built contains one: the first header found is the least index, for which `Extrema` stands in
for an induction over the list.

### Only model-checked

Every liveness property (`UnblockWakesAll`, `EverySleepEnds`, `Terminates`, `EndsAfterSignal`,
`DelaysEnd`), because fairness is out of the prover's reach.

## Not modelled

* `utils_files_mkpath` and `utils_files_file2buf`: not called by the application (`dump2file` is
  called with `doCreatePath` 0).
* `utils_time.c`: one system call and a division. `utils_logs.cpp` beyond the life of an instance:
  text.
* `libcurl_wrap_init_global()` and `libcurl_wrap_deinit_global()`: never called.
* The retries of `waitpid()`: they serve a child that is stopped and continued, which nobody does.
* The rows of accepted connections and the gnuplot script: data of the plot that nothing reads.
* Docker files and Makefile: no state.
* The vendored code (nginx, curl, openssl, json-c, gnuplot, more than 99% of the lines of the
  repository), except limit_req, the status extension and libcurl's global initialisation, which
  the application's results depend on.

## Plan

Done: the sleep and its promise; the application; the rate limit with its status; the HTTP client;
every safety invariant and every action property that a passing run checks, proved.

Left: the liveness properties, which stay with TLC.
