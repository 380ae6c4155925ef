-------------------------- MODULE TestRateLimiting --------------------------
(***************************************************************************)
(* The rate limiting test of src/apps/test-rate-limiting: main() launches  *)
(* an origin, then for each setting a proxy, a plotting thread and bursts  *)
(* of client threads, waits until the proxy's burst queue is empty, has    *)
(* the samples plotted and shuts everything down. SIGINT and SIGTERM run   *)
(* main_proc_quit_signal_handler() on any of the threads.                  *)
(*                                                                         *)
(* interr_usleep() is taken at the level of InterruptibleSleep: a sleep    *)
(* that is not interrupted expires, an interrupted one returns EINTR. The  *)
(* nginx processes and gnuplot are external: what they do to the files,    *)
(* and what the application observes of them.                              *)
(***************************************************************************)
EXTENDS Naturals, Sequences, FiniteSets

CONSTANTS
  Settings,    \* Settings[i]: the sizes of the bursts that setting i sends
  Clients,     \* slots of clients_threads
  BurstSize,   \* limit_req burst: requests the proxy accepts beyond the rate
  MaxSignals,  \* bound of the SIGINT and SIGTERM deliveries
  Faults       \* what may fail, see FaultKinds

ASSUME SettingsAssumption ==
  /\ Settings \in Seq(Seq(Nat))
  /\ IsFiniteSet(Clients)
(* A request of a client or of plottingThr(), the parsing of a status, the  *)
(* dump of a configuration, a fork(), the start of an nginx, an fopen(),    *)
(* the popen() of gnuplot.                                                  *)
FaultKinds == {"client", "status", "json", "dump", "fork", "exec", "fopen", "popen"}

ASSUME LimitsAssumption ==
  /\ BurstSize \in Nat
  /\ MaxSignals \in Nat
  /\ Faults \subseteq FaultKinds

VARIABLES
  mpc,                     \* where main() is
  setting,                 \* loop index of main(), 1-based; 0 before the loop
  burst,                   \* bursts the setting's fxn has sent
  flag_exit,               \* "the app. should exit ASAP"
  flag_exit_plotting_thr,  \* the plotting thread should exit
  interrupted,             \* flag_exit of the interr_usleep context
  burst_level,             \* last queue level the plotting thread read
  cpc,                     \* where each client thread (curl_req) is
  clients_stats,           \* lines pushed by the clients: <<setting, client>>
  answered,                \* clients whose request succeeded, this setting
  ppc,                     \* where plottingThr() is
  joinable,                \* main()'s plottingThread object owns a thread
  sample,                  \* the status response plottingThr() holds
  row,                     \* responses that the rows of stats.dat add up to
  clilog,                  \* contents of CLIENT_STATSLOG
  proc, pidfile,           \* the two nginx instances and their pid files
  files,                   \* what exists of TEST_DIR
  level,                   \* requests in the proxy's leaky bucket
  counted, uncounted,      \* responses the proxy's status counts, or not yet
  gnuplot, plot,           \* the gnuplot process and what it drew last
  handler,                 \* the thread the signal handler runs on
  signals,                 \* signals delivered so far
  crash                    \* why the process died

mainvars == <<mpc, setting, burst>>
flags == <<flag_exit, flag_exit_plotting_thr, interrupted, burst_level>>
clientvars == <<cpc, clients_stats, answered>>
plotvars == <<ppc, sample, row, clilog>>
nginxvars == <<proc, pidfile, level, counted, uncounted>>
gnuplotvars == <<gnuplot, plot>>
sigvars == <<handler, signals>>
allbutmpc == <<setting, burst, flags, clientvars, plotvars, joinable, nginxvars, files,
               gnuplotvars, sigvars, crash>>
vars == <<mpc, allbutmpc>>

Servers == {"origin", "proxy"}
Threads == {"main", "plotter"} \cup Clients
Lines == (1..Len(Settings)) \X Clients
Files == {"dir", "origin.conf", "nginx.conf", "stats.dat", "client_stats.log"}
NoSample == [level |-> 0, counted |-> {}]
Conf(p) == IF p = "origin" THEN "origin.conf" ELSE "nginx.conf"

MainPcs ==
  {"boot", "prompt", "setup", "wait_origin", "launch_proxy", "wait_proxy",
   "start", "fxn", "join_clients", "drain", "drain_sleep", "stop_plotter",
   "join_plotter", "settle", "close_proxy", "reap_proxy", "next", "end",
   "close_origin", "reap_origin", "rm_files", "rm_dirs", "return", "exited"}
ProcStates == {"none", "starting", "configured", "init", "up", "quitting", "exited", "reaped"}
Serving == {"init", "up", "quitting"}

TypeOK ==
  /\ mpc \in MainPcs
  /\ setting \in 0..Len(Settings)
  /\ burst \in Nat
  /\ flag_exit \in {0, 1} /\ flag_exit_plotting_thr \in {0, 1}
  /\ interrupted \in {0, 1}
  /\ burst_level \in 0..(BurstSize + 1)
  /\ cpc \in [Clients -> {"none", "req", "held", "resp", "push", "done"}]
  /\ clients_stats \subseteq Lines
  /\ answered \subseteq Clients
  /\ ppc \in {"none", "fopen", "loop", "req", "trace", "clilog", "copy", "popen", "fclose",
             "done"}
  /\ joinable \in BOOLEAN
  /\ sample \in [level : 0..(BurstSize + 1), counted : SUBSET Clients]
  /\ row \subseteq Clients
  /\ clilog \subseteq Lines
  /\ proc \in [Servers -> ProcStates]
  /\ pidfile \in [Servers -> {"absent", "empty", "written"}]
  /\ files \subseteq Files
  /\ level \in 0..(BurstSize + 1)
  /\ counted \subseteq Clients /\ uncounted \subseteq Clients
  /\ gnuplot \in {"none", "running", "done"}
  /\ plot \in [lines : SUBSET Lines, responses : SUBSET Clients]
  /\ handler \in Threads \cup {"none"}
  /\ signals \in 0..MaxSignals
  /\ crash \in {"none", "null_response", "null_file", "data_race", "terminate",
               "exit_failure"}

Init ==
  /\ mpc = "boot" /\ setting = 0 /\ burst = 0
  /\ flag_exit = 0 /\ flag_exit_plotting_thr = 0 /\ interrupted = 0 /\ burst_level = 0
  /\ cpc = [c \in Clients |-> "none"] /\ clients_stats = {} /\ answered = {}
  /\ ppc = "none" /\ joinable = FALSE /\ sample = NoSample /\ row = {} /\ clilog = {}
  /\ proc = [p \in Servers |-> "none"] /\ pidfile = [p \in Servers |-> "absent"]
  /\ files = {} /\ level = 0 /\ counted = {} /\ uncounted = {}
  /\ gnuplot = "none" /\ plot = [lines |-> {}, responses |-> {}]
  /\ handler = "none" /\ signals = 0 /\ crash = "none"
-----------------------------------------------------------------------------
(* A thread runs while the process lives and no handler runs on top of it. *)
Runs(t) == crash = "none" /\ mpc # "exited" /\ handler # t

At(l) == mpc = l /\ Runs("main")
Goto(l) == mpc' = l

(* interr_usleep() in main(): the time is over, or the context was         *)
(* unblocked and main() jumps to "end". A sleep that starts interrupted    *)
(* never expires. "Time" is what must have happened within the sleep. The  *)
(* -1 of a sleep without a handle or a clock is left out: both are there   *)
(* from the start of the process to its end.                               *)
Expires(l, time) == interrupted = 0 /\ time /\ Goto(l)
Interrupted == interrupted = 1 /\ Goto("end")
-----------------------------------------------------------------------------
(* nginx_wrapper_open(): fork and exec; the child is on its own (setsid).  *)
(* exit(EXIT_FAILURE) if there is no child, wherever main() is.            *)
nginx_wrapper_open(p, next) ==
  \/ /\ proc' = [proc EXCEPT ![p] = "starting"]
     /\ Goto(next)
     /\ UNCHANGED crash
  \/ /\ "fork" \in Faults
     /\ crash' = "exit_failure"
     /\ UNCHANGED <<proc, mpc>>

(* The start of a server has succeeded or failed. *)
Started(p) == proc[p] \notin {"starting", "configured", "init"}

(* Mutant: no SIGQUIT is sent. *)
nginx_wrapper_close_nokill(p, reap, next) ==
  UNCHANGED proc /\ Goto(IF pidfile[p] = "written" THEN reap ELSE next)

(* nginx_wrapper_close(): without a pid in the pid file it returns and the *)
(* server is not signalled; else SIGQUIT and waitpid().                    *)
nginx_wrapper_close(p, reap, next) ==
  IF pidfile[p] = "written"
  THEN /\ proc' = [proc EXCEPT ![p] = IF @ = "up" THEN "quitting" ELSE @]
       /\ Goto(reap)
  ELSE UNCHANGED proc /\ Goto(next)

Waitpid(p, next) ==
  /\ proc[p] = "exited"
  /\ proc' = [proc EXCEPT ![p] = "reaped"]
  /\ Goto(next)
-----------------------------------------------------------------------------
(* main() *)
MainPrompt ==
  /\ At("boot")
  /\ Goto("prompt")
  /\ UNCHANGED allbutmpc

(* select_stdin(): any key. A signal ends select() too, see HandlerReturns. *)
KeyPressed ==
  /\ At("prompt")
  /\ Goto("setup")
  /\ UNCHANGED allbutmpc

(* utils_files_dump2file() truncates a configuration of before and writes   *)
(* the new one. A file that cannot be opened is only logged, and what was   *)
(* there stays; a short write makes a file that nginx refuses, see "exec".  *)
dump2file(f, left) ==
  \/ files' = left \cup {f}
  \/ "dump" \in Faults /\ files' = left
configure_origin(left) == dump2file("origin.conf", left)
configure_proxy == dump2file("nginx.conf", files)

(* utils_rmpath() and mkdir() on TEST_DIR, configure_origin(), launch.     *)
MainSetup ==
  /\ At("setup")
  /\ configure_origin({"dir"})
  /\ nginx_wrapper_open("origin", "wait_origin")
  /\ UNCHANGED <<setting, burst, flags, clientvars, plotvars, joinable, pidfile, level,
                 counted, uncounted, gnuplotvars, sigvars>>

(* "make sure server thread is up": one second is assumed to be enough.    *)
MainWaitOrigin ==
  /\ At("wait_origin")
  /\ Expires(IF Settings = <<>> THEN "end" ELSE "launch_proxy", Started("origin")) \/ Interrupted
  /\ UNCHANGED allbutmpc

(* configure_proxy() and launch, for the next setting. *)
MainLaunchProxy ==
  /\ At("launch_proxy")
  /\ setting' = setting + 1
  /\ configure_proxy
  /\ nginx_wrapper_open("proxy", "wait_proxy")
  /\ level' = 0 /\ counted' = {} /\ uncounted' = {}   \* the new proxy's memory
  /\ answered' = {} /\ gnuplot' = "none" /\ plot' = [lines |-> {}, responses |-> {}]
  /\ UNCHANGED <<burst, flags, cpc, clients_stats, plotvars, joinable, pidfile, sigvars>>

MainWaitProxy ==
  /\ At("wait_proxy")
  /\ Expires("start", Started("proxy")) \/ Interrupted
  /\ UNCHANGED allbutmpc

(* Reset the flags and launch plottingThr(). *)
MainStart ==
  /\ At("start")
  /\ flag_exit_plotting_thr' = 0
  /\ burst_level' = 0
  /\ ppc' = "fopen" /\ joinable' = TRUE
  /\ burst' = 0
  /\ Goto("fxn")
  /\ UNCHANGED <<setting, flag_exit, interrupted, clientvars, sample, row, clilog, nginxvars,
                 files, gnuplotvars, sigvars, crash>>

(* A burst of curl_req() threads. *)
http_get_nginx(parallel_cnt) ==
  \E S \in SUBSET {c \in Clients : cpc[c] = "none"} :
     /\ Cardinality(S) = parallel_cnt
     /\ cpc' = [c \in Clients |-> IF c \in S THEN "req" ELSE cpc[c]]

(* The setting's fxn: its bursts, with uninterruptible sleeps in between.  *)
MainBurst ==
  /\ At("fxn")
  /\ burst < Len(Settings[setting])
  /\ http_get_nginx(Settings[setting][burst + 1])
  /\ burst' = burst + 1
  /\ UNCHANGED <<mpc, setting, flags, clients_stats, answered, plotvars, joinable, nginxvars,
                 files, gnuplotvars, sigvars, crash>>

MainBurstsSent ==
  /\ At("fxn")
  /\ burst = Len(Settings[setting])
  /\ Goto("join_clients")
  /\ UNCHANGED allbutmpc

(* Mutant: the client threads are not joined. *)
MainForgetsClients ==
  /\ At("join_clients")
  /\ Goto("drain")
  /\ UNCHANGED allbutmpc

MainJoinClients ==
  /\ At("join_clients")
  /\ \A c \in Clients : cpc[c] \in {"none", "done"}
  /\ cpc' = [c \in Clients |-> "none"]
  /\ Goto("drain")
  /\ UNCHANGED <<setting, burst, flags, clients_stats, answered, plotvars, joinable,
                 nginxvars, files, gnuplotvars, sigvars, crash>>

(* while (!flag_exit && burst_level > 0) *)
MainDrain ==
  /\ At("drain")
  /\ Goto(IF flag_exit = 0 /\ burst_level > 0 THEN "drain_sleep" ELSE "stop_plotter")
  /\ UNCHANGED allbutmpc

MainDrainSleep ==
  /\ At("drain_sleep")
  /\ Expires("drain", TRUE) \/ Interrupted
  /\ UNCHANGED allbutmpc

MainStopPlotter ==
  /\ At("stop_plotter")
  /\ flag_exit_plotting_thr' = 1
  /\ Goto("join_plotter")
  /\ UNCHANGED <<setting, burst, flag_exit, interrupted, burst_level, clientvars, plotvars,
                 joinable, nginxvars, files, gnuplotvars, sigvars, crash>>

(* Mutant: the plotting thread is detached. *)
MainDetachesPlotter ==
  /\ At("join_plotter")
  /\ joinable' = FALSE
  /\ Goto("settle")
  /\ UNCHANGED <<setting, burst, flags, clientvars, plotvars, nginxvars, files,
                 gnuplotvars, sigvars, crash>>

MainJoinPlotter ==
  /\ At("join_plotter")
  /\ ppc = "done"
  /\ joinable' = FALSE
  /\ Goto("settle")
  /\ UNCHANGED <<setting, burst, flags, clientvars, plotvars, nginxvars, files,
                 gnuplotvars, sigvars, crash>>

(* Mutant: the proxy is not closed at the end of an iteration. *)
MainSettleNoClose ==
  /\ At("settle")
  /\ Expires("next", TRUE) \/ Interrupted
  /\ UNCHANGED allbutmpc

MainSettle ==
  /\ At("settle")
  /\ Expires("close_proxy", TRUE) \/ Interrupted
  /\ UNCHANGED allbutmpc

(* Mutant: main() does not wait for the proxy to exit. *)
MainCloseProxyNoWait ==
  /\ At("close_proxy") /\ nginx_wrapper_close("proxy", "next", "next")
  /\ UNCHANGED <<setting, burst, flags, clientvars, plotvars, joinable, pidfile, level,
                 counted, uncounted, files, gnuplotvars, sigvars, crash>>

MainCloseProxy ==
  /\ \/ At("close_proxy") /\ nginx_wrapper_close("proxy", "reap_proxy", "next")
     \/ At("reap_proxy") /\ Waitpid("proxy", "next")
  /\ UNCHANGED <<setting, burst, flags, clientvars, plotvars, joinable, pidfile, level,
                 counted, uncounted, files, gnuplotvars, sigvars, crash>>

(* Mutant: the loop runs once too often. *)
MainNextSettingOff ==
  /\ At("next")
  /\ files' = files \ {"client_stats.log"}
  /\ Goto(IF setting <= Len(Settings) THEN "launch_proxy" ELSE "end")
  /\ UNCHANGED <<setting, burst, flags, clientvars, plotvars, joinable, nginxvars,
                 gnuplotvars, sigvars, crash>>

(* unlink(CLIENT_STATSLOG), next iteration. *)
MainNextSetting ==
  /\ At("next")
  /\ files' = files \ {"client_stats.log"}
  /\ Goto(IF setting < Len(Settings) THEN "launch_proxy" ELSE "end")
  /\ UNCHANGED <<setting, burst, flags, clientvars, plotvars, joinable, nginxvars,
                 gnuplotvars, sigvars, crash>>

(* Mutant: the directory goes first, and the origin's pid file with it. *)
MainEndRemovesFirst ==
  /\ At("end")
  /\ flag_exit' = 1
  /\ Goto("rm_files")
  /\ UNCHANGED <<setting, burst, flag_exit_plotting_thr, interrupted, burst_level, clientvars,
                 plotvars, joinable, nginxvars, files, gnuplotvars, sigvars, crash>>

MainEnd ==
  /\ At("end")
  /\ flag_exit' = 1
  /\ Goto("close_origin")
  /\ UNCHANGED <<setting, burst, flag_exit_plotting_thr, interrupted, burst_level, clientvars,
                 plotvars, joinable, nginxvars, files, gnuplotvars, sigvars, crash>>

MainCloseOrigin ==
  /\ \/ At("close_origin") /\ nginx_wrapper_close("origin", "reap_origin", "rm_files")
     \/ At("reap_origin") /\ Waitpid("origin", "rm_files")
  /\ UNCHANGED <<setting, burst, flags, clientvars, plotvars, joinable, pidfile, level,
                 counted, uncounted, files, gnuplotvars, sigvars, crash>>

(* Mutant: a single pass, for the directories. *)
MainRmNoFiles ==
  /\ At("rm_files")
  /\ Goto("rm_dirs")
  /\ UNCHANGED allbutmpc

(* utils_rmpath(TEST_DIR): one pass unlinks the files, a second one removes *)
(* the directories that are empty by then.                                  *)
MainRmFiles ==
  /\ At("rm_files")
  /\ files' = files \cap {"dir"}
  /\ pidfile' = [p \in Servers |-> "absent"]
  /\ Goto("rm_dirs")
  /\ UNCHANGED <<setting, burst, flags, clientvars, plotvars, joinable, proc, level, counted,
                 uncounted, gnuplotvars, sigvars, crash>>

MainRmDirs ==
  /\ At("rm_dirs")
  /\ files' = IF files = {"dir"} /\ \A p \in Servers : pidfile[p] = "absent" THEN {} ELSE files
  /\ Goto("return")
  /\ UNCHANGED <<setting, burst, flags, clientvars, plotvars, joinable, nginxvars,
                 gnuplotvars, sigvars, crash>>

(* The destructor of a std::thread that is still joinable terminates the   *)
(* process.                                                                *)
MainReturn ==
  /\ At("return")
  /\ IF joinable THEN crash' = "terminate" /\ UNCHANGED mpc
                 ELSE Goto("exited") /\ UNCHANGED crash
  /\ UNCHANGED <<setting, burst, flags, clientvars, plotvars, joinable, nginxvars, files,
                 gnuplotvars, sigvars>>
-----------------------------------------------------------------------------
(* curl_req(), one per client thread. The proxy answers at once when its   *)
(* bucket is full (503) and otherwise after a delay; libcurl reports both  *)
(* as success. A request that fails pushes no line.                        *)
CAt(c, l) == cpc[c] = l /\ Runs(c)
CGoto(c, l) == cpc' = [cpc EXCEPT ![c] = l]

Answer(c) ==
  /\ CGoto(c, "resp")
  /\ answered' = answered \cup {c}
  /\ uncounted' = uncounted \cup {c}

(* limit_req counts in thousandths of a request: what is left of one that  *)
(* has not leaked entirely may make the difference at the limit, but the   *)
(* first request is always admitted.                                       *)
ProxyAdmits(c) ==
  /\ cpc[c] = "req" /\ proc["proxy"] = "up"
  /\ level <= BurstSize
  /\ level' = level + 1
  /\ CGoto(c, "held")
  /\ UNCHANGED <<mainvars, flags, clients_stats, answered, plotvars, joinable, proc, pidfile,
                 counted, uncounted, files, gnuplotvars, sigvars, crash>>

ProxyRejects(c) ==
  /\ cpc[c] = "req" /\ proc["proxy"] = "up"
  /\ level >= BurstSize
  /\ \E d \in Clients : cpc[d] \notin {"none", "req"}
  /\ Answer(c)
  /\ UNCHANGED <<mainvars, flags, clients_stats, plotvars, joinable, proc, pidfile, level,
                 counted, files, gnuplotvars, sigvars, crash>>

ProxyResponds(c) ==
  /\ cpc[c] = "held"
  /\ Answer(c)
  /\ UNCHANGED <<mainvars, flags, clients_stats, plotvars, joinable, proc, pidfile, level,
                 counted, files, gnuplotvars, sigvars, crash>>

ClientFails(c) ==
  /\ CAt(c, "req") \/ CAt(c, "held")
  /\ "client" \in Faults \/ proc["proxy"] # "up"
  /\ CGoto(c, "done")
  /\ UNCHANGED <<mainvars, flags, clients_stats, answered, plotvars, joinable, nginxvars,
                 files, gnuplotvars, sigvars, crash>>

(* std::lock_guard on clients_stats_mutex, push_back(), thread exit. *)
ClientLocks(c) ==
  /\ CAt(c, "resp")
  /\ \A d \in Clients : cpc[d] # "push"
  /\ CGoto(c, "push")
  /\ UNCHANGED <<mainvars, flags, clients_stats, answered, plotvars, joinable, nginxvars,
                 files, gnuplotvars, sigvars, crash>>

ClientPushes(c) ==
  /\ CAt(c, "push")
  /\ clients_stats' = clients_stats \cup {<<setting, c>>}
  /\ CGoto(c, "done")
  /\ UNCHANGED <<mainvars, flags, answered, plotvars, joinable, nginxvars, files,
                 gnuplotvars, sigvars, crash>>
-----------------------------------------------------------------------------
(* plottingThr() *)
PAt(l) == ppc = l /\ Runs("plotter")
PGoto(l) == ppc' = l

(* fopen(stats.dat) truncates it; the thread ends if it fails. *)
PlotterOpens ==
  /\ PAt("fopen")
  /\ \/ /\ "dir" \in files
        /\ PGoto("loop") /\ files' = files \cup {"stats.dat"} /\ row' = {}
     \/ /\ "dir" \notin files \/ "fopen" \in Faults
        /\ PGoto("done") /\ UNCHANGED <<files, row>>
  /\ UNCHANGED <<mainvars, flags, clientvars, sample, clilog, joinable, nginxvars,
                 gnuplotvars, sigvars, crash>>

(* Mutant: the plotting thread looks at flag_exit only. *)
PlotterLoopsOn ==
  /\ PAt("loop")
  /\ PGoto(IF flag_exit = 0 THEN "req" ELSE "clilog")
  /\ UNCHANGED <<mainvars, flags, clientvars, sample, row, clilog, joinable, nginxvars, files,
                 gnuplotvars, sigvars, crash>>

(* while (!flag_exit && !flag_exit_plotting_thr) *)
PlotterLoops ==
  /\ PAt("loop")
  /\ PGoto(IF flag_exit = 0 /\ flag_exit_plotting_thr = 0 THEN "req" ELSE "clilog")
  /\ UNCHANGED <<mainvars, flags, clientvars, sample, row, clilog, joinable, nginxvars, files,
                 gnuplotvars, sigvars, crash>>

(* The status request. What it returns is a moment of the proxy: used below *)
(* it may be stale. A failed request leaves response NULL, the check on it  *)
(* only logs, and json_tokener_parse(NULL) dereferences it.                 *)
PlotterRequests ==
  /\ PAt("req")
  /\ \/ /\ proc["proxy"] = "up"
        /\ sample' = [level |-> level, counted |-> counted]
        /\ PGoto("trace")
        /\ UNCHANGED crash
     \/ /\ proc["proxy"] # "up" \/ "status" \in Faults
        /\ crash' = "null_response"
        /\ UNCHANGED <<sample, ppc>>
  /\ UNCHANGED <<mainvars, flags, clientvars, row, clilog, joinable, nginxvars, files,
                 gnuplotvars, sigvars>>

(* trace_stats(): burst_level, and a row that brings the totals to sample. *)
(* What is not the JSON it expects is not traced.                          *)
trace_stats ==
  \/ burst_level' = sample.level /\ row' = sample.counted
  \/ "json" \in Faults /\ UNCHANGED <<burst_level, row>>

PlotterTraces ==
  /\ PAt("trace")
  /\ trace_stats
  /\ sample' = NoSample
  /\ PGoto("loop")
  /\ UNCHANGED <<mainvars, flag_exit, flag_exit_plotting_thr, interrupted, clientvars, clilog,
                 joinable, nginxvars, files, gnuplotvars, sigvars, crash>>

(* fopen(CLIENT_STATSLOG); a failure is logged and the NULL stream used. *)
PlotterOpensLog ==
  /\ PAt("clilog")
  /\ \/ /\ "dir" \in files
        /\ PGoto("copy")
        /\ files' = files \cup {"client_stats.log"} /\ clilog' = {}
        /\ UNCHANGED crash
     \/ /\ "dir" \notin files \/ "fopen" \in Faults
        /\ crash' = "null_file" /\ UNCHANGED <<ppc, files, clilog>>
  /\ UNCHANGED <<mainvars, flags, clientvars, sample, row, joinable, nginxvars,
                 gnuplotvars, sigvars>>

(* Mutant: clients_stats.clear() is missing. *)
PlotterCopiesNoClear ==
  /\ PAt("copy")
  /\ clilog' = clients_stats
  /\ PGoto("popen")
  /\ UNCHANGED <<mainvars, flags, clientvars, sample, row, joinable, nginxvars, files,
                 gnuplotvars, sigvars, crash>>

(* The lines are written and cleared without clients_stats_mutex ... *)
PlotterCopies ==
  /\ PAt("copy")
  /\ clilog' = clients_stats
  /\ clients_stats' = {}
  /\ PGoto("popen")
  /\ UNCHANGED <<mainvars, flags, cpc, answered, sample, row, joinable, nginxvars, files,
                 gnuplotvars, sigvars, crash>>

(* ... so if a client pushes meanwhile the vector loses lines, or the      *)
(* process dies.                                                           *)
Racing == ppc = "copy" /\ \E c \in Clients : cpc[c] = "push"

DataRace ==
  /\ Racing /\ crash = "none" /\ mpc # "exited"
  /\ \/ crash' = "data_race" /\ UNCHANGED clients_stats
     \/ clients_stats' \in SUBSET clients_stats /\ UNCHANGED crash
  /\ UNCHANGED <<mainvars, flags, cpc, answered, plotvars, joinable, nginxvars, files,
                 gnuplotvars, sigvars>>

(* popen("gnuplot") and its script; without a pipe the thread ends.         *)
PlotterPlots ==
  /\ PAt("popen")
  /\ \/ gnuplot' = "running" /\ PGoto("fclose")
     \/ "popen" \in Faults /\ PGoto("done") /\ UNCHANGED gnuplot
  /\ UNCHANGED <<mainvars, flags, clientvars, sample, row, clilog, joinable, nginxvars, files,
                 plot, sigvars, crash>>

(* fclose() of a stream that popen() opened waits for the child in glibc:   *)
(* gnuplot has drawn when the thread ends.                                  *)
PlotterCloses ==
  /\ PAt("fclose")
  /\ gnuplot # "running"
  /\ PGoto("done")
  /\ UNCHANGED <<mainvars, flags, clientvars, sample, row, clilog, joinable, nginxvars, files,
                 gnuplotvars, sigvars, crash>>
-----------------------------------------------------------------------------
(* The nginx instances: read the configuration, create the pid file, write *)
(* it, serve; after SIGQUIT remove it and exit.                            *)
NginxReadsConf(p) ==
  /\ proc[p] = "starting"
  /\ \/ Conf(p) \in files /\ proc' = [proc EXCEPT ![p] = "configured"]
     \/ /\ Conf(p) \notin files \/ "exec" \in Faults
        /\ proc' = [proc EXCEPT ![p] = "exited"]
  /\ UNCHANGED <<mainvars, flags, clientvars, plotvars, joinable, pidfile, level, counted,
                 uncounted, files, gnuplotvars, sigvars, crash>>

NginxCreatesPidfile(p) ==
  /\ proc[p] = "configured"
  /\ IF "dir" \in files
     THEN /\ proc' = [proc EXCEPT ![p] = "init"]
          /\ pidfile' = [pidfile EXCEPT ![p] = "empty"]
     ELSE proc' = [proc EXCEPT ![p] = "exited"] /\ UNCHANGED pidfile
  /\ UNCHANGED <<mainvars, flags, clientvars, plotvars, joinable, level, counted, uncounted,
                 files, gnuplotvars, sigvars, crash>>

NginxUp(p) ==
  /\ proc[p] = "init"
  /\ proc' = [proc EXCEPT ![p] = "up"]
  /\ pidfile' = [pidfile EXCEPT ![p] = IF @ = "empty" THEN "written" ELSE @]
  /\ UNCHANGED <<mainvars, flags, clientvars, plotvars, joinable, level, counted, uncounted,
                 files, gnuplotvars, sigvars, crash>>

NginxQuits(p) ==
  /\ proc[p] = "quitting"
  /\ proc' = [proc EXCEPT ![p] = "exited"]
  /\ pidfile' = [pidfile EXCEPT ![p] = "absent"]
  /\ UNCHANGED <<mainvars, flags, clientvars, plotvars, joinable, level, counted, uncounted,
                 files, gnuplotvars, sigvars, crash>>

(* The bucket leaks with time; a response is counted after it was sent.    *)
ProxyLeaks ==
  /\ level > 0
  /\ level' = level - 1
  /\ UNCHANGED <<mainvars, flags, clientvars, plotvars, joinable, proc, pidfile, counted,
                 uncounted, files, gnuplotvars, sigvars, crash>>

ProxyCounts(c) ==
  /\ c \in uncounted
  /\ uncounted' = uncounted \ {c}
  /\ counted' = counted \cup {c}
  /\ UNCHANGED <<mainvars, flags, clientvars, plotvars, joinable, proc, pidfile, level, files,
                 gnuplotvars, sigvars, crash>>

(* gnuplot draws whatever is left of the two data files.                   *)
GnuplotDraws ==
  /\ gnuplot = "running"
  /\ gnuplot' = "done"
  /\ plot' = [lines |-> IF "client_stats.log" \in files THEN clilog ELSE {},
              responses |-> IF "stats.dat" \in files THEN row ELSE {}]
  /\ UNCHANGED <<mainvars, flags, clientvars, plotvars, joinable, nginxvars, files, sigvars,
                 crash>>
-----------------------------------------------------------------------------
(* main_proc_quit_signal_handler() on thread t: flag_exit first, then the  *)
(* interr_usleep context. select() is not restarted after a handler.       *)
SignalDelivered(t) ==
  /\ handler = "none" /\ signals < MaxSignals
  /\ Runs(t)
  /\ t = "plotter" => ppc \notin {"none", "done"}
  /\ t \in Clients => cpc[t] \notin {"none", "done"}
  /\ handler' = t
  /\ signals' = signals + 1
  /\ flag_exit' = 1
  /\ UNCHANGED <<mainvars, flag_exit_plotting_thr, interrupted, burst_level, clientvars,
                 plotvars, joinable, nginxvars, files, gnuplotvars, crash>>

HandlerReturns ==
  /\ handler # "none" /\ crash = "none" /\ mpc # "exited"
  /\ handler' = "none"
  /\ interrupted' = 1
  /\ mpc' = IF handler = "main" /\ mpc = "prompt" THEN "setup" ELSE mpc
  /\ UNCHANGED <<setting, burst, flag_exit, flag_exit_plotting_thr, burst_level, clientvars,
                 plotvars, joinable, nginxvars, files, gnuplotvars, signals, crash>>
-----------------------------------------------------------------------------
Main ==
  \/ MainPrompt \/ MainSetup \/ MainWaitOrigin \/ MainLaunchProxy \/ MainWaitProxy
  \/ MainStart \/ MainBurst \/ MainBurstsSent \/ MainJoinClients \/ MainDrain
  \/ MainDrainSleep \/ MainStopPlotter \/ MainJoinPlotter \/ MainSettle
  \/ MainCloseProxy \/ MainNextSetting \/ MainEnd \/ MainCloseOrigin
  \/ MainRmFiles \/ MainRmDirs \/ MainReturn

Client(c) == ClientFails(c) \/ ClientLocks(c) \/ ClientPushes(c)

Plotter == \/ PlotterOpens \/ PlotterLoops \/ PlotterRequests \/ PlotterTraces
           \/ PlotterOpensLog \/ PlotterCopies \/ PlotterPlots \/ PlotterCloses

Nginx(p) == NginxReadsConf(p) \/ NginxCreatesPidfile(p) \/ NginxUp(p) \/ NginxQuits(p)
Proxy(c) == ProxyAdmits(c) \/ ProxyRejects(c) \/ ProxyResponds(c) \/ ProxyCounts(c)

Next ==
  \/ Main \/ KeyPressed \/ Plotter \/ DataRace
  \/ \E c \in Clients : Client(c) \/ Proxy(c)
  \/ \E p \in Servers : Nginx(p)
  \/ ProxyLeaks \/ GnuplotDraws
  \/ HandlerReturns \/ \E t \in Threads : SignalDelivered(t)

(* Threads and processes make progress, the proxy answers, its bucket leaks *)
(* and a handler returns. ENTER is pressed at the prompt by a user who has  *)
(* not pressed CTRL^c; nothing is assumed of one who has. Signals and       *)
(* failures need not happen.                                                *)
Fairness ==
  /\ WF_vars(Main) /\ WF_vars(Plotter) /\ WF_vars(HandlerReturns)
  /\ WF_vars(flag_exit = 0 /\ KeyPressed)
  /\ \A c \in Clients : WF_vars(Client(c)) /\ WF_vars(Proxy(c))
  /\ \A p \in Servers : WF_vars(Nginx(p))
  /\ WF_vars(ProxyLeaks) /\ WF_vars(GnuplotDraws)

Spec == Init /\ [][Next]_vars
FairSpec == Spec /\ Fairness
-----------------------------------------------------------------------------
Ended == mpc = "exited" \/ crash # "none"

(* clients_stats is not read and cleared by plottingThr(), which takes no  *)
(* lock, while a curl_req() thread pushes to it.                           *)
NoDataRace == ~Racing

(* The test never dies: status requests go to a proxy that answers, and    *)
(* main() joins its plotting thread before it returns.                     *)
NoCrash == crash = "none"

(* When the test is over neither nginx instance serves: "Kill nginx-proxy"  *)
(* and "Kill nginx-origin" have happened.                                   *)
ServersKilled == mpc = "exited" => \A p \in Servers : proc[p] \notin Serving

(* The same of the proxy alone, for tests that a signal cuts short.        *)
ProxyKilled == mpc = "exited" => proc["proxy"] \notin Serving

(* main() joins its plotting thread on every path to its return: "Press    *)
(* 'CTRL^c' to exit example" does not abort it.                            *)
JoinedBeforeReturn == mpc = "return" => ~joinable

(* "This path is completely removed when tests end": nothing creates a     *)
(* file between the two passes of the last utils_rmpath().                 *)
TestDirRemoved ==
  mpc = "exited" => files = {} /\ \A p \in Servers : pidfile[p] = "absent"

(* The plot of a setting shows the line of each of its requests that       *)
(* succeeded, and none of an earlier setting.                              *)
PlotShowsSetting ==
  gnuplot = "done" => plot.lines = {<<setting, c>> : c \in answered}

(* "Wait for delayed requests to finalize (to be able to plot them)": the  *)
(* samples plotted for a setting include the responses to all its requests. *)
ResponsesPlotted == gnuplot = "done" => plot.responses = answered

(* A proxy is launched only when the one of the setting before is reaped   *)
(* (they listen on the same ports), and while no thread still talks to it. *)
ProxiesDisjoint ==
  [][proc["proxy"] # "starting" /\ proc'["proxy"] = "starting" =>
       /\ proc["proxy"] \in {"none", "reaped"}
       /\ ppc \in {"none", "done"}
       /\ \A c \in Clients : cpc[c] = "none"]_vars

(* The proxy is not told to quit while plottingThr() or a client still has *)
(* a request on it.                                                        *)
ProxyOutlivesRequests ==
  (ppc = "req" \/ \E c \in Clients : cpc[c] \in {"req", "held"}) /\ crash = "none"
     => proc["proxy"] \notin {"quitting", "reaped"}

(* An origin that was seen up is dead when the test is over, also when a   *)
(* signal cuts the test short.                                             *)
OriginKilledOnceUp ==
  mpc = "exited" /\ setting > 0 => proc["origin"] \notin Serving

(* Uninterrupted, the test runs to its end.                                *)
Terminates == <>(mpc = "exited")

(* main() is in select(), or on its way there, and no handler is about to   *)
(* interrupt it: a signal that came before select() does not.               *)
AwaitsKey == mpc = "boot" \/ (mpc = "prompt" /\ handler # "main")

(* "If this flag is set the app. should exit ASAP": after a signal the     *)
(* process ends, whichever thread the handler ran on and with no help from *)
(* the user, unless main() had not yet got into select() at the prompt.    *)
(* This takes the handler to return; InterrUsleep_signal.cfg is about when *)
(* it does not.                                                            *)
EndsAfterSignal == flag_exit = 1 /\ ~AwaitsKey ~> Ended
-----------------------------------------------------------------------------
(* The inductive invariant behind the properties: which threads and         *)
(* processes can exist while main() is where it is.                         *)
EndPcs == {"end", "close_origin", "reap_origin", "rm_files", "rm_dirs", "return", "exited"}
PlottingPcs == {"fxn", "join_clients", "drain", "drain_sleep", "stop_plotter", "join_plotter"}
ProxyPcs == {"wait_proxy", "start", "settle", "close_proxy"} \cup PlottingPcs

LoopIndex ==
  /\ mpc \in {"boot", "prompt", "setup", "wait_origin"} => setting = 0
  /\ mpc = "launch_proxy" /\ crash = "none" => setting < Len(Settings)
  /\ mpc \in ProxyPcs \cup {"reap_proxy", "next"} => setting > 0

(* Client threads exist only while main() starts or joins them. *)
ClientsJoined == \A c \in Clients : cpc[c] # "none" => mpc \in {"fxn", "join_clients"}

(* A plotting thread that runs is main()'s, which is past its start. *)
PlotterOwned ==
  /\ ppc \notin {"none", "done"} => joinable
  /\ joinable => mpc \in PlottingPcs \cup (EndPcs \ {"exited"})

(* The proxy is told to quit only in between. *)
ProxyStays == mpc \in ProxyPcs \/ joinable => proc["proxy"] \notin {"quitting", "reaped"}

(* An origin that is up has a pid file, until main() removes it. *)
OriginStops ==
  /\ mpc = "launch_proxy" \/ setting > 0 => Started("origin")
  /\ mpc \in {"boot", "prompt", "setup"} => proc["origin"] = "none"
  /\ mpc \notin {"rm_dirs", "return", "exited"} /\ proc["origin"] = "init" =>
       pidfile["origin"] = "empty"
  /\ mpc \notin {"rm_dirs", "return", "exited"} /\ proc["origin"] = "up" =>
       pidfile["origin"] = "written"
  /\ proc["origin"] = "quitting" => mpc = "reap_origin"
  /\ mpc \in {"rm_files", "rm_dirs", "return", "exited"} /\ setting > 0 =>
       proc["origin"] \notin Serving

(* Until a signal arrives, nothing ends early. *)
Quiet ==
  signals = 0 =>
    /\ handler = "none" /\ interrupted = 0
    /\ flag_exit = 1 => mpc \in EndPcs
    /\ mpc \in PlottingPcs \ {"join_plotter"} => flag_exit_plotting_thr = 0
    /\ joinable => mpc \in PlottingPcs
    /\ ppc \in {"clilog", "copy", "popen", "fclose"} => mpc = "join_plotter"

IInv == /\ TypeOK /\ LoopIndex /\ ClientsJoined /\ PlotterOwned /\ ProxyStays
        /\ OriginStops /\ Quiet

(* If moreover no server fails to start and no status request is lost, the *)
(* proxy is up whenever somebody needs it and TEST_DIR is there.           *)
Benign == signals = 0 /\ Faults \subseteq {"client", "json", "popen"}

ServersUp ==
  Benign =>
    /\ crash = "none"
    /\ mpc \notin {"boot", "prompt", "setup", "return", "exited"} => "dir" \in files
    /\ mpc = "wait_proxy" => /\ proc["proxy"] \in {"starting", "configured", "init", "up"}
                             /\ "nginx.conf" \in files
    /\ mpc \in ProxyPcs \ {"wait_proxy"} => proc["proxy"] = "up"
=============================================================================
