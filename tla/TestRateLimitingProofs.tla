----------------------- MODULE TestRateLimitingProofs -----------------------
(***************************************************************************)
(* Proofs about TestRateLimiting for any table of settings, any number of  *)
(* clients and signals, any burst size and any set of faults.              *)
(***************************************************************************)
EXTENDS TestRateLimiting, TLAPS

(* The invariant holds before main() does anything. *)
LEMMA InitIInv == Init => IInv
<1> SUFFICES ASSUME Init PROVE IInv
  OBVIOUS
<1>1. Len(Settings) \in Nat
  BY SettingsAssumption
<1>2. TypeOK
  <2>1. setting \in 0..Len(Settings) /\ burst_level \in 0..(BurstSize + 1)
        /\ level \in 0..(BurstSize + 1) /\ signals \in 0..MaxSignals
    BY <1>1, LimitsAssumption DEF Init
  <2>2. sample \in [level : 0..(BurstSize + 1), counted : SUBSET Clients]
    BY LimitsAssumption DEF Init, NoSample
  <2>3. plot \in [lines : SUBSET Lines, responses : SUBSET Clients]
    BY DEF Init
  <2> QED
    BY <2>1, <2>2, <2>3 DEF Init, TypeOK, MainPcs, ProcStates
<1>3. LoopIndex /\ ClientsJoined /\ PlotterOwned /\ ProxyStays /\ OriginStops /\ Quiet
  BY DEF Init, LoopIndex, ClientsJoined, PlotterOwned, ProxyStays, OriginStops, Quiet,
         EndPcs, PlottingPcs, ProxyPcs, Servers, Serving, Started
<1> QED BY <1>2, <1>3 DEF IInv

(* Each step of main() preserves it.                                       *)
LEMMA MainIInv == ASSUME IInv, Main PROVE IInv'
<1> USE SettingsAssumption, LimitsAssumption
    DEF IInv, TypeOK, LoopIndex, ClientsJoined, PlotterOwned, ProxyStays, OriginStops, Quiet,
        EndPcs, PlottingPcs, ProxyPcs, MainPcs, ProcStates, Servers, Serving, Started,
        At, Goto, Runs, Expires, Interrupted, allbutmpc, flags, clientvars, plotvars, nginxvars, gnuplotvars, sigvars
<1>1. CASE MainPrompt BY <1>1 DEF MainPrompt
<1>2. CASE MainSetup BY <1>2 DEF MainSetup, nginx_wrapper_open, configure_origin, dump2file, Files
<1>3. CASE MainWaitOrigin BY <1>3 DEF MainWaitOrigin
<1>4. CASE MainLaunchProxy
  <2>1. files' \subseteq Files
    BY <1>4 DEF MainLaunchProxy, configure_proxy, dump2file, Files
  <2>2. TypeOK'
    BY <1>4, <2>1 DEF MainLaunchProxy, nginx_wrapper_open
  <2>3. (LoopIndex /\ ClientsJoined /\ PlotterOwned /\ ProxyStays /\ OriginStops /\ Quiet)'
    BY <1>4 DEF MainLaunchProxy, nginx_wrapper_open
  <2> QED BY <2>2, <2>3
<1>5. CASE MainWaitProxy
  <2>1. mpc = "wait_proxy" /\ mpc' \in {"start", "end"} /\ (mpc' = "end" => interrupted = 1)
    BY <1>5 DEF MainWaitProxy
  <2>2. UNCHANGED allbutmpc
    BY <1>5 DEF MainWaitProxy
  <2>3. TypeOK'
    BY <2>1, <2>2
  <2>4. (LoopIndex /\ ClientsJoined /\ PlotterOwned /\ ProxyStays /\ OriginStops /\ Quiet)'
    BY <2>1, <2>2
  <2> QED BY <2>3, <2>4
<1>6. CASE MainStart BY <1>6 DEF MainStart
<1>7. CASE MainBurst BY <1>7 DEF MainBurst, http_get_nginx
<1>8. CASE MainBurstsSent BY <1>8 DEF MainBurstsSent
<1>9. CASE MainJoinClients BY <1>9 DEF MainJoinClients
<1>10. CASE MainDrain BY <1>10 DEF MainDrain
<1>11. CASE MainDrainSleep BY <1>11 DEF MainDrainSleep
<1>12. CASE MainStopPlotter BY <1>12 DEF MainStopPlotter
<1>13. CASE MainJoinPlotter BY <1>13 DEF MainJoinPlotter
<1>14. CASE MainSettle BY <1>14 DEF MainSettle
<1>15. CASE MainCloseProxy
  <2>1. ~joinable /\ mpc' \in {"reap_proxy", "next"} /\ setting > 0 /\ proc'["origin"] = proc["origin"]
    BY <1>15 DEF MainCloseProxy, nginx_wrapper_close, Waitpid
  <2>2. TypeOK'
    BY <1>15 DEF MainCloseProxy, nginx_wrapper_close, Waitpid
  <2>3. (LoopIndex /\ ClientsJoined /\ PlotterOwned /\ ProxyStays /\ OriginStops /\ Quiet)'
    BY <1>15, <2>1 DEF MainCloseProxy
  <2> QED BY <2>2, <2>3
<1>16. CASE MainNextSetting
  <2>1. files' \subseteq Files
    BY <1>16 DEF MainNextSetting, Files
  <2>2. TypeOK'
    BY <1>16, <2>1 DEF MainNextSetting
  <2>3. (LoopIndex /\ ClientsJoined /\ PlotterOwned /\ ProxyStays /\ OriginStops /\ Quiet)'
    BY <1>16 DEF MainNextSetting
  <2> QED BY <2>2, <2>3
<1>17. CASE MainEnd BY <1>17 DEF MainEnd
<1>18. CASE MainCloseOrigin BY <1>18 DEF MainCloseOrigin, nginx_wrapper_close, Waitpid
<1>19. CASE MainRmFiles BY <1>19 DEF MainRmFiles
<1>20. CASE MainRmDirs
  <2>1. files' \subseteq files
    BY <1>20 DEF MainRmDirs
  <2>2. TypeOK'
    BY <1>20, <2>1 DEF MainRmDirs
  <2>3. (LoopIndex /\ ClientsJoined /\ PlotterOwned /\ ProxyStays /\ OriginStops /\ Quiet)'
    BY <1>20 DEF MainRmDirs
  <2> QED BY <2>2, <2>3
<1>21. CASE MainReturn BY <1>21 DEF MainReturn
<1> QED
  BY <1>1, <1>2, <1>3, <1>4, <1>5, <1>6, <1>7, <1>8, <1>9, <1>10, <1>11, <1>12, <1>13, <1>14,
     <1>15, <1>16, <1>17, <1>18, <1>19, <1>20, <1>21
  DEF Main

(* So does each step of a client thread and of the proxy it talks to.      *)
LEMMA ClientIInv == ASSUME IInv, NEW c \in Clients, Client(c) \/ Proxy(c) PROVE IInv'
<1> USE SettingsAssumption, LimitsAssumption
    DEF IInv, TypeOK, LoopIndex, ClientsJoined, PlotterOwned, ProxyStays, OriginStops, Quiet,
        EndPcs, PlottingPcs, ProxyPcs, MainPcs, ProcStates, Servers, Serving, Started,
        CAt, CGoto, Runs, mainvars, flags, clientvars, plotvars, nginxvars, gnuplotvars, sigvars
<1>1. CASE ClientFails(c) BY <1>1 DEF ClientFails
<1>2. CASE ClientLocks(c) BY <1>2 DEF ClientLocks
<1>3. CASE ClientPushes(c)
  \* Clients exist only inside the loop, so the line has a setting.
  <2>1. <<setting, c>> \in Lines
    BY <1>3 DEF ClientPushes, Lines
  <2>2. clients_stats' \subseteq Lines
    BY <1>3, <2>1 DEF ClientPushes
  <2> QED BY <1>3, <2>2 DEF ClientPushes
<1>4. CASE ProxyAdmits(c) BY <1>4 DEF ProxyAdmits
<1>5. CASE ProxyRejects(c) BY <1>5 DEF ProxyRejects, Answer
<1>6. CASE ProxyResponds(c) BY <1>6 DEF ProxyResponds, Answer
<1>7. CASE ProxyCounts(c) BY <1>7 DEF ProxyCounts
<1> QED BY <1>1, <1>2, <1>3, <1>4, <1>5, <1>6, <1>7 DEF Client, Proxy

(* So does each step of plottingThr(), racing ones included.               *)
LEMMA PlotterIInv == ASSUME IInv, Plotter \/ DataRace PROVE IInv'
<1> USE SettingsAssumption, LimitsAssumption
    DEF IInv, TypeOK, LoopIndex, ClientsJoined, PlotterOwned, ProxyStays, OriginStops, Quiet,
        EndPcs, PlottingPcs, ProxyPcs, MainPcs, ProcStates, Servers, Serving, Started,
        PAt, PGoto, Runs, mainvars, flags, clientvars, plotvars, nginxvars, gnuplotvars, sigvars
<1>1. CASE PlotterOpens
  <2>1. files' \subseteq Files
    BY <1>1 DEF PlotterOpens, Files
  <2> QED BY <1>1, <2>1 DEF PlotterOpens
<1>2. CASE PlotterLoops BY <1>2 DEF PlotterLoops
<1>3. CASE PlotterRequests BY <1>3 DEF PlotterRequests
<1>4. CASE PlotterTraces BY <1>4 DEF PlotterTraces, trace_stats, NoSample
<1>5. CASE PlotterOpensLog
  <2>1. files' \subseteq Files
    BY <1>5 DEF PlotterOpensLog, Files
  <2> QED BY <1>5, <2>1 DEF PlotterOpensLog
<1>6. CASE PlotterCopies BY <1>6 DEF PlotterCopies
<1>7. CASE PlotterPlots BY <1>7 DEF PlotterPlots
<1>8. CASE PlotterCloses BY <1>8 DEF PlotterCloses
<1>9. CASE DataRace BY <1>9 DEF DataRace
<1> QED BY <1>1, <1>2, <1>3, <1>4, <1>5, <1>6, <1>7, <1>8, <1>9 DEF Plotter

(* So do the nginx instances.                                              *)
LEMMA NginxIInv == ASSUME IInv, NEW p \in Servers, Nginx(p) PROVE IInv'
<1> USE SettingsAssumption, LimitsAssumption
    DEF IInv, TypeOK, LoopIndex, ClientsJoined, PlotterOwned, ProxyStays, OriginStops, Quiet,
        EndPcs, PlottingPcs, ProxyPcs, MainPcs, ProcStates, Servers, Serving, Started,
        mainvars, flags, clientvars, plotvars, nginxvars, gnuplotvars, sigvars
<1>1. CASE NginxReadsConf(p) BY <1>1 DEF NginxReadsConf
<1>2. CASE NginxCreatesPidfile(p) BY <1>2 DEF NginxCreatesPidfile
<1>3. CASE NginxUp(p) BY <1>3 DEF NginxUp
<1>4. CASE NginxQuits(p) BY <1>4 DEF NginxQuits
<1> QED BY <1>1, <1>2, <1>3, <1>4 DEF Nginx

(* So do the key, the passage of time, gnuplot and the signal handler.     *)
LEMMA OutsideIInv ==
  ASSUME IInv,
         KeyPressed \/ ProxyLeaks \/ GnuplotDraws \/ HandlerReturns
           \/ \E t \in Threads : SignalDelivered(t)
  PROVE  IInv'
<1> USE SettingsAssumption, LimitsAssumption
    DEF IInv, TypeOK, LoopIndex, ClientsJoined, PlotterOwned, ProxyStays, OriginStops, Quiet,
        EndPcs, PlottingPcs, ProxyPcs, MainPcs, ProcStates, Servers, Serving, Started,
        At, Goto, Runs, allbutmpc, mainvars, flags, clientvars, plotvars, nginxvars, gnuplotvars,
        sigvars
<1>1. CASE KeyPressed BY <1>1 DEF KeyPressed
<1>2. CASE ProxyLeaks BY <1>2 DEF ProxyLeaks
<1>3. CASE GnuplotDraws BY <1>3 DEF GnuplotDraws
<1>4. CASE HandlerReturns BY <1>4 DEF HandlerReturns
<1>5. ASSUME NEW t \in Threads, SignalDelivered(t) PROVE IInv' BY <1>5 DEF SignalDelivered
<1> QED BY <1>1, <1>2, <1>3, <1>4, <1>5

(* A step that changes nothing preserves it.                                *)
LEMMA StutterIInv == ASSUME IInv, UNCHANGED vars PROVE IInv'
  BY DEF IInv, TypeOK, LoopIndex, ClientsJoined, PlotterOwned, ProxyStays, OriginStops, Quiet,
         Started, vars, allbutmpc, flags, clientvars, plotvars, nginxvars, gnuplotvars, sigvars

(* The inductive invariant holds in every reachable state.                 *)
THEOREM Inductive == Spec => []IInv
<1>1. Init => IInv BY InitIInv
<1>2. IInv /\ [Next]_vars => IInv'
  BY MainIInv, ClientIInv, PlotterIInv, NginxIInv, OutsideIInv, StutterIInv DEF Next
<1> QED BY <1>1, <1>2, PTL DEF Spec

(* Type correctness, and with it that the loop never indexes past Settings *)
(* and that the bucket never holds more than the burst.                    *)
THEOREM TypeCorrect == Spec => []TypeOK
<1>1. IInv => TypeOK BY DEF IInv
<1> QED BY <1>1, Inductive, PTL

(* Nobody has a request on a proxy that main() told to quit, whatever is   *)
(* interrupted and whatever fails.                                         *)
THEOREM RequestsServed == Spec => []ProxyOutlivesRequests
<1>1. IInv => ProxyOutlivesRequests
  \* The plotter is joined and the clients are too before the proxy quits.
  <2> SUFFICES ASSUME IInv, ppc = "req" \/ \E c \in Clients : cpc[c] \in {"req", "held"}
               PROVE  proc["proxy"] \notin {"quitting", "reaped"}
    BY DEF ProxyOutlivesRequests
  <2>1. CASE ppc = "req"
    BY <2>1 DEF IInv, PlotterOwned, ProxyStays
  <2>2. CASE \E c \in Clients : cpc[c] \in {"req", "held"}
    BY <2>2 DEF IInv, ClientsJoined, ProxyStays, ProxyPcs, PlottingPcs
  <2> QED BY <2>1, <2>2
<1> QED BY <1>1, Inductive, PTL

(* Every path to the end of main() kills an origin that had come up.       *)
THEOREM OriginKilled == Spec => []OriginKilledOnceUp
<1>1. IInv => OriginKilledOnceUp
  BY DEF IInv, OriginStops, OriginKilledOnceUp
<1> QED BY <1>1, Inductive, PTL

(* Without signals the unlocked access of plottingThr() to clients_stats   *)
(* races with no client: main() joins the clients before it stops it.      *)
THEOREM NoRaceUnlessInterrupted == Spec => [](signals = 0 => NoDataRace)
<1>1. IInv => (signals = 0 => NoDataRace)
  BY DEF IInv, Quiet, ClientsJoined, NoDataRace, Racing
<1> QED BY <1>1, Inductive, PTL

(* A test that has seen no signal had seen none before: their number never *)
(* decreases.                                                              *)
LEMMA BenignBefore == ASSUME IInv, [Next]_vars, Benign' PROVE Benign
<1>1. signals \in Nat
  BY LimitsAssumption DEF IInv, TypeOK
<1>2. signals' = signals \/ signals' = signals + 1
  BY DEF Next, Main, Client, Proxy, Plotter, Nginx, MainPrompt, MainSetup, MainWaitOrigin,
         MainLaunchProxy, MainWaitProxy, MainStart, MainBurst, MainBurstsSent, MainJoinClients,
         MainDrain, MainDrainSleep, MainStopPlotter, MainJoinPlotter, MainSettle,
         MainCloseProxy, MainNextSetting, MainEnd, MainCloseOrigin, MainRmFiles, MainRmDirs,
         MainReturn, KeyPressed, PlotterOpens, PlotterLoops, PlotterRequests, PlotterTraces,
         PlotterOpensLog, PlotterCopies, PlotterPlots, PlotterCloses, DataRace, ClientFails, ClientLocks,
         ClientPushes, ProxyAdmits, ProxyRejects, ProxyResponds, ProxyCounts, NginxReadsConf,
         NginxCreatesPidfile, NginxUp, NginxQuits, ProxyLeaks, GnuplotDraws, HandlerReturns,
         SignalDelivered, vars, allbutmpc, sigvars
<1> QED BY <1>1, <1>2 DEF Benign

(* When nothing but a client's request, a status document or gnuplot can   *)
(* fail, and no signal has come, the servers are up while they are needed. *)
LEMMA ServersUpStep == ASSUME IInv, ServersUp, [Next]_vars PROVE ServersUp'
<1> SUFFICES ASSUME Benign' PROVE ServersUp'
  BY DEF ServersUp
<1>1. Benign BY BenignBefore
<1> USE <1>1
    DEF IInv, TypeOK, LoopIndex, ClientsJoined, PlotterOwned, ProxyStays, Quiet, ServersUp,
        Benign, EndPcs, PlottingPcs, ProxyPcs, Servers, Started, Runs, mainvars, flags,
        clientvars, plotvars, nginxvars, gnuplotvars, sigvars, allbutmpc
<1>2. CASE Main
  <2> USE DEF At, Goto, Expires, Interrupted
  <2>1. CASE MainPrompt \/ MainWaitOrigin \/ MainStart \/ MainBurst \/ MainBurstsSent
             \/ MainJoinClients \/ MainDrain \/ MainDrainSleep \/ MainStopPlotter
             \/ MainJoinPlotter \/ MainSettle \/ MainEnd
    BY <2>1
    DEF MainPrompt, MainWaitOrigin, MainStart, MainBurst, MainBurstsSent, MainJoinClients,
        MainDrain, MainDrainSleep, MainStopPlotter, MainJoinPlotter, MainSettle, MainEnd
  <2>2. CASE MainSetup \/ MainLaunchProxy
    BY <2>2 DEF MainSetup, MainLaunchProxy, nginx_wrapper_open, configure_origin, configure_proxy, dump2file
  <2>3. CASE MainWaitProxy
    BY <2>3 DEF MainWaitProxy
  <2>4. CASE MainCloseProxy \/ MainCloseOrigin
    BY <2>4 DEF MainCloseProxy, MainCloseOrigin, nginx_wrapper_close, Waitpid
  <2>5. CASE MainNextSetting \/ MainRmFiles \/ MainRmDirs
    BY <2>5 DEF MainNextSetting, MainRmFiles, MainRmDirs
  <2>6. CASE MainReturn
    \* Uninterrupted, the plotting thread was joined long ago.
    BY <2>6 DEF MainReturn
  <2> QED BY <1>2, <2>1, <2>2, <2>3, <2>4, <2>5, <2>6 DEF Main
<1>3. CASE Plotter
  <2> USE DEF PAt, PGoto
  <2>1. CASE PlotterOpens BY <2>1 DEF PlotterOpens
  <2>2. CASE PlotterRequests
    \* The status request finds the proxy up.
    BY <2>2 DEF PlotterRequests
  <2>3. CASE PlotterOpensLog BY <2>3 DEF PlotterOpensLog
  <2>4. CASE PlotterLoops \/ PlotterTraces \/ PlotterCopies \/ PlotterPlots \/ PlotterCloses
    BY <2>4 DEF PlotterLoops, PlotterTraces, PlotterCopies, PlotterPlots, PlotterCloses
  <2> QED BY <1>3, <2>1, <2>2, <2>3, <2>4 DEF Plotter
<1>4. CASE DataRace
  BY <1>4 DEF DataRace, Racing
<1>5. ASSUME NEW c \in Clients, Client(c) \/ Proxy(c) PROVE ServersUp'
  BY <1>5 DEF Client, Proxy, ClientFails, ClientLocks, ClientPushes, ProxyAdmits, ProxyRejects,
              ProxyResponds, ProxyCounts
<1>6. ASSUME NEW p \in Servers, Nginx(p) PROVE ServersUp'
  BY <1>6 DEF Nginx, NginxReadsConf, NginxCreatesPidfile, NginxUp, NginxQuits, Conf
<1>7. CASE KeyPressed \/ ProxyLeaks \/ GnuplotDraws \/ HandlerReturns
           \/ \E t \in Threads : SignalDelivered(t)
  BY <1>7 DEF KeyPressed, ProxyLeaks, GnuplotDraws, HandlerReturns, SignalDelivered, At, Goto
<1>8. CASE UNCHANGED vars
  BY <1>8 DEF vars
<1> QED BY <1>2, <1>3, <1>4, <1>5, <1>6, <1>7, <1>8 DEF Next

(* The test does not die of its own: no status request meets a dead proxy, *)
(* no file is missing, no thread is left joinable and nothing races.       *)
THEOREM NeverDiesUninterrupted == Spec => [](Benign => NoCrash)
<1>1. Init => ServersUp
  BY DEF Init, ServersUp, ProxyPcs, PlottingPcs
<1>2. IInv /\ ServersUp /\ [Next]_vars => ServersUp'
  BY ServersUpStep
<1>3. ServersUp => (Benign => NoCrash)
  BY DEF ServersUp, NoCrash
<1> QED BY <1>1, <1>2, <1>3, Inductive, PTL DEF Spec
-----------------------------------------------------------------------------
(* What the test leaves behind when nobody interrupts it and no server      *)
(* fails to start. Each part says what holds while main() is where it is.  *)

(* What nginx's life makes of its pid file. *)
PidfileOf(state) == IF state = "init" THEN "empty"
                    ELSE IF state \in {"up", "quitting"} THEN "written" ELSE "absent"

(* The proxy is gone between two settings and at the end; the origin was    *)
(* given the time to start, and is gone before TEST_DIR is.                 *)
Lifecycle ==
  /\ \A p \in Servers : pidfile[p] = PidfileOf(proc[p])
  /\ mpc \in {"boot", "prompt", "setup", "wait_origin"} => proc["proxy"] = "none"
  /\ mpc \in {"launch_proxy", "next"} \cup EndPcs => proc["proxy"] \in {"none", "reaped"}
  /\ mpc = "reap_proxy" => proc["proxy"] \in {"quitting", "exited"}
  /\ mpc \notin {"boot", "prompt", "setup", "wait_origin"} => Started("origin")
  /\ mpc \in {"rm_files", "rm_dirs", "return", "exited"} =>
       proc["origin"] \in {"none", "exited", "reaped"}

(* Nothing creates a file between the two passes of utils_rmpath(). *)
Removal ==
  /\ mpc = "rm_dirs" => files = {"dir"}
  /\ mpc \in {"return", "exited"} => files = {}

(* The lines of the setting's requests that succeeded; all of them, or     *)
(* those whose thread has pushed its line.                                 *)
AllLines == {<<setting, c>> : c \in answered}
PushedLines == {<<setting, c>> : c \in {x \in answered : cpc[x] \notin {"resp", "push"}}}

(* A client is answered once in a setting, and before it pushes. *)
Answers ==
  /\ mpc \in {"wait_proxy", "start"} => answered = {}
  /\ \A c \in Clients :
       /\ cpc[c] \in {"resp", "push"} => c \in answered
       /\ mpc \in {"fxn", "join_clients"} /\ cpc[c] \in {"none", "req", "held"}
            => c \notin answered

(* plottingThr() runs until it is stopped; clients_stats is empty before it *)
(* starts and once it has copied the lines, and in between it holds what    *)
(* was pushed.                                                              *)
Collected ==
  /\ mpc \in PlottingPcs \ {"join_plotter"} => ppc \in {"fopen", "loop", "req", "trace"}
  /\ ppc \in {"none", "popen", "fclose", "done"} => clients_stats = {}
  /\ ppc \notin {"none", "popen", "fclose", "done"} => clients_stats = PushedLines

(* gnuplot starts when the log holds all lines of the setting, and          *)
(* plottingThr() waits for it: main() is at the join, and removes nothing.  *)
Plotted ==
  /\ ppc \notin {"none", "fclose", "done"} \/ mpc \in {"wait_proxy", "start"} => gnuplot = "none"
  /\ ppc \in {"copy", "popen"} => "client_stats.log" \in files
  /\ ppc = "popen" => clilog = AllLines
  /\ gnuplot = "running" => /\ ppc = "fclose"
                            /\ clilog = AllLines
                            /\ "client_stats.log" \in files
  /\ gnuplot = "done" => plot.lines = AllLines

Tidy == Benign => Lifecycle /\ Removal /\ Answers /\ Collected /\ Plotted

(* Each server's life keeps to Lifecycle, whoever moves.                   *)
LEMMA LifecycleStep ==
  ASSUME IInv, ServersUp, Benign, Lifecycle, [Next]_vars, Benign'
  PROVE  Lifecycle'
<1> USE DEF IInv, TypeOK, OriginStops, Quiet, ServersUp, Benign, Lifecycle, PidfileOf, EndPcs, PlottingPcs,
            ProxyPcs, Servers, Started, Runs, mainvars, flags, clientvars, plotvars, nginxvars,
            gnuplotvars, sigvars, allbutmpc
<1>1. CASE Main
  <2> USE DEF At, Goto, Expires, Interrupted
  <2>1. CASE MainPrompt \/ MainWaitOrigin \/ MainStart \/ MainBurst \/ MainBurstsSent
             \/ MainJoinClients \/ MainDrain \/ MainDrainSleep \/ MainStopPlotter
             \/ MainJoinPlotter \/ MainSettle \/ MainEnd
    BY <2>1
    DEF MainPrompt, MainWaitOrigin, MainStart, MainBurst, MainBurstsSent, MainJoinClients,
        MainDrain, MainDrainSleep, MainStopPlotter, MainJoinPlotter, MainSettle, MainEnd
  <2>2. CASE MainSetup BY <2>2 DEF MainSetup, nginx_wrapper_open
  <2>3. CASE MainLaunchProxy BY <2>3 DEF MainLaunchProxy, nginx_wrapper_open
  <2>4. CASE MainWaitProxy BY <2>4 DEF MainWaitProxy
  <2>5. CASE MainCloseProxy
    \* The proxy is up, so its pid is in the file and it is told to quit.
    BY <2>5 DEF MainCloseProxy, nginx_wrapper_close, Waitpid
  <2>6. CASE MainCloseOrigin
    \* It has started, so without a pid file it has exited.
    BY <2>6 DEF MainCloseOrigin, nginx_wrapper_close, Waitpid, ProcStates
  <2>7. CASE MainRmFiles BY <2>7 DEF MainRmFiles
  <2>8. CASE MainNextSetting \/ MainRmDirs \/ MainReturn
    BY <2>8 DEF MainNextSetting, MainRmDirs, MainReturn
  <2> QED BY <1>1, <2>1, <2>2, <2>3, <2>4, <2>5, <2>6, <2>7, <2>8 DEF Main
<1>2. ASSUME NEW p \in Servers, Nginx(p) PROVE Lifecycle'
  <2>1. CASE NginxReadsConf(p) BY <2>1 DEF NginxReadsConf
  <2>2. CASE NginxCreatesPidfile(p) BY <2>2 DEF NginxCreatesPidfile
  <2>3. CASE NginxUp(p) BY <2>3 DEF NginxUp
  <2>4. CASE NginxQuits(p) BY <2>4 DEF NginxQuits
  <2> QED BY <1>2, <2>1, <2>2, <2>3, <2>4 DEF Nginx
<1>3. CASE Plotter \/ DataRace
  BY <1>3 DEF Plotter, PlotterOpens, PlotterLoops, PlotterRequests, PlotterTraces,
              PlotterOpensLog, PlotterCopies, PlotterPlots, PlotterCloses, DataRace
<1>4. ASSUME NEW c \in Clients, Client(c) \/ Proxy(c) PROVE Lifecycle'
  BY <1>4 DEF Client, Proxy, ClientFails, ClientLocks, ClientPushes, ProxyAdmits, ProxyRejects,
              ProxyResponds, ProxyCounts
<1>5. CASE KeyPressed \/ ProxyLeaks \/ GnuplotDraws \/ HandlerReturns
           \/ \E t \in Threads : SignalDelivered(t)
  BY <1>5 DEF KeyPressed, ProxyLeaks, GnuplotDraws, HandlerReturns, SignalDelivered, At, Goto
<1>6. CASE UNCHANGED vars
  BY <1>6 DEF vars
<1> QED BY <1>1, <1>2, <1>3, <1>4, <1>5, <1>6 DEF Next


(* The files go in two passes, and nobody is left to create one.           *)
LEMMA RemovalStep ==
  ASSUME IInv, ServersUp, Benign, Lifecycle, Removal, [Next]_vars, Benign'
  PROVE  Removal'
<1> USE DEF IInv, TypeOK, PlotterOwned, Quiet, ServersUp, Benign, Removal, EndPcs,
            PlottingPcs, Runs, mainvars, flags, clientvars, plotvars, nginxvars, gnuplotvars,
            sigvars, allbutmpc
<1>1. CASE Main
  <2> USE DEF At, Goto, Expires, Interrupted
  <2>1. CASE MainPrompt \/ MainWaitOrigin \/ MainStart \/ MainBurst \/ MainBurstsSent
             \/ MainJoinClients \/ MainDrain \/ MainDrainSleep \/ MainStopPlotter
             \/ MainJoinPlotter \/ MainSettle \/ MainEnd \/ MainWaitProxy
    BY <2>1
    DEF MainPrompt, MainWaitOrigin, MainStart, MainBurst, MainBurstsSent, MainJoinClients,
        MainDrain, MainDrainSleep, MainStopPlotter, MainJoinPlotter, MainSettle, MainEnd,
        MainWaitProxy
  <2>2. CASE MainSetup \/ MainLaunchProxy
    BY <2>2 DEF MainSetup, MainLaunchProxy, nginx_wrapper_open
  <2>3. CASE MainCloseProxy \/ MainCloseOrigin
    BY <2>3 DEF MainCloseProxy, MainCloseOrigin, nginx_wrapper_close, Waitpid
  <2>4. CASE MainRmFiles
    BY <2>4 DEF MainRmFiles
  <2>5. CASE MainRmDirs
    \* The pid files went with the servers.
    <3>1. \A p \in Servers : pidfile[p] = "absent"
      BY <2>5 DEF MainRmDirs, Lifecycle, PidfileOf, Servers
    <3> QED BY <2>5, <3>1 DEF MainRmDirs
  <2>6. CASE MainNextSetting \/ MainReturn
    BY <2>6 DEF MainNextSetting, MainReturn
  <2> QED BY <1>1, <2>1, <2>2, <2>3, <2>4, <2>5, <2>6 DEF Main
<1>2. CASE Plotter
  \* The thread that opens files was joined before main() got to its end.
  BY <1>2 DEF Plotter, PlotterOpens, PlotterLoops, PlotterRequests, PlotterTraces,
              PlotterOpensLog, PlotterCopies, PlotterPlots, PlotterCloses, PAt
<1>3. CASE DataRace \/ KeyPressed \/ ProxyLeaks \/ GnuplotDraws \/ HandlerReturns
           \/ \E t \in Threads : SignalDelivered(t)
  BY <1>3 DEF DataRace, KeyPressed, ProxyLeaks, GnuplotDraws, HandlerReturns, SignalDelivered,
              At, Goto
<1>4. ASSUME NEW c \in Clients, Client(c) \/ Proxy(c) PROVE Removal'
  BY <1>4 DEF Client, Proxy, ClientFails, ClientLocks, ClientPushes, ProxyAdmits, ProxyRejects,
              ProxyResponds, ProxyCounts
<1>5. ASSUME NEW p \in Servers, Nginx(p) PROVE Removal'
  BY <1>5 DEF Nginx, NginxReadsConf, NginxCreatesPidfile, NginxUp, NginxQuits
<1>6. CASE UNCHANGED vars
  BY <1>6 DEF vars
<1> QED BY <1>1, <1>2, <1>3, <1>4, <1>5, <1>6 DEF Next

(* A setting's clients are fresh ones, and each request is answered once.  *)
LEMMA AnswersStep ==
  ASSUME IInv, Benign, Answers, [Next]_vars, Benign'
  PROVE  Answers'
<1> USE DEF IInv, TypeOK, ClientsJoined, Quiet, Benign, Answers, EndPcs, PlottingPcs, Runs,
            mainvars, flags, clientvars, plotvars, nginxvars, gnuplotvars, sigvars, allbutmpc
<1>1. CASE Main
  <2> USE DEF At, Goto, Expires, Interrupted
  <2>1. CASE MainPrompt \/ MainWaitOrigin \/ MainWaitProxy \/ MainBurstsSent \/ MainDrain
             \/ MainDrainSleep \/ MainStopPlotter \/ MainJoinPlotter \/ MainSettle \/ MainEnd
    BY <2>1
    DEF MainPrompt, MainWaitOrigin, MainWaitProxy, MainBurstsSent, MainDrain, MainDrainSleep,
        MainStopPlotter, MainJoinPlotter, MainSettle, MainEnd
  <2>2. CASE MainSetup BY <2>2 DEF MainSetup, nginx_wrapper_open
  <2>3. CASE MainLaunchProxy
    BY <2>3 DEF MainLaunchProxy, nginx_wrapper_open
  <2>4. CASE MainStart BY <2>4 DEF MainStart
  <2>5. CASE MainBurst
    BY <2>5 DEF MainBurst, http_get_nginx
  <2>6. CASE MainJoinClients BY <2>6 DEF MainJoinClients
  <2>7. CASE MainCloseProxy \/ MainCloseOrigin
    BY <2>7 DEF MainCloseProxy, MainCloseOrigin, nginx_wrapper_close, Waitpid
  <2>8. CASE MainNextSetting \/ MainRmFiles \/ MainRmDirs \/ MainReturn
    BY <2>8 DEF MainNextSetting, MainRmFiles, MainRmDirs, MainReturn
  <2> QED BY <1>1, <2>1, <2>2, <2>3, <2>4, <2>5, <2>6, <2>7, <2>8 DEF Main
<1>2. ASSUME NEW c \in Clients, Client(c) PROVE Answers'
  BY <1>2 DEF Client, ClientFails, ClientLocks, ClientPushes, CAt, CGoto
<1>3. ASSUME NEW c \in Clients, Proxy(c) PROVE Answers'
  BY <1>3 DEF Proxy, ProxyAdmits, ProxyRejects, ProxyResponds, ProxyCounts, Answer, CGoto
<1>4. CASE Plotter \/ DataRace
  BY <1>4 DEF Plotter, PlotterOpens, PlotterLoops, PlotterRequests, PlotterTraces,
              PlotterOpensLog, PlotterCopies, PlotterPlots, PlotterCloses, DataRace
<1>5. CASE KeyPressed \/ ProxyLeaks \/ GnuplotDraws \/ HandlerReturns
           \/ \E t \in Threads : SignalDelivered(t)
  BY <1>5 DEF KeyPressed, ProxyLeaks, GnuplotDraws, HandlerReturns, SignalDelivered, At, Goto
<1>6. ASSUME NEW p \in Servers, Nginx(p) PROVE Answers'
  BY <1>6 DEF Nginx, NginxReadsConf, NginxCreatesPidfile, NginxUp, NginxQuits
<1>7. CASE UNCHANGED vars
  BY <1>7 DEF vars
<1> QED BY <1>1, <1>2, <1>3, <1>4, <1>5, <1>6, <1>7 DEF Next


(* The lines pushed stay in clients_stats until plottingThr() copies them,  *)
(* after the clients are joined.                                           *)
LEMMA CollectedStep ==
  ASSUME IInv, ServersUp, Benign, Answers, Collected, [Next]_vars, Benign'
  PROVE  Collected'
<1> USE DEF IInv, TypeOK, ClientsJoined, PlotterOwned, Quiet, ServersUp, Benign, Collected,
            EndPcs, PlottingPcs, ProxyPcs, Runs, mainvars, flags, clientvars, plotvars,
            nginxvars, gnuplotvars, sigvars, allbutmpc
<1>1. CASE Main
  <2> USE DEF At, Goto, Expires, Interrupted
  <2>1. CASE MainPrompt \/ MainWaitOrigin \/ MainWaitProxy \/ MainBurstsSent \/ MainDrain
             \/ MainDrainSleep \/ MainStopPlotter \/ MainJoinPlotter \/ MainSettle \/ MainEnd
    BY <2>1
    DEF MainPrompt, MainWaitOrigin, MainWaitProxy, MainBurstsSent, MainDrain, MainDrainSleep,
        MainStopPlotter, MainJoinPlotter, MainSettle, MainEnd, PushedLines
  <2>2. CASE MainSetup BY <2>2 DEF MainSetup, nginx_wrapper_open, PushedLines
  <2>3. CASE MainLaunchProxy
    BY <2>3 DEF MainLaunchProxy, nginx_wrapper_open
  <2>4. CASE MainStart
    \* Nothing is left of the setting before, and nobody has been answered.
    BY <2>4 DEF MainStart, Answers, PushedLines
  <2>5. CASE MainBurst
    <3>1. PICK S \in SUBSET {c \in Clients : cpc[c] = "none"} :
            cpc' = [c \in Clients |-> IF c \in S THEN "req" ELSE cpc[c]]
      BY <2>5 DEF MainBurst, http_get_nginx
    <3>2. \A c \in Clients : cpc'[c] = cpc[c] \/ (cpc[c] = "none" /\ cpc'[c] = "req")
      BY <3>1
    <3>3. UNCHANGED <<answered, setting>>
      BY <2>5 DEF MainBurst
    <3>4. PushedLines' = PushedLines
      BY <3>2, <3>3 DEF PushedLines
    <3> QED BY <2>5, <3>4 DEF MainBurst
  <2>6. CASE MainJoinClients
    <3>1. PushedLines' = PushedLines
      BY <2>6 DEF MainJoinClients, PushedLines
    <3> QED BY <2>6, <3>1 DEF MainJoinClients
  <2>7. CASE MainCloseProxy \/ MainCloseOrigin
    BY <2>7 DEF MainCloseProxy, MainCloseOrigin, nginx_wrapper_close, Waitpid, PushedLines
  <2>8. CASE MainNextSetting \/ MainRmFiles \/ MainRmDirs \/ MainReturn
    BY <2>8 DEF MainNextSetting, MainRmFiles, MainRmDirs, MainReturn, PushedLines
  <2> QED BY <1>1, <2>1, <2>2, <2>3, <2>4, <2>5, <2>6, <2>7, <2>8 DEF Main
<1>2. ASSUME NEW c \in Clients, Client(c) \/ Proxy(c) PROVE Collected'
  <2> USE DEF Answers, CAt, CGoto
  <2>1. CASE ClientFails(c)
    <3>1. PushedLines' = PushedLines
      BY <2>1 DEF ClientFails, PushedLines
    <3> QED BY <2>1, <3>1 DEF ClientFails
  <2>2. CASE ClientLocks(c)
    <3>1. PushedLines' = PushedLines
      BY <2>2 DEF ClientLocks, PushedLines
    <3> QED BY <2>2, <3>1 DEF ClientLocks
  <2>3. CASE ClientPushes(c)
    <3>1. {x \in answered' : cpc'[x] \notin {"resp", "push"}} =
            {x \in answered : cpc[x] \notin {"resp", "push"}} \cup {c}
      BY <2>3 DEF ClientPushes
    <3>2. PushedLines' = PushedLines \cup {<<setting, c>>}
      BY <2>3, <3>1 DEF ClientPushes, PushedLines
    <3>3. ppc \in {"fopen", "loop", "req", "trace"}
      BY <2>3 DEF ClientPushes
    <3> QED BY <2>3, <3>2, <3>3 DEF ClientPushes
  <2>4. CASE ProxyAdmits(c)
    <3>1. PushedLines' = PushedLines
      BY <2>4 DEF ProxyAdmits, PushedLines
    <3> QED BY <2>4, <3>1 DEF ProxyAdmits
  <2>5. CASE ProxyRejects(c) \/ ProxyResponds(c)
    \* The answer is new, and its line is not pushed yet.
    <3>1. {x \in answered' : cpc'[x] \notin {"resp", "push"}} =
            {x \in answered : cpc[x] \notin {"resp", "push"}}
      BY <2>5 DEF ProxyRejects, ProxyResponds, Answer
    <3>2. PushedLines' = PushedLines
      BY <2>5, <3>1 DEF ProxyRejects, ProxyResponds, PushedLines
    <3> QED BY <2>5, <3>2 DEF ProxyRejects, ProxyResponds
  <2>6. CASE ProxyCounts(c)
    BY <2>6 DEF ProxyCounts, PushedLines
  <2> QED BY <1>2, <2>1, <2>2, <2>3, <2>4, <2>5, <2>6 DEF Client, Proxy
<1>3. CASE Plotter
  <2> USE DEF PAt, PGoto
  <2>1. CASE PlotterOpens BY <2>1 DEF PlotterOpens, PushedLines
  <2>2. CASE PlotterLoops BY <2>2 DEF PlotterLoops, PushedLines
  <2>3. CASE PlotterRequests \/ PlotterTraces
    BY <2>3 DEF PlotterRequests, PlotterTraces, PushedLines
  <2>4. CASE PlotterOpensLog BY <2>4 DEF PlotterOpensLog, PushedLines
  <2>5. CASE PlotterCopies BY <2>5 DEF PlotterCopies
  <2>6. CASE PlotterPlots \/ PlotterCloses BY <2>6 DEF PlotterPlots, PlotterCloses
  <2> QED BY <1>3, <2>1, <2>2, <2>3, <2>4, <2>5, <2>6 DEF Plotter
<1>4. CASE DataRace
  BY <1>4 DEF DataRace, Racing
<1>5. CASE KeyPressed \/ ProxyLeaks \/ GnuplotDraws \/ HandlerReturns
           \/ \E t \in Threads : SignalDelivered(t)
  BY <1>5 DEF KeyPressed, ProxyLeaks, GnuplotDraws, HandlerReturns, SignalDelivered, At, Goto,
              PushedLines
<1>6. ASSUME NEW p \in Servers, Nginx(p) PROVE Collected'
  BY <1>6 DEF Nginx, NginxReadsConf, NginxCreatesPidfile, NginxUp, NginxQuits, PushedLines
<1>7. CASE UNCHANGED vars
  BY <1>7 DEF vars, PushedLines
<1> QED BY <1>1, <1>2, <1>3, <1>4, <1>5, <1>6, <1>7 DEF Next

(* gnuplot reads a log that holds the lines of the whole setting.          *)
LEMMA PlottedStep ==
  ASSUME IInv, ServersUp, Benign, Answers, Collected, Plotted, [Next]_vars, Benign'
  PROVE  Plotted'
<1> USE DEF IInv, TypeOK, ClientsJoined, PlotterOwned, Quiet, ServersUp, Benign, Plotted,
            EndPcs, PlottingPcs, ProxyPcs, Runs, mainvars, flags, clientvars, plotvars,
            nginxvars, gnuplotvars, sigvars, allbutmpc
<1>1. CASE Main
  <2> USE DEF At, Goto, Expires, Interrupted
  <2>1. CASE MainPrompt \/ MainWaitOrigin \/ MainWaitProxy \/ MainStart \/ MainBurst
             \/ MainBurstsSent \/ MainJoinClients \/ MainDrain \/ MainDrainSleep
             \/ MainStopPlotter \/ MainJoinPlotter \/ MainEnd
    BY <2>1
    DEF MainPrompt, MainWaitOrigin, MainWaitProxy, MainStart, MainBurst, MainBurstsSent,
        MainJoinClients, MainDrain, MainDrainSleep, MainStopPlotter, MainJoinPlotter, MainEnd,
        AllLines
  <2>2. CASE MainSetup
    BY <2>2 DEF MainSetup, nginx_wrapper_open, AllLines
  <2>3. CASE MainLaunchProxy
    BY <2>3 DEF MainLaunchProxy, nginx_wrapper_open
  <2>4. CASE MainSettle
    \* The thread was joined, so gnuplot has ended.
    BY <2>4 DEF MainSettle, AllLines
  <2>5. CASE MainCloseProxy \/ MainCloseOrigin
    BY <2>5 DEF MainCloseProxy, MainCloseOrigin, nginx_wrapper_close, Waitpid, AllLines
  <2>6. CASE MainNextSetting \/ MainRmFiles \/ MainRmDirs \/ MainReturn
    BY <2>6 DEF MainNextSetting, MainRmFiles, MainRmDirs, MainReturn, AllLines
  <2> QED BY <1>1, <2>1, <2>2, <2>3, <2>4, <2>5, <2>6 DEF Main
<1>2. ASSUME NEW c \in Clients, Client(c) \/ Proxy(c) PROVE Plotted'
  <2>1. CASE ProxyRejects(c) \/ ProxyResponds(c)
    \* While clients run there is no plot.
    <3>1. gnuplot = "none" /\ ppc \notin {"copy", "popen", "fclose"}
      BY <2>1 DEF ProxyRejects, ProxyResponds, Collected
    <3> QED BY <2>1, <3>1 DEF ProxyRejects, ProxyResponds
  <2>2. CASE Client(c) \/ ProxyAdmits(c) \/ ProxyCounts(c)
    BY <2>2 DEF Client, ClientFails, ClientLocks, ClientPushes, ProxyAdmits, ProxyCounts,
                AllLines
  <2> QED BY <1>2, <2>1, <2>2 DEF Proxy
<1>3. CASE Plotter
  <2> USE DEF PAt, PGoto
  <2>1. CASE PlotterOpens \/ PlotterLoops \/ PlotterRequests \/ PlotterTraces
    BY <2>1 DEF PlotterOpens, PlotterLoops, PlotterRequests, PlotterTraces
  <2>2. CASE PlotterOpensLog BY <2>2 DEF PlotterOpensLog
  <2>3. CASE PlotterCopies
    \* The clients are joined: what is pushed is all there is.
    <3>1. \A c \in Clients : cpc[c] = "none"
      BY <2>3 DEF PlotterCopies
    <3>2. PushedLines = AllLines
      BY <3>1 DEF PushedLines, AllLines
    <3>3. AllLines' = AllLines
      BY <2>3 DEF PlotterCopies, AllLines
    <3> QED BY <2>3, <3>2, <3>3 DEF PlotterCopies, Collected
  <2>4. CASE PlotterPlots \/ PlotterCloses BY <2>4 DEF PlotterPlots, PlotterCloses, AllLines
  <2> QED BY <1>3, <2>1, <2>2, <2>3, <2>4 DEF Plotter
<1>4. CASE DataRace
  BY <1>4 DEF DataRace, Racing
<1>5. CASE GnuplotDraws
  BY <1>5 DEF GnuplotDraws, AllLines
<1>6. CASE KeyPressed \/ ProxyLeaks \/ HandlerReturns \/ \E t \in Threads : SignalDelivered(t)
  BY <1>6 DEF KeyPressed, ProxyLeaks, HandlerReturns, SignalDelivered, At, Goto, AllLines
<1>7. ASSUME NEW p \in Servers, Nginx(p) PROVE Plotted'
  BY <1>7 DEF Nginx, NginxReadsConf, NginxCreatesPidfile, NginxUp, NginxQuits, AllLines
<1>8. CASE UNCHANGED vars
  BY <1>8 DEF vars, AllLines
<1> QED BY <1>1, <1>2, <1>3, <1>4, <1>5, <1>6, <1>7, <1>8 DEF Next


(* All that is needed of a test nobody interrupts, kept by every step.     *)
LEMMA TidyStep == ASSUME IInv, ServersUp, Tidy, [Next]_vars PROVE Tidy'
<1> SUFFICES ASSUME Benign' PROVE Tidy'
  BY DEF Tidy
<1>1. Benign
  BY BenignBefore
<1>2. Lifecycle /\ Removal /\ Answers /\ Collected /\ Plotted
  BY <1>1 DEF Tidy
<1> QED
  BY <1>1, <1>2, LifecycleStep, RemovalStep, AnswersStep, CollectedStep, PlottedStep DEF Tidy

(* Both invariants of a test nobody interrupts, in every reachable state.  *)
THEOREM UninterruptedInductive == Spec => [](IInv /\ ServersUp /\ Tidy)
<1>1. Init => ServersUp
  BY DEF Init, ServersUp, ProxyPcs, PlottingPcs
<1>2. Init => Tidy
  BY DEF Init, Tidy, Lifecycle, Removal, Answers, Collected, Plotted, PidfileOf, EndPcs,
         PlottingPcs, Servers
<1>3. IInv /\ ServersUp /\ [Next]_vars => ServersUp'
  BY ServersUpStep
<1>4. IInv /\ ServersUp /\ Tidy /\ [Next]_vars => Tidy'
  BY TidyStep
<1> QED BY <1>1, <1>2, <1>3, <1>4, Inductive, PTL DEF Spec

(* Both servers are dead when main() has returned: nginx_wrapper_close()   *)
(* always finds the pid file, because main() waited for the start.         *)
THEOREM ServersDead == Spec => [](Benign => ServersKilled)
<1>1. Tidy => (Benign => ServersKilled)
  BY DEF Tidy, Lifecycle, ServersKilled, Servers, Serving, EndPcs
<1> QED BY <1>1, UninterruptedInductive, PTL

(* TEST_DIR "is completely removed when tests end", the pid files with it. *)
THEOREM DirectoryRemoved == Spec => [](Benign => TestDirRemoved)
<1>1. Tidy => (Benign => TestDirRemoved)
  BY DEF Tidy, Lifecycle, Removal, PidfileOf, TestDirRemoved, Servers, EndPcs
<1> QED BY <1>1, UninterruptedInductive, PTL

(* Each plot shows the successful requests of its own setting, all of them *)
(* and no others, for any table of settings.                               *)
THEOREM PlotsShowTheirSetting == Spec => [](Benign => PlotShowsSetting)
<1>1. Tidy => (Benign => PlotShowsSetting)
  BY DEF Tidy, Plotted, AllLines, PlotShowsSetting
<1> QED BY <1>1, UninterruptedInductive, PTL

(* In a test nobody interrupts a proxy is launched only when the one before *)
(* is reaped and no thread is left that talked to it.                      *)
THEOREM ProxiesInTurn == Spec /\ []Benign => ProxiesDisjoint
<1> DEFINE Launch == proc["proxy"] # "starting" /\ proc'["proxy"] = "starting"
           Clear == /\ proc["proxy"] \in {"none", "reaped"}
                    /\ ppc \in {"none", "done"}
                    /\ \A c \in Clients : cpc[c] = "none"
<1>1. ASSUME IInv, Launch, [Next]_vars PROVE MainLaunchProxy
  <2> USE <1>1 DEF IInv, TypeOK, Servers, nginxvars
  <2>1. ASSUME Main PROVE MainLaunchProxy
    BY <2>1 DEF Main, MainPrompt, MainSetup, MainWaitOrigin, MainWaitProxy, MainStart, MainBurst,
                MainBurstsSent, MainJoinClients, MainDrain, MainDrainSleep, MainStopPlotter,
                MainJoinPlotter, MainSettle, MainCloseProxy, MainNextSetting, MainEnd,
                MainCloseOrigin, MainRmFiles, MainRmDirs, MainReturn, nginx_wrapper_open,
                nginx_wrapper_close, Waitpid, allbutmpc
  <2>2. ~ \E p \in Servers : Nginx(p)
    BY DEF Nginx, NginxReadsConf, NginxCreatesPidfile, NginxUp, NginxQuits
  <2>3. ~ \E c \in Clients : Client(c) \/ Proxy(c)
    BY DEF Client, Proxy, ClientFails, ClientLocks, ClientPushes, ProxyAdmits, ProxyRejects,
           ProxyResponds, ProxyCounts
  <2>4. ~Plotter /\ ~DataRace
    BY DEF Plotter, PlotterOpens, PlotterLoops, PlotterRequests, PlotterTraces,
           PlotterOpensLog, PlotterCopies, PlotterPlots, PlotterCloses, DataRace
  <2>5. ~(KeyPressed \/ ProxyLeaks \/ GnuplotDraws \/ HandlerReturns
            \/ \E t \in Threads : SignalDelivered(t))
    BY DEF KeyPressed, ProxyLeaks, GnuplotDraws, HandlerReturns, SignalDelivered, allbutmpc
  <2>6. ~UNCHANGED vars
    BY DEF vars, allbutmpc
  <2> QED BY <2>1, <2>2, <2>3, <2>4, <2>5, <2>6 DEF Next
<1>2. ASSUME IInv, Tidy, Benign, MainLaunchProxy PROVE Clear
  BY <1>2 DEF MainLaunchProxy, At, IInv, TypeOK, ClientsJoined, PlotterOwned, PlottingPcs, EndPcs, Tidy, Lifecycle
<1>3. IInv /\ Tidy /\ Benign /\ [Next]_vars => [Launch => Clear]_vars
  BY <1>1, <1>2
<1> QED BY <1>3, UninterruptedInductive, PTL DEF Spec, ProxiesDisjoint
=============================================================================
