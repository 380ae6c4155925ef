----------------------------- MODULE MCLimitReq -----------------------------
(* LimitReq for TLC: the limits and the keys of the instances. *)
EXTENDS LimitReq

CONSTANTS k1, k2

(* One zone and one key, as nginx.conf of the test has it. *)
OneLimit == <<[rate |-> 10000, burst |-> 2000, delay |-> 0]>>
OneKey == {<<k1>>}

(* Two zones; a request may have no key in one of them. *)
TwoLimits == <<[rate |-> 10000, burst |-> 1000, delay |-> 1000],
               [rate |-> 10000, burst |-> 1000, delay |-> 0]>>
TwoKeys == {<<k1, k1>>, <<k2, NoKey>>}

(* Three requests with failures; in a dry run; two requests and the status; *)
(* and requests a minute apart, when entries are old enough to expire.      *)
Failing == [dry_run |-> FALSE, faults |-> {"complex_value", "event", "closed"}, requests |-> 3,
            lastArrival |-> 1100, polls |-> 0, ticks |-> {100}, horizon |-> 1200]
DryRun == [Failing EXCEPT !.dry_run = TRUE, !.faults = {}]
Polled == [Failing EXCEPT !.faults = {}, !.requests = 2, !.polls = 1]
Minutes == [Failing EXCEPT !.faults = {}, !.lastArrival = 61000, !.ticks = {60000}, !.horizon = 121000]
AllScenarios == {Failing, DryRun, Polled, Minutes}
PolledOnly == {Polled}
=============================================================================
