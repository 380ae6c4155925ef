------------------------------ MODULE LimitReq ------------------------------
(***************************************************************************)
(* The rate limit that the test exercises: nginx's limit_req handler, run  *)
(* by several worker processes over zones in shared memory, and the        *)
(* extension of the vts module that reports the level of the burst queue   *)
(* in the status (LIMITREQ_STATS_WORKAROUND).                              *)
(*                                                                         *)
(* A zone keeps a node per key: a leaky bucket in thousandths of a         *)
(* request. A zone's lock is held for one lookup or one update, so each is *)
(* one step; between them a request holds a reference on its nodes         *)
(* (ctx->node, a counter in the node). Workers read the time when they     *)
(* wake up and use it for the whole batch of events (ngx_current_msec), so *)
(* their clocks differ. The status reads a node in two steps, unlocked.    *)
(*                                                                         *)
(* The red-black tree is the set of its nodes and its root any one of      *)
(* them; the slab pool of a zone has room for MaxNodes nodes.              *)
(***************************************************************************)
EXTENDS Integers, Sequences, FiniteSets

CONSTANTS
  Workers,      \* worker processes
  Keys,         \* values of the zones' keys
  NoKey,        \* an empty or an overlong key; also the null ctx->node
  KeyChoices,   \* what a request evaluates to in each zone: keys or NoKey
  Limits,       \* limit_req directives: [rate, burst, delay], in thousandths
  MaxNodes,     \* nodes for which a zone has memory
  Word,         \* unsigned arithmetic is modulo Word (2^64 in the build)
  Start,        \* the clock when the proxy starts, in milliseconds
  MaxBatch,     \* bound: how long a worker is busy with a batch of events
  MaxRequests,  \* bound: requests 1, 2, ... arrive in this order
  Scenarios     \* the behaviours looked at, see Scenario

Requests == 1..MaxRequests
Zones == 1..Len(Limits)
Last == Len(Limits)

(* limit_req_dry_run; what may fail (the evaluation of a key, registering   *)
(* an event, a client that goes away); and bounds: the requests that arrive *)
(* and the last moment at which one does, the status requests, the steps of *)
(* the clock and its end.                                                   *)
Scenario == [dry_run : BOOLEAN, faults : SUBSET {"complex_value", "event", "closed"},
             requests : Requests, lastArrival : Nat, polls : Nat,
             ticks : SUBSET (Nat \ {0}), horizon : Nat]

ASSUME LimitsAssumption ==
  /\ Limits \in Seq([rate : Nat \ {0}, burst : Nat, delay : Nat])
  /\ Len(Limits) > 0
  /\ MaxNodes \in Nat \ {0} /\ Word \in Nat \ {0}
ASSUME KeysAssumption ==
  /\ NoKey \notin Keys
  /\ KeyChoices \subseteq [Zones -> Keys \cup {NoKey}] /\ KeyChoices # {}
  /\ IsFiniteSet(Workers) /\ Workers # {}
ASSUME BoundsAssumption ==
  /\ Start \in Nat /\ MaxBatch \in Nat /\ MaxRequests \in Nat \ {0}
  /\ Scenarios \subseteq Scenario

VARIABLES
  now,      \* the time
  clock,    \* ngx_current_msec of each worker
  pc,       \* what each worker is doing
  job,      \* the locals of the handler each worker runs
  ctxNode,  \* ctx->node of each worker and zone: a key, or NoKey
  node,     \* the tree of each zone: a node for each of its keys
  queue,    \* the queue of each zone, last used first
  scenario, \* the configuration and the bounds of this behaviour
  status,   \* r->main->limit_req_status
  place,    \* where each request is
  timer,    \* for a delayed request: its worker, when it is due, its limit
  view,     \* what a worker has read for the status; history: who waited
  level,    \* the level that the status of a worker reports
  polls,    \* status requests so far
  charges,  \* history: the requests charged to each node, with lr->last
  lost      \* history: references dropped without being given back

shared == <<node, queue, charges, lost>>
requestvars == <<status, place, timer>>
statsvars == <<view, level, polls>>
vars == <<now, clock, pc, job, ctxNode, shared, scenario, requestvars, statsvars>>

Node == [excess : Nat, last : Nat, count : Nat]
Rcs == {"DECLINED", "AGAIN"}
Job == [r : Requests, keys : KeyChoices, n : 0..Len(Limits), rc : Rcs,
        delay : Nat, limit : Zones]
Places == {"new", "handled", "waiting", "served", "refused", "failed", "closed"}
Statuses == {"none", "passed", "delayed", "rejected", "delayed_dry_run", "rejected_dry_run"}
Pcs == {"idle", "lookup", "reject", "account", "last", "excess"}
NoTimer == [worker |-> CHOOSE w \in Workers : TRUE, due |-> 0, limit |-> 1]
NoJob == [r |-> 1, keys |-> CHOOSE k \in KeyChoices : TRUE,
          n |-> 0, rc |-> "DECLINED", delay |-> 0, limit |-> 1]
NoView == [zone |-> 1, key |-> NoKey, last |-> 0, waiting |-> {}]

-----------------------------------------------------------------------------
(* The leaky bucket of a node, and the entries of a zone that may go.       *)

(* What leaks in ms milliseconds from a bucket of zone z. *)
Leak(z, ms) == (Limits[z].rate * ms) \div 1000

(* Milliseconds since lr->last on a clock that may be behind it. *)
Elapsed(lr, t) ==
  LET ms == t - lr.last IN
  IF ms < -60000 THEN 1 ELSE IF ms < 0 THEN 0 ELSE ms

(* Mutant: the excess is not kept from falling below 0. *)
Excess_below(z, lr, t) == lr.excess - Leak(z, Elapsed(lr, t)) + 1000

(* The excess of a node if one more request is charged to it at time t. *)
Excess(z, lr, t) ==
  LET e == lr.excess - Leak(z, Elapsed(lr, t)) + 1000 IN
  IF e < 0 THEN 0 ELSE e

(* Mutant: lr->last follows a clock that is behind it. *)
Charged_back(z, lr, t) == [lr EXCEPT !.excess = Excess(z, lr, t), !.last = t]

Charged(z, lr, t) ==
  [lr EXCEPT !.excess = Excess(z, lr, t),
             !.last = IF Elapsed(lr, t) # 0 THEN t ELSE @]

(* Mutant: milliseconds and thousandths confused. *)
Delay_units(z, excess) ==
  IF excess <= Limits[z].delay THEN 0 ELSE ((excess - Limits[z].delay) * 1000) \div 1000

(* How long a request waits for its excess to leak down to the delay. *)
Delay(z, excess) ==
  IF excess <= Limits[z].delay THEN 0
  ELSE ((excess - Limits[z].delay) * 1000) \div Limits[z].rate

(* An entry with a minute of age and nothing left. *)
Abs(x) == IF x < 0 THEN -x ELSE x
Idle(z, lr, t) ==
  LET ms == Abs(t - lr.last) IN
  /\ ms >= 60000
  /\ lr.excess <= Leak(z, ms)

(* Mutant: an entry in use goes too. *)
Disposable_inuse(z, lr, t, forced) == forced \/ Idle(z, lr, t)

(* Whether ngx_http_limit_req_expire() frees the entry it has come to. *)
Disposable(z, lr, t, forced) == lr.count = 0 /\ (forced \/ Idle(z, lr, t))

(* How many entries ngx_http_limit_req_expire() takes off the queue's end:  *)
(* up to two idle ones after `force' ones that need not be idle; it stops   *)
(* at the first entry that stays.                                           *)
Expired(z, q, t, force) ==
  LET oldest(i) == node[z][q[Len(q) + 1 - i]]
      goes(m) == \A i \in 1..m : Disposable(z, oldest(i), t, i <= force)
  IN  CHOOSE m \in 0..(2 + force) :
        /\ m <= Len(q) /\ goes(m)
        /\ (m < 2 + force /\ m < Len(q)) => ~goes(m + 1)

(* The queue left by the lookup of a key that has no node: idle entries go, *)
(* and if the pool is still full the oldest one is made to go.              *)
Shortened(q, m) == SubSeq(q, 1, Len(q) - m)
MakeRoom(z, t) ==
  LET q == Shortened(queue[z], Expired(z, queue[z], t, 0)) IN
  IF Len(q) < MaxNodes THEN q ELSE Shortened(q, Expired(z, q, t, 1))

Members(q) == {q[i] : i \in 1..Len(q)}

(* Mutant: the entry is put at the head and stays where it was. *)
Bumped_twice(q, k) == <<k>> \o q

(* ngx_queue_remove() and ngx_queue_insert_head(). *)
Bumped(q, k) ==
  LET p == CHOOSE i \in 1..Len(q) : q[i] = k IN
  <<k>> \o SubSeq(q, 1, p - 1) \o SubSeq(q, p + 1, Len(q))

-----------------------------------------------------------------------------
Init ==
  /\ now = Start
  /\ clock = [w \in Workers |-> Start]
  /\ pc = [w \in Workers |-> "idle"]
  /\ job = [w \in Workers |-> NoJob]
  /\ ctxNode = [w \in Workers |-> [z \in Zones |-> NoKey]]
  /\ node = [z \in Zones |-> [k \in {} |-> [excess |-> 0, last |-> 0, count |-> 0]]]
  /\ queue = [z \in Zones |-> <<>>]
  /\ scenario \in Scenarios
  /\ status = [r \in Requests |-> "none"]
  /\ place = [r \in Requests |-> "new"]
  /\ timer = [r \in Requests |-> NoTimer]
  /\ view = [w \in Workers |-> NoView]
  /\ level = [w \in Workers |-> 0]
  /\ polls = 0
  /\ charges = [z \in Zones |-> [k \in Keys |-> <<>>]]
  /\ lost = [z \in Zones |-> [k \in Keys |-> 0]]

(* Time passes. A worker is not busy for longer than MaxBatch. *)
Tick(t) ==
  /\ now + t <= scenario.horizon
  /\ \A w \in Workers : pc[w] # "idle" => now + t - clock[w] <= MaxBatch
  /\ now' = now + t
  /\ UNCHANGED <<clock, pc, job, ctxNode, shared, scenario, requestvars, statsvars>>

(* The event loop: a worker reads the time when the kernel gives it events, *)
(* then handles them and the timers that have expired. It begins none with  *)
(* a time older than MaxBatch: it has been waiting and reads it first.      *)
UpdateTime(w) ==
  /\ pc[w] = "idle"
  /\ clock[w] < now
  /\ clock' = [clock EXCEPT ![w] = now]
  /\ UNCHANGED <<now, pc, job, ctxNode, shared, scenario, requestvars, statsvars>>

InBatch(w) == pc[w] = "idle" /\ now - clock[w] <= MaxBatch

-----------------------------------------------------------------------------
(* ngx_http_limit_req_handler(): a request that already has a status goes   *)
(* on, any other one is looked up in the zones in turn.                     *)

(* Mutant: a request that has a status is limited again. *)
Handler_again(w, r, keys) ==
  /\ place' = [place EXCEPT ![r] = "handled"]
  /\ pc' = [pc EXCEPT ![w] = "lookup"]
  /\ job' = [job EXCEPT ![w] = [r |-> r, keys |-> keys, n |-> 1, rc |-> "DECLINED",
                                delay |-> 0, limit |-> 1]]

Handler(w, r, keys) ==
  IF status[r] # "none"
  THEN /\ place' = [place EXCEPT ![r] = "served"]
       /\ UNCHANGED <<pc, job>>
  ELSE /\ place' = [place EXCEPT ![r] = "handled"]
       /\ pc' = [pc EXCEPT ![w] = "lookup"]
       /\ job' = [job EXCEPT ![w] = [r |-> r, keys |-> keys, n |-> 1, rc |-> "DECLINED",
                                     delay |-> 0, limit |-> 1]]

Arrive(w, r, keys) ==
  /\ InBatch(w)
  /\ r <= scenario.requests
  /\ place[r] = "new" /\ \A q \in 1..(r - 1) : place[q] # "new"
  /\ now <= scenario.lastArrival
  /\ Handler(w, r, keys)
  /\ UNCHANGED <<now, clock, ctxNode, shared, scenario, status, timer, statsvars>>

(* The timer of a delayed request expires: ngx_http_limit_req_delay() runs  *)
(* the phases again, from this very handler, or answers with an error.      *)
Release(w, r) ==
  /\ InBatch(w)
  /\ place[r] = "waiting" /\ timer[r].worker = w /\ timer[r].due <= clock[w]
  /\ \/ \E keys \in KeyChoices : Handler(w, r, keys)
     \/ /\ "event" \in scenario.faults
        /\ place' = [place EXCEPT ![r] = "failed"]
        /\ UNCHANGED <<pc, job>>
  /\ UNCHANGED <<now, clock, ctxNode, shared, scenario, status, timer, statsvars>>

(* A write event that comes before the timer has expired leaves the request *)
(* delayed, unless the event cannot be handled.                             *)
WakeFails(w, r) ==
  /\ "event" \in scenario.faults
  /\ InBatch(w)
  /\ place[r] = "waiting" /\ timer[r].worker = w
  /\ place' = [place EXCEPT ![r] = "failed"]
  /\ UNCHANGED <<now, clock, pc, job, ctxNode, shared, scenario, status, timer, statsvars>>

(* ngx_http_test_reading(): the client of a delayed request has gone.       *)
ClientCloses(w, r) ==
  /\ "closed" \in scenario.faults
  /\ InBatch(w)
  /\ place[r] = "waiting" /\ timer[r].worker = w
  /\ place' = [place EXCEPT ![r] = "closed"]
  /\ UNCHANGED <<now, clock, pc, job, ctxNode, shared, scenario, status, timer, statsvars>>

(* The loop over the zones after zone n has answered rc; excess is what its *)
(* lookup stored through ep. The remaining n zones are to be given back or  *)
(* charged.                                                                 *)
Answer(w, rc, excess) ==
  LET j == job[w]
      to(p, nj) == /\ pc' = [pc EXCEPT ![w] = p]
                   /\ job' = [job EXCEPT ![w] = nj]
                   /\ UNCHANGED place
  IN
  CASE rc \in {"BUSY", "ERROR"} -> to("reject", [j EXCEPT !.n = @ - 1])
    [] rc = "OK" ->
         to("account", [j EXCEPT !.n = @ - 1, !.limit = j.n, !.delay = Delay(j.n, excess)])
    [] rc \in Rcs /\ j.n < Last -> to("lookup", [j EXCEPT !.n = @ + 1, !.rc = rc])
    [] rc = "AGAIN" /\ j.n = Last -> to("account", [j EXCEPT !.limit = Last])
    [] rc = "DECLINED" /\ j.n = Last ->
         /\ pc' = [pc EXCEPT ![w] = "idle"]
         /\ job' = [job EXCEPT ![w] = NoJob]
         /\ place' = [place EXCEPT ![j.r] = "served"]

InLookup(w) == pc[w] = "lookup"
Zone(w) == job[w].n
Key(w) == job[w].keys[Zone(w)]
Found(w) == InLookup(w) /\ Key(w) # NoKey /\ Key(w) \in DOMAIN node[Zone(w)]
Missing(w) == InLookup(w) /\ Key(w) # NoKey /\ Key(w) \notin DOMAIN node[Zone(w)]

(* A zone whose key is empty or longer than 65535 bytes. *)
SkipZone(w) ==
  /\ InLookup(w) /\ Key(w) = NoKey
  /\ Answer(w, job[w].rc, 0)
  /\ UNCHANGED <<now, clock, ctxNode, shared, scenario, status, timer, statsvars>>

(* The key cannot be evaluated: an error response, and an early return that *)
(* leaves the references taken in the zones before.                         *)
KeyFails(w) ==
  /\ "complex_value" \in scenario.faults
  /\ InLookup(w)
  /\ pc' = [pc EXCEPT ![w] = "idle"]
  /\ job' = [job EXCEPT ![w] = NoJob]
  /\ place' = [place EXCEPT ![job[w].r] = "failed"]
  /\ UNCHANGED <<now, clock, ctxNode, shared, scenario, status, timer, statsvars>>

(* ngx_http_limit_req_lookup() of a key that has a node. It moves to the    *)
(* head of the queue; a request beyond the burst is refused, in the last    *)
(* zone it is charged, in the others a reference is taken.                  *)
Refer(w, z, k) ==
  /\ ctxNode' = [ctxNode EXCEPT ![w][z] = k]
  /\ lost' = IF ctxNode[w][z] = NoKey THEN lost
             ELSE [lost EXCEPT ![z][ctxNode[w][z]] = @ + 1]

Charge(z, k, r, lr) == [charges EXCEPT ![z][k] = Append(@, [req |-> r, last |-> lr.last])]

TooMany(z, excess) == excess > Limits[z].burst

LookupFound(w) ==
  LET z == Zone(w)
      k == Key(w)
      lr == node[z][k]
      excess == Excess(z, lr, clock[w])
      charged == Charged(z, lr, clock[w])
      rc == IF TooMany(z, excess) THEN "BUSY" ELSE IF z = Last THEN "OK" ELSE "AGAIN"
  IN
  /\ Found(w)
  /\ queue' = [queue EXCEPT ![z] = Bumped(@, k)]
  /\ Answer(w, rc, excess)
  /\ \/ /\ rc = "BUSY"
        /\ UNCHANGED <<node, ctxNode, charges, lost>>
     \/ /\ rc = "OK"
        /\ node' = [node EXCEPT ![z][k] = charged]
        /\ charges' = Charge(z, k, job[w].r, charged)
        /\ UNCHANGED <<ctxNode, lost>>
     \/ /\ rc = "AGAIN"
        /\ node' = [node EXCEPT ![z][k].count = @ + 1]
        /\ Refer(w, z, k)
        /\ UNCHANGED charges
  /\ UNCHANGED <<now, clock, scenario, status, timer, statsvars>>

(* ngx_http_limit_req_lookup() of a key that has none: memory is made, and  *)
(* a node of excess 0 is charged with the request, or referred to.          *)
LookupMissing(w) ==
  LET z == Zone(w)
      k == Key(w)
      q == MakeRoom(z, clock[w])
      lr == IF z = Last THEN [excess |-> 0, last |-> clock[w], count |-> 0]
            ELSE [excess |-> 0, last |-> 0, count |-> 1]
      rc == IF Len(q) >= MaxNodes THEN "ERROR" ELSE IF z = Last THEN "OK" ELSE "AGAIN"
      kept == IF rc = "ERROR" THEN q ELSE <<k>> \o q
      live == Members(kept)
      left == [x \in Keys |-> IF x \in live THEN charges[z][x] ELSE <<>>]
  IN
  /\ Missing(w)
  /\ queue' = [queue EXCEPT ![z] = kept]
  /\ node' = [node EXCEPT ![z] = [x \in live |-> IF x = k THEN lr ELSE node[z][x]]]
  /\ charges' = [charges EXCEPT ![z] =
                   IF rc = "OK" THEN [left EXCEPT ![k] = <<[req |-> job[w].r, last |-> lr.last]>>]
                   ELSE left]
  /\ Answer(w, rc, 0)
  /\ IF rc = "AGAIN" THEN Refer(w, z, k) ELSE UNCHANGED <<ctxNode, lost>>
  /\ UNCHANGED <<now, clock, scenario, status, timer, statsvars>>

-----------------------------------------------------------------------------
(* A request that is refused gives its references back, zone by zone.       *)
RollBack(w) ==
  LET z == job[w].n
      k == ctxNode[w][z]
  IN
  /\ pc[w] = "reject" /\ z > 0
  /\ node' = IF k = NoKey THEN node ELSE [node EXCEPT ![z][k].count = @ - 1]
  /\ ctxNode' = [ctxNode EXCEPT ![w][z] = NoKey]
  /\ job' = [job EXCEPT ![w].n = @ - 1]
  /\ UNCHANGED <<now, clock, pc, queue, charges, lost, scenario, requestvars, statsvars>>

Finish(w, st, pl) ==
  /\ status' = [status EXCEPT ![job[w].r] = st]
  /\ place' = [place EXCEPT ![job[w].r] = pl]
  /\ pc' = [pc EXCEPT ![w] = "idle"]
  /\ job' = [job EXCEPT ![w] = NoJob]

Refuse(w) ==
  /\ pc[w] = "reject" /\ job[w].n = 0
  /\ IF scenario.dry_run THEN Finish(w, "rejected_dry_run", "served")
     ELSE Finish(w, "rejected", "refused")
  /\ UNCHANGED <<now, clock, ctxNode, shared, scenario, timer, statsvars>>

(* ngx_http_limit_req_account(): the zones before the last are charged, and *)
(* the longest delay of all zones is kept.                                  *)
Account(w) ==
  LET z == job[w].n
      k == ctxNode[w][z]
      lr == Charged(z, node[z][k], clock[w])
      delay == Delay(z, lr.excess)
  IN
  /\ pc[w] = "account" /\ z > 0
  /\ \/ /\ k = NoKey
        /\ job' = [job EXCEPT ![w].n = @ - 1]
        /\ UNCHANGED <<node, charges>>
     \/ /\ k # NoKey
        /\ node' = [node EXCEPT ![z][k] = [lr EXCEPT !.count = @ - 1]]
        /\ charges' = Charge(z, k, job[w].r, lr)
        /\ job' = [job EXCEPT ![w] =
                     IF delay > @.delay THEN [@ EXCEPT !.n = z - 1, !.delay = delay, !.limit = z]
                     ELSE [@ EXCEPT !.n = z - 1]]
  /\ ctxNode' = [ctxNode EXCEPT ![w][z] = NoKey]
  /\ UNCHANGED <<now, clock, pc, queue, lost, scenario, requestvars, statsvars>>

(* The end of the handler: the request passes, or waits on a timer. An      *)
(* event that cannot be registered is an error, when it is charged already. *)
Pass(w) ==
  /\ pc[w] = "account" /\ job[w].n = 0 /\ job[w].delay = 0
  /\ Finish(w, "passed", "served")
  /\ UNCHANGED <<now, clock, ctxNode, shared, scenario, timer, statsvars>>

Postpone(w) ==
  /\ pc[w] = "account" /\ job[w].n = 0 /\ job[w].delay # 0
  /\ IF scenario.dry_run
     THEN Finish(w, "delayed_dry_run", "served") /\ UNCHANGED timer
     ELSE \/ /\ Finish(w, "delayed", "waiting")
             /\ timer' = [timer EXCEPT ![job[w].r] =
                            [worker |-> w, due |-> clock[w] + job[w].delay, limit |-> job[w].limit]]
          \/ "event" \in scenario.faults /\ Finish(w, "delayed", "failed") /\ UNCHANGED timer
  /\ UNCHANGED <<now, clock, ctxNode, shared, scenario, statsvars>>

-----------------------------------------------------------------------------
(* _limit_req_stats_get(): for each zone lr->last and then lr->excess of    *)
(* the root are read, without the lock.                                     *)

(* Mutant: the last request is not counted. *)
StatsLevel_less(z, last, excess, t) ==
  LET leaked == ((Limits[z].rate * (t - last)) % Word) \div 1000 IN
  IF excess > leaked + 1000 THEN (excess - leaked + 1000) \div 1000 ELSE 0

(* The level, in requests, from the values read: the difference of the      *)
(* times is not clamped and the product is unsigned. 0 stands for a zone    *)
(* that leaves the level as it is.                                          *)
StatsLevel(z, last, excess, t) ==
  LET leaked == ((Limits[z].rate * (t - last)) % Word) \div 1000 IN
  IF excess > leaked THEN (excess - leaked + 1000) \div 1000 ELSE 0

Waiting == {r \in Requests : place[r] = "waiting" /\ timer[r].due > now}

StatsStart(w) ==
  /\ InBatch(w)
  /\ polls < scenario.polls
  /\ polls' = polls + 1
  /\ pc' = [pc EXCEPT ![w] = "last"]
  /\ level' = [level EXCEPT ![w] = 0]
  /\ view' = [view EXCEPT ![w] = [NoView EXCEPT !.waiting = Waiting]]
  /\ UNCHANGED <<now, clock, job, ctxNode, shared, scenario, requestvars>>

(* The root of an empty tree is the sentinel: what follows it in the page   *)
(* is zero.                                                                 *)
StatsLast(w) ==
  /\ pc[w] = "last"
  /\ pc' = [pc EXCEPT ![w] = "excess"]
  /\ LET z == view[w].zone IN
     IF DOMAIN node[z] = {}
     THEN view' = [view EXCEPT ![w] = [@ EXCEPT !.key = NoKey, !.last = 0]]
     ELSE \E k \in DOMAIN node[z] :
            view' = [view EXCEPT ![w] = [@ EXCEPT !.key = k, !.last = node[z][k].last]]
  /\ UNCHANGED <<now, clock, job, ctxNode, shared, scenario, requestvars, level, polls>>

(* The excess read is that of the node; a node that was freed in between    *)
(* holds what the pool left there.                                          *)
StatsRead(w) ==
  LET z == view[w].zone
      k == view[w].key
  IN  IF k = NoKey THEN {0}
      ELSE IF k \in DOMAIN node[z] THEN {node[z][k].excess}
      ELSE {0, Limits[z].burst}

StatsExcess(w) ==
  LET z == view[w].zone IN
  /\ pc[w] = "excess"
  /\ \E excess \in StatsRead(w) :
       LET l == StatsLevel(z, view[w].last, excess, clock[w]) IN
       level' = [level EXCEPT ![w] = IF l = 0 THEN @ ELSE l]
  /\ IF z < Last
     THEN /\ pc' = [pc EXCEPT ![w] = "last"]
          /\ view' = [view EXCEPT ![w] = [@ EXCEPT !.zone = z + 1]]
     ELSE /\ pc' = [pc EXCEPT ![w] = "idle"]
          /\ view' = [view EXCEPT ![w] = NoView]
  /\ UNCHANGED <<now, clock, job, ctxNode, shared, scenario, requestvars, polls>>

-----------------------------------------------------------------------------
Worker(w) ==
  \/ UpdateTime(w)
  \/ \E r \in Requests, keys \in KeyChoices : Arrive(w, r, keys)
  \/ \E r \in Requests : Release(w, r)
  \/ SkipZone(w) \/ LookupFound(w) \/ LookupMissing(w)
  \/ RollBack(w) \/ Refuse(w)
  \/ Account(w) \/ Pass(w) \/ Postpone(w)
  \/ StatsStart(w) \/ StatsLast(w) \/ StatsExcess(w)

Failure(w) == KeyFails(w) \/ \E r \in Requests : WakeFails(w, r) \/ ClientCloses(w, r)

Next ==
  \/ \E t \in scenario.ticks : Tick(t)
  \/ \E w \in Workers : Worker(w) \/ Failure(w)

Spec == Init /\ [][Next]_vars

(* A worker's event loop keeps running and time passes; clients need not    *)
(* go away and nothing need fail.                                           *)
FairSpec == Spec /\ \A w \in Workers : WF_vars(Worker(w)) /\ WF_vars(\E t \in scenario.ticks : Tick(t))

-----------------------------------------------------------------------------
(* Every variable has its type. *)
TypeOK ==
  /\ now \in Nat /\ clock \in [Workers -> Nat]
  /\ pc \in [Workers -> Pcs]
  /\ job \in [Workers -> Job]
  /\ ctxNode \in [Workers -> [Zones -> Keys \cup {NoKey}]]
  /\ node = [z \in Zones |-> node[z]]
  /\ \A z \in Zones : DOMAIN node[z] \subseteq Keys /\ node[z] \in [DOMAIN node[z] -> Node]
  /\ queue \in [Zones -> Seq(Keys)]
  /\ scenario \in Scenarios
  /\ status \in [Requests -> Statuses] /\ place \in [Requests -> Places]
  /\ timer \in [Requests -> [worker : Workers, due : Nat, limit : Zones]]
  /\ view \in [Workers -> [zone : Zones, key : Keys \cup {NoKey}, last : Nat,
                         waiting : SUBSET Requests]]
  /\ level \in [Workers -> Nat] /\ polls \in Nat
  /\ charges \in [Zones -> [Keys -> Seq([req : Requests, last : Nat])]]
  /\ lost \in [Zones -> [Keys -> Nat]]

(* The node that a worker points to is in the tree, and lr->count is the    *)
(* number of workers that point to it, but for the references that a failed *)
(* key evaluation left behind: expire() never frees a node in use.          *)
ReferencesCounted ==
  \A z \in Zones :
    /\ \A w \in Workers : ctxNode[w][z] # NoKey => ctxNode[w][z] \in DOMAIN node[z]
    /\ \A k \in DOMAIN node[z] :
         node[z][k].count = Cardinality({w \in Workers : ctxNode[w][z] = k}) + lost[z][k]

(* The queue holds each node of the tree once, and a zone never has more    *)
(* nodes than memory: lookup and expire keep tree, queue and pool together. *)
QueueMatchesTree ==
  \A z \in Zones :
    /\ Members(queue[z]) = DOMAIN node[z]
    /\ \A i, j \in 1..Len(queue[z]) : queue[z][i] = queue[z][j] => i = j
    /\ Len(queue[z]) <= MaxNodes

(* The rate is respected over every interval in the life of a node: the     *)
(* requests charged in it are at most the burst and what has leaked. In a   *)
(* zone before the last every other worker may have looked up before this   *)
(* one charges, so one request each goes beyond.                            *)
Overshoot(z) == IF z = Last THEN 0 ELSE 1000 * (Cardinality(Workers) - 1)
RateRespected ==
  \A z \in Zones : \A k \in DOMAIN node[z] :
    LET c == charges[z][k] IN
    \A i, j \in 1..Len(c) :
      i < j => 1000 * (j - i) <=
                 Limits[z].burst + Overshoot(z) + Leak(z, c[j].last - c[i].last)

(* A request is charged to a zone at most once, also when its phase runs    *)
(* again after the delay, and one that is refused, or fails before it is    *)
(* accepted, to none: the zones before the one that refuses it are only     *)
(* referred to.                                                             *)
ChargedOnce ==
  \A r \in Requests, z \in Zones :
    LET mine(k) == {i \in 1..Len(charges[z][k]) : charges[z][k][i].req = r} IN
    /\ \A k, l \in Keys : \A i \in mine(k), j \in mine(l) : k = l /\ i = j
    /\ (\/ status[r] \in {"rejected", "rejected_dry_run"}
        \/ status[r] = "none" /\ place[r] = "failed") => \A k \in Keys : mine(k) = {}

(* A request that is told to wait stops waiting, and then it is served,     *)
(* unless its client has gone away or it ends in an error: it is not        *)
(* limited a second time.                                                   *)
DelaysEnd == <>[](\A r \in Requests : place[r] # "waiting")
WaitingIsServed ==
  [][\A r \in Requests : place[r] = "waiting" => place'[r] \in {"waiting", "served", "failed", "closed"}]_vars

(* If the node did not change between the two reads of the status, and the  *)
(* clock of the status' worker is not behind it, a level of 0 means that no *)
(* request waits for the leak of that node.                                 *)
ExactLevel ==
  [][\A w \in Workers :
       LET z == view[w].zone
           k == view[w].key
       IN  (/\ pc[w] = "excess" /\ pc'[w] # "excess" /\ level'[w] = 0
            /\ k # NoKey /\ k \in DOMAIN node[z]
            /\ node[z][k].last = view[w].last /\ view[w].last <= clock[w])
           => \A i \in 1..Len(charges[z][k]) :
                ~(charges[z][k][i].req \in Waiting /\ timer[charges[z][k][i].req].limit = z)]_vars

(* A status that reports the level 0 means that nobody has been waiting     *)
(* since it began to read: main() takes the end of the delays from it       *)
(* ("Wait for delayed requests to finalize").                               *)
LevelZeroMeansDrained ==
  [][\A w \in Workers :
       pc[w] = "excess" /\ pc'[w] = "idle" /\ level'[w] = 0 => view[w].waiting \cap Waiting = {}]_vars
========================================================================
