------------------------ MODULE LimitReqLevelProofs ------------------------
(***************************************************************************)
(* The level that the status of LimitReq reports: when a node is read      *)
(* undisturbed, a level of 0 means that no request waits for its leak.     *)
(***************************************************************************)
EXTENDS LimitReqRateProofs

-----------------------------------------------------------------------------
(* The moments until which request r is delayed for the sake of zone z: the *)
(* timer it waits on, or what its handler has found so far.                 *)
Ends(z, r) ==
  {timer[q].due : q \in {p \in {r} : place[p] = "waiting" /\ timer[p].limit = z}} \cup
  {clock[v] + job[v].delay :
     v \in {u \in Workers : pc[u] = "account" /\ job[u].r = r /\ job[u].limit = z}}

(* By the time d, the excess of the node has not leaked: what it holds now, *)
(* with what has leaked since the charge at time s, covers the time between.*)
Covered(z, d, s, lr) == Limits[z].rate * (d - s) <= 1000 * (lr.excess + Leak(z, lr.last - s))
NodeCovered(z, k) ==
  \A i \in 1..Len(charges[z][k]), r \in Requests :
    charges[z][k][i].req = r =>
      \A d \in Ends(z, r) : Covered(z, d, charges[z][k][i].last, node[z][k])
AllCovered == \A z \in Zones : \A k \in DOMAIN node[z] : NodeCovered(z, k)

(* The zone whose delay is the longest so far is one already accounted for. *)
LimitAbove ==
  \A w \in Workers : pc[w] = "account" => job[w].n < job[w].limit \/ job[w].limit = Last

-----------------------------------------------------------------------------
(* The bucket of a node.                                                    *)

(* A charge adds at least what has leaked until then: what was covered is.  *)
LEMMA CoveredCharge ==
  ASSUME NEW z \in Zones, NEW lr \in Node, NEW t \in Nat, Recent(lr, t), NEW x, NEW new,
         Charges(z, lr, t, x, new), NEW d \in Int, NEW s \in Int, Covered(z, d, s, lr)
  PROVE  Covered(z, d, s, new)
<1> DEFINE e == Elapsed(lr, t)
           l == lr.last
           a == Leak(z, e)
           b == Leak(z, l - s)
           f == Leak(z, (l - s) + e)
           y == lr.excess
           n == new.excess
           g == Limits[z].rate * (d - s)
<1>1. l \in Nat /\ y \in Nat /\ e \in Nat BY ChargedType DEF Node
<1>2. new.last = l + e /\ n = Excess(z, lr, t) /\ n >= y - a + 1000 /\ n \in Nat
  <2>1. lr.last - t <= 60000 BY DEF Recent
  <2>2. new.last = Later(t, lr.last) /\ n = Excess(z, lr, t) BY DEF Charges
  <2>3. lr.last + Elapsed(lr, t) = Later(t, lr.last)
        /\ Excess(z, lr, t) >= lr.excess - Leak(z, Elapsed(lr, t)) + 1000
    BY <2>1, ElapsedLater
  <2>4. Excess(z, lr, t) \in Nat BY ChargedType
  <2> HIDE DEF n
  <2> QED BY <2>2, <2>3, <2>4
<1>3. g <= 1000 * (y + b) BY DEF Covered
<1>4. g \in Int BY LimitsType
<1> HIDE DEF e, l, y, n, g
<1>5. f = Leak(z, new.last - s)
  <2>1. (l - s) + e = new.last - s BY <1>1, <1>2
  <2> QED BY <2>1
<1>6. a \in Int /\ b \in Int /\ f \in Int /\ b + a <= f
  <2> DEFINE h == l - s
  <2>1. h \in Int /\ e \in Int /\ h + e \in Int BY <1>1
  <2> HIDE DEF h
  <2>2. Leak(z, h) \in Int /\ Leak(z, e) \in Int /\ Leak(z, h) + Leak(z, e) <= Leak(z, h + e)
    BY <2>1, LeakLaws
  <2>3. Leak(z, h + e) \in Int BY <2>1, LeakLaws
  <2> QED BY <2>2, <2>3 DEF h
<1> HIDE DEF a, b, f
<1>7. g <= 1000 * (n + f) BY <1>1, <1>2, <1>3, <1>4, <1>6
<1> QED BY <1>5, <1>7 DEF Covered, g, n

(* The request that is charged waits for no more than the excess it leaves. *)
LEMMA CoveredNew ==
  ASSUME NEW z \in Zones, NEW t \in Nat, NEW new \in Node, t <= new.last
  PROVE  Covered(z, t + Delay(z, new.excess), new.last, new)
<1> DEFINE r == Limits[z].rate
           e == new.excess
           s == new.last
           d == Delay(z, e)
<1>1. e \in Nat /\ s \in Nat /\ r \in Nat BY LimitsType DEF Node
<1>2. d \in Nat /\ r * d <= 1000 * e
  <2>1. Delay(z, e) \in Nat /\ (Delay(z, e) # 0 => r * Delay(z, e) <= 1000 * e) BY <1>1, DelayType
  <2>2. r * 0 = 0 /\ 0 <= 1000 * e BY <1>1
  <2> QED BY <2>1, <2>2
<1> HIDE DEF d, r, e, s
<1>3. r * ((t + d) - s) <= r * d
  <2> DEFINE v == s - t
  <2>1. v \in Nat BY <1>1 DEF s
  <2>2. (t + d) - s = d - v BY <1>1, <1>2
  <2> HIDE DEF v
  <2>3. r * v \in Nat /\ r * (d - v) = r * d - r * v /\ r * d \in Int BY <1>1, <1>2, <2>1
  <2> QED BY <2>2, <2>3
<1>4. s - s = 0 BY <1>1
<1>5. Leak(z, s - s) = 0
  <2>1. Leak(z, 0) = 0 BY LeakLaws
  <2> QED BY <1>4, <2>1
<1>6. r * ((t + d) - s) <= 1000 * (e + 0)
  <2> DEFINE p == r * ((t + d) - s)
             q == r * d
  <2>1. p \in Int /\ q \in Int /\ p <= q /\ q <= 1000 * e BY <1>1, <1>2, <1>3
  <2> HIDE DEF p, q
  <2>2. p <= 1000 * (e + 0) BY <1>1, <2>1
  <2> QED BY <2>2 DEF p
<1> QED BY <1>5, <1>6 DEF Covered, r, e, s, d

(* When the excess has leaked, the delays it covers are over.               *)
LEMMA CoveredOver ==
  ASSUME NEW z \in Zones, NEW lr \in Node, NEW t \in Nat, NEW d \in Int, NEW s \in Int,
         Covered(z, d, s, lr), lr.excess <= Leak(z, t - lr.last)
  PROVE  d <= t
<1> DEFINE r == Limits[z].rate
           e == lr.excess
           l == lr.last
           a == Leak(z, t - l)
           b == Leak(z, l - s)
           f == Leak(z, t - s)
           g == r * (d - s)
           h == r * (t - s)
<1>1. e \in Nat /\ l \in Nat /\ r \in Nat \ {0} BY LimitsType DEF Node
<1>2. g <= 1000 * (e + b) /\ e <= a BY DEF Covered
<1>3. f = h \div 1000 BY DEF Leak
<1> HIDE DEF r, e, l
<1>4. g \in Int /\ h \in Int BY <1>1
<1>5. a \in Int /\ b \in Int /\ f \in Int /\ a + b <= f
  <2> DEFINE u == t - l
             v == l - s
  <2>1. u \in Int /\ v \in Int /\ u + v \in Int /\ u + v = t - s BY <1>1
  <2> HIDE DEF u, v
  <2>2. Leak(z, u) \in Int /\ Leak(z, v) \in Int /\ Leak(z, u) + Leak(z, v) <= Leak(z, u + v)
    BY <2>1, LeakLaws
  <2>3. Leak(z, u + v) \in Int BY <2>1, LeakLaws
  <2> QED BY <2>1, <2>2, <2>3 DEF u, v
<1>6. 1000 * f <= h
  <2> HIDE DEF h, f
  <2> QED BY <1>3, <1>4
<1>7. g <= h
  <2> HIDE DEF a, b, f, g, h
  <2> QED BY <1>1, <1>2, <1>4, <1>5, <1>6
<1>8. ASSUME d > t PROVE FALSE
  <2> DEFINE u == d - t
  <2>1. u \in Nat \ {0} BY <1>8
  <2>2. g = h + r * u BY <1>1
  <2> HIDE DEF u, g, h
  <2>3. r * u \in Nat \ {0} BY <1>1, <2>1
  <2> QED BY <1>4, <1>7, <2>2, <2>3
<1> QED BY <1>8


-----------------------------------------------------------------------------
(* What a step does to a node.                                              *)

(* No request that is charged in the zone is delayed for longer.            *)
Fewer(z) == \A r \in Requests : Ends(z, r)' \subseteq Ends(z, r) \/ Uncharged(z, r)

(* The ends of delays are times.                                            *)
LEMMA EndsType ==
  ASSUME IInv, NEW z \in Zones, NEW r \in Requests
  PROVE  Ends(z, r) \subseteq Nat
<1>1. timer[r].due \in Nat BY DEF IInv, RestType, TimerType
<1>2. \A v \in Workers : clock[v] \in Nat /\ job[v].delay \in Nat BY DEF IInv, JobType, Job
<1>3. \A v \in Workers : clock[v] + job[v].delay \in Nat BY <1>2
<1> QED BY <1>1, <1>3 DEF Ends

(* A node that is not charged still covers its delays.                      *)
LEMMA CoveredKept ==
  ASSUME IInv, NEW z \in Zones, NEW k \in DOMAIN node[z], NodeCovered(z, k), Fewer(z),
         charges'[z][k] = charges[z][k], SameLevel(node[z][k], node'[z][k])
  PROVE  NodeCovered(z, k)'
<1>1. k \in Keys BY NodeFacts
<1>2. PICK c : c = charges[z][k] OBVIOUS
<1>3. ASSUME NEW i \in 1..Len(c), NEW r \in Requests, c[i].req = r, NEW d \in Ends(z, r)'
      PROVE  Covered(z, d, c[i].last, node'[z][k])
  <2>1. ~Uncharged(z, r) BY <1>1, <1>2, <1>3 DEF Uncharged
  <2>2. d \in Ends(z, r) BY <1>3, <2>1 DEF Fewer
  <2>3. Covered(z, d, c[i].last, node[z][k]) BY <1>2, <1>3, <2>2 DEF NodeCovered
  <2> QED BY <2>3 DEF Covered, SameLevel
<1> QED BY <1>2, <1>3 DEF NodeCovered

(* A node that is charged covers them too, and the delay of the request it  *)
(* is charged with.                                                         *)
LEMMA CoveredCharged ==
  ASSUME IInv, NEW z \in Zones, NEW k \in DOMAIN node[z], NodeCovered(z, k), Fewer(z),
         NEW t \in Nat, Recent(node[z][k], t), NEW x \in ChargeRecord, NEW new \in Node,
         Charges(z, node[z][k], t, x, new), Uncharged(z, x.req),
         node'[z][k] = new, charges'[z][k] = Append(charges[z][k], x),
         NEW q \in Requests, q = x.req, Ends(z, q)' \subseteq {t + Delay(z, new.excess)}
  PROVE  NodeCovered(z, k)'
<1>1. k \in Keys /\ node[z][k] \in Node /\ charges[z][k] \in Seq(ChargeRecord) BY NodeFacts
<1>2. PICK c : c = charges[z][k] OBVIOUS
<1>3. PICK lr \in Node : lr = node[z][k] BY <1>1
<1>4. PICK b : b = Append(c, x) OBVIOUS
<1>5. /\ Len(c) \in Nat /\ Len(b) = Len(c) + 1 /\ b[Len(c) + 1] = x
      /\ \A i \in 1..Len(c) : b[i] = c[i] /\ c[i].last \in Nat
  BY <1>1, <1>2, <1>4, AppendProperties, ChargeTimes
<1>6. Recent(lr, t) /\ Charges(z, lr, t, x, new) BY <1>3
<1>7. t <= new.last /\ new.last = x.last
  <2>1. lr.last \in Nat BY DEF Node
  <2>2. new.last = x.last /\ x.last = Later(t, lr.last) BY <1>6 DEF Charges
  <2> QED BY <2>1, <2>2 DEF Later
<1>8. ASSUME NEW i \in 1..Len(b), NEW r \in Requests, b[i].req = r, NEW d \in Ends(z, r)'
      PROVE  Covered(z, d, b[i].last, new)
  <2>1. i \in 1..Len(c) \/ i = Len(c) + 1 BY <1>5
  <2>2. CASE i \in 1..Len(c)
    <3>1. b[i] = c[i] /\ c[i].last \in Int BY <1>5, <2>2
    <3>2. ~Uncharged(z, r) BY <1>1, <1>2, <1>8, <2>2, <3>1 DEF Uncharged
    <3>3. d \in Ends(z, r) BY <1>8, <3>2 DEF Fewer
    <3>4. d \in Int BY <3>3, EndsType
    <3>5. Covered(z, d, c[i].last, lr) BY <1>2, <1>3, <1>8, <2>2, <3>1, <3>3 DEF NodeCovered
    <3>6. Covered(z, d, c[i].last, new) BY <1>6, <3>1, <3>4, <3>5, CoveredCharge
    <3> QED BY <3>1, <3>6
  <2>3. CASE i = Len(c) + 1
    <3>1. b[i] = x /\ r = q BY <1>5, <1>8, <2>3
    <3>2. d = t + Delay(z, new.excess) BY <1>8, <3>1
    <3>3. Covered(z, t + Delay(z, new.excess), new.last, new) BY <1>7, CoveredNew
    <3> QED BY <1>7, <3>1, <3>2, <3>3
  <2> QED BY <2>1, <2>2, <2>3
<1>9. charges'[z][k] = b BY <1>2, <1>4
<1> QED BY <1>8, <1>9 DEF NodeCovered

-----------------------------------------------------------------------------
(* What a step does to the ends of the delays.                              *)

(* Worker v was accounting for its request before the step, as it is now.   *)
SameEnd(v) ==
  pc'[v] = "account" =>
    /\ pc[v] = "account" /\ clock'[v] = clock[v] /\ job'[v].r = job[v].r
    /\ job'[v].limit = job[v].limit /\ job'[v].delay = job[v].delay
SameWait(r) == place'[r] = "waiting" => place[r] = "waiting" /\ timer'[r] = timer[r]

(* If nobody accounts or waits for longer, no delay ends later.             *)
LEMMA EndsFewer ==
  ASSUME \A v \in Workers : SameEnd(v), \A r \in Requests : SameWait(r)
  PROVE  \A z \in Zones : Fewer(z)
<1> SUFFICES ASSUME NEW z \in Zones, NEW r \in Requests, NEW d \in Ends(z, r)'
             PROVE  d \in Ends(z, r)
  BY DEF Fewer
<1>1. SameWait(r) OBVIOUS
<1>2. CASE place'[r] = "waiting" /\ timer'[r].limit = z /\ d = timer'[r].due
  BY <1>1, <1>2 DEF Ends, SameWait
<1>3. CASE \E v \in Workers : /\ pc'[v] = "account" /\ job'[v].r = r /\ job'[v].limit = z
                              /\ d = clock'[v] + job'[v].delay
  BY <1>3 DEF Ends, SameEnd
<1> QED BY <1>2, <1>3 DEF Ends


(* The handler of request r ends no other request's delay later, and r's is *)
(* the one that it finds.                                                   *)
LEMMA EndsOwn ==
  ASSUME IInv, NEW w \in Workers, InHandler(w), NEW r \in Requests, r = job[w].r,
         \A v \in Workers \ {w} : SameEnd(v), \A q \in Requests : SameWait(q),
         clock'[w] = clock[w], pc'[w] = "account" => job'[w].r = r
  PROVE  /\ \A z \in Zones : \A q \in Requests \ {r} : Ends(z, q)' \subseteq Ends(z, q)
         /\ \A z \in Zones : \A d \in Ends(z, r)' :
              pc'[w] = "account" /\ job'[w].limit = z /\ d = clock[w] + job'[w].delay
<1>1. place[r] # "waiting" BY DEF IInv, RequestInv, Limited
<1>2. \A v \in Workers \ {w} : pc[v] = "account" => job[v].r # r
  BY DEF IInv, RequestInv, Alone, InHandler
<1>3. ASSUME NEW z \in Zones, NEW q \in Requests, NEW d \in Ends(z, q)'
      PROVE  IF q = r THEN pc'[w] = "account" /\ job'[w].limit = z /\ d = clock[w] + job'[w].delay
             ELSE d \in Ends(z, q)
  <2>1. SameWait(q) OBVIOUS
  <2>2. CASE place'[q] = "waiting" /\ timer'[q].limit = z /\ d = timer'[q].due
    <3>1. place[q] = "waiting" /\ timer'[q] = timer[q] BY <2>1, <2>2 DEF SameWait
    <3> QED BY <1>1, <2>2, <3>1 DEF Ends
  <2>3. CASE \E v \in Workers : /\ pc'[v] = "account" /\ job'[v].r = q /\ job'[v].limit = z
                                /\ d = clock'[v] + job'[v].delay
    <3>1. PICK v \in Workers : /\ pc'[v] = "account" /\ job'[v].r = q /\ job'[v].limit = z
                               /\ d = clock'[v] + job'[v].delay
      BY <2>3
    <3>2. CASE v = w BY <3>1, <3>2
    <3>3. CASE v # w
      <4>1. /\ pc[v] = "account" /\ clock'[v] = clock[v] /\ job'[v].r = job[v].r
            /\ job'[v].limit = job[v].limit /\ job'[v].delay = job[v].delay
        BY <3>1, <3>3 DEF SameEnd
      <4>2. q # r BY <1>2, <3>1, <3>3, <4>1
      <4>3. d \in Ends(z, q) BY <3>1, <4>1 DEF Ends
      <4> QED BY <4>2, <4>3
    <3> QED BY <3>2, <3>3
  <2> QED BY <2>2, <2>3, <1>3 DEF Ends
<1> QED BY <1>3

(* What the loop over the zones leaves for the account: the last zone's     *)
(* delay, if it was charged.                                                *)
LEMMA AnswerEnds ==
  ASSUME IInv, NEW w \in Workers, InLookup(w), NEW r \in Requests, r = job[w].r,
         NEW rc \in {"BUSY", "ERROR", "OK"} \cup Rcs, NEW e \in Nat, Answer(w, rc, e),
         rc = "OK" => job[w].n = Last, UNCHANGED <<clock, timer>>
  PROVE  /\ \A z \in Zones : Fewer(z) /\ Uncharged(z, r)
         /\ LimitAbove => LimitAbove'
         /\ rc = "OK" => Ends(Last, r)' \subseteq {clock[w] + Delay(Last, e)}
<1> DEFINE j == job[w]
<1>1. JobType /\ PcType /\ PlaceType BY DEF IInv, RestType
<1>2. /\ Outcome(w, rc) /\ \A v \in Workers \ {w} : pc'[v] = pc[v] /\ job'[v] = job[v]
  BY <1>1, AnswerStep
<1>3. j \in Job /\ job \in [Workers -> Job] /\ InHandler(w) /\ j.n \in Zones
  BY <1>1 DEF JobType, InHandler, InLookup
<1>4. /\ place[r] = "handled" /\ \A z \in Zones : Uncharged(z, r)
  BY <1>3 DEF IInv, RequestInv, Limited, InLookup
<1>5. /\ pc'[w] = "account" => job'[w].limit = Last /\ job'[w].r = r
      /\ rc = "OK" => job'[w].delay = Delay(Last, e)
  <2>1. rc = "OK" => job' = [job EXCEPT ![w] = [j EXCEPT !.n = @ - 1, !.limit = Last, !.delay = Delay(Last, e)]]
    BY DEF Answer, Rcs
  <2>2. rc = "OK" => job'[w].limit = Last /\ job'[w].delay = Delay(Last, e) /\ job'[w].r = r
    BY <1>3, <2>1 DEF Job
  <2>3. CASE rc = "OK" BY <2>2, <2>3
  <2>4. CASE rc # "OK"
    <3>1. j.n \in Int /\ Last \in Int BY <1>3, ZonesType
    <3>2. \/ pc' = [pc EXCEPT ![w] = "reject"] \/ pc' = [pc EXCEPT ![w] = "lookup"]
          \/ pc' = [pc EXCEPT ![w] = "idle"]
          \/ job' = [job EXCEPT ![w] = [j EXCEPT !.limit = Last]]
      <4>1. CASE rc \in {"BUSY", "ERROR"} BY <4>1 DEF Answer
      <4>2. CASE rc \in Rcs /\ j.n < Last BY <3>1, <4>2 DEF Answer, Rcs
      <4>3. CASE rc = "AGAIN" /\ j.n = Last BY <3>1, <4>3 DEF Answer, Rcs
      <4>4. CASE rc = "DECLINED" /\ j.n = Last BY <3>1, <4>4 DEF Answer, Rcs
      <4>5. j.n <= Last BY <1>3, ZonesType
      <4> QED BY <2>4, <3>1, <4>1, <4>2, <4>3, <4>4, <4>5 DEF Rcs
    <3> QED BY <1>1, <1>3, <2>4, <3>2 DEF PcType, Job
  <2> QED BY <2>3, <2>4
<1>6. ASSUME NEW q \in Requests PROVE SameWait(q)
  <2>1. place'[q] = "waiting" => place[q] = "waiting"
    BY <1>1, <1>2 DEF Outcome, PlaceType
  <2> QED BY <2>1 DEF SameWait
<1>7. \A v \in Workers \ {w} : SameEnd(v) BY <1>2 DEF SameEnd
<1>8. /\ \A z \in Zones : \A q \in Requests \ {r} : Ends(z, q)' \subseteq Ends(z, q)
      /\ \A z \in Zones : \A d \in Ends(z, r)' :
           pc'[w] = "account" /\ job'[w].limit = z /\ d = clock[w] + job'[w].delay
  BY <1>3, <1>5, <1>6, <1>7, EndsOwn
<1>9. \A z \in Zones : Fewer(z) BY <1>4, <1>8 DEF Fewer
<1>10. LimitAbove => LimitAbove' BY <1>2, <1>5 DEF LimitAbove
<1>11. rc = "OK" => Ends(Last, r)' \subseteq {clock[w] + Delay(Last, e)}
  BY <1>5, <1>8, ZonesType
<1> QED BY <1>4, <1>9, <1>10, <1>11


-----------------------------------------------------------------------------
(* Every step keeps the delays covered.                                     *)
LevelInv == LimitAbove /\ AllCovered

(* A step that leaves the buckets as they are, and of whose nodes some may  *)
(* have gone.                                                               *)
LEMMA LevelKept ==
  ASSUME IInv, AllCovered, \A z \in Zones : Fewer(z),
         \A z \in Zones : \A k \in DOMAIN node'[z] :
           /\ k \in DOMAIN node[z] /\ charges'[z][k] = charges[z][k]
           /\ SameLevel(node[z][k], node'[z][k])
  PROVE  AllCovered'
<1> SUFFICES ASSUME NEW z \in Zones, NEW k \in DOMAIN node'[z] PROVE NodeCovered(z, k)'
  BY DEF AllCovered
<1>1. /\ k \in DOMAIN node[z] /\ charges'[z][k] = charges[z][k]
      /\ SameLevel(node[z][k], node'[z][k]) /\ Fewer(z)
  OBVIOUS
<1> QED BY <1>1, CoveredKept DEF AllCovered

(* The lookup of a key that has a node.                                     *)
LEMMA LevelFound ==
  ASSUME IInv, RateInv, LevelInv, ShortBatches, NEW w \in Workers, LookupFound(w)
  PROVE  LevelInv'
<1>1. PICK z : z = Zone(w) OBVIOUS
<1>2. PICK k : k = Key(w) OBVIOUS
<1>3. PICK t : t = clock[w] OBVIOUS
<1>4. PICK r : r = job[w].r OBVIOUS
<1>5. PICK lr : lr = node[z][k] OBVIOUS
<1>6. PICK ch : ch = Charged(z, lr, t) OBVIOUS
<1>7. PICK e : e = Excess(z, lr, t) OBVIOUS
<1>8. PICK rc : rc = IF TooMany(z, e) THEN "BUSY" ELSE IF z = Last THEN "OK" ELSE "AGAIN" OBVIOUS
<1>9. /\ Found(w) /\ UNCHANGED <<clock, timer>> /\ Answer(w, rc, e)
      /\ \/ UNCHANGED <<node, charges>>
         \/ rc = "OK" /\ Sets(z, k, ch) /\ charges' = Charge(z, k, r, ch)
         \/ node' = [node EXCEPT ![z][k].count = @ + 1] /\ UNCHANGED charges
  BY <1>1, <1>2, <1>3, <1>4, <1>5, <1>6, <1>7, <1>8 DEF LookupFound, Sets
<1>10. /\ InLookup(w) /\ z \in Zones /\ k \in DOMAIN node[z] /\ r \in Requests /\ pc[w] # "idle"
       /\ z = job[w].n /\ SharedInv /\ NodeType
  BY <1>1, <1>2, <1>4, <1>9, LookupFacts
  DEF Found, InLookup, IInv, SharedInv, SharedType, Zone
<1>11. k \in Keys /\ lr \in Node BY <1>5, <1>10, NodeFacts
<1>12. Recent(lr, t) /\ t \in Nat BY <1>3, <1>5, <1>10, RecentNode DEF RateInv
<1>13. e \in Nat /\ ch \in Node /\ ch.excess = e
  BY <1>6, <1>7, <1>10, <1>11, <1>12, ChargedType
<1>14. /\ \A y \in Zones : Fewer(y) /\ Uncharged(y, r)
       /\ LimitAbove'
       /\ rc = "OK" => z = Last /\ Ends(Last, r)' \subseteq {t + Delay(Last, e)}
  <2>1. rc \in {"BUSY", "ERROR", "OK"} \cup Rcs /\ (rc = "OK" => z = Last) BY <1>8 DEF Rcs
  <2>2. rc = "OK" => job[w].n = Last BY <1>10, <2>1
  <2>3. UNCHANGED <<clock, timer>> /\ Answer(w, rc, e) BY <1>9
  <2>4. /\ \A y \in Zones : Fewer(y) /\ Uncharged(y, r)
        /\ LimitAbove => LimitAbove'
        /\ rc = "OK" => Ends(Last, r)' \subseteq {clock[w] + Delay(Last, e)}
    BY <1>4, <1>10, <1>13, <2>1, <2>2, <2>3, AnswerEnds
  <2> QED BY <1>3, <2>1, <2>4 DEF LevelInv
<1>15. CASE UNCHANGED <<node, charges>>
  BY <1>14, <1>15, LevelKept DEF SameLevel, LevelInv
<1>16. CASE rc = "OK" /\ Sets(z, k, ch) /\ charges' = Charge(z, k, r, ch)
  <2> DEFINE x == [req |-> r, last |-> ch.last]
  <2>1. x \in ChargeRecord /\ Charges(z, lr, t, x, ch) /\ x.req = r
    <3>1. 0 \in Nat OBVIOUS
    <3> QED BY <1>6, <1>10, <1>11, <1>12, <3>1, ChargeWrites
  <2>2. \A y \in Zones : /\ DOMAIN node'[y] = DOMAIN node[y]
                         /\ \A i \in DOMAIN node[y] :
                              node'[y][i] = IF y = z /\ i = k THEN ch ELSE node[y][i]
    BY <1>10, <1>13, <1>16, NodeUpdate
  <2>3. \A y \in Zones : \A i \in Keys :
          charges'[y][i] = IF y = z /\ i = k THEN Append(charges[z][k], x) ELSE charges[y][i]
    <3>1. charges' = Charge(z, k, r, ch) BY <1>16
    <3> QED BY <1>10, <1>11, <1>13, <3>1, ChargeStep
  <2> HIDE DEF x
  <2>4. NodeCovered(z, k)'
    <3>1. NodeCovered(z, k) BY <1>10 DEF LevelInv, AllCovered
    <3>2. node'[z][k] = ch /\ charges'[z][k] = Append(charges[z][k], x) BY <1>10, <1>11, <2>2, <2>3
    <3>3. Ends(z, r)' \subseteq {t + Delay(z, ch.excess)}
      <4>1. Ends(Last, r)' \subseteq {t + Delay(Last, e)} /\ z = Last BY <1>14, <1>16
      <4> QED BY <1>13, <4>1
    <3>4. Recent(node[z][k], t) /\ Charges(z, node[z][k], t, x, ch) BY <1>5, <1>12, <2>1
    <3>5. Fewer(z) /\ Uncharged(z, x.req) BY <1>10, <1>14, <2>1
    <3> QED BY <1>10, <1>12, <1>13, <2>1, <3>1, <3>2, <3>3, <3>4, <3>5, CoveredCharged
  <2>5. ASSUME NEW y \in Zones, NEW i \in DOMAIN node[y], ~(y = z /\ i = k)
        PROVE  NodeCovered(y, i)'
    <3>1. i \in Keys /\ NodeCovered(y, i) BY NodeFacts DEF LevelInv, AllCovered
    <3>2. charges'[y][i] = charges[y][i] /\ SameLevel(node[y][i], node'[y][i]) /\ Fewer(y)
      BY <1>14, <2>2, <2>3, <2>5, <3>1 DEF SameLevel
    <3> QED BY <3>1, <3>2, CoveredKept
  <2>6. AllCovered' BY <2>2, <2>4, <2>5 DEF AllCovered
  <2> QED BY <1>14, <2>6 DEF LevelInv
<1>17. CASE node' = [node EXCEPT ![z][k].count = @ + 1] /\ UNCHANGED charges
  <2> DEFINE more == [lr EXCEPT !.count = @ + 1]
  <2>1. more \in Node /\ SameLevel(lr, more)
    <3>1. lr.count + 1 \in Nat BY <1>11 DEF Node
    <3> QED BY <1>11, <3>1 DEF Node, SameLevel
  <2>2. Sets(z, k, more) BY <1>5, <1>10, <1>17 DEF Sets, NodeType
  <2> HIDE DEF more
  <2>3. \A y \in Zones : /\ DOMAIN node'[y] = DOMAIN node[y]
                         /\ \A i \in DOMAIN node[y] :
                              node'[y][i] = IF y = z /\ i = k THEN more ELSE node[y][i]
    BY <1>10, <2>1, <2>2, NodeUpdate
  <2>4. \A y \in Zones : \A i \in DOMAIN node'[y] :
          /\ i \in DOMAIN node[y] /\ charges'[y][i] = charges[y][i]
          /\ SameLevel(node[y][i], node'[y][i])
    BY <1>5, <1>17, <2>1, <2>3 DEF SameLevel
  <2>5. AllCovered' BY <1>14, <2>4, LevelKept DEF LevelInv
  <2> QED BY <1>14, <2>5 DEF LevelInv
<1> QED BY <1>9, <1>15, <1>16, <1>17


(* The lookup of a key that has none.                                       *)
LEMMA LevelMissing ==
  ASSUME IInv, LevelInv, NEW w \in Workers, LookupMissing(w)
  PROVE  LevelInv'
<1>1. PICK z : z = Zone(w) OBVIOUS
<1>2. PICK k : k = Key(w) OBVIOUS
<1>3. PICK t : t = clock[w] OBVIOUS
<1>4. PICK q : q = MakeRoom(z, t) OBVIOUS
<1>5. PICK lr : lr = IF z = Last THEN [excess |-> 0, last |-> t, count |-> 0]
                     ELSE [excess |-> 0, last |-> 0, count |-> 1]
  OBVIOUS
<1>6. PICK rc : rc = IF Len(q) >= MaxNodes THEN "ERROR" ELSE IF z = Last THEN "OK" ELSE "AGAIN"
  OBVIOUS
<1>7. PICK kept : kept = IF rc = "ERROR" THEN q ELSE <<k>> \o q OBVIOUS
<1>8. PICK live : live = Members(kept) OBVIOUS
<1>9. PICK r : r = job[w].r OBVIOUS
<1>10. PICK c : c = [req |-> r, last |-> lr.last] OBVIOUS
<1> DEFINE left == [i \in Keys |-> IF i \in live THEN charges[z][i] ELSE <<>>]
           new == IF rc = "OK" THEN [left EXCEPT ![k] = <<c>>] ELSE left
<1>11. /\ Missing(w) /\ UNCHANGED <<clock, timer>> /\ Answer(w, rc, 0)
       /\ Grows(z, live, k, lr) /\ charges' = [charges EXCEPT ![z] = new]
  BY <1>1, <1>2, <1>3, <1>4, <1>5, <1>6, <1>7, <1>8, <1>9, <1>10 DEF LookupMissing, Grows
<1>12. /\ z \in Zones /\ k \in Keys /\ k \notin DOMAIN node[z] /\ r \in Requests /\ t \in Nat
       /\ SharedInv /\ NodeType /\ InLookup(w) /\ z = job[w].n
  BY <1>1, <1>2, <1>3, <1>9, <1>11, LookupFacts
  DEF Missing, IInv, SharedInv, SharedType, Zone
<1>13. lr \in Node /\ lr.excess = 0 /\ (rc = "OK" => z = Last /\ lr.last = t)
  BY <1>5, <1>6, <1>12 DEF Node
<1>14. live \subseteq DOMAIN node[z] \cup {k}
  <2>1. queue[z] \in Seq(Keys) /\ Once(queue[z])
    BY <1>12 DEF SharedInv, SharedType, QueueMatchesTree, Once
  <2>2. Len(q) \in Nat /\ MaxNodes \in Nat BY <1>4, <2>1, LimitsAssumption, MakeRoomOK, LenProperties
  <2>3. kept = q \/ (Len(q) < MaxNodes /\ kept = <<k>> \o q) BY <1>6, <1>7, <2>2
  <2>4. kept = MakeRoom(z, t) \/ (Len(MakeRoom(z, t)) < MaxNodes /\ kept = <<k>> \o MakeRoom(z, t))
    BY <1>4, <2>3
  <2> QED BY <1>8, <1>12, <2>4, RoomStep
<1>15. /\ DOMAIN node'[z] = live
       /\ \A i \in live : node'[z][i] = IF i = k THEN lr ELSE node[z][i]
       /\ \A y \in Zones : y # z => node'[y] = node[y]
  BY <1>11, <1>12, <1>13, <1>14, TreeStep
<1>16. charges \in [Zones -> [Keys -> Seq(ChargeRecord)]] /\ charges[z][k] = <<>>
  BY <1>12 DEF SharedInv, SharedType, Forgotten
<1>17. /\ \A y \in Zones : y # z => charges'[y] = charges[y]
       /\ \A i \in live \ {k} : charges'[z][i] = charges[z][i]
       /\ charges'[z][k] = IF rc = "OK" THEN <<c>> ELSE <<>>
  <2>1. DOMAIN left = Keys /\ live \subseteq Keys BY <1>12, <1>14 DEF NodeType
  <2>2. left[k] = <<>> /\ \A i \in live : left[i] = charges[z][i] BY <1>12, <1>16, <2>1
  <2> HIDE DEF left
  <2>3. new[k] = (IF rc = "OK" THEN <<c>> ELSE <<>>) /\ \A i \in live \ {k} : new[i] = charges[z][i]
    BY <1>12, <2>1, <2>2
  <2> HIDE DEF new
  <2>4. charges'[z] = new /\ \A y \in Zones : y # z => charges'[y] = charges[y]
    BY <1>11, <1>12, <1>16
  <2> QED BY <2>3, <2>4
<1> HIDE DEF new
<1>18. /\ \A y \in Zones : Fewer(y)
       /\ LimitAbove'
       /\ rc = "OK" => Ends(z, r)' \subseteq {t + Delay(z, 0)}
  <2>1. rc \in {"BUSY", "ERROR", "OK"} \cup Rcs /\ 0 \in Nat BY <1>6 DEF Rcs
  <2>2. rc = "OK" => job[w].n = Last BY <1>12, <1>13
  <2>3. UNCHANGED <<clock, timer>> /\ Answer(w, rc, 0) BY <1>11
  <2>4. /\ \A y \in Zones : Fewer(y) /\ Uncharged(y, r)
        /\ LimitAbove => LimitAbove'
        /\ rc = "OK" => Ends(Last, r)' \subseteq {clock[w] + Delay(Last, 0)}
    BY <1>9, <1>12, <2>1, <2>2, <2>3, AnswerEnds
  <2> QED BY <1>3, <1>13, <2>4 DEF LevelInv
<1>19. ASSUME k \in live PROVE NodeCovered(z, k)'
  <2>1. node'[z][k] = lr BY <1>15, <1>19
  <2>2. CASE rc = "OK"
    <3> DEFINE b == <<c>>
    <3>1. Len(b) = 1 /\ b[1] = c /\ charges'[z][k] = b BY <1>17, <2>2
    <3>2. c.req = r /\ c.last = lr.last BY <1>10
    <3> HIDE DEF b
    <3>3. ASSUME NEW i \in 1..Len(b), NEW p \in Requests, b[i].req = p, NEW d \in Ends(z, p)'
          PROVE  Covered(z, d, b[i].last, lr)
      <4>1. b[i] = c BY <3>1
      <4>2. p = r BY <3>2, <3>3, <4>1
      <4>3. d = t + Delay(z, lr.excess) BY <1>13, <1>18, <2>2, <3>3, <4>2
      <4>4. Covered(z, t + Delay(z, lr.excess), lr.last, lr)
        <5>1. t <= lr.last BY <1>12, <1>13, <2>2
        <5> QED BY <1>12, <1>13, <5>1, CoveredNew
      <4> QED BY <3>2, <4>1, <4>3, <4>4
    <3> QED BY <2>1, <3>1, <3>3 DEF NodeCovered
  <2>3. CASE rc # "OK"
    <3>1. Len(charges'[z][k]) = 0 BY <1>17, <2>3, EmptySeq
    <3>2. \A i \in 1..Len(charges'[z][k]) : FALSE BY <3>1
    <3> QED BY <3>2 DEF NodeCovered
  <2> QED BY <2>2, <2>3
<1>20. ASSUME NEW y \in Zones, NEW i \in DOMAIN node'[y], ~(y = z /\ i = k)
       PROVE  NodeCovered(y, i)'
  <2>1. /\ i \in DOMAIN node[y] /\ node'[y][i] = node[y][i] /\ charges'[y][i] = charges[y][i]
    BY <1>14, <1>15, <1>17, <1>20
  <2>2. SameLevel(node[y][i], node'[y][i]) /\ Fewer(y) /\ NodeCovered(y, i)
    BY <1>18, <2>1 DEF SameLevel, LevelInv, AllCovered
  <2> QED BY <2>1, <2>2, CoveredKept
<1>21. AllCovered' BY <1>15, <1>19, <1>20 DEF AllCovered
<1> QED BY <1>18, <1>21 DEF LevelInv

(* A zone before the last is charged: its delay counts if it is the longest *)
(* so far.                                                                  *)
LEMMA LevelAccount ==
  ASSUME IInv, RateInv, LevelInv, ShortBatches, NEW w \in Workers, Account(w)
  PROVE  LevelInv'
<1>1. PICK z : z = job[w].n OBVIOUS
<1>2. PICK k : k = ctxNode[w][z] OBVIOUS
<1>3. PICK t : t = clock[w] OBVIOUS
<1>4. PICK r : r = job[w].r OBVIOUS
<1>5. PICK lr : lr = node[z][k] OBVIOUS
<1>6. PICK ch : ch = Charged(z, lr, t) OBVIOUS
<1>7. PICK j : j = job[w] OBVIOUS
<1>8. PICK dl : dl = Delay(z, ch.excess) OBVIOUS
<1> DEFINE new == [ch EXCEPT !.count = @ - 1]
           longer == [j EXCEPT !.n = z - 1, !.delay = dl, !.limit = z]
           same == [j EXCEPT !.n = z - 1]
<1>9. /\ pc[w] = "account" /\ z > 0 /\ UNCHANGED <<clock, pc, place, timer>>
      /\ \/ k = NoKey /\ UNCHANGED <<node, charges>> /\ job' = [job EXCEPT ![w].n = @ - 1]
         \/ /\ k # NoKey /\ Sets(z, k, new) /\ charges' = Charge(z, k, r, ch)
            /\ job' = [job EXCEPT ![w] = IF dl > @.delay THEN longer ELSE same]
  BY <1>1, <1>2, <1>3, <1>4, <1>5, <1>6, <1>7, <1>8 DEF Account, Sets, requestvars
<1>10. /\ j \in Job /\ job \in [Workers -> Job] /\ z \in Zones /\ z \in Int /\ r \in Requests
       /\ InHandler(w) /\ SharedInv /\ NodeType /\ j.limit \in Int /\ Last \in Int
  <2>1. j \in Job /\ job \in [Workers -> Job] /\ z = j.n /\ r = j.r BY <1>1, <1>4, <1>7 DEF IInv, JobType
  <2>2. z \in 0..Last /\ Last \in Nat /\ Zones = 1..Last /\ j.limit \in Zones /\ r \in Requests
    BY <2>1, ZonesType DEF Job, Last
  <2> QED BY <1>9, <2>1, <2>2 DEF InHandler, IInv, SharedInv, SharedType
<1>11. /\ \A v \in Workers \ {w} : job'[v] = job[v]
       /\ job'[w].n = z - 1 /\ job'[w].r = r
       /\ \/ job'[w].limit = j.limit /\ job'[w].delay = j.delay
          \/ k # NoKey /\ job'[w].limit = z /\ job'[w].delay = dl
  <2>1. longer.n = z - 1 /\ longer.r = r /\ longer.limit = z /\ longer.delay = dl
    BY <1>4, <1>7, <1>10 DEF Job
  <2>2. same.n = z - 1 /\ same.r = r /\ same.limit = j.limit /\ same.delay = j.delay
    BY <1>4, <1>7, <1>10 DEF Job
  <2>3. CASE k = NoKey /\ job' = [job EXCEPT ![w].n = @ - 1]
    <3>1. job' = [job EXCEPT ![w] = same] BY <1>1, <1>7, <1>10, <2>3
    <3> HIDE DEF same
    <3> QED BY <1>10, <2>2, <3>1
  <2>4. CASE k # NoKey /\ job' = [job EXCEPT ![w] = IF dl > @.delay THEN longer ELSE same]
    <3> HIDE DEF same, longer
    <3>1. job'[w] \in {longer, same} /\ \A v \in Workers \ {w} : job'[v] = job[v] BY <1>10, <2>4
    <3> QED BY <2>1, <2>2, <2>4, <3>1
  <2> QED BY <1>9, <2>3, <2>4
<1>12. j.n < j.limit \/ j.limit = Last BY <1>7, <1>9 DEF LevelInv, LimitAbove
<1>13. LimitAbove'
  <2>1. job'[w].n < job'[w].limit \/ job'[w].limit = Last
    BY <1>1, <1>7, <1>10, <1>11, <1>12
  <2> QED BY <1>9, <1>11, <2>1 DEF LevelInv, LimitAbove
<1>14. \A y \in Zones : y <= z => Uncharged(y, r)
  BY <1>1, <1>4, <1>9, <1>10 DEF IInv, RequestInv, Limited
<1>15. /\ \A y \in Zones : \A q \in Requests \ {r} : Ends(y, q)' \subseteq Ends(y, q)
       /\ \A y \in Zones : \A d \in Ends(y, r)' :
            pc'[w] = "account" /\ job'[w].limit = y /\ d = clock[w] + job'[w].delay
  <2>1. \A v \in Workers \ {w} : SameEnd(v) BY <1>9, <1>11 DEF SameEnd
  <2>2. \A q \in Requests : SameWait(q) BY <1>9 DEF SameWait
  <2>3. clock'[w] = clock[w] BY <1>9
  <2> QED BY <1>4, <1>10, <1>11, <2>1, <2>2, <2>3, EndsOwn
<1>16. ASSUME NEW y \in Zones PROVE Fewer(y)
  <2>1. CASE y <= z BY <1>14, <1>15, <2>1 DEF Fewer
  <2>2. CASE ~(y <= z)
    <3>1. y # z BY <1>10, <2>2
    <3>2. ASSUME NEW d \in Ends(y, r)' PROVE d \in Ends(y, r)
      <4>1. job'[w].limit = y /\ d = clock[w] + job'[w].delay BY <1>15, <3>2
      <4>2. j.limit = y /\ d = clock[w] + j.delay BY <1>11, <3>1, <4>1
      <4> QED BY <1>4, <1>7, <1>9, <4>2 DEF Ends
    <3> QED BY <1>15, <3>2 DEF Fewer
  <2> QED BY <2>1, <2>2
<1>17. CASE UNCHANGED <<node, charges>>
  <2>1. AllCovered' BY <1>16, <1>17, LevelKept DEF SameLevel, LevelInv
  <2> QED BY <1>13, <2>1 DEF LevelInv
<1>18. CASE k # NoKey /\ Sets(z, k, new) /\ charges' = Charge(z, k, r, ch)
  <2> DEFINE x == [req |-> r, last |-> ch.last]
  <2>1. k \in DOMAIN node[z] /\ z # Last /\ lr.count - 1 \in Nat
    BY <1>2, <1>5, <1>10, <1>18, CountPositive
  <2>2. k \in Keys /\ lr \in Node BY <1>5, <1>10, <2>1, NodeFacts
  <2>3. Recent(lr, t) /\ t \in Nat BY <1>3, <1>5, <1>9, <1>10, <2>1, RecentNode DEF RateInv
  <2>4. ch.count = lr.count /\ ch \in Node BY <1>6, <1>10, <2>2, <2>3, ChargedType
  <2>5. /\ x \in ChargeRecord /\ new \in Node /\ Charges(z, lr, t, x, new) /\ x.req = r
        /\ new.excess = ch.excess
    <3> DEFINE n == lr.count - 1
    <3>1. n \in Nat /\ new = [ch EXCEPT !.count = n] BY <2>1, <2>4
    <3>2. new.excess = ch.excess BY <2>4 DEF Node
    <3> HIDE DEF n, new
    <3> QED BY <1>6, <1>10, <2>2, <2>3, <3>1, <3>2, ChargeWrites
  <2> HIDE DEF new
  <2>6. \A y \in Zones : /\ DOMAIN node'[y] = DOMAIN node[y]
                         /\ \A i \in DOMAIN node[y] :
                              node'[y][i] = IF y = z /\ i = k THEN new ELSE node[y][i]
    BY <1>10, <1>18, <2>1, <2>5, NodeUpdate
  <2>7. \A y \in Zones : \A i \in Keys :
          charges'[y][i] = IF y = z /\ i = k THEN Append(charges[z][k], x) ELSE charges[y][i]
    <3>1. charges' = Charge(z, k, r, ch) BY <1>18
    <3> QED BY <1>10, <2>2, <2>4, <3>1, ChargeStep
  <2> HIDE DEF x
  <2>8. NodeCovered(z, k)'
    <3>1. NodeCovered(z, k) BY <1>10, <2>1 DEF LevelInv, AllCovered
    <3>2. node'[z][k] = new /\ charges'[z][k] = Append(charges[z][k], x)
      BY <1>10, <2>1, <2>2, <2>6, <2>7
    <3>3. ASSUME NEW d \in Ends(z, r)' PROVE d = t + Delay(z, new.excess)
      <4>1. job'[w].limit = z /\ d = t + job'[w].delay BY <1>3, <1>10, <1>15, <3>3
      <4>2. j.limit # z BY <1>1, <1>7, <1>10, <1>12, <2>1
      <4>3. job'[w].delay = dl BY <1>11, <4>1, <4>2
      <4> QED BY <1>8, <2>5, <4>1, <4>3
    <3>4. Ends(z, r)' \subseteq {t + Delay(z, new.excess)} BY <3>3
    <3>5. Recent(node[z][k], t) /\ Charges(z, node[z][k], t, x, new) BY <1>5, <2>3, <2>5
    <3>6. Fewer(z) /\ Uncharged(z, x.req) BY <1>10, <1>14, <1>16, <2>5
    <3> QED BY <1>10, <2>1, <2>3, <2>5, <3>1, <3>2, <3>4, <3>5, <3>6, CoveredCharged
  <2>9. ASSUME NEW y \in Zones, NEW i \in DOMAIN node[y], ~(y = z /\ i = k)
        PROVE  NodeCovered(y, i)'
    <3>1. i \in Keys /\ NodeCovered(y, i) BY NodeFacts DEF LevelInv, AllCovered
    <3>2. charges'[y][i] = charges[y][i] /\ SameLevel(node[y][i], node'[y][i]) /\ Fewer(y)
      BY <1>16, <2>6, <2>7, <2>9, <3>1 DEF SameLevel
    <3> QED BY <3>1, <3>2, CoveredKept
  <2>10. AllCovered' BY <2>6, <2>8, <2>9 DEF AllCovered
  <2> QED BY <1>13, <2>10 DEF LevelInv
<1> QED BY <1>9, <1>17, <1>18


(* A worker that accounts for no request after the step, unless it did      *)
(* before, at the same zone.                                                *)
StaysAbove(v) ==
  pc'[v] = "account" => pc[v] = "account" /\ job'[v].n = job[v].n /\ job'[v].limit = job[v].limit

(* If all workers are like that, the longest delay stays where it was.      *)
LEMMA AboveKept ==
  ASSUME LimitAbove, \A v \in Workers : StaysAbove(v)
  PROVE  LimitAbove'
BY DEF LimitAbove, StaysAbove

(* Time, arrivals, releases and the status leave the buckets alone, and     *)
(* nobody's delay ends later.                                               *)
LEMMA LevelQuiet ==
  ASSUME IInv, LevelInv,
         \/ \E t \in scenario.ticks : Tick(t)
         \/ \E w \in Workers :
              \/ UpdateTime(w) \/ StatsStart(w) \/ StatsLast(w) \/ StatsExcess(w)
              \/ \E r \in Requests, keys \in KeyChoices : Arrive(w, r, keys)
              \/ \E r \in Requests : Release(w, r) \/ WakeFails(w, r) \/ ClientCloses(w, r)
  PROVE  LevelInv'
<1>1. UNCHANGED <<node, charges, timer>>
  BY DEF Tick, UpdateTime, StatsStart, StatsLast, StatsExcess, Arrive, Release, WakeFails, ClientCloses,
         shared, requestvars
<1>2. PcType /\ JobType /\ PlaceType BY DEF IInv, RestType
<1>3. /\ \A v \in Workers : SameEnd(v) /\ StaysAbove(v)
      /\ \A q \in Requests : SameWait(q)
  <2>1. CASE \E t \in scenario.ticks : Tick(t)
    BY <2>1 DEF Tick, SameEnd, StaysAbove, SameWait, requestvars
  <2>2. ASSUME NEW w \in Workers, UpdateTime(w)
        PROVE  /\ \A v \in Workers : SameEnd(v) /\ StaysAbove(v)
               /\ \A q \in Requests : SameWait(q)
    <3>1. /\ pc[w] = "idle" /\ clock' = [clock EXCEPT ![w] = now] /\ UNCHANGED <<pc, job, place, timer>>
      BY <2>2 DEF UpdateTime, requestvars
    <3>2. \A v \in Workers \ {w} : clock'[v] = clock[v] BY <1>2, <3>1 DEF JobType
    <3> QED BY <3>1, <3>2 DEF SameEnd, StaysAbove, SameWait
  <2>3. ASSUME NEW w \in Workers, StatsStart(w) \/ StatsLast(w) \/ StatsExcess(w)
        PROVE  /\ \A v \in Workers : SameEnd(v) /\ StaysAbove(v)
               /\ \A q \in Requests : SameWait(q)
    <3>1. UNCHANGED <<clock, job, place, timer>>
          /\ \E p \in {"last", "excess", "idle"} : pc' = [pc EXCEPT ![w] = p]
      BY <2>3 DEF StatsStart, StatsLast, StatsExcess, requestvars
    <3>2. \A v \in Workers : pc'[v] = "account" => pc[v] = "account" BY <1>2, <3>1 DEF PcType
    <3> QED BY <3>1, <3>2 DEF SameEnd, StaysAbove, SameWait
  <2>4. ASSUME NEW w \in Workers, NEW r \in Requests, NEW keys \in KeyChoices, Arrive(w, r, keys)
        PROVE  /\ \A v \in Workers : SameEnd(v) /\ StaysAbove(v)
               /\ \A q \in Requests : SameWait(q)
    <3>1. UNCHANGED <<clock, timer>> /\ Handler(w, r, keys) BY <2>4 DEF Arrive
    <3>2. \A v \in Workers : pc'[v] = "account" => pc[v] = "account" /\ job'[v] = job[v]
      BY <1>2, <3>1 DEF PcType, JobType, Handler
    <3>3. \A q \in Requests : place'[q] = "waiting" => place[q] = "waiting"
      BY <1>2, <3>1 DEF PlaceType, Handler
    <3> QED BY <3>1, <3>2, <3>3 DEF SameEnd, StaysAbove, SameWait
  <2>5. ASSUME NEW w \in Workers, NEW r \in Requests, Release(w, r) \/ WakeFails(w, r) \/ ClientCloses(w, r)
        PROVE  /\ \A v \in Workers : SameEnd(v) /\ StaysAbove(v)
               /\ \A q \in Requests : SameWait(q)
    <3>1. status[r] # "none" BY <2>5 DEF IInv, RequestInv, Settled, Release, WakeFails, ClientCloses
    <3>2. UNCHANGED <<clock, timer, pc, job>> BY <2>5, <3>1 DEF Release, WakeFails, ClientCloses, Handler
    <3>3. /\ \A q \in Requests \ {r} : place'[q] = place[q]
          /\ place'[r] \in {"served", "failed", "closed"}
      BY <2>5, ReleaseStep
    <3> QED BY <3>2, <3>3 DEF SameEnd, StaysAbove, SameWait
  <2> QED BY <2>1, <2>2, <2>3, <2>4, <2>5
<1>4. LimitAbove' BY <1>3, AboveKept DEF LevelInv
<1>5. \A z \in Zones : Fewer(z) BY <1>3, EndsFewer
<1>6. AllCovered' BY <1>1, <1>5, LevelKept DEF SameLevel, LevelInv
<1> QED BY <1>4, <1>6 DEF LevelInv

(* A handler ends, with or without a timer; the timer ends the delay when   *)
(* the handler has found it to end.                                         *)
LEMMA LevelEnd ==
  ASSUME IInv, LevelInv, NEW w \in Workers, KeyFails(w) \/ Refuse(w) \/ Pass(w) \/ Postpone(w)
  PROVE  LevelInv'
<1>1. PICK r : r = job[w].r OBVIOUS
<1>2. PcType /\ JobType /\ PlaceType /\ TimerType BY DEF IInv, RestType
<1>3. InHandler(w) /\ r \in Requests
  BY <1>1, <1>2 DEF JobType, Job, KeyFails, Refuse, Pass, Postpone, InHandler, InLookup
<1>4. /\ UNCHANGED <<node, charges, clock>>
      /\ pc' = [pc EXCEPT ![w] = "idle"] /\ job' = [job EXCEPT ![w] = NoJob]
      /\ \/ \E pl \in Places \ {"waiting"} : place' = [place EXCEPT ![r] = pl] /\ timer' = timer
         \/ /\ pc[w] = "account" /\ place' = [place EXCEPT ![r] = "waiting"]
            /\ timer' = [timer EXCEPT ![r] = [worker |-> w, due |-> clock[w] + job[w].delay,
                                              limit |-> job[w].limit]]
  BY <1>1 DEF KeyFails, Refuse, Pass, Postpone, Finish, shared, Places
<1>5. /\ UNCHANGED <<node, charges, clock>> /\ pc'[w] = "idle"
      /\ \A v \in Workers \ {w} : pc'[v] = pc[v] /\ job'[v] = job[v]
      /\ \A q \in Requests \ {r} : place'[q] = place[q] /\ timer'[q] = timer[q]
  BY <1>2, <1>3, <1>4 DEF PcType, JobType, PlaceType, TimerType
<1>6. \/ place'[r] # "waiting"
      \/ /\ pc[w] = "account" /\ timer'[r].limit = job[w].limit
         /\ timer'[r].due = clock[w] + job[w].delay
  BY <1>2, <1>3, <1>4 DEF PlaceType, TimerType
<1>7. LimitAbove'
  <2>1. \A v \in Workers : StaysAbove(v) BY <1>5 DEF StaysAbove
  <2> QED BY <2>1, AboveKept DEF LevelInv
<1>8. ASSUME NEW z \in Zones, NEW q \in Requests, NEW d \in Ends(z, q)' PROVE d \in Ends(z, q)
  <2>1. CASE place'[q] = "waiting" /\ timer'[q].limit = z /\ d = timer'[q].due
    <3>1. CASE q = r
      <4>1. pc[w] = "account" /\ job[w].limit = z /\ d = clock[w] + job[w].delay
        BY <1>6, <2>1, <3>1
      <4> QED BY <1>1, <3>1, <4>1 DEF Ends
    <3>2. CASE q # r
      <4>1. place'[q] = place[q] /\ timer'[q] = timer[q] BY <1>5, <3>2
      <4> QED BY <2>1, <4>1 DEF Ends
    <3> QED BY <3>1, <3>2
  <2>2. CASE \E v \in Workers : /\ pc'[v] = "account" /\ job'[v].r = q /\ job'[v].limit = z
                                /\ d = clock'[v] + job'[v].delay
    <3>1. PICK v \in Workers : /\ pc'[v] = "account" /\ job'[v].r = q /\ job'[v].limit = z
                               /\ d = clock'[v] + job'[v].delay
      BY <2>2
    <3>2. v # w BY <1>5, <3>1
    <3>3. pc'[v] = pc[v] /\ job'[v] = job[v] BY <1>5, <3>2
    <3> QED BY <1>5, <3>1, <3>3 DEF Ends
  <2> QED BY <1>8, <2>1, <2>2 DEF Ends
<1>9. \A z \in Zones : Fewer(z) BY <1>8 DEF Fewer
<1>10. AllCovered' BY <1>5, <1>9, LevelKept DEF SameLevel, LevelInv
<1> QED BY <1>7, <1>10 DEF LevelInv

(* A zone without a key, and a reference that is given back.                *)
LEMMA LevelPassed ==
  ASSUME IInv, LevelInv, NEW w \in Workers, SkipZone(w) \/ RollBack(w)
  PROVE  LevelInv'
<1>1. CASE SkipZone(w)
  <2>1. PICK rc : rc = job[w].rc OBVIOUS
  <2>2. PICK r : r = job[w].r OBVIOUS
  <2>3. /\ InLookup(w) /\ Answer(w, rc, 0) /\ UNCHANGED <<clock, timer>> /\ UNCHANGED <<node, charges>>
    BY <1>1, <2>1 DEF SkipZone, shared
  <2>4. rc \in Rcs /\ rc # "OK" /\ r \in Requests /\ 0 \in Nat
    BY <2>1, <2>2 DEF IInv, JobType, Job, Rcs
  <2>5. rc \in {"BUSY", "ERROR", "OK"} \cup Rcs /\ (rc = "OK" => job[w].n = Last) BY <2>4
  <2>6. /\ \A z \in Zones : Fewer(z) /\ Uncharged(z, r)
        /\ LimitAbove => LimitAbove'
    BY <2>2, <2>3, <2>4, <2>5, AnswerEnds
  <2>7. AllCovered' BY <2>3, <2>6, LevelKept DEF SameLevel, LevelInv
  <2> QED BY <2>6, <2>7 DEF LevelInv
<1>2. CASE RollBack(w)
  <2>1. PICK z : z = job[w].n OBVIOUS
  <2>2. PICK k : k = ctxNode[w][z] OBVIOUS
  <2>3. /\ pc[w] = "reject" /\ z > 0 /\ UNCHANGED <<clock, pc, place, timer, charges>>
        /\ node' = IF k = NoKey THEN node ELSE [node EXCEPT ![z][k].count = @ - 1]
        /\ job' = [job EXCEPT ![w].n = @ - 1]
    BY <1>2, <2>1, <2>2 DEF RollBack, requestvars
  <2>4. z \in Zones /\ job \in [Workers -> Job] /\ NodeType
    BY <2>1, <2>3, ZonesType DEF IInv, JobType, Job, Last, SharedInv, SharedType
  <2>5. \A v \in Workers \ {w} : job'[v] = job[v] BY <2>3, <2>4
  <2>6. \A v \in Workers : SameEnd(v) /\ StaysAbove(v) BY <2>3, <2>5 DEF SameEnd, StaysAbove
  <2>7. \A q \in Requests : SameWait(q) BY <2>3 DEF SameWait
  <2>8. \A y \in Zones : Fewer(y) BY <2>6, <2>7, EndsFewer
  <2>9. LimitAbove' BY <2>6, AboveKept DEF LevelInv
  <2>10. \A y \in Zones : \A i \in DOMAIN node'[y] :
           i \in DOMAIN node[y] /\ SameLevel(node[y][i], node'[y][i])
    <3>1. CASE k = NoKey BY <2>3, <3>1 DEF SameLevel
    <3>2. CASE k # NoKey
      <4>1. k \in DOMAIN node[z] /\ node[z][k] \in Node BY <2>2, <2>4, <3>2, CountPositive DEF IInv
      <4> DEFINE lr == [node[z][k] EXCEPT !.count = @ - 1]
      <4>2. node' = [y \in Zones |-> IF y = z THEN [node[z] EXCEPT ![k] = lr] ELSE node[y]]
        BY <2>3, <2>4, <3>2, <4>1 DEF NodeType
      <4>3. SameLevel(node[z][k], lr) BY <4>1 DEF SameLevel, Node
      <4> HIDE DEF lr
      <4> QED BY <2>4, <4>1, <4>2, <4>3 DEF NodeType, SameLevel
    <3> QED BY <3>1, <3>2
  <2>11. AllCovered' BY <2>3, <2>8, <2>10, LevelKept DEF LevelInv
  <2> QED BY <2>9, <2>11 DEF LevelInv
<1> QED BY <1>1, <1>2


-----------------------------------------------------------------------------
(* When the proxy starts there are no nodes and nobody accounts.            *)
LEMMA InitLevel == Init => LevelInv
<1> SUFFICES ASSUME Init PROVE LevelInv
  OBVIOUS
<1>1. \A z \in Zones : DOMAIN node[z] = {} BY DEF Init
<1>2. \A w \in Workers : pc[w] = "idle" BY DEF Init
<1> QED BY <1>1, <1>2 DEF LevelInv, AllCovered, LimitAbove

(* Every step keeps the delays covered, if the batches are short.           *)
LEMMA NextLevel ==
  ASSUME ShortBatches, IInv, RateInv, LevelInv, [Next]_vars
  PROVE  LevelInv'
<1>1. CASE UNCHANGED vars
  <2>1. UNCHANGED <<node, charges, clock, pc, job, place, timer>>
    BY <1>1 DEF vars, shared, requestvars
  <2>2. /\ \A v \in Workers : SameEnd(v) /\ StaysAbove(v)
        /\ \A q \in Requests : SameWait(q)
    BY <2>1 DEF SameEnd, StaysAbove, SameWait
  <2>3. LimitAbove' BY <2>2, AboveKept DEF LevelInv
  <2>4. \A z \in Zones : Fewer(z) BY <2>2, EndsFewer
  <2>5. AllCovered' BY <2>1, <2>4, LevelKept DEF SameLevel, LevelInv
  <2> QED BY <2>3, <2>5 DEF LevelInv
<1>2. CASE \E t \in scenario.ticks : Tick(t) BY <1>2, LevelQuiet
<1>3. ASSUME NEW w \in Workers, Worker(w) \/ Failure(w) PROVE LevelInv'
  <2>1. CASE \/ UpdateTime(w) \/ StatsStart(w) \/ StatsLast(w) \/ StatsExcess(w)
             \/ \E r \in Requests, keys \in KeyChoices : Arrive(w, r, keys)
             \/ \E r \in Requests : Release(w, r) \/ WakeFails(w, r) \/ ClientCloses(w, r)
    BY <2>1, LevelQuiet
  <2>2. CASE SkipZone(w) \/ RollBack(w) BY <2>2, LevelPassed
  <2>3. CASE LookupFound(w) BY <2>3, LevelFound
  <2>4. CASE LookupMissing(w) BY <2>4, LevelMissing
  <2>5. CASE Account(w) BY <2>5, LevelAccount
  <2>6. CASE KeyFails(w) \/ Refuse(w) \/ Pass(w) \/ Postpone(w) BY <2>6, LevelEnd
  <2> QED BY <1>3, <2>1, <2>2, <2>3, <2>4, <2>5, <2>6 DEF Worker, Failure
<1> QED BY <1>1, <1>2, <1>3 DEF Next

(* A level of 0 is computed only when the excess has leaked: the remainder  *)
(* modulo Word only makes the leak smaller.                                 *)
LEMMA LevelZero ==
  ASSUME NEW z \in Zones, NEW lr \in Node, NEW t \in Nat, lr.last <= t,
         StatsLevel(z, lr.last, lr.excess, t) = 0
  PROVE  lr.excess <= Leak(z, t - lr.last)
<1> DEFINE e == lr.excess
           p == Limits[z].rate * (t - lr.last)
           m == p % Word
           l == m \div 1000
<1>1. e \in Nat /\ lr.last \in Nat /\ Limits[z].rate \in Nat BY LimitsType DEF Node
<1>2. p \in Nat
  <2>1. t - lr.last \in Nat BY <1>1
  <2> QED BY <1>1, <2>1
<1>3. (IF e > l THEN (e - l + 1000) \div 1000 ELSE 0) = 0 BY DEF StatsLevel
<1>4. Leak(z, t - lr.last) = p \div 1000 BY DEF Leak
<1> HIDE DEF e, p
<1>5. m \in Nat /\ m <= p
  <2>1. Word \in Nat \ {0} BY LimitsAssumption
  <2>2. m \in Nat /\ p = Word * (p \div Word) + m /\ p \div Word \in Nat BY <1>2, <2>1
  <2>3. Word * (p \div Word) \in Nat
    <3> DEFINE f == p \div Word
    <3>1. f \in Nat BY <2>2
    <3> HIDE DEF f
    <3>2. Word * f \in Nat BY <2>1, <3>1
    <3> QED BY <3>2 DEF f
  <2> DEFINE g == Word * (p \div Word)
  <2>4. g \in Nat /\ p = g + m BY <2>2, <2>3
  <2> HIDE DEF g, m
  <2> QED BY <1>2, <2>2, <2>4
<1> HIDE DEF m
<1>6. l \in Nat /\ l <= p \div 1000 /\ p \div 1000 \in Nat BY <1>2, <1>5
<1> HIDE DEF l
<1>7. e <= l
  <2>1. ASSUME e > l PROVE FALSE
    <3> DEFINE a == e - l + 1000
    <3>1. a \in Nat /\ a >= 1000 BY <1>1, <1>6, <2>1 DEF e
    <3>2. a \div 1000 = 0 BY <1>3, <2>1
    <3> HIDE DEF a
    <3> QED BY <3>1, <3>2
  <2> QED BY <1>1, <1>6, <2>1 DEF e
<1>8. e <= p \div 1000
  <2> DEFINE f == p \div 1000
  <2>1. f \in Nat /\ l <= f /\ e \in Nat BY <1>1, <1>6 DEF e
  <2> HIDE DEF f
  <2>2. e <= f BY <1>6, <1>7, <2>1
  <2> QED BY <2>2 DEF f
<1> QED BY <1>4, <1>8 DEF e

(* What ExactLevel asks of a step.                                          *)
Exact ==
  \A w \in Workers :
    LET z == view[w].zone
        k == view[w].key
    IN  (/\ pc[w] = "excess" /\ pc'[w] # "excess" /\ level'[w] = 0
         /\ k # NoKey /\ k \in DOMAIN node[z]
         /\ node[z][k].last = view[w].last /\ view[w].last <= clock[w])
        => \A i \in 1..Len(charges[z][k]) :
             ~(charges[z][k][i].req \in Waiting /\ timer[charges[z][k][i].req].limit = z)

(* Only the status of the worker itself takes it past the second read.      *)
LEMMA ReadsExcess ==
  ASSUME IInv, [Next]_vars, NEW w \in Workers, pc[w] = "excess", pc'[w] # "excess"
  PROVE  StatsExcess(w)
<1>1. CASE UNCHANGED vars BY <1>1 DEF vars
<1>2. CASE \E t \in scenario.ticks : Tick(t) BY <1>2 DEF Tick
<1>3. ASSUME NEW v \in Workers, Worker(v) \/ Failure(v) PROVE StatsExcess(w)
  <2>1. \A u \in Workers \ {v} : pc'[u] = pc[u] BY <1>3, BusyStep
  <2>2. v = w BY <2>1
  <2>3. Worker(w) \/ Failure(w) BY <1>3, <2>2
  <2>4. /\ ~UpdateTime(w) /\ ~StatsStart(w) /\ ~StatsLast(w)
        /\ \A r \in Requests, keys \in KeyChoices : ~Arrive(w, r, keys)
        /\ \A r \in Requests : ~Release(w, r) /\ ~WakeFails(w, r) /\ ~ClientCloses(w, r)
        /\ ~SkipZone(w) /\ ~LookupFound(w) /\ ~LookupMissing(w) /\ ~KeyFails(w)
        /\ ~RollBack(w) /\ ~Refuse(w) /\ ~Account(w) /\ ~Pass(w) /\ ~Postpone(w)
    BY DEF UpdateTime, StatsStart, StatsLast, Arrive, Release, WakeFails, ClientCloses, SkipZone, LookupFound,
           LookupMissing, KeyFails, RollBack, Refuse, Account, Pass, Postpone, InBatch, Found,
           Missing, InLookup
  <2> QED BY <2>3, <2>4 DEF Worker, Failure
<1> QED BY <1>1, <1>2, <1>3 DEF Next

(* A step that ends the two reads is exact.                                 *)
LEMMA ExactStep ==
  ASSUME IInv, RateInv, LevelInv, [Next]_vars
  PROVE  Exact
<1> SUFFICES ASSUME NEW w \in Workers, NEW z, z = view[w].zone, NEW k, k = view[w].key,
                    pc[w] = "excess", pc'[w] # "excess", level'[w] = 0,
                    k # NoKey, k \in DOMAIN node[z],
                    node[z][k].last = view[w].last, view[w].last <= clock[w],
                    NEW i \in 1..Len(charges[z][k]), charges[z][k][i].req \in Waiting,
                    timer[charges[z][k][i].req].limit = z
             PROVE  FALSE
  BY DEF Exact
<1> DEFINE lr == node[z][k]
           t == clock[w]
           l == StatsLevel(z, lr.last, lr.excess, t)
           r == charges[z][k][i].req
           s == charges[z][k][i].last
           d == timer[r].due
<1>1. z \in Zones /\ level \in [Workers -> Nat] BY DEF IInv, RestType, StatsType
<1>2. /\ lr \in Node /\ t \in Nat /\ now \in Nat /\ t <= now /\ s \in Int
  BY <1>1, NodeFacts, ChargeTimes DEF Clocks, RateInv, Times
<1>3. r \in Requests /\ place[r] = "waiting" /\ d > now BY DEF Waiting
<1>4. l = 0
  <2>1. StatsExcess(w) BY ReadsExcess
  <2>2. StatsRead(w) = {lr.excess} BY DEF StatsRead
  <2>3. PICK x \in StatsRead(w) :
          LET y == StatsLevel(z, view[w].last, x, t) IN
          level' = [level EXCEPT ![w] = IF y = 0 THEN @ ELSE y]
    BY <2>1 DEF StatsExcess
  <2>4. level' = [level EXCEPT ![w] = IF l = 0 THEN @ ELSE l] BY <2>2, <2>3
  <2> HIDE DEF l
  <2> QED BY <1>1, <2>4
<1>5. lr.excess <= Leak(z, t - lr.last)
  <2>1. lr.last <= t OBVIOUS
  <2> HIDE DEF lr, t
  <2> QED BY <1>1, <1>2, <1>4, <2>1, LevelZero
<1>6. d \in Ends(z, r) BY DEF Ends, Waiting
<1>7. d \in Int
  <2> HIDE DEF r
  <2>1. d \in Nat BY <1>3 DEF IInv, RestType, TimerType
  <2> QED BY <2>1
<1>8. Covered(z, d, s, lr) BY <1>1, <1>3, <1>6 DEF LevelInv, AllCovered, NodeCovered
<1> HIDE DEF lr, t, s, d, r
<1>9. d <= t BY <1>1, <1>2, <1>5, <1>7, <1>8, CoveredOver
<1> QED BY <1>2, <1>3, <1>7, <1>9

(* If the node that _limit_req_stats_get() reads does not change between    *)
(* its two unlocked reads, and is not ahead of the worker's clock, then a   *)
(* level of 0 means that no request charged to it waits for its leak: for   *)
(* any number of workers, zones and requests and any word size, if no       *)
(* worker is busy with a batch for longer than a minute.                    *)
THEOREM LevelIsExact ==
  ASSUME MaxBatch <= 60000
  PROVE  Spec => ExactLevel
<1>1. ShortBatches BY DEF ShortBatches
<1>2. IInv /\ RateInv /\ [Next]_vars => RateInv' BY <1>1, NextRate
<1>3. IInv /\ RateInv /\ LevelInv /\ [Next]_vars => LevelInv' BY <1>1, NextLevel
<1>4. IInv /\ RateInv /\ LevelInv /\ [Next]_vars => [Exact]_vars BY ExactStep
<1>5. ExactLevel <=> [][Exact]_vars BY DEF ExactLevel, Exact
<1> QED BY Inductive, InitRate, InitLevel, <1>2, <1>3, <1>4, <1>5, PTL DEF Spec
=============================================================================
