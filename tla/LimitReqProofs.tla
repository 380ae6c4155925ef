--------------------------- MODULE LimitReqProofs ---------------------------
(***************************************************************************)
(* The theorems about LimitReq, for any workers, keys, limits, scenarios   *)
(* and bounds: types, the shared memory (from LimitReqSharedProofs), and   *)
(* the requests, each of which is charged at most once.                    *)
(***************************************************************************)
EXTENDS LimitReqSharedProofs, TLAPS

-----------------------------------------------------------------------------
(* Who has been charged in a zone.                                          *)
Uncharged(z, r) == \A k \in Keys : \A i \in 1..Len(charges[z][k]) : charges[z][k][i].req # r
OnceIn(z) ==
  \A k, l \in Keys : \A i \in 1..Len(charges[z][k]), j \in 1..Len(charges[z][l]) :
    charges[z][k][i].req = charges[z][l][j].req => k = l /\ i = j

(* What a step does to the charges of a zone: nodes may go with theirs, and *)
(* one may be added to a node.                                              *)
Keeps(z) == \A k \in Keys : charges'[z][k] \in {charges[z][k], <<>>}
Adds(z, k, c) ==
  /\ charges'[z][k] = Append(charges[z][k], c)
  /\ \A x \in Keys \ {k} : charges'[z][x] \in {charges[z][x], <<>>}
Effect(r) ==
  \A z \in Zones :
    \/ Keeps(z)
    \/ Uncharged(z, r) /\ \E k \in Keys, c \in ChargeRecord : c.req = r /\ Adds(z, k, c)

ChargesType == charges \in [Zones -> [Keys -> Seq(ChargeRecord)]]

(* A step that only forgets charges charges nobody.                         *)
LEMMA KeepsStep ==
  ASSUME ChargesType, NEW z \in Zones, Keeps(z)
  PROVE  /\ OnceIn(z) => OnceIn(z)'
         /\ \A r : Uncharged(z, r) => Uncharged(z, r)'
<1>1. ASSUME NEW k \in Keys, NEW i \in 1..Len(charges'[z][k])
      PROVE  i \in 1..Len(charges[z][k]) /\ charges'[z][k][i] = charges[z][k][i]
  <2>1. CASE charges'[z][k] = <<>>
    <3>1. Len(charges'[z][k]) = 0 BY <2>1, EmptySeq
    <3> QED BY <3>1
  <2>2. CASE charges'[z][k] = charges[z][k] BY <2>2
  <2> QED BY <2>1, <2>2 DEF Keeps
<1>2. ASSUME OnceIn(z) PROVE OnceIn(z)'
  <2> SUFFICES ASSUME NEW x \in Keys, NEW y \in Keys,
                      NEW i \in 1..Len(charges'[z][x]), NEW j \in 1..Len(charges'[z][y]),
                      charges'[z][x][i].req = charges'[z][y][j].req
               PROVE  x = y /\ i = j
    BY DEF OnceIn
  <2>1. charges[z][x][i].req = charges[z][y][j].req BY <1>1
  <2>2. i \in 1..Len(charges[z][x]) /\ j \in 1..Len(charges[z][y]) BY <1>1
  <2> QED BY <1>2, <2>1, <2>2 DEF OnceIn
<1>3. ASSUME NEW r, Uncharged(z, r) PROVE Uncharged(z, r)'
  BY <1>1, <1>3 DEF Uncharged
<1> QED BY <1>2, <1>3

(* A request that has not been charged in a zone is.                        *)
LEMMA AddsStep ==
  ASSUME ChargesType, NEW z \in Zones, NEW k \in Keys, NEW c \in ChargeRecord,
         Adds(z, k, c), Uncharged(z, c.req)
  PROVE  /\ OnceIn(z) => OnceIn(z)'
         /\ \A r : r # c.req /\ Uncharged(z, r) => Uncharged(z, r)'
<1> DEFINE n == Len(charges[z][k]) + 1
<1>1. charges[z][k] \in Seq(ChargeRecord) /\ Len(charges[z][k]) \in Nat
  BY LenProperties DEF ChargesType
<1>2. /\ Len(charges'[z][k]) = n /\ n \in Nat /\ charges'[z][k][n] = c
      /\ \A i \in 1..Len(charges[z][k]) : charges'[z][k][i] = charges[z][k][i]
  BY <1>1, AppendProperties DEF Adds
<1> HIDE DEF n
<1>3. ASSUME NEW x \in Keys, NEW i \in 1..Len(charges'[z][x])
      PROVE  \/ x = k /\ i = n /\ charges'[z][x][i] = c
             \/ i \in 1..Len(charges[z][x]) /\ charges'[z][x][i] = charges[z][x][i]
  <2>1. CASE x = k
    <3>1. i \in 1..n BY <1>2, <2>1
    <3>2. i = n \/ i \in 1..Len(charges[z][k]) BY <1>1, <1>2, <3>1 DEF n
    <3> QED BY <1>2, <2>1, <3>2
  <2>2. CASE x # k /\ charges'[z][x] = <<>>
    <3>1. Len(charges'[z][x]) = 0 BY <2>2, EmptySeq
    <3> QED BY <3>1
  <2>3. CASE x # k /\ charges'[z][x] = charges[z][x] BY <2>3
  <2> QED BY <2>1, <2>2, <2>3 DEF Adds
<1>4. ASSUME OnceIn(z) PROVE OnceIn(z)'
  <2> SUFFICES ASSUME NEW x \in Keys, NEW y \in Keys,
                      NEW i \in 1..Len(charges'[z][x]), NEW j \in 1..Len(charges'[z][y]),
                      charges'[z][x][i].req = charges'[z][y][j].req
               PROVE  x = y /\ i = j
    BY DEF OnceIn
  <2> DEFINE New(a, p) == a = k /\ p = n /\ charges'[z][a][p] = c
             Old(a, p) == p \in 1..Len(charges[z][a]) /\ charges'[z][a][p] = charges[z][a][p]
  <2>1. (New(x, i) \/ Old(x, i)) /\ (New(y, j) \/ Old(y, j)) BY <1>3
  <2>2. CASE New(x, i) /\ New(y, j) BY <2>2
  <2>3. ~(New(x, i) /\ Old(y, j)) BY DEF Uncharged
  <2>4. ~(Old(x, i) /\ New(y, j)) BY DEF Uncharged
  <2>5. CASE Old(x, i) /\ Old(y, j)
    <3>1. charges[z][x][i].req = charges[z][y][j].req BY <2>5
    <3> QED BY <1>4, <2>5, <3>1 DEF OnceIn
  <2> QED BY <2>1, <2>2, <2>3, <2>4, <2>5
<1>5. ASSUME NEW r, r # c.req, Uncharged(z, r) PROVE Uncharged(z, r)'
  BY <1>3, <1>5 DEF Uncharged
<1> QED BY <1>4, <1>5

(* Whatever a handler does to the charges, the other requests see nothing.  *)
LEMMA EffectStep ==
  ASSUME ChargesType, NEW r, Effect(r), \A z \in Zones : OnceIn(z)
  PROVE  /\ \A z \in Zones : OnceIn(z)'
         /\ \A z \in Zones : \A q : q # r /\ Uncharged(z, q) => Uncharged(z, q)'
<1> SUFFICES ASSUME NEW z \in Zones
             PROVE  OnceIn(z)' /\ \A q : q # r /\ Uncharged(z, q) => Uncharged(z, q)'
  OBVIOUS
<1>1. CASE Keeps(z) BY <1>1, KeepsStep
<1>2. CASE Uncharged(z, r) /\ \E k \in Keys, c \in ChargeRecord : c.req = r /\ Adds(z, k, c)
  <2>1. PICK k \in Keys, c \in ChargeRecord : c.req = r /\ Adds(z, k, c) BY <1>2
  <2> QED BY <1>2, <2>1, AddsStep
<1> QED BY <1>1, <1>2 DEF Effect

-----------------------------------------------------------------------------
(* The requests: the one a handler is busy with is its own, has no status   *)
(* and has not been charged where the handler may still charge it; one that *)
(* has not arrived, or was refused, or failed first, has not been charged.  *)
InHandler(w) == pc[w] \in {"lookup", "reject", "account"}
Limited(w) ==
  InHandler(w) =>
    /\ place[job[w].r] = "handled" /\ status[job[w].r] = "none"
    /\ \A z \in Zones : (pc[w] = "account" => z <= job[w].n) => Uncharged(z, job[w].r)
Unaccepted(r) ==
  \/ place[r] = "new"
  \/ status[r] \in {"rejected", "rejected_dry_run"}
  \/ status[r] = "none" /\ place[r] = "failed"
Settled(r) ==
  /\ place[r] = "new" => status[r] = "none"
  /\ place[r] = "waiting" => status[r] # "none"
  /\ Unaccepted(r) => \A z \in Zones : Uncharged(z, r)
Alone == \A v, w \in Workers : InHandler(v) /\ InHandler(w) /\ v # w => job[v].r # job[w].r
RequestInv ==
  /\ \A z \in Zones : OnceIn(z)
  /\ \A w \in Workers : Limited(w)
  /\ \A r \in Requests : Settled(r)
  /\ Alone

(* The step of a handler changes its own request and nothing of the others. *)
Frame(w, r) ==
  /\ \A v \in Workers \ {w} : pc'[v] = pc[v] /\ job'[v] = job[v]
  /\ \A q \in Requests \ {r} : status'[q] = status[q] /\ place'[q] = place[q]

(* If such a step leaves its own request in order, all are.                 *)
LEMMA OwnStep ==
  ASSUME RequestInv, ChargesType, job \in [Workers -> Job], NEW w \in Workers, NEW r \in Requests,
         (InHandler(w) /\ job[w].r = r) \/ place[r] = "new",
         Frame(w, r), Effect(r), Limited(w)', Settled(r)', InHandler(w)' => job'[w].r = r
  PROVE  RequestInv'
<1>1. /\ \A z \in Zones : OnceIn(z)'
      /\ \A z \in Zones : \A q : q # r /\ Uncharged(z, q) => Uncharged(z, q)'
  BY EffectStep DEF RequestInv
<1>2. \A v \in Workers \ {w} : InHandler(v)' <=> InHandler(v) BY DEF Frame, InHandler
<1>3. ASSUME NEW v \in Workers \ {w}, InHandler(v)
      PROVE  job'[v].r = job[v].r /\ job[v].r # r /\ job[v].r \in Requests
  <2>1. job'[v].r = job[v].r /\ job[v].r \in Requests BY DEF Frame, Job
  <2>2. CASE InHandler(w) /\ job[w].r = r BY <1>3, <2>1, <2>2 DEF RequestInv, Alone
  <2>3. CASE place[r] = "new"
    <3>1. place[job[v].r] = "handled" BY <1>3 DEF RequestInv, Limited
    <3> QED BY <2>1, <2>3, <3>1
  <2> QED BY <2>1, <2>2, <2>3
<1>4. ASSUME NEW v \in Workers PROVE Limited(v)'
  <2>1. CASE v = w BY <2>1
  <2>2. CASE v # w
    <3> SUFFICES ASSUME InHandler(v) PROVE Limited(v)'
      BY <1>2, <2>2 DEF Limited, InHandler
    <3>1. PICK q \in Requests : q = job[v].r BY <1>3, <2>2
    <3>2. q # r /\ job'[v] = job[v] /\ pc'[v] = pc[v] /\ job'[v].r = q
      BY <1>3, <2>2, <3>1 DEF Frame
    <3>3. /\ place[q] = "handled" /\ status[q] = "none"
          /\ \A z \in Zones : (pc[v] = "account" => z <= job[v].n) => Uncharged(z, q)
      BY <3>1 DEF RequestInv, Limited
    <3>4. place'[q] = "handled" /\ status'[q] = "none"
      BY <3>2, <3>3 DEF Frame
    <3>5. \A z \in Zones : (pc[v] = "account" => z <= job[v].n) => Uncharged(z, q)'
      BY <1>1, <3>2, <3>3
    <3> QED BY <3>2, <3>4, <3>5 DEF Limited, Uncharged
  <2> QED BY <2>1, <2>2
<1>5. ASSUME NEW q \in Requests PROVE Settled(q)'
  <2>1. CASE q = r BY <2>1
  <2>2. CASE q # r
    <3>1. Settled(q) /\ status'[q] = status[q] /\ place'[q] = place[q]
      BY <2>2 DEF RequestInv, Frame
    <3>2. \A z \in Zones : Uncharged(z, q) => Uncharged(z, q)' BY <1>1, <2>2
    <3> QED BY <3>1, <3>2 DEF Settled, Unaccepted
  <2> QED BY <2>1, <2>2
<1>6. Alone'
  <2> SUFFICES ASSUME NEW u \in Workers, NEW v \in Workers, InHandler(u)', InHandler(v)', u # v
               PROVE  job'[u].r # job'[v].r
    BY DEF Alone, InHandler
  <2>1. CASE u = w BY <1>2, <1>3, <2>1
  <2>2. CASE v = w BY <1>2, <1>3, <2>2
  <2>3. CASE u # w /\ v # w
    <3>1. InHandler(u) /\ InHandler(v) BY <1>2, <2>3
    <3>2. job[u].r # job[v].r BY <3>1 DEF RequestInv, Alone
    <3> QED BY <1>3, <2>3, <3>1, <3>2
  <2> QED BY <2>1, <2>2, <2>3
<1> QED BY <1>1, <1>4, <1>5, <1>6 DEF RequestInv

-----------------------------------------------------------------------------
(* The other variables.                                                     *)
PcType == pc \in [Workers -> Pcs]
StatusType == status \in [Requests -> Statuses]
PlaceType == place \in [Requests -> Places]
TimerType == timer \in [Requests -> [worker : Workers, due : Nat, limit : Zones]]
StatsType ==
  /\ view \in [Workers -> [zone : Zones, key : Keys \cup {NoKey}, last : Nat,
                           waiting : SUBSET Requests]]
  /\ level \in [Workers -> Nat] /\ polls \in Nat
RestType ==
  /\ now \in Nat /\ scenario \in Scenarios
  /\ PcType /\ StatusType /\ PlaceType /\ TimerType /\ StatsType

(* The handler's answer after a zone: what becomes of its locals and its    *)
(* request.                                                                 *)
Outcome(w, rc) ==
  \/ /\ pc'[w] \in {"lookup", "reject"} /\ rc # "OK"
     /\ job'[w].r = job[w].r /\ place' = place
  \/ /\ pc'[w] = "account" /\ (rc = "OK" => job'[w].n = job[w].n - 1)
     /\ job'[w].r = job[w].r /\ place' = place
  \/ pc'[w] = "idle" /\ place' = [place EXCEPT ![job[w].r] = "served"]

(* The locals that an idle worker is given.                                 *)
LEMMA NoJobType == NoJob \in Job
<1>1. 1 \in Requests /\ 1 \in Zones /\ 0 \in 0..Len(Limits)
  BY BoundsAssumption, ZonesType DEF Requests, Last
<1>2. (CHOOSE k \in KeyChoices : TRUE) \in KeyChoices BY KeysAssumption
<1> QED BY <1>1, <1>2 DEF NoJob, Job, Rcs

(* The handler goes from one zone to the next, or leaves the loop.          *)
LEMMA AnswerStep ==
  ASSUME JobType, PcType, NEW w \in Workers, InLookup(w), UNCHANGED clock,
         NEW rc \in {"BUSY", "ERROR", "OK"} \cup Rcs, NEW e \in Nat, Answer(w, rc, e)
  PROVE  /\ JobType' /\ PcType' /\ Outcome(w, rc)
         /\ \A v \in Workers \ {w} : pc'[v] = pc[v] /\ job'[v] = job[v]
<1> DEFINE j == job[w]
           To(p, nj) == /\ pc' = [pc EXCEPT ![w] = p] /\ job' = [job EXCEPT ![w] = nj]
<1>1. j \in Job /\ j.n \in Zones /\ j.n \in Int /\ j.n > 0 /\ j.n <= Last /\ Last \in Nat
      /\ Zones = 1..Last
  BY ZonesType DEF JobType, InLookup, Job, Last
<1>2. ASSUME NEW p \in Pcs, NEW nj \in Job, To(p, nj),
             p = "lookup" => nj.n \in Zones, p = "reject" => nj.n < Last
      PROVE  /\ JobType' /\ PcType' /\ pc'[w] = p /\ job'[w] = nj
             /\ \A v \in Workers \ {w} : pc'[v] = pc[v] /\ job'[v] = job[v]
  <2>1. /\ pc' = [pc EXCEPT ![w] = p] /\ job' = [job EXCEPT ![w] = nj] BY <1>2
  <2>2. pc' \in [Workers -> Pcs] /\ pc'[w] = p /\ \A v \in Workers \ {w} : pc'[v] = pc[v]
    BY <2>1 DEF PcType
  <2>3. job' \in [Workers -> Job] /\ job'[w] = nj /\ \A v \in Workers \ {w} : job'[v] = job[v]
    BY <2>1 DEF JobType
  <2>4. \A v \in Workers : /\ pc'[v] = "lookup" => job'[v].n \in Zones
                           /\ pc'[v] = "reject" => job'[v].n < Last
    BY <1>2, <2>2, <2>3 DEF JobType
  <2> QED BY <2>2, <2>3, <2>4 DEF JobType, PcType
<1>3. CASE rc \in {"BUSY", "ERROR"}
  <2> DEFINE nj == [j EXCEPT !.n = @ - 1]
  <2>1. To("reject", nj) /\ place' = place BY <1>3 DEF Answer, Rcs
  <2>2. j.n - 1 \in 0..Len(Limits) /\ j.n - 1 < Last BY <1>1 DEF Last
  <2>3. nj \in Job /\ nj.n = j.n - 1 /\ nj.r = j.r BY <1>1, <2>2 DEF Job
  <2> HIDE DEF nj
  <2>4. /\ JobType' /\ PcType' /\ pc'[w] = "reject" /\ job'[w] = nj
        /\ \A v \in Workers \ {w} : pc'[v] = pc[v] /\ job'[v] = job[v]
    BY <1>2, <2>1, <2>2, <2>3 DEF Pcs
  <2> QED BY <1>3, <2>1, <2>3, <2>4 DEF Outcome
<1>4. CASE rc = "OK"
  <2> DEFINE d == Delay(j.n, e)
             nj == [j EXCEPT !.n = @ - 1, !.limit = j.n, !.delay = d]
  <2>1. To("account", nj) /\ place' = place BY <1>4 DEF Answer, Rcs
  <2>2. d \in Nat BY <1>1, DelayType
  <2>3. j.n - 1 \in 0..Len(Limits) BY <1>1 DEF Last
  <2> HIDE DEF d
  <2>4. nj \in Job /\ nj.n = j.n - 1 /\ nj.r = j.r BY <1>1, <2>2, <2>3 DEF Job
  <2> HIDE DEF nj
  <2>5. /\ JobType' /\ PcType' /\ pc'[w] = "account" /\ job'[w] = nj
        /\ \A v \in Workers \ {w} : pc'[v] = pc[v] /\ job'[v] = job[v]
    BY <1>2, <2>1, <2>4 DEF Pcs
  <2> QED BY <1>4, <2>1, <2>4, <2>5 DEF Outcome
<1>5. CASE rc \in Rcs /\ j.n < Last
  <2> DEFINE nj == [j EXCEPT !.n = @ + 1, !.rc = rc]
  <2>0. j.n # Last /\ rc \notin {"BUSY", "ERROR"} /\ rc # "OK" BY <1>1, <1>5 DEF Rcs
  <2>1. To("lookup", nj) /\ place' = place BY <1>5, <2>0 DEF Answer
  <2>2. j.n + 1 \in 0..Len(Limits) /\ j.n + 1 \in Zones BY <1>1, <1>5 DEF Last
  <2>3. nj \in Job /\ nj.n = j.n + 1 /\ nj.r = j.r BY <1>1, <1>5, <2>2 DEF Job
  <2> HIDE DEF nj
  <2>4. /\ JobType' /\ PcType' /\ pc'[w] = "lookup" /\ job'[w] = nj
        /\ \A v \in Workers \ {w} : pc'[v] = pc[v] /\ job'[v] = job[v]
    BY <1>2, <2>1, <2>2, <2>3 DEF Pcs
  <2> QED BY <1>5, <2>1, <2>3, <2>4 DEF Outcome, Rcs
<1>6. CASE rc = "AGAIN" /\ j.n = Last
  <2> DEFINE nj == [j EXCEPT !.limit = Last]
  <2>1. To("account", nj) /\ place' = place BY <1>1, <1>6 DEF Answer, Rcs
  <2>2. nj \in Job /\ nj.r = j.r BY <1>1, <1>6 DEF Job
  <2> HIDE DEF nj
  <2>3. /\ JobType' /\ PcType' /\ pc'[w] = "account" /\ job'[w] = nj
        /\ \A v \in Workers \ {w} : pc'[v] = pc[v] /\ job'[v] = job[v]
    BY <1>2, <2>1, <2>2 DEF Pcs
  <2> QED BY <1>6, <2>1, <2>2, <2>3 DEF Outcome
<1>7. CASE rc = "DECLINED" /\ j.n = Last
  <2>1. To("idle", NoJob) /\ place' = [place EXCEPT ![j.r] = "served"]
    BY <1>1, <1>7 DEF Answer, Rcs
  <2>2. /\ JobType' /\ PcType' /\ pc'[w] = "idle"
        /\ \A v \in Workers \ {w} : pc'[v] = pc[v] /\ job'[v] = job[v]
    BY <1>2, <2>1, NoJobType DEF Pcs
  <2> QED BY <2>1, <2>2 DEF Outcome
<1> QED BY <1>1, <1>3, <1>4, <1>5, <1>6, <1>7 DEF Rcs

(* The answer to a lookup keeps the requests in order: only the last zone,  *)
(* when it accepts, is charged in the loop.                                 *)
ChargesAt(z, r) == \E k \in Keys, c \in ChargeRecord : c.req = r /\ Adds(z, k, c)

(* A zone of the request is decided: it is charged there only if it is the  *)
(* last zone and accepts.                                                   *)
LEMMA LookupRequests ==
  ASSUME RequestInv, ChargesType, JobType, PlaceType, NEW w \in Workers, InLookup(w),
         NEW rc, Outcome(w, rc), UNCHANGED status,
         \A v \in Workers \ {w} : pc'[v] = pc[v] /\ job'[v] = job[v],
         \A z \in Zones : Keeps(z) \/ (rc = "OK" /\ z = job[w].n /\ ChargesAt(z, job[w].r))
  PROVE  RequestInv' /\ PlaceType'
<1>1. PICK r \in Requests : r = job[w].r BY DEF JobType, Job
<1>2. InHandler(w) BY DEF InLookup, InHandler
<1>3. /\ place[r] = "handled" /\ status[r] = "none" /\ \A z \in Zones : Uncharged(z, r)
  BY <1>1, <1>2 DEF RequestInv, Limited, InLookup
<1>4. job[w].n \in Zones /\ Zones = 1..Last /\ Last \in Nat /\ status' = status
  BY ZonesType DEF JobType, InLookup
<1>5. Effect(r) BY <1>1, <1>3 DEF Effect, ChargesAt
<1>6. /\ PlaceType' /\ \A q \in Requests \ {r} : place'[q] = place[q]
      /\ place'[r] \in {"handled", "served"} /\ (pc'[w] # "idle" => place'[r] = "handled")
  BY <1>1, <1>3 DEF Outcome, PlaceType, Places
<1>7. Frame(w, r) BY <1>4, <1>6 DEF Frame
<1>8. InHandler(w)' => job'[w].r = r BY <1>1 DEF InHandler, Outcome
<1>9. Limited(w)'
  <2> SUFFICES ASSUME InHandler(w)' PROVE Limited(w)'
    BY DEF Limited
  <2>1. place'[r] = "handled" /\ status'[r] = "none" /\ job'[w].r = r
    BY <1>3, <1>4, <1>6, <1>8 DEF InHandler
  <2>2. ASSUME NEW z \in Zones, pc'[w] = "account" => z <= job'[w].n
        PROVE  Uncharged(z, r)'
    <3>1. CASE Keeps(z) BY <1>3, <3>1, KeepsStep DEF ChargesType
    <3>2. ~(rc = "OK" /\ z = job[w].n)
      BY <1>4, <2>2 DEF Outcome, InHandler
    <3> QED BY <3>1, <3>2
  <2> QED BY <2>1, <2>2 DEF Limited, Uncharged
<1>10. Settled(r)' BY <1>3, <1>4, <1>6 DEF Settled, Unaccepted
<1>11. job \in [Workers -> Job] BY DEF JobType
<1> QED BY <1>1, <1>2, <1>5, <1>6, <1>7, <1>8, <1>9, <1>10, <1>11, OwnStep

(* The charge of a lookup that finds a node.                                *)
LEMMA FoundCharges ==
  ASSUME SharedInv, JobType, NEW w \in Workers, LookupFound(w)
  PROVE  \E rc \in {"BUSY", "ERROR", "OK"} \cup Rcs, e \in Nat :
           /\ Answer(w, rc, e) /\ InLookup(w)
           /\ \A z \in Zones : Keeps(z) \/ (rc = "OK" /\ z = job[w].n /\ ChargesAt(z, job[w].r))
<1> DEFINE z == Zone(w)
           k == Key(w)
           lr == node[z][k]
           excess == Excess(z, lr, clock[w])
           charged == Charged(z, lr, clock[w])
           rc == IF TooMany(z, excess) THEN "BUSY" ELSE IF z = Last THEN "OK" ELSE "AGAIN"
<1>1. /\ Found(w) /\ Answer(w, rc, excess)
      /\ \/ rc # "OK" /\ UNCHANGED charges
         \/ rc = "OK" /\ charges' = Charge(z, k, job[w].r, charged)
  BY DEF LookupFound
<1>2. z \in Zones /\ k \in Keys /\ k \in DOMAIN node[z] /\ job[w].r \in Requests /\ clock[w] \in Nat
      /\ InLookup(w) /\ z = job[w].n
  BY <1>1, LookupFacts DEF Found, Zone
<1>3. lr \in Node BY <1>2 DEF SharedInv, SharedType, NodeType
<1>4. excess \in Nat /\ charged \in Node BY <1>2, <1>3, ChargedType
<1>5. rc \in {"BUSY", "ERROR", "OK"} \cup Rcs BY DEF Rcs
<1> HIDE DEF rc, z, k, excess, charged
<1>6. \A y \in Zones : Keeps(y) \/ (rc = "OK" /\ y = job[w].n /\ ChargesAt(y, job[w].r))
  <2>1. CASE charges' = charges BY <2>1 DEF Keeps
  <2>2. CASE rc = "OK" /\ charges' = Charge(z, k, job[w].r, charged)
    <3> DEFINE c == [req |-> job[w].r, last |-> charged.last]
    <3>1. c \in ChargeRecord /\ c.req = job[w].r BY <1>2, <1>4 DEF ChargeRecord, Node
    <3>2. charges' = Charge(z, k, job[w].r, charged) BY <2>2
    <3>3. \A y \in Zones : \A i \in Keys :
            charges'[y][i] = IF y = z /\ i = k
                             THEN Append(charges[z][k], [req |-> job[w].r, last |-> charged.last])
                             ELSE charges[y][i]
      BY <1>2, <1>4, <3>2, ChargeStep
    <3>4. Adds(z, k, c) BY <1>2, <3>3 DEF Adds
    <3>5. \A y \in Zones : y # z => Keeps(y) BY <3>3 DEF Keeps
    <3> HIDE DEF c
    <3>6. ChargesAt(z, job[w].r) BY <1>2, <3>1, <3>4 DEF ChargesAt
    <3> QED BY <1>2, <2>2, <3>5, <3>6
  <2> QED BY <1>1, <2>1, <2>2
<1> QED BY <1>1, <1>2, <1>4, <1>5, <1>6

(* The charge of a lookup that makes a node: it is the node's first.        *)
LEMMA MissingCharges ==
  ASSUME SharedInv, JobType, NEW w \in Workers, LookupMissing(w)
  PROVE  \E rc \in {"BUSY", "ERROR", "OK"} \cup Rcs, e \in Nat :
           /\ Answer(w, rc, e) /\ InLookup(w)
           /\ \A z \in Zones : Keeps(z) \/ (rc = "OK" /\ z = job[w].n /\ ChargesAt(z, job[w].r))
<1> DEFINE z == Zone(w)
           k == Key(w)
           q == MakeRoom(z, clock[w])
           lr == IF z = Last THEN [excess |-> 0, last |-> clock[w], count |-> 0]
                 ELSE [excess |-> 0, last |-> 0, count |-> 1]
           rc == IF Len(q) >= MaxNodes THEN "ERROR" ELSE IF z = Last THEN "OK" ELSE "AGAIN"
           kept == IF rc = "ERROR" THEN q ELSE <<k>> \o q
           live == Members(kept)
           left == [x \in Keys |-> IF x \in live THEN charges[z][x] ELSE <<>>]
           c == [req |-> job[w].r, last |-> lr.last]
<1>1. /\ Missing(w) /\ Answer(w, rc, 0)
      /\ charges' = [charges EXCEPT ![z] = IF rc = "OK" THEN [left EXCEPT ![k] = <<c>>] ELSE left]
  BY DEF LookupMissing
<1>2. z \in Zones /\ k \in Keys /\ k \notin DOMAIN node[z] /\ job[w].r \in Requests /\ clock[w] \in Nat
      /\ InLookup(w) /\ z = job[w].n
  BY <1>1, LookupFacts DEF Missing, Zone
<1>3. lr.last \in Nat BY <1>2
<1>4. c \in ChargeRecord /\ c.req = job[w].r BY <1>2, <1>3 DEF ChargeRecord
<1>5. rc \in {"BUSY", "ERROR", "OK"} \cup Rcs BY DEF Rcs
<1>6. charges[z][k] = <<>> BY <1>2 DEF SharedInv, Forgotten
<1>7. charges \in [Zones -> [Keys -> Seq(ChargeRecord)]] BY DEF SharedInv, SharedType
<1> HIDE DEF rc, z, k, lr, live, c
<1>8. left \in [Keys -> Seq(ChargeRecord)] /\ \A x \in Keys : left[x] \in {charges[z][x], <<>>}
  BY <1>2, <1>7, EmptySeq
<1> HIDE DEF left
<1>9. \A y \in Zones : y # z => Keeps(y) BY <1>1, <1>2, <1>7 DEF Keeps
<1>10. CASE rc # "OK"
  <2>1. charges'[z] = left BY <1>1, <1>2, <1>7, <1>10
  <2>2. Keeps(z) BY <1>8, <2>1 DEF Keeps
  <2> QED BY <1>1, <1>2, <1>5, <1>9, <2>2
<1>11. CASE rc = "OK"
  <2>1. charges'[z] = [left EXCEPT ![k] = <<c>>] BY <1>1, <1>2, <1>7, <1>11
  <2>2. charges'[z][k] = <<c>> /\ \A x \in Keys \ {k} : charges'[z][x] = left[x]
    BY <1>2, <1>8, <2>1
  <2>3. Append(<<>>, c) = <<c>> OBVIOUS
  <2>4. Adds(z, k, c) BY <1>6, <1>8, <2>2, <2>3 DEF Adds
  <2>5. ChargesAt(z, job[w].r) BY <1>2, <1>4, <2>4 DEF ChargesAt
  <2> QED BY <1>1, <1>2, <1>5, <1>9, <1>11, <2>5
<1> QED BY <1>10, <1>11

-----------------------------------------------------------------------------
(* The inductive invariant.                                                 *)
IInv == SharedInv /\ JobType /\ RestType /\ RequestInv

(* A step outside the handlers: a request may stop waiting.                 *)
Quiet ==
  /\ UNCHANGED <<job, status, charges>>
  /\ \A w \in Workers : pc'[w] = pc[w] \/ (~InHandler(w) /\ ~InHandler(w)')
  /\ \A r \in Requests : \/ place'[r] = place[r]
                         \/ place[r] = "waiting" /\ place'[r] \in {"served", "failed", "closed"}

(* Such a step charges nobody.                                              *)
LEMMA QuietRequests ==
  ASSUME RequestInv, job \in [Workers -> Job], Quiet
  PROVE  RequestInv'
<1>1. UNCHANGED <<job, status, charges>> BY DEF Quiet
<1>2. \A z \in Zones : (OnceIn(z)' <=> OnceIn(z)) /\ \A r : Uncharged(z, r)' <=> Uncharged(z, r)
  BY <1>1 DEF OnceIn, Uncharged
<1>3. \A w \in Workers : InHandler(w)' => InHandler(w) /\ pc'[w] = pc[w]
  BY DEF Quiet, InHandler
<1>4. ASSUME NEW w \in Workers PROVE Limited(w)'
  <2> SUFFICES ASSUME InHandler(w)' PROVE Limited(w)'
    BY DEF Limited
  <2>1. PICK r \in Requests : r = job[w].r BY DEF Job
  <2>2. InHandler(w) /\ pc'[w] = pc[w] /\ job'[w] = job[w] BY <1>1, <1>3
  <2>3. /\ place[r] = "handled" /\ status[r] = "none"
        /\ \A z \in Zones : (pc[w] = "account" => z <= job[w].n) => Uncharged(z, r)
    BY <2>1, <2>2 DEF RequestInv, Limited
  <2>4. place'[r] = "handled" /\ status'[r] = "none" BY <1>1, <2>3 DEF Quiet
  <2>5. \A z \in Zones : (pc[w] = "account" => z <= job[w].n) => Uncharged(z, r)'
    BY <1>2, <2>3
  <2> QED BY <2>1, <2>2, <2>4, <2>5 DEF Limited, Uncharged
<1>5. ASSUME NEW r \in Requests PROVE Settled(r)'
  <2>1. Settled(r) /\ status'[r] = status[r] BY <1>1 DEF RequestInv
  <2>2. CASE place'[r] = place[r] BY <1>2, <2>1, <2>2 DEF Settled, Unaccepted
  <2>3. CASE place[r] = "waiting" /\ place'[r] \in {"served", "failed", "closed"}
    <3>1. status[r] # "none" BY <2>1, <2>3 DEF Settled
    <3> QED BY <1>2, <2>1, <2>3, <3>1 DEF Settled, Unaccepted
  <2> QED BY <2>2, <2>3 DEF Quiet
<1>6. Alone' BY <1>1, <1>3 DEF RequestInv, Alone
<1> QED BY <1>2, <1>4, <1>5, <1>6 DEF RequestInv

(* A worker that is not in a handler changes what it does; its locals stay. *)
LEMMA JobKept ==
  ASSUME JobType, UNCHANGED job, clock' \in [Workers -> Nat],
         \A w \in Workers : pc'[w] = pc[w] \/ ~InHandler(w)'
  PROVE  JobType'
BY DEF JobType, InHandler

(* The handler is left: the request has a status and a place.               *)
Leaves(w, st, pl) ==
  /\ status' = [status EXCEPT ![job[w].r] = st]
  /\ place' = [place EXCEPT ![job[w].r] = pl]
  /\ pc' = [pc EXCEPT ![w] = "idle"]
  /\ job' = [job EXCEPT ![w] = NoJob]

(* Leaving the handler keeps the types and charges nobody.                  *)
LEMMA LeavesStep ==
  ASSUME IInv, NEW w \in Workers, InHandler(w), NEW st \in Statuses, NEW pl \in Places \ {"new"},
         Leaves(w, st, pl), UNCHANGED <<clock, charges>>,
         pl = "waiting" => st # "none",
         pc[w] = "account" => st \notin {"rejected", "rejected_dry_run"} /\ st # "none"
  PROVE  JobType' /\ PcType' /\ StatusType' /\ PlaceType' /\ RequestInv'
<1>1. JobType /\ PcType /\ StatusType /\ PlaceType /\ RequestInv /\ ChargesType
  BY DEF IInv, RestType, SharedInv, SharedType, ChargesType
<1>2. PICK r \in Requests : r = job[w].r BY <1>1 DEF JobType, Job
<1>3. pc' \in [Workers -> Pcs] /\ pc'[w] = "idle" /\ \A v \in Workers \ {w} : pc'[v] = pc[v]
  BY <1>1 DEF Leaves, PcType, Pcs
<1>4. job' \in [Workers -> Job] /\ job'[w] = NoJob /\ \A v \in Workers \ {w} : job'[v] = job[v]
  BY <1>1, NoJobType DEF Leaves, JobType
<1>5. JobType' /\ PcType' BY <1>1, <1>3, <1>4 DEF JobType, PcType
<1>6. StatusType' /\ status'[r] = st /\ \A q \in Requests \ {r} : status'[q] = status[q]
  BY <1>1, <1>2 DEF Leaves, StatusType
<1>7. PlaceType' /\ place'[r] = pl /\ \A q \in Requests \ {r} : place'[q] = place[q]
  BY <1>1, <1>2 DEF Leaves, PlaceType
<1>8. Frame(w, r) BY <1>3, <1>4, <1>6, <1>7 DEF Frame
<1>9. \A z \in Zones : Keeps(z) BY DEF Keeps
<1>10. Effect(r) BY <1>9 DEF Effect
<1>11. ~InHandler(w)' BY <1>3 DEF InHandler
<1>12. Limited(w)' BY <1>11 DEF Limited
<1>13. Settled(r)'
  <2>1. CASE pc[w] = "account" BY <1>6, <1>7, <2>1 DEF Settled, Unaccepted
  <2>2. CASE pc[w] # "account"
    <3>1. \A z \in Zones : Uncharged(z, r) BY <1>1, <1>2, <2>2 DEF RequestInv, Limited
    <3>2. \A z \in Zones : Uncharged(z, r)' BY <1>1, <1>9, <3>1, KeepsStep
    <3> QED BY <1>6, <1>7, <3>2 DEF Settled
  <2> QED BY <2>1, <2>2
<1>14. RequestInv'
  BY <1>1, <1>2, <1>8, <1>10, <1>11, <1>12, <1>13, OwnStep DEF JobType
<1> QED BY <1>5, <1>6, <1>7, <1>14

(* A zone is given back or charged, the handler goes on to the one before.  *)
LEMMA ZoneStep ==
  ASSUME IInv, NEW w \in Workers, pc[w] \in {"reject", "account"}, job[w].n > 0,
         NEW nj \in Job, job' = [job EXCEPT ![w] = nj], nj.n = job[w].n - 1, nj.r = job[w].r,
         UNCHANGED <<clock, pc, status, place>>,
         \A z \in Zones : Keeps(z) \/ (pc[w] = "account" /\ z = job[w].n /\ ChargesAt(z, job[w].r))
  PROVE  JobType' /\ RequestInv'
<1>1. JobType /\ RequestInv /\ ChargesType
  BY DEF IInv, RestType, SharedInv, SharedType, ChargesType
<1>2. PICK r \in Requests : r = job[w].r BY <1>1 DEF JobType, Job
<1>3. job' \in [Workers -> Job] /\ job'[w] = nj /\ \A v \in Workers \ {w} : job'[v] = job[v]
  BY <1>1 DEF JobType
<1>4. job[w].n \in Int /\ Last \in Nat BY <1>1, ZonesType DEF JobType, Job
<1>5. JobType'
  <2>1. pc[w] = "reject" => nj.n < Last BY <1>1, <1>4 DEF JobType
  <2> QED BY <1>1, <1>3, <2>1 DEF JobType
<1>6. InHandler(w) /\ InHandler(w)' BY DEF InHandler
<1>7. /\ place[r] = "handled" /\ status[r] = "none"
      /\ \A z \in Zones : (pc[w] = "account" => z <= job[w].n) => Uncharged(z, r)
  BY <1>1, <1>2, <1>6 DEF RequestInv, Limited
<1>8. Frame(w, r) BY <1>3 DEF Frame
<1>9. Effect(r)
  <2> SUFFICES ASSUME NEW z \in Zones, pc[w] = "account" /\ z = job[w].n /\ ChargesAt(z, job[w].r)
               PROVE  Uncharged(z, r) /\ ChargesAt(z, r)
    BY DEF Effect, ChargesAt
  <2> QED BY <1>2, <1>4, <1>7
<1>10. Limited(w)'
  <2>1. ASSUME NEW z \in Zones, pc[w] = "account" => z <= nj.n PROVE Uncharged(z, r)'
    <3>0. z \in Int BY ZonesType
    <3>1. pc[w] = "account" => z <= job[w].n /\ z # job[w].n BY <1>4, <2>1, <3>0
    <3>2. Uncharged(z, r) /\ Keeps(z) BY <1>7, <3>1
    <3> QED BY <1>1, <3>2, KeepsStep
  <2>2. job'[w].r = r /\ job'[w].n = nj.n /\ pc'[w] = pc[w] BY <1>2, <1>3
  <2> QED BY <1>7, <2>1, <2>2 DEF Limited, Uncharged
<1>11. Settled(r)' BY <1>7 DEF Settled, Unaccepted
<1>12. InHandler(w)' => job'[w].r = r BY <1>2, <1>3
<1>13. RequestInv'
  BY <1>1, <1>2, <1>6, <1>8, <1>9, <1>10, <1>11, <1>12, OwnStep DEF JobType
<1> QED BY <1>5, <1>13

-----------------------------------------------------------------------------
(* Every step preserves the invariant, action by action.                    *)

(* A zone that is skipped, or looked up, with or without a node.            *)
LEMMA LookupStep ==
  ASSUME IInv, NEW w \in Workers, SkipZone(w) \/ LookupFound(w) \/ LookupMissing(w)
  PROVE  IInv'
<1>1. SharedInv /\ JobType /\ PcType /\ PlaceType /\ RequestInv /\ ChargesType
  BY DEF IInv, RestType, SharedInv, SharedType, ChargesType
<1>2. UNCHANGED <<now, clock, scenario, status, timer, statsvars>>
  BY DEF SkipZone, LookupFound, LookupMissing
<1>3. SharedInv'
  <2>1. CASE SkipZone(w)
    <3>1. UNCHANGED <<shared, ctxNode>> BY <2>1 DEF SkipZone
    <3> QED BY <1>1, <3>1, SharedKept
  <2>2. CASE LookupFound(w) BY <1>1, <2>2, FoundShared
  <2>3. CASE LookupMissing(w) BY <1>1, <2>3, MissingShared
  <2> QED BY <2>1, <2>2, <2>3
<1>4. PICK rc \in {"BUSY", "ERROR", "OK"} \cup Rcs, e \in Nat :
        /\ Answer(w, rc, e) /\ InLookup(w)
        /\ \A z \in Zones : Keeps(z) \/ (rc = "OK" /\ z = job[w].n /\ ChargesAt(z, job[w].r))
  <2>1. CASE SkipZone(w)
    <3>1. InLookup(w) /\ Answer(w, job[w].rc, 0) /\ charges' = charges
      BY <2>1 DEF SkipZone, shared
    <3>2. job[w].rc \in Rcs BY <1>1 DEF JobType, Job
    <3>3. \A z \in Zones : Keeps(z) BY <3>1 DEF Keeps
    <3> QED BY <3>1, <3>2, <3>3
  <2>2. CASE LookupFound(w) BY <1>1, <2>2, FoundCharges
  <2>3. CASE LookupMissing(w) BY <1>1, <2>3, MissingCharges
  <2> QED BY <2>1, <2>2, <2>3
<1>5. UNCHANGED clock /\ UNCHANGED status BY <1>2
<1>6. /\ JobType' /\ PcType' /\ Outcome(w, rc)
      /\ \A v \in Workers \ {w} : pc'[v] = pc[v] /\ job'[v] = job[v]
  BY <1>1, <1>4, <1>5, AnswerStep
<1>7. RequestInv' /\ PlaceType' BY <1>1, <1>4, <1>5, <1>6, LookupRequests
<1>8. RestType'
  BY <1>2, <1>6, <1>7 DEF IInv, RestType, StatusType, TimerType, StatsType, statsvars
<1> QED BY <1>3, <1>6, <1>7, <1>8 DEF IInv

(* A handler that ends without an answer of the loop.                       *)
LEMMA EndStep ==
  ASSUME IInv, NEW w \in Workers, KeyFails(w) \/ Refuse(w) \/ Pass(w) \/ Postpone(w)
  PROVE  IInv'
<1>1. UNCHANGED <<now, clock, scenario, statsvars>> /\ UNCHANGED <<shared, ctxNode>> /\ UNCHANGED charges
  BY DEF KeyFails, Refuse, Pass, Postpone, shared
<1>2. SharedInv' BY <1>1, SharedKept DEF IInv
<1>3. InHandler(w) /\ job[w].r \in Requests /\ clock[w] + job[w].delay \in Nat /\ job[w].limit \in Zones
  <2>1. job[w] \in Job /\ clock[w] \in Nat BY DEF IInv, JobType
  <2>2. job[w].delay \in Nat /\ job[w].r \in Requests /\ job[w].limit \in Zones BY <2>1 DEF Job
  <2>3. clock[w] + job[w].delay \in Nat BY <2>1, <2>2
  <2> QED BY <2>2, <2>3 DEF KeyFails, Refuse, Pass, Postpone, InHandler, InLookup
<1>4. TimerType'
  <2> DEFINE t == [worker |-> w, due |-> clock[w] + job[w].delay, limit |-> job[w].limit]
  <2>1. timer' = timer \/ timer' = [timer EXCEPT ![job[w].r] = t]
    BY DEF KeyFails, Refuse, Pass, Postpone
  <2>2. t \in [worker : Workers, due : Nat, limit : Zones] BY <1>3
  <2> HIDE DEF t
  <2> QED BY <1>3, <2>1, <2>2 DEF IInv, RestType, TimerType
<1>5. JobType' /\ PcType' /\ StatusType' /\ PlaceType' /\ RequestInv'
  <2>1. CASE KeyFails(w)
    <3>1. status[job[w].r] = "none" BY <1>3 DEF IInv, RequestInv, Limited
    <3>2. status' = status BY <2>1 DEF KeyFails
    <3>3. status' = [status EXCEPT ![job[w].r] = "none"]
      BY <1>3, <3>1, <3>2 DEF IInv, RestType, StatusType
    <3>4. Leaves(w, "none", "failed") BY <2>1, <3>3 DEF KeyFails, Leaves
    <3>5. pc[w] # "account" BY <2>1 DEF KeyFails, InLookup
    <3> QED BY <1>1, <1>3, <3>4, <3>5, LeavesStep DEF Statuses, Places
  <2>2. CASE Refuse(w)
    <3>1. pc[w] # "account" BY <2>2 DEF Refuse
    <3>2. Leaves(w, "rejected_dry_run", "served") \/ Leaves(w, "rejected", "refused")
      BY <2>2 DEF Refuse, Finish, Leaves
    <3> QED BY <1>1, <1>3, <3>1, <3>2, LeavesStep DEF Statuses, Places
  <2>3. CASE Pass(w)
    <3>1. Leaves(w, "passed", "served") BY <2>3 DEF Pass, Finish, Leaves
    <3> QED BY <1>1, <1>3, <3>1, LeavesStep DEF Statuses, Places
  <2>4. CASE Postpone(w)
    <3>1. \/ Leaves(w, "delayed_dry_run", "served") \/ Leaves(w, "delayed", "waiting")
          \/ Leaves(w, "delayed", "failed")
      BY <2>4 DEF Postpone, Finish, Leaves
    <3> QED BY <1>1, <1>3, <3>1, LeavesStep DEF Statuses, Places
  <2> QED BY <2>1, <2>2, <2>3, <2>4
<1>6. RestType' BY <1>1, <1>4, <1>5 DEF IInv, RestType, StatsType, statsvars
<1> QED BY <1>2, <1>5, <1>6 DEF IInv

(* A reference is given back, of a request that is refused.                 *)
LEMMA RollBackStep ==
  ASSUME IInv, NEW w \in Workers, RollBack(w)
  PROVE  IInv'
<1> DEFINE nj == [job[w] EXCEPT !.n = @ - 1]
<1>1. /\ pc[w] = "reject" /\ job[w].n > 0 /\ UNCHANGED <<clock, pc, status, place>>
      /\ UNCHANGED <<now, pc, charges, scenario, requestvars, statsvars>>
      /\ job' = [job EXCEPT ![w].n = @ - 1]
  BY DEF RollBack, requestvars
<1>2. SharedInv' BY RollBackShared DEF IInv
<1>3. job[w] \in Job /\ job \in [Workers -> Job] BY DEF IInv, JobType
<1>4. job[w].n - 1 \in 0..Len(Limits)
  <2>1. job[w].n \in 0..Len(Limits) /\ Len(Limits) \in Nat BY <1>3, ZonesType DEF Job, Last
  <2> QED BY <1>1, <2>1
<1>5. nj \in Job /\ nj.n = job[w].n - 1 /\ nj.r = job[w].r BY <1>3, <1>4 DEF Job
<1>6. job' = [job EXCEPT ![w] = nj] BY <1>1, <1>3
<1>7. \A z \in Zones : Keeps(z) BY <1>1 DEF Keeps
<1> HIDE DEF nj
<1>8. JobType' /\ RequestInv' BY <1>1, <1>5, <1>6, <1>7, ZoneStep
<1>9. RestType'
  BY <1>1 DEF IInv, RestType, PcType, StatusType, PlaceType, TimerType, StatsType, requestvars, statsvars
<1> QED BY <1>2, <1>8, <1>9 DEF IInv

(* A zone before the last is charged.                                       *)
LEMMA AccountStep ==
  ASSUME IInv, NEW w \in Workers, Account(w)
  PROVE  IInv'
<1> DEFINE z == job[w].n
           k == ctxNode[w][z]
           ch == Charged(z, node[z][k], clock[w])
           delay == Delay(z, ch.excess)
           one == [job[w] EXCEPT !.n = @ - 1]
           two == [job[w] EXCEPT !.n = z - 1, !.delay = delay, !.limit = z]
           three == [job[w] EXCEPT !.n = z - 1]
<1>1. /\ pc[w] = "account" /\ z > 0 /\ UNCHANGED <<clock, pc, status, place>>
      /\ UNCHANGED <<now, pc, scenario, requestvars, statsvars>>
  BY DEF Account, requestvars
<1>2. SharedInv' BY AccountShared DEF IInv
<1>3. job[w] \in Job /\ job \in [Workers -> Job] /\ clock[w] \in Nat BY DEF IInv, JobType
<1>4. z - 1 \in 0..Len(Limits) /\ z \in Zones
  <2>1. z \in 0..Len(Limits) /\ Len(Limits) \in Nat /\ Zones = 1..Len(Limits)
    BY <1>3, ZonesType DEF Job, Last
  <2> QED BY <1>1, <2>1
<1>5. \/ k = NoKey /\ job' = [job EXCEPT ![w].n = @ - 1] /\ UNCHANGED <<node, charges>>
      \/ /\ k # NoKey /\ charges' = Charge(z, k, job[w].r, ch)
         /\ job' = [job EXCEPT ![w] = IF delay > @.delay THEN two ELSE three]
  BY <1>3 DEF Account
<1>6. RestType'
  BY <1>1 DEF IInv, RestType, PcType, StatusType, PlaceType, TimerType, StatsType, requestvars, statsvars
<1>7. CASE k = NoKey /\ job' = [job EXCEPT ![w].n = @ - 1] /\ UNCHANGED <<node, charges>>
  <2>1. one \in Job /\ one.n = z - 1 /\ one.r = job[w].r BY <1>3, <1>4 DEF Job
  <2>2. job' = [job EXCEPT ![w] = one] BY <1>3, <1>7
  <2>3. \A y \in Zones : Keeps(y) BY <1>7 DEF Keeps
  <2> HIDE DEF one
  <2>4. JobType' /\ RequestInv' BY <1>1, <2>1, <2>2, <2>3, ZoneStep
  <2> QED BY <1>2, <1>6, <2>4 DEF IInv
<1>8. CASE /\ k # NoKey /\ charges' = Charge(z, k, job[w].r, ch)
           /\ job' = [job EXCEPT ![w] = IF delay > @.delay THEN two ELSE three]
  <2>1. k \in Keys /\ node[z][k] \in Node BY <1>4, <1>8, CountPositive DEF IInv
  <2>2. ch \in Node BY <1>3, <1>4, <2>1, ChargedType
  <2>3. delay \in Nat /\ ch.last \in Nat
    <3>1. ch.excess \in Nat /\ ch.last \in Nat BY <2>2 DEF Node
    <3> QED BY <1>4, <3>1, DelayType
  <2>4. charges' = Charge(z, k, job[w].r, ch) /\ job[w].r \in Requests BY <1>3, <1>8 DEF Job
  <2> HIDE DEF delay, ch
  <2>5. two \in Job /\ two.n = z - 1 /\ two.r = job[w].r BY <1>3, <1>4, <2>3 DEF Job
  <2>6. three \in Job /\ three.n = z - 1 /\ three.r = job[w].r BY <1>3, <1>4 DEF Job
  <2> HIDE DEF two, three
  <2> DEFINE nj == IF delay > job[w].delay THEN two ELSE three
             c == [req |-> job[w].r, last |-> ch.last]
  <2>7. nj \in Job /\ nj.n = z - 1 /\ nj.r = job[w].r BY <2>5, <2>6
  <2>8. job' = [job EXCEPT ![w] = nj] BY <1>8
  <2>9. \A y \in Zones : Keeps(y) \/ (y = z /\ ChargesAt(y, job[w].r))
    <3>1. SharedInv BY DEF IInv
    <3> HIDE DEF k, z, c
    <3>2. \A y \in Zones : \A i \in Keys :
            charges'[y][i] = IF y = z /\ i = k
                             THEN Append(charges[z][k], [req |-> job[w].r, last |-> ch.last])
                             ELSE charges[y][i]
      BY <1>4, <2>1, <2>2, <2>4, <3>1, ChargeStep
    <3>3. c \in ChargeRecord /\ c.req = job[w].r BY <2>3, <2>4 DEF ChargeRecord, c
    <3>4. Adds(z, k, c) BY <1>4, <2>1, <3>2 DEF Adds, c
    <3>5. \A y \in Zones : y # z => Keeps(y) BY <3>2 DEF Keeps
    <3>6. ChargesAt(z, job[w].r) BY <2>1, <3>3, <3>4 DEF ChargesAt
    <3> QED BY <3>5, <3>6
  <2> HIDE DEF nj
  <2>10. JobType' /\ RequestInv' BY <1>1, <2>7, <2>8, <2>9, ZoneStep
  <2> QED BY <1>2, <1>6, <2>10 DEF IInv
<1> QED BY <1>5, <1>7, <1>8

(* A request arrives: it has no status, and its zones are looked up.        *)
LEMMA ArriveStep ==
  ASSUME IInv, NEW w \in Workers, NEW r \in Requests, NEW keys \in KeyChoices, Arrive(w, r, keys)
  PROVE  IInv'
<1> DEFINE nj == [r |-> r, keys |-> keys, n |-> 1, rc |-> "DECLINED", delay |-> 0, limit |-> 1]
<1>1. /\ pc[w] = "idle" /\ place[r] = "new" /\ Handler(w, r, keys)
      /\ UNCHANGED <<now, clock, scenario, status, timer, statsvars>> /\ UNCHANGED <<shared, ctxNode>>
      /\ UNCHANGED charges
  BY DEF Arrive, InBatch, shared
<1>2. SharedInv' BY <1>1, SharedKept DEF IInv
<1>3. JobType /\ PcType /\ StatusType /\ PlaceType /\ RequestInv /\ ChargesType
  BY DEF IInv, RestType, SharedInv, SharedType, ChargesType
<1>4. status[r] = "none" /\ \A z \in Zones : Uncharged(z, r)
  BY <1>1, <1>3 DEF RequestInv, Settled, Unaccepted
<1>5. /\ place' = [place EXCEPT ![r] = "handled"] /\ pc' = [pc EXCEPT ![w] = "lookup"]
      /\ job' = [job EXCEPT ![w] = nj]
  BY <1>1, <1>4 DEF Handler
<1>6. nj \in Job /\ nj.n = 1 /\ nj.r = r /\ 1 \in Zones
  <2>1. 1 \in 0..Len(Limits) /\ 1 \in Zones BY ZonesType DEF Last
  <2> QED BY <2>1 DEF Job, Rcs
<1> HIDE DEF nj
<1>7. PcType' /\ pc'[w] = "lookup" /\ \A v \in Workers \ {w} : pc'[v] = pc[v]
  BY <1>3, <1>5 DEF PcType, Pcs
<1>8. job' \in [Workers -> Job] /\ job'[w] = nj /\ \A v \in Workers \ {w} : job'[v] = job[v]
  BY <1>3, <1>5, <1>6 DEF JobType
<1>9. JobType' BY <1>1, <1>3, <1>6, <1>7, <1>8 DEF JobType
<1>10. PlaceType' /\ place'[r] = "handled" /\ \A q \in Requests \ {r} : place'[q] = place[q]
  BY <1>3, <1>5 DEF PlaceType, Places
<1>11. Frame(w, r) BY <1>1, <1>7, <1>8, <1>10 DEF Frame
<1>12. \A z \in Zones : Keeps(z) BY <1>1 DEF Keeps
<1>13. Effect(r) BY <1>12 DEF Effect
<1>14. \A z \in Zones : Uncharged(z, r)' BY <1>3, <1>4, <1>12, KeepsStep
<1>15. job'[w].r = r /\ status'[r] = "none" BY <1>1, <1>4, <1>6, <1>8
<1>16. Limited(w)' BY <1>10, <1>14, <1>15 DEF Limited, Uncharged
<1>17. Settled(r)' BY <1>10, <1>14, <1>15 DEF Settled
<1>18. RequestInv'
  BY <1>1, <1>3, <1>11, <1>13, <1>15, <1>16, <1>17, OwnStep DEF JobType
<1>19. RestType'
  BY <1>1, <1>7, <1>10 DEF IInv, RestType, StatusType, TimerType, StatsType, statsvars
<1> QED BY <1>2, <1>9, <1>18, <1>19 DEF IInv

(* A request stops waiting: it is served, or fails, or its client has gone. *)
LEMMA ReleaseStep ==
  ASSUME IInv, NEW w \in Workers, NEW r \in Requests, Release(w, r) \/ WakeFails(w, r) \/ ClientCloses(w, r)
  PROVE  /\ IInv' /\ place[r] = "waiting"
         /\ \A q \in Requests \ {r} : place'[q] = place[q]
         /\ place'[r] \in {"served", "failed", "closed"}
<1>1. /\ place[r] = "waiting" /\ UNCHANGED <<now, clock, scenario, status, timer, statsvars>>
      /\ UNCHANGED <<shared, ctxNode>> /\ UNCHANGED charges
  BY DEF Release, WakeFails, ClientCloses, shared
<1>2. SharedInv' BY <1>1, SharedKept DEF IInv
<1>3. status[r] # "none" BY <1>1 DEF IInv, RequestInv, Settled
<1>4. PICK pl \in {"served", "failed", "closed"} :
        place' = [place EXCEPT ![r] = pl] /\ UNCHANGED <<pc, job>>
  BY <1>3 DEF Release, WakeFails, ClientCloses, Handler
<1>5. PlaceType' /\ place'[r] = pl /\ \A q \in Requests \ {r} : place'[q] = place[q]
  BY <1>4 DEF IInv, RestType, PlaceType, Places
<1>6. Quiet BY <1>1, <1>4, <1>5 DEF Quiet
<1>7. RequestInv' BY <1>6, QuietRequests DEF IInv, JobType
<1>8. JobType' BY <1>1, <1>4 DEF IInv, JobType
<1>9. RestType'
  BY <1>1, <1>4, <1>5 DEF IInv, RestType, PcType, StatusType, TimerType, StatsType, statsvars
<1> QED BY <1>1, <1>2, <1>4, <1>5, <1>7, <1>8, <1>9 DEF IInv

(* Time passes, or a worker reads it.                                       *)
LEMMA TimeStep ==
  ASSUME IInv, \/ \E t \in scenario.ticks : Tick(t)
               \/ \E w \in Workers : UpdateTime(w)
  PROVE  IInv'
<1>1. /\ UNCHANGED <<pc, job, scenario, requestvars, statsvars>> /\ UNCHANGED <<shared, ctxNode>>
      /\ UNCHANGED <<status, place, timer, charges, view, level, polls>>
  BY DEF Tick, UpdateTime, shared, requestvars, statsvars
<1>2. SharedInv' BY <1>1, SharedKept DEF IInv
<1>3. now' \in Nat /\ clock' \in [Workers -> Nat]
  <2>1. now \in Nat /\ clock \in [Workers -> Nat] /\ scenario \in Scenario
    BY BoundsAssumption DEF IInv, RestType, JobType
  <2>2. CASE \E t \in scenario.ticks : Tick(t)
    <3>1. PICK t \in scenario.ticks : Tick(t) BY <2>2
    <3>2. t \in Nat BY <2>1 DEF Scenario
    <3> QED BY <2>1, <3>1, <3>2 DEF Tick
  <2>3. CASE \E w \in Workers : UpdateTime(w) BY <2>1, <2>3 DEF UpdateTime
  <2> QED BY <2>2, <2>3
<1>4. Quiet BY <1>1 DEF Quiet
<1>5. RequestInv' BY <1>4, QuietRequests DEF IInv, JobType
<1>6. JobType' BY <1>1, <1>3 DEF IInv, JobType
<1>7. RestType'
  BY <1>1, <1>3 DEF IInv, RestType, PcType, StatusType, PlaceType, TimerType, StatsType
<1> QED BY <1>2, <1>5, <1>6, <1>7 DEF IInv

(* The level that is computed from what was read is a number of requests.   *)
LEMMA LevelType ==
  ASSUME NEW z \in Zones, NEW last \in Nat, NEW excess \in Nat, NEW t \in Nat
  PROVE  StatsLevel(z, last, excess, t) \in Nat
<1> DEFINE p == Limits[z].rate * (t - last)
           m == p % Word
           leaked == m \div 1000
<1>1. p \in Int
  <2>1. Limits[z].rate \in Nat BY LimitsType
  <2> QED BY <2>1
<1> HIDE DEF p
<1>2. m \in Nat BY <1>1, LimitsAssumption
<1> HIDE DEF m
<1>3. leaked \in Nat BY <1>2
<1> HIDE DEF leaked
<1>4. StatsLevel(z, last, excess, t) = IF excess > leaked THEN (excess - leaked + 1000) \div 1000 ELSE 0
  BY DEF StatsLevel, leaked, m, p
<1>5. CASE excess > leaked
  <2>1. excess - leaked + 1000 \in Nat BY <1>3, <1>5
  <2> QED BY <1>4, <1>5, <2>1
<1>6. CASE ~(excess > leaked) BY <1>4, <1>6
<1> QED BY <1>5, <1>6

(* A worker answers a status request.                                       *)
LEMMA StatsStep ==
  ASSUME IInv, NEW w \in Workers, StatsStart(w) \/ StatsLast(w) \/ StatsExcess(w)
  PROVE  IInv'
<1>1. /\ UNCHANGED <<now, clock, job, scenario, requestvars>> /\ UNCHANGED <<shared, ctxNode>>
      /\ UNCHANGED <<status, place, timer, charges>>
  BY DEF StatsStart, StatsLast, StatsExcess, shared, requestvars
<1>2. SharedInv' BY <1>1, SharedKept DEF IInv
<1>3. PICK p \in {"idle", "last", "excess"} :
        pc' = [pc EXCEPT ![w] = p] /\ ~InHandler(w)
  <2>1. CASE StatsStart(w) BY <2>1 DEF StatsStart, InBatch, InHandler
  <2>2. CASE StatsLast(w) BY <2>2 DEF StatsLast, InHandler
  <2>3. CASE StatsExcess(w)
    <3>1. pc[w] = "excess" /\ (pc' = [pc EXCEPT ![w] = "last"] \/ pc' = [pc EXCEPT ![w] = "idle"])
      BY <2>3 DEF StatsExcess
    <3> QED BY <3>1 DEF InHandler
  <2> QED BY <2>1, <2>2, <2>3
<1>4. PcType' /\ pc'[w] = p /\ \A v \in Workers \ {w} : pc'[v] = pc[v]
  BY <1>3 DEF IInv, RestType, PcType, Pcs
<1>5. Quiet BY <1>1, <1>3, <1>4 DEF Quiet, InHandler
<1>6. RequestInv' BY <1>5, QuietRequests DEF IInv, JobType
<1>7. JobType' BY <1>1, <1>3, <1>4 DEF IInv, JobType
<1>8. StatsType'
  <2> DEFINE View == [zone : Zones, key : Keys \cup {NoKey}, last : Nat, waiting : SUBSET Requests]
  <2>1. /\ view \in [Workers -> View] /\ level \in [Workers -> Nat] /\ polls \in Nat
        /\ 0 \in Nat /\ clock[w] \in Nat
    BY DEF IInv, RestType, StatsType, JobType
  <2>2. /\ view[w] \in View /\ view[w].zone \in Zones /\ view[w].last \in Nat
        /\ view[w].key \in Keys \cup {NoKey}
    BY <2>1
  <2>3. NoView \in View /\ [NoView EXCEPT !.waiting = Waiting] \in View
    <3>1. 1 \in Zones BY ZonesType
    <3>2. Waiting \subseteq Requests BY DEF Waiting
    <3> QED BY <3>1, <3>2 DEF NoView
  <2>4. \A z \in Zones : \A k \in DOMAIN node[z] :
          k \in Keys /\ node[z][k].last \in Nat /\ node[z][k].excess \in Nat
    BY DEF IInv, SharedInv, SharedType, NodeType, Node
  <2>5. CASE StatsStart(w)
    <3>1. polls' = polls + 1 /\ level' = [level EXCEPT ![w] = 0]
          /\ view' = [view EXCEPT ![w] = [NoView EXCEPT !.waiting = Waiting]]
      BY <2>5 DEF StatsStart
    <3>2. polls' \in Nat /\ level' \in [Workers -> Nat] BY <2>1, <3>1
    <3>3. view' \in [Workers -> View] BY <2>1, <2>3, <3>1
    <3> QED BY <3>2, <3>3 DEF StatsType
  <2>6. CASE StatsLast(w)
    <3>1. level' = level /\ polls' = polls BY <2>6 DEF StatsLast
    <3>2. PICK k \in Keys \cup {NoKey}, last \in Nat :
            view' = [view EXCEPT ![w] = [view[w] EXCEPT !.key = k, !.last = last]]
      BY <2>1, <2>2, <2>4, <2>6 DEF StatsLast
    <3>3. [view[w] EXCEPT !.key = k, !.last = last] \in View BY <2>2
    <3>4. view' \in [Workers -> View] BY <2>1, <3>2, <3>3
    <3> QED BY <2>1, <3>1, <3>4 DEF StatsType
  <2>7. CASE StatsExcess(w)
    <3> DEFINE z == view[w].zone
    <3>1. StatsRead(w) \subseteq Nat
      <4>1. Limits[z].burst \in Nat BY <2>2, LimitsType
      <4> QED BY <2>2, <2>4, <4>1 DEF StatsRead
    <3>2. polls' = polls /\ level' \in [Workers -> Nat]
      <4>1. PICK excess \in StatsRead(w) :
              level' = [level EXCEPT ![w] =
                          IF StatsLevel(z, view[w].last, excess, clock[w]) = 0 THEN @
                          ELSE StatsLevel(z, view[w].last, excess, clock[w])]
        BY <2>7 DEF StatsExcess
      <4>2. StatsLevel(z, view[w].last, excess, clock[w]) \in Nat
        BY <2>1, <2>2, <3>1, LevelType
      <4>3. polls' = polls BY <2>7 DEF StatsExcess
      <4> QED BY <2>1, <4>1, <4>2, <4>3
    <3>3. view' \in [Workers -> View]
      <4>1. CASE z < Last
        <5>1. view' = [view EXCEPT ![w] = [view[w] EXCEPT !.zone = z + 1]]
          BY <2>1, <2>7, <4>1 DEF StatsExcess
        <5>2. z + 1 \in Zones BY <2>2, <4>1, ZonesType
        <5>3. [view[w] EXCEPT !.zone = z + 1] \in View BY <2>2, <5>2
        <5> QED BY <2>1, <5>1, <5>3
      <4>2. CASE ~(z < Last)
        <5>1. view' = [view EXCEPT ![w] = NoView] BY <2>7, <4>2 DEF StatsExcess
        <5> QED BY <2>1, <2>3, <5>1
      <4> QED BY <4>1, <4>2
    <3> QED BY <2>1, <3>2, <3>3 DEF StatsType
  <2> QED BY <2>5, <2>6, <2>7
<1>9. RestType'
  BY <1>1, <1>4, <1>8 DEF IInv, RestType, StatusType, PlaceType, TimerType
<1> QED BY <1>2, <1>6, <1>7, <1>9 DEF IInv

(* The invariant holds when the proxy starts.                               *)
LEMMA InitIInv == Init => IInv
<1> SUFFICES ASSUME Init PROVE IInv
  OBVIOUS
<1>1. SharedInv
  <2>1. NodeType BY DEF Init, NodeType
  <2>2. PointerType BY DEF Init, PointerType
  <2>3. queue \in [Zones -> Seq(Keys)] BY EmptySeq DEF Init
  <2>4. charges \in [Zones -> [Keys -> Seq(ChargeRecord)]]
    <3>1. <<>> \in Seq(ChargeRecord) BY EmptySeq
    <3> QED BY <3>1 DEF Init
  <2>5. lost \in [Zones -> [Keys -> Nat]] BY DEF Init
  <2>6. \A z \in Zones : DOMAIN node[z] = {} BY DEF Init
  <2>7. QueueMatchesTree
    <3> SUFFICES ASSUME NEW z \in Zones
                 PROVE  /\ Members(queue[z]) = {} /\ Len(queue[z]) <= MaxNodes
                        /\ \A i, j \in 1..Len(queue[z]) : queue[z][i] = queue[z][j] => i = j
      BY <2>6 DEF QueueMatchesTree
    <3>1. Len(queue[z]) = 0 BY EmptySeq DEF Init
    <3>2. MaxNodes \in Nat BY LimitsAssumption
    <3> QED BY <3>1, <3>2 DEF Members
  <2>8. ReferencesCounted BY <2>6 DEF Init, ReferencesCounted
  <2>9. Forgotten BY DEF Init, Forgotten
  <2>10. LastUnreferenced BY ZonesType DEF Init, LastUnreferenced
  <2> QED BY <2>1, <2>2, <2>3, <2>4, <2>5, <2>7, <2>8, <2>9, <2>10 DEF SharedInv, SharedType
<1>2. JobType BY NoJobType, BoundsAssumption DEF Init, JobType
<1>3. RestType
  <2>1. NoTimer \in [worker : Workers, due : Nat, limit : Zones]
    <3>1. (CHOOSE w \in Workers : TRUE) \in Workers /\ 1 \in Zones BY KeysAssumption, ZonesType
    <3> QED BY <3>1 DEF NoTimer
  <2>2. NoView \in [zone : Zones, key : Keys \cup {NoKey}, last : Nat, waiting : SUBSET Requests]
    <3>1. 1 \in Zones BY ZonesType
    <3> QED BY <3>1 DEF NoView
  <2>3. PcType /\ StatusType /\ PlaceType
    BY DEF Init, PcType, StatusType, PlaceType, Pcs, Statuses, Places
  <2>4. TimerType /\ StatsType BY <2>1, <2>2 DEF Init, TimerType, StatsType
  <2> QED BY <2>3, <2>4, BoundsAssumption DEF Init, RestType
<1>4. RequestInv
  <2>1. \A z \in Zones, k \in Keys : Len(charges[z][k]) = 0 BY EmptySeq DEF Init
  <2>2. \A z \in Zones : OnceIn(z) BY <2>1 DEF OnceIn
  <2>3. \A z \in Zones : \A r : Uncharged(z, r) BY <2>1 DEF Uncharged
  <2>4. \A w \in Workers : ~InHandler(w) BY DEF Init, InHandler
  <2>5. \A r \in Requests : place[r] = "new" /\ status[r] = "none" BY DEF Init
  <2>6. \A r \in Requests : Settled(r) BY <2>3, <2>5 DEF Settled
  <2> QED BY <2>2, <2>4, <2>6 DEF RequestInv, Limited, Alone
<1> QED BY <1>1, <1>2, <1>3, <1>4 DEF IInv

(* Every step preserves it.                                                 *)
LEMMA NextIInv == IInv /\ [Next]_vars => IInv'
<1> SUFFICES ASSUME IInv, [Next]_vars PROVE IInv'
  OBVIOUS
<1>1. CASE \E t \in scenario.ticks : Tick(t) BY <1>1, TimeStep
<1>2. ASSUME NEW w \in Workers, Worker(w) \/ Failure(w) PROVE IInv'
  <2>1. CASE UpdateTime(w) BY <2>1, TimeStep
  <2>2. CASE \E r \in Requests, keys \in KeyChoices : Arrive(w, r, keys) BY <2>2, ArriveStep
  <2>3. CASE \E r \in Requests : Release(w, r) \/ WakeFails(w, r) \/ ClientCloses(w, r) BY <2>3, ReleaseStep
  <2>4. CASE SkipZone(w) \/ LookupFound(w) \/ LookupMissing(w) BY <2>4, LookupStep
  <2>5. CASE RollBack(w) BY <2>5, RollBackStep
  <2>6. CASE Account(w) BY <2>6, AccountStep
  <2>7. CASE KeyFails(w) \/ Refuse(w) \/ Pass(w) \/ Postpone(w) BY <2>7, EndStep
  <2>8. CASE StatsStart(w) \/ StatsLast(w) \/ StatsExcess(w) BY <2>8, StatsStep
  <2> QED BY <1>2, <2>1, <2>2, <2>3, <2>4, <2>5, <2>6, <2>7, <2>8 DEF Worker, Failure
<1>3. CASE UNCHANGED vars
  <2>1. UNCHANGED <<now, clock, pc, job, ctxNode, scenario>> /\ UNCHANGED <<shared, ctxNode>>
        /\ UNCHANGED <<status, place, timer, view, level, polls, charges>>
    BY <1>3 DEF vars, shared, requestvars, statsvars
  <2>2. SharedInv' BY <2>1, SharedKept DEF IInv
  <2>3. Quiet BY <2>1 DEF Quiet
  <2>4. RequestInv' BY <2>3, QuietRequests DEF IInv, JobType
  <2>5. JobType' BY <2>1 DEF IInv, JobType
  <2>6. RestType'
    BY <2>1 DEF IInv, RestType, PcType, StatusType, PlaceType, TimerType, StatsType
  <2> QED BY <2>2, <2>4, <2>5, <2>6 DEF IInv
<1> QED BY <1>1, <1>2, <1>3 DEF Next

-----------------------------------------------------------------------------
(* The invariant of the shared memory, of the handlers' locals and of the   *)
(* requests, for every number of workers, zones, nodes and requests.        *)
THEOREM Inductive == Spec => []IInv
BY InitIInv, NextIInv, PTL DEF Spec

(* Every variable has its type.                                             *)
THEOREM TypeCorrect == Spec => []TypeOK
<1>1. IInv => TypeOK
  BY DEF IInv, SharedInv, SharedType, NodeType, PointerType, JobType, RestType, PcType,
         StatusType, PlaceType, TimerType, StatsType, ChargeRecord, TypeOK
<1> QED BY Inductive, <1>1, PTL

(* ngx_http_limit_req_lookup() and ngx_http_limit_req_expire() keep the     *)
(* tree and the queue of a zone together, within its memory.                *)
THEOREM TreeAndQueue == Spec => []QueueMatchesTree
<1>1. IInv => QueueMatchesTree BY DEF IInv, SharedInv
<1> QED BY Inductive, <1>1, PTL

(* lr->count is the number of workers that refer to the node, and the       *)
(* references lost; a node that a worker refers to is never freed.          *)
THEOREM NoUseAfterFree == Spec => []ReferencesCounted
<1>1. IInv => ReferencesCounted BY DEF IInv, SharedInv
<1> QED BY Inductive, <1>1, PTL

(* The handler charges a request at most once in a zone, and not at all if  *)
(* it refuses it.                                                           *)
THEOREM NeverChargedTwice == Spec => []ChargedOnce
<1>1. ASSUME IInv PROVE ChargedOnce
  <2> SUFFICES ASSUME NEW r \in Requests, NEW z \in Zones
               PROVE  /\ \A k, l \in Keys :
                           \A i \in {i \in 1..Len(charges[z][k]) : charges[z][k][i].req = r},
                              j \in {i \in 1..Len(charges[z][l]) : charges[z][l][i].req = r} :
                             k = l /\ i = j
                      /\ (\/ status[r] \in {"rejected", "rejected_dry_run"}
                          \/ status[r] = "none" /\ place[r] = "failed") =>
                         \A k \in Keys : {i \in 1..Len(charges[z][k]) : charges[z][k][i].req = r} = {}
    BY DEF ChargedOnce
  <2>1. OnceIn(z) /\ Settled(r) BY <1>1 DEF IInv, RequestInv
  <2>2. Unaccepted(r) => Uncharged(z, r) BY <2>1 DEF Settled
  <2> QED BY <2>1, <2>2 DEF OnceIn, Unaccepted, Uncharged
<1> QED BY Inductive, <1>1, PTL

(* A request that waits is served, unless it fails or its client goes: the  *)
(* handler, when it runs again, does not limit it again.                    *)
THEOREM NotLimitedTwice == Spec => WaitingIsServed
<1>1. IInv /\ [Next]_vars =>
        [\A r \in Requests : place[r] = "waiting" =>
           place'[r] \in {"waiting", "served", "failed", "closed"}]_vars
  <2> SUFFICES ASSUME IInv, Next, NEW r \in Requests, place[r] = "waiting", place'[r] # "waiting"
               PROVE  place'[r] \in {"served", "failed", "closed"}
    BY DEF vars
  <2>1. \A w \in Workers : InHandler(w) => job[w].r # r
    BY DEF IInv, RequestInv, Limited
  <2>2. PlaceType /\ JobType /\ PcType /\ SharedInv BY DEF IInv, RestType
  <2>3. PICK w \in Workers : Worker(w) \/ Failure(w)
    BY DEF Next, Tick, requestvars
  <2>4. \/ \E q \in Requests : Release(w, q) \/ WakeFails(w, q) \/ ClientCloses(w, q)
        \/ \E q \in Requests : place[q] # "waiting" /\ \E x : place' = [place EXCEPT ![q] = x]
    <3>1. ASSUME InHandler(w)
          PROVE  job[w].r \in Requests /\ place[job[w].r] # "waiting"
      BY <2>2, <3>1 DEF JobType, Job, IInv, RequestInv, Limited
    <3>2. CASE UpdateTime(w) \/ RollBack(w) \/ Account(w) \/ StatsStart(w) \/ StatsLast(w) \/ StatsExcess(w)
      BY <3>2 DEF UpdateTime, RollBack, Account, StatsStart, StatsLast, StatsExcess, requestvars
    <3>3. CASE \E q \in Requests, keys \in KeyChoices : Arrive(w, q, keys)
      <4>1. PICK q \in Requests, keys \in KeyChoices : Arrive(w, q, keys) BY <3>3
      <4>2. place[q] = "new" /\ \E x : place' = [place EXCEPT ![q] = x] BY <4>1 DEF Arrive, Handler
      <4> QED BY <4>2
    <3>4. CASE SkipZone(w) \/ LookupFound(w) \/ LookupMissing(w)
      <4>1. InLookup(w) /\ \E rc, e : Answer(w, rc, e)
        BY <3>4 DEF SkipZone, LookupFound, LookupMissing, Found, Missing
      <4>2. InHandler(w) BY <4>1 DEF InHandler, InLookup
      <4>3. PICK rc \in {"BUSY", "ERROR", "OK"} \cup Rcs, e \in Nat : Answer(w, rc, e)
        <5>1. CASE SkipZone(w)
          <6>1. job[w].rc \in Rcs /\ Answer(w, job[w].rc, 0)
            BY <2>2, <5>1 DEF JobType, Job, SkipZone
          <6> QED BY <6>1
        <5>2. CASE LookupFound(w) BY <2>2, <5>2, FoundCharges
        <5>3. CASE LookupMissing(w) BY <2>2, <5>3, MissingCharges
        <5> QED BY <3>4, <5>1, <5>2, <5>3
      <4>4. UNCHANGED clock BY <3>4 DEF SkipZone, LookupFound, LookupMissing
      <4>5. Outcome(w, rc) BY <2>2, <4>1, <4>3, <4>4, AnswerStep
      <4>6. place' = place \/ place' = [place EXCEPT ![job[w].r] = "served"] BY <4>5 DEF Outcome
      <4> QED BY <3>1, <4>2, <4>6
    <3>5. CASE KeyFails(w) \/ Refuse(w) \/ Pass(w) \/ Postpone(w)
      <4>1. InHandler(w) BY <3>5 DEF KeyFails, Refuse, Pass, Postpone, InHandler, InLookup
      <4>2. \E x : place' = [place EXCEPT ![job[w].r] = x]
        BY <3>5 DEF KeyFails, Refuse, Pass, Postpone, Finish
      <4> QED BY <3>1, <4>1, <4>2
    <3> QED BY <2>3, <3>2, <3>3, <3>4, <3>5 DEF Worker, Failure
  <2>5. CASE \E q \in Requests : Release(w, q) \/ WakeFails(w, q) \/ ClientCloses(w, q)
    <3>1. PICK q \in Requests : Release(w, q) \/ WakeFails(w, q) \/ ClientCloses(w, q) BY <2>5
    <3>2. /\ \A x \in Requests \ {q} : place'[x] = place[x]
          /\ place'[q] \in {"served", "failed", "closed"}
      BY <3>1, ReleaseStep
    <3>3. q = r BY <3>2
    <3> QED BY <3>2, <3>3
  <2>6. CASE \E q \in Requests : place[q] # "waiting" /\ \E x : place' = [place EXCEPT ![q] = x]
    BY <2>2, <2>6 DEF PlaceType
  <2> QED BY <2>4, <2>5, <2>6
<1> QED BY Inductive, <1>1, PTL DEF Spec, WaitingIsServed
=============================================================================
