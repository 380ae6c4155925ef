------------------------- MODULE LimitReqRateProofs -------------------------
(***************************************************************************)
(* The rate of LimitReq: the requests charged to a node in any interval    *)
(* are at most the burst and what leaks in it, although between the lookup *)
(* of a request and its charge other workers look up and charge too.       *)
(***************************************************************************)
EXTENDS LimitReqProofs

-----------------------------------------------------------------------------
(* The workers that refer to a node have all been admitted: each has looked *)
(* it up when its excess was within the burst. Seen from the later of a     *)
(* worker's time and lr->last, its own charge fits, and so do those of the  *)
(* workers whose time is not later, each taken from an allowance of one     *)
(* request per worker.                                                      *)
W == Cardinality(Workers)
Later(a, b) == IF a > b THEN a ELSE b
Fits(z, c, top, m) ==
  \A i \in 1..Len(c) :
    1000 * (Len(c) - i + 1) <= Limits[z].burst + 1000 * (W - m) + Leak(z, top - c[i].last)
Rivals(S, cl, t) == {v \in S : cl[v] <= t}
Admitted(z, c, last, S, cl) ==
  \A w \in S : LET top == Later(cl[w], last) IN Fits(z, c, top, Cardinality(Rivals(S, cl, top)))

(* The excess of a node is at least what the charges since any of them have *)
(* added and their time has not leaked.                                     *)
Filled(z, c, lr) ==
  \A i \in 1..Len(c) : 1000 * (Len(c) - i) <= lr.excess + Leak(z, lr.last - c[i].last)

(* The rate over every interval so far.                                     *)
Respected(z, c) ==
  \A i, j \in 1..Len(c) :
    i < j => 1000 * (j - i) <= Limits[z].burst + Overshoot(z) + Leak(z, c[j].last - c[i].last)

(* All three, of the node of a key.                                         *)
Rate(z, c, lr, S, cl) == Filled(z, c, lr) /\ Respected(z, c) /\ Admitted(z, c, lr.last, S, cl)
NodeRate(z, k) == Rate(z, charges[z][k], node[z][k], Users(z, k), clock)

-----------------------------------------------------------------------------
(* The leak: more in more time, and not more in parts than in the whole.    *)
LEMMA LeakLaws ==
  ASSUME NEW z \in Zones, NEW a \in Int, NEW b \in Int
  PROVE  /\ Leak(z, a) \in Int /\ Leak(z, 0) = 0
         /\ a <= b => Leak(z, a) <= Leak(z, b)
         /\ Leak(z, a) + Leak(z, b) <= Leak(z, a + b)
<1> DEFINE r == Limits[z].rate
           x == r * a
           y == r * b
<1>1. r \in Nat BY LimitsType
<1> HIDE DEF r
<1>2. x \in Int /\ y \in Int BY <1>1
<1>3. r * (a + b) = x + y BY <1>1
<1>4. a <= b => x <= y
  <2>1. b - a \in Nat => r * (b - a) \in Nat BY <1>1
  <2>2. r * (b - a) = y - x BY <1>1
  <2> HIDE DEF x, y
  <2> QED BY <1>2, <2>1, <2>2
<1>5. r * 0 = 0 BY <1>1
<1> HIDE DEF x, y
<1>6. x \div 1000 \in Int /\ y \div 1000 \in Int /\ (x <= y => x \div 1000 <= y \div 1000)
      /\ x \div 1000 + y \div 1000 <= (x + y) \div 1000 /\ 0 \div 1000 = 0
  BY <1>2
<1>7. /\ Leak(z, a) = x \div 1000 /\ Leak(z, b) = y \div 1000
      /\ Leak(z, a + b) = (x + y) \div 1000 /\ Leak(z, 0) = 0 \div 1000
  BY <1>3, <1>5 DEF Leak, x, y, r
<1> QED BY <1>4, <1>6, <1>7

(* There are finitely many workers, and some refer to a node.               *)
LEMMA WorkersCounted ==
  /\ W \in Nat
  /\ \A S : S \subseteq Workers => IsFiniteSet(S) /\ Cardinality(S) \in Nat /\ Cardinality(S) <= W
  /\ \A S, T : S \subseteq T /\ T \subseteq Workers => Cardinality(S) <= Cardinality(T)
  /\ \A S, w : S \subseteq Workers /\ w \in S =>
       Cardinality(S \ {w}) = Cardinality(S) - 1 /\ Cardinality(S) >= 1
<1>1. IsFiniteSet(Workers) /\ W \in Nat BY KeysAssumption, FS_CardinalityType DEF W
<1>2. ASSUME NEW S, NEW T, S \subseteq T, T \subseteq Workers
      PROVE  /\ IsFiniteSet(S) /\ IsFiniteSet(T) /\ Cardinality(S) \in Nat /\ Cardinality(T) \in Nat
             /\ Cardinality(S) <= Cardinality(T) /\ Cardinality(T) <= W
  BY <1>1, <1>2, FS_Subset, FS_CardinalityType DEF W
<1>3. ASSUME NEW S, NEW w, S \subseteq Workers, w \in S
      PROVE  Cardinality(S \ {w}) = Cardinality(S) - 1 /\ Cardinality(S) >= 1
  <2>1. IsFiniteSet(S) /\ Cardinality(S) \in Nat BY <1>2, <1>3
  <2>2. Cardinality(S) # 0 BY <1>3, <2>1, FS_EmptySet
  <2>3. Cardinality(S \ {w}) = Cardinality(S) - 1 BY <1>3, <2>1, FS_RemoveElement
  <2> QED BY <2>1, <2>2, <2>3
<1> QED BY <1>1, <1>2, <1>3

(* The times of the charges of a node are numbers.                          *)
LEMMA ChargeTimes ==
  ASSUME NEW c \in Seq(ChargeRecord)
  PROVE  Len(c) \in Nat /\ \A i \in 1..Len(c) : c[i].last \in Nat
<1>1. \A i \in 1..Len(c) : c[i] \in ChargeRecord BY ElementOfSeq
<1> QED BY <1>1, LenProperties DEF ChargeRecord

(* What fits at a time fits later, and with fewer rivals.                   *)
LEMMA FitsLater ==
  ASSUME NEW z \in Zones, NEW c \in Seq(ChargeRecord), NEW s \in Int, NEW t \in Int, s <= t,
         NEW m \in Int, NEW n \in Int, n <= m, Fits(z, c, s, m)
  PROVE  Fits(z, c, t, n)
<1> SUFFICES ASSUME NEW i \in 1..Len(c)
             PROVE  1000 * (Len(c) - i + 1) <=
                      Limits[z].burst + 1000 * (W - n) + Leak(z, t - c[i].last)
  BY DEF Fits
<1> DEFINE l == c[i].last
           a == Leak(z, s - l)
           b == Leak(z, t - l)
           h == Len(c)
           u == Limits[z].burst
<1>1. l \in Int /\ h \in Int /\ u \in Int /\ W \in Int BY ChargeTimes, LimitsType, WorkersCounted
<1>2. 1000 * (h - i + 1) <= u + 1000 * (W - m) + a BY DEF Fits
<1> HIDE DEF l, h, u
<1>3. s - l \in Int /\ t - l \in Int /\ s - l <= t - l BY <1>1
<1>4. a \in Int /\ b \in Int /\ a <= b BY <1>3, LeakLaws
<1> HIDE DEF a, b
<1>5. 1000 * (h - i + 1) <= u + 1000 * (W - n) + b BY <1>1, <1>2, <1>4
<1> QED BY <1>5 DEF b, l, h, u

(* A charge uses one place, of those that fitted at a time not before it.   *)
LEMMA FitsCharge ==
  ASSUME NEW z \in Zones, NEW c \in Seq(ChargeRecord), NEW x \in ChargeRecord,
         NEW t \in Int, x.last <= t, NEW m \in Int, m <= W, Fits(z, c, t, m)
  PROVE  Fits(z, Append(c, x), t, m - 1)
<1> DEFINE d == Append(c, x)
           h == Len(c)
           u == Limits[z].burst
<1>1. h \in Nat /\ u \in Nat /\ W \in Nat /\ x.last \in Nat
  BY ChargeTimes, LimitsType, WorkersCounted DEF ChargeRecord
<1>2. Len(d) = h + 1 /\ d[h + 1] = x /\ \A j \in 1..h : d[j] = c[j]
  BY AppendProperties
<1> HIDE DEF d
<1> SUFFICES ASSUME NEW i \in 1..(h + 1)
             PROVE  1000 * ((h + 1) - i + 1) <= u + 1000 * (W - (m - 1)) + Leak(z, t - d[i].last)
  BY <1>2 DEF Fits, d
<1> DEFINE l == d[i].last
           a == Leak(z, t - l)
<1>4. i = h + 1 \/ i \in 1..h
  <2> HIDE DEF h
  <2> QED BY <1>1
<1>5. l \in Nat BY <1>1, <1>2, <1>4, ChargeTimes
<1>6. a \in Int
  <2> HIDE DEF l
  <2>1. t - l \in Int BY <1>5
  <2> QED BY <2>1, LeakLaws
<1>7. CASE i = h + 1
  <2>1. l = x.last BY <1>2, <1>7
  <2>2. 0 <= a
    <3> HIDE DEF l
    <3>1. t - l \in Int /\ 0 <= t - l BY <1>5, <2>1
    <3> QED BY <3>1, LeakLaws
  <2> HIDE DEF a, h, u, l
  <2>3. 1000 * ((h + 1) - i + 1) = 1000 BY <1>1, <1>7
  <2>4. 1000 <= u + 1000 * (W - (m - 1)) + a BY <1>1, <1>6, <2>2
  <2>5. 1000 * ((h + 1) - i + 1) <= u + 1000 * (W - (m - 1)) + a BY <2>3, <2>4
  <2> QED BY <2>5 DEF a, u, l
<1>8. CASE i \in 1..h
  <2>1. l = c[i].last BY <1>2, <1>8
  <2>2. 1000 * (h - i + 1) <= u + 1000 * (W - m) + a BY <1>8, <2>1 DEF Fits
  <2> HIDE DEF a, h, u, l
  <2>3. 1000 * ((h + 1) - i + 1) <= u + 1000 * (W - (m - 1)) + a BY <1>1, <1>6, <1>8, <2>2
  <2> QED BY <2>3 DEF a, u, l
<1> QED BY <1>4, <1>7, <1>8

-----------------------------------------------------------------------------
(* The bucket of a node, for a worker whose time is not a minute behind it. *)

(* lr->last only moves forward: to the worker's time, or not at all.        *)
LEMMA ElapsedLater ==
  ASSUME NEW z \in Zones, NEW lr \in Node, NEW t \in Nat, lr.last - t <= 60000
  PROVE  /\ lr.last + Elapsed(lr, t) = Later(t, lr.last)
         /\ Charged(z, lr, t).last = Later(t, lr.last)
         /\ Excess(z, lr, t) >= lr.excess - Leak(z, Elapsed(lr, t)) + 1000
<1>1. lr.last \in Nat /\ lr.excess \in Nat BY DEF Node
<1>2. Elapsed(lr, t) = IF t - lr.last < 0 THEN 0 ELSE t - lr.last BY <1>1 DEF Elapsed
<1>3. Leak(z, Elapsed(lr, t)) \in Nat BY ChargedType, LeakType
<1>4. Excess(z, lr, t) >= lr.excess - Leak(z, Elapsed(lr, t)) + 1000 BY <1>1, <1>3 DEF Excess
<1>5. Charged(z, lr, t).last = IF Elapsed(lr, t) # 0 THEN t ELSE lr.last BY ChargedType
<1>6. /\ lr.last + Elapsed(lr, t) = Later(t, lr.last)
      /\ (IF Elapsed(lr, t) # 0 THEN t ELSE lr.last) = Later(t, lr.last)
  <2> DEFINE l == lr.last
             e == Elapsed(lr, t)
  <2>1. l \in Nat /\ e = IF t - l < 0 THEN 0 ELSE t - l BY <1>1, <1>2
  <2> HIDE DEF l, e
  <2>2. l + e = Later(t, l) /\ (IF e # 0 THEN t ELSE l) = Later(t, l) BY <2>1 DEF Later
  <2> QED BY <2>2 DEF l, e
<1> QED BY <1>4, <1>5, <1>6

Recent(lr, t) == lr.last - t <= 60000

(* One more request would make the excess at least what has been charged    *)
(* since any charge, with it, and has not leaked by then.                   *)
LEMMA Bucket ==
  ASSUME NEW z \in Zones, NEW c \in Seq(ChargeRecord), NEW lr \in Node, Filled(z, c, lr),
         NEW t \in Nat, Recent(lr, t), NEW i \in 1..Len(c)
  PROVE  1000 * (Len(c) - i + 1) <= Excess(z, lr, t) + Leak(z, Later(t, lr.last) - c[i].last)
<1> DEFINE h == Len(c)
           l == c[i].last
           d == lr.last
           e == Elapsed(lr, t)
           x == lr.excess
           y == Excess(z, lr, t)
           a == Leak(z, e)
           b == Leak(z, d - l)
           f == Leak(z, (d - l) + e)
<1>1. h \in Nat /\ l \in Nat BY ChargeTimes
<1>2. d \in Nat /\ x \in Nat BY DEF Node
<1>3. e \in Nat /\ y \in Nat BY ChargedType
<1>4. y >= x - a + 1000 /\ d + e = Later(t, d)
  <2>1. lr.last - t <= 60000 BY DEF Recent
  <2> QED BY <2>1, ElapsedLater
<1>5. 1000 * (h - i) <= x + b BY DEF Filled
<1>6. f = Leak(z, Later(t, d) - l)
  <2>1. (d - l) + e = Later(t, d) - l
    <3> HIDE DEF d, l, e
    <3> QED BY <1>1, <1>2, <1>3, <1>4
  <2> QED BY <2>1
<1> HIDE DEF h, l, d, e, x, y
<1>7. a \in Int /\ b \in Int /\ f \in Int /\ b + a <= f
  <2>1. d - l \in Int /\ e \in Int /\ (d - l) + e \in Int BY <1>1, <1>2, <1>3
  <2> DEFINE g == d - l
  <2> HIDE DEF g
  <2>2. g \in Int BY <2>1 DEF g
  <2>3. g + e \in Int BY <2>1 DEF g
  <2>4. Leak(z, g) \in Int /\ Leak(z, e) \in Int /\ Leak(z, g) + Leak(z, e) <= Leak(z, g + e)
    BY <2>1, <2>2, LeakLaws
  <2>5. Leak(z, g + e) \in Int BY <2>3, LeakLaws
  <2> QED BY <2>4, <2>5 DEF g
<1> HIDE DEF a, b, f
<1>8. 1000 * (h - i + 1) <= y + f BY <1>1, <1>2, <1>3, <1>4, <1>5, <1>7
<1> QED BY <1>6, <1>8 DEF h, y, d, l

(* So a request that is admitted fits, whoever else is.                     *)
LEMMA AdmittedFits ==
  ASSUME NEW z \in Zones, NEW c \in Seq(ChargeRecord), NEW lr \in Node, Filled(z, c, lr),
         NEW t \in Nat, Recent(lr, t), ~TooMany(z, Excess(z, lr, t))
  PROVE  Fits(z, c, Later(t, lr.last), W)
<1> SUFFICES ASSUME NEW i \in 1..Len(c)
             PROVE  1000 * (Len(c) - i + 1) <=
                      Limits[z].burst + 1000 * (W - W) + Leak(z, Later(t, lr.last) - c[i].last)
  BY DEF Fits
<1> DEFINE h == Len(c)
           y == Excess(z, lr, t)
           u == Limits[z].burst
           d == Later(t, lr.last) - c[i].last
           f == Leak(z, d)
<1>1. 1000 * (h - i + 1) <= y + f BY Bucket
<1>2. h \in Nat /\ y \in Nat /\ u \in Nat /\ W \in Nat
  BY ChargedType, ChargeTimes, LimitsType, WorkersCounted
<1>3. y <= u BY <1>2 DEF TooMany
<1>4. d \in Int
  <2>1. c[i].last \in Nat /\ lr.last \in Nat BY ChargeTimes DEF Node
  <2> QED BY <2>1 DEF Later
<1> HIDE DEF h, y, u, d
<1>5. f \in Int BY <1>4, LeakLaws
<1> HIDE DEF f
<1>6. 1000 * (h - i + 1) <= u + 1000 * (W - W) + f BY <1>1, <1>2, <1>3, <1>5
<1> QED BY <1>6 DEF h, u, f, d

(* The charge keeps the excess at least what was charged.                   *)
LEMMA FilledCharge ==
  ASSUME NEW z \in Zones, NEW c \in Seq(ChargeRecord), NEW lr \in Node, Filled(z, c, lr),
         NEW t \in Nat, Recent(lr, t), NEW x \in ChargeRecord, x.last = Later(t, lr.last),
         NEW new \in Node, new.excess = Excess(z, lr, t), new.last = x.last
  PROVE  Filled(z, Append(c, x), new)
<1> DEFINE d == Append(c, x)
           h == Len(c)
           y == Excess(z, lr, t)
           s == Later(t, lr.last)
<1>1. h \in Nat /\ y \in Nat BY ChargedType, ChargeTimes
<1>2. Len(d) = h + 1 /\ d[h + 1] = x /\ \A j \in 1..h : d[j] = c[j]
  BY AppendProperties
<1>3. s \in Nat /\ x.last = s /\ new.last = s /\ new.excess = y BY DEF ChargeRecord
<1> SUFFICES Filled(z, d, new)
  OBVIOUS
<1> HIDE DEF d
<1> SUFFICES ASSUME NEW i \in 1..(h + 1)
             PROVE  1000 * ((h + 1) - i) <= y + Leak(z, s - d[i].last)
  <2> HIDE DEF s, y, h
  <2> QED BY <1>2, <1>3 DEF Filled
<1>4. i = h + 1 \/ i \in 1..h
  <2> HIDE DEF h
  <2> QED BY <1>1
<1>5. CASE i = h + 1
  <2> HIDE DEF s, y
  <2>1. s - d[i].last = 0 BY <1>2, <1>3, <1>5
  <2>2. Leak(z, 0) = 0 BY LeakLaws
  <2>3. Leak(z, s - d[i].last) = 0 BY <2>1, <2>2
  <2>4. 1000 * ((h + 1) - i) = 0
    <3> HIDE DEF h
    <3> QED BY <1>1, <1>5
  <2> QED BY <1>1, <2>3, <2>4
<1>6. CASE i \in 1..h
  <2>1. 1000 * (h - i + 1) <= y + Leak(z, s - c[i].last) BY <1>6, Bucket
  <2>2. 1000 * (h - i + 1) = 1000 * ((h + 1) - i)
    <3> HIDE DEF h
    <3> QED BY <1>1, <1>6
  <2> HIDE DEF s, y, h
  <2> QED BY <1>2, <1>6, <2>1, <2>2
<1> QED BY <1>4, <1>5, <1>6

(* The rate holds up to the new charge too, if it fitted.                   *)
LEMMA RespectedCharge ==
  ASSUME NEW z \in Zones, NEW c \in Seq(ChargeRecord), Respected(z, c), NEW x \in ChargeRecord,
         NEW m \in Int, Fits(z, c, x.last, m), 1000 * (W - m) <= Overshoot(z)
  PROVE  Respected(z, Append(c, x))
<1> DEFINE d == Append(c, x)
           h == Len(c)
           u == Limits[z].burst
           v == Overshoot(z)
<1>1. h \in Nat /\ u \in Nat /\ W \in Nat /\ v \in Int /\ x.last \in Nat
  BY ChargeTimes, LimitsType, WorkersCounted DEF Overshoot, W, ChargeRecord
<1>2. Len(d) = h + 1 /\ d[h + 1] = x /\ \A j \in 1..h : d[j] = c[j]
  BY AppendProperties
<1>3. ASSUME NEW i \in 1..h
      PROVE  1000 * ((h + 1) - i) <= u + v + Leak(z, x.last - c[i].last)
  <2> DEFINE g == x.last - c[i].last
             f == Leak(z, g)
  <2>1. 1000 * (h - i + 1) <= u + 1000 * (W - m) + f BY DEF Fits
  <2>2. g \in Int BY <1>1, ChargeTimes
  <2>3. 1000 * (W - m) <= v OBVIOUS
  <2> HIDE DEF g, h, u, v
  <2>4. f \in Int BY <2>2, LeakLaws
  <2> HIDE DEF f
  <2>5. 1000 * ((h + 1) - i) <= u + v + f BY <1>1, <2>1, <2>3, <2>4
  <2> QED BY <2>5 DEF f, g
<1> SUFFICES Respected(z, d)
  OBVIOUS
<1> HIDE DEF d
<1> SUFFICES ASSUME NEW i \in 1..(h + 1), NEW j \in 1..(h + 1), i < j
             PROVE  1000 * (j - i) <= u + v + Leak(z, d[j].last - d[i].last)
  <2> HIDE DEF h
  <2> QED BY <1>2 DEF Respected
<1> HIDE DEF v
<1>4. i \in 1..h /\ (j = h + 1 \/ j \in 1..h)
  <2> HIDE DEF h
  <2> QED BY <1>1
<1>5. d[i] = c[i] BY <1>2, <1>4
<1>6. CASE j = h + 1
  <2>1. d[j].last = x.last BY <1>2, <1>6
  <2> QED BY <1>3, <1>4, <1>5, <1>6, <2>1
<1>7. CASE j \in 1..h
  <2>1. d[j] = c[j] BY <1>2, <1>7
  <2> QED BY <1>4, <1>5, <1>7, <2>1 DEF Respected, v
<1> QED BY <1>4, <1>6, <1>7

-----------------------------------------------------------------------------
(* The workers that refer to a node, as they come and go.                   *)
Clocks == [Workers -> Nat]

(* The times and the numbers of rivals.                                     *)
LEMMA RivalsType ==
  ASSUME NEW S \in SUBSET Workers, NEW cl \in Clocks, NEW last \in Nat
  PROVE  /\ \A w \in S : Later(cl[w], last) \in Nat
         /\ \A t : Rivals(S, cl, t) \subseteq Workers /\ Cardinality(Rivals(S, cl, t)) \in Nat
                   /\ Cardinality(Rivals(S, cl, t)) <= W
<1>1. \A w \in S : Later(cl[w], last) \in Nat BY DEF Later, Clocks
<1>2. \A t : Rivals(S, cl, t) \subseteq Workers BY DEF Rivals
<1> QED BY <1>1, <1>2, WorkersCounted

(* A worker gives its reference back.                                       *)
LEMMA AdmittedFewer ==
  ASSUME NEW z \in Zones, NEW c \in Seq(ChargeRecord), NEW last \in Nat,
         NEW S \in SUBSET Workers, NEW T \in SUBSET S, NEW cl \in Clocks, Admitted(z, c, last, S, cl)
  PROVE  Admitted(z, c, last, T, cl)
<1> SUFFICES ASSUME NEW w \in T
             PROVE  Fits(z, c, Later(cl[w], last), Cardinality(Rivals(T, cl, Later(cl[w], last))))
  BY DEF Admitted
<1> DEFINE t == Later(cl[w], last)
           m == Cardinality(Rivals(S, cl, t))
           n == Cardinality(Rivals(T, cl, t))
<1>1. t \in Int BY DEF Later, Clocks
<1>2. Fits(z, c, t, m) BY DEF Admitted
<1> HIDE DEF t
<1>3. T \in SUBSET Workers OBVIOUS
<1>4. m \in Int /\ n \in Int
  <2>1. m \in Nat BY RivalsType
  <2>2. n \in Nat BY <1>3, RivalsType
  <2> QED BY <2>1, <2>2
<1>5. Rivals(T, cl, t) \subseteq Rivals(S, cl, t) /\ Rivals(S, cl, t) \subseteq Workers BY DEF Rivals
<1>6. n <= m BY <1>5, WorkersCounted
<1> HIDE DEF m, n
<1>7. t <= t BY <1>1
<1>8. Fits(z, c, t, n) BY <1>1, <1>2, <1>4, <1>6, <1>7, FitsLater
<1> QED BY <1>8 DEF t, n

(* A worker is admitted: it fits, and those for whom it is a rival with it. *)
LEMMA AdmittedMore ==
  ASSUME NEW z \in Zones, NEW c \in Seq(ChargeRecord), NEW last \in Nat,
         NEW S \in SUBSET Workers, NEW cl \in Clocks, Admitted(z, c, last, S, cl),
         NEW w \in Workers, Fits(z, c, Later(cl[w], last), W)
  PROVE  Admitted(z, c, last, S \cup {w}, cl)
<1> DEFINE T == S \cup {w}
<1> SUFFICES ASSUME NEW v \in T
             PROVE  Fits(z, c, Later(cl[v], last), Cardinality(Rivals(T, cl, Later(cl[v], last))))
  BY DEF Admitted
<1> DEFINE s == Later(cl[w], last)
           t == Later(cl[v], last)
           m == Cardinality(Rivals(S, cl, t))
           n == Cardinality(Rivals(T, cl, t))
<1>1. T \in SUBSET Workers /\ v \in Workers /\ w \in T OBVIOUS
<1>2. s \in Nat /\ t \in Nat /\ cl[w] \in Nat /\ cl[v] \in Nat BY <1>1 DEF Later, Clocks
<1>3. cl[w] <= t => s <= t
  <2>1. last <= t BY <1>2 DEF Later
  <2> HIDE DEF t
  <2> QED BY <1>2, <2>1 DEF Later
<1>4. v # w => Fits(z, c, t, m) BY DEF Admitted
<1>5. v = w => s = t /\ cl[w] <= t BY <1>2 DEF Later
<1>6. Fits(z, c, s, W) OBVIOUS
<1> HIDE DEF T, s, t
<1>7. m \in Int /\ n \in Int /\ n <= W /\ W \in Int BY <1>1, RivalsType, WorkersCounted
<1>8. CASE cl[w] <= t
  <2>1. s <= t BY <1>3, <1>8
  <2> HIDE DEF m, n
  <2>2. Fits(z, c, t, n) BY <1>2, <1>6, <1>7, <2>1, FitsLater
  <2> QED BY <2>2 DEF t, n
<1>9. CASE ~(cl[w] <= t)
  <2>1. v # w BY <1>5, <1>9
  <2>2. Rivals(T, cl, t) = Rivals(S, cl, t) BY <1>9 DEF Rivals, T
  <2> QED BY <1>4, <2>1, <2>2 DEF t
<1> QED BY <1>8, <1>9

(* A worker that refers to the node charges it: it fits at its time, and    *)
(* uses one place of each of the others.                                    *)
LEMMA AdmittedCharge ==
  ASSUME NEW z \in Zones, NEW c \in Seq(ChargeRecord), NEW last \in Nat,
         NEW S \in SUBSET Workers, NEW cl \in Clocks, Admitted(z, c, last, S, cl),
         NEW v \in S, NEW x \in ChargeRecord, x.last = Later(cl[v], last)
  PROVE  Admitted(z, Append(c, x), x.last, S \ {v}, cl) /\ Fits(z, c, x.last, 1)
<1> DEFINE T == S \ {v}
           s == Later(cl[v], last)
           p == Cardinality(Rivals(S, cl, s))
<1>1. s \in Nat /\ cl[v] \in Nat /\ s = x.last /\ cl[v] <= s /\ last <= s
  BY DEF Later, Clocks
<1>2. Fits(z, c, s, p) BY DEF Admitted
<1>3. \A t : cl[v] <= t => v \in Rivals(S, cl, t) /\ Rivals(T, cl, t) = Rivals(S, cl, t) \ {v}
  BY DEF Rivals
<1> HIDE DEF s
<1>4. \A t : Rivals(S, cl, t) \subseteq Workers /\ Cardinality(Rivals(S, cl, t)) \in Nat
             /\ Cardinality(Rivals(S, cl, t)) <= W
  BY RivalsType
<1>5. p \in Nat /\ p <= W BY <1>4
<1>6. \A t : cl[v] <= t => /\ Cardinality(Rivals(T, cl, t)) = Cardinality(Rivals(S, cl, t)) - 1
                           /\ Cardinality(Rivals(S, cl, t)) >= 1
  BY <1>3, <1>4, WorkersCounted
<1>7. p >= 1 BY <1>1, <1>6
<1>8. Fits(z, c, s, 1)
  <2> HIDE DEF p
  <2>1. s <= s /\ 1 <= p /\ s \in Int /\ p \in Int /\ 1 \in Int BY <1>1, <1>5, <1>7
  <2> QED BY <1>2, <2>1, FitsLater
<1>9. ASSUME NEW w \in T
      PROVE  Fits(z, Append(c, x), Later(cl[w], s), Cardinality(Rivals(T, cl, Later(cl[w], s))))
  <2> DEFINE t == Later(cl[w], last)
             r == Later(cl[w], s)
             m == Cardinality(Rivals(S, cl, t))
  <2>1. t \in Nat /\ cl[w] \in Nat /\ last <= t /\ cl[w] <= t /\ (t = cl[w] \/ t = last)
    BY DEF Later, Clocks
  <2>2. Fits(z, c, t, m) BY DEF Admitted
  <2>3. m \in Nat /\ m <= W BY <1>4
  <2>4. CASE cl[v] <= t
    <3>1. s <= t BY <1>1, <2>1, <2>4 DEF s, Later
    <3>2. r = t BY <1>1, <2>1, <3>1 DEF Later, s
    <3>3. Cardinality(Rivals(T, cl, t)) = m - 1 BY <1>6, <2>4
    <3> HIDE DEF t, m, r
    <3>4. x.last <= t /\ t \in Int /\ m \in Int BY <1>1, <2>1, <2>3, <3>1
    <3>5. Fits(z, Append(c, x), t, m - 1) BY <2>2, <2>3, <3>4, FitsCharge
    <3> QED BY <3>2, <3>3, <3>5 DEF r
  <2>5. CASE ~(cl[v] <= t)
    <3>1. s = cl[v] /\ cl[w] < s BY <1>1, <2>1, <2>5 DEF s, Later
    <3>2. r = s BY <1>1, <2>1, <3>1 DEF Later
    <3>3. Cardinality(Rivals(T, cl, s)) = p - 1 BY <1>1, <1>6
    <3> HIDE DEF p, r
    <3>4. x.last <= s /\ s \in Int /\ p \in Int BY <1>1, <1>5
    <3>5. Fits(z, Append(c, x), s, p - 1) BY <1>2, <1>5, <3>4, FitsCharge
    <3> QED BY <3>2, <3>3, <3>5 DEF r
  <2> QED BY <2>4, <2>5
<1>10. Admitted(z, Append(c, x), x.last, T, cl) BY <1>1, <1>9 DEF Admitted
<1> QED BY <1>1, <1>8, <1>10


(* A worker reads the time, which no time is later than: what fitted for    *)
(* the worker with the latest time fits now.                                *)
LEMMA AdmittedClock ==
  ASSUME NEW z \in Zones, NEW c \in Seq(ChargeRecord), NEW last \in Nat,
         NEW S \in SUBSET Workers, NEW cl \in Clocks, Admitted(z, c, last, S, cl),
         NEW w \in Workers, NEW t \in Nat, last <= t, \A v \in Workers : cl[v] <= t
  PROVE  Admitted(z, c, last, S, [cl EXCEPT ![w] = t])
<1> DEFINE new == [cl EXCEPT ![w] = t]
<1>1. new \in Clocks /\ new[w] = t /\ \A v \in Workers \ {w} : new[v] = cl[v] BY DEF Clocks
<1> SUFFICES Admitted(z, c, last, S, new)
  OBVIOUS
<1> HIDE DEF new
<1> SUFFICES ASSUME NEW v \in S
             PROVE  Fits(z, c, Later(new[v], last), Cardinality(Rivals(S, new, Later(new[v], last))))
  BY DEF Admitted
<1> DEFINE s == Later(new[v], last)
           n == Cardinality(Rivals(S, new, s))
<1>2. n \in Nat /\ Rivals(S, new, s) \subseteq S /\ s \in Nat
  <2>1. s \in Nat BY <1>1 DEF Later, Clocks
  <2>2. Rivals(S, new, s) \subseteq S BY DEF Rivals
  <2> HIDE DEF s
  <2> QED BY <1>1, <2>1, <2>2, RivalsType
<1>3. CASE v = w
  <2> DEFINE T == {cl[u] + 1 : u \in S}
  <2>1. T \subseteq 1..(t + 1) /\ T # {} BY DEF Clocks
  <2>2. PICK i \in T : \A j \in T : j <= i
    <3> HIDE DEF T
    <3>1. t + 1 \in Nat OBVIOUS
    <3> QED BY <2>1, <3>1, HasMax
  <2>3. PICK u \in S : i = cl[u] + 1 BY <2>2
  <2>4. \A x \in S : cl[x] <= cl[u] /\ cl[x] \in Nat
    <3> SUFFICES ASSUME NEW x \in S PROVE cl[x] <= cl[u] /\ cl[x] \in Nat
      OBVIOUS
    <3>1. cl[x] + 1 \in T OBVIOUS
    <3>2. cl[x] \in Nat /\ cl[u] \in Nat BY DEF Clocks
    <3>3. cl[x] + 1 <= cl[u] + 1
      <4> HIDE DEF T
      <4> QED BY <2>2, <2>3, <3>1
    <3> QED BY <3>2, <3>3
  <2> DEFINE r == Later(cl[u], last)
             m == Cardinality(Rivals(S, cl, r))
  <2>5. r \in Nat /\ cl[u] <= r /\ r <= t BY <2>4 DEF Later
  <2>6. Fits(z, c, r, m) BY DEF Admitted
  <2>7. s = t BY <1>1, <1>3 DEF Later
  <2> HIDE DEF r, s, T
  <2>8. Rivals(S, cl, r) = S
    <3>1. \A x \in S : cl[x] <= r BY <2>4, <2>5
    <3> QED BY <3>1 DEF Rivals
  <2>9. m \in Nat /\ n <= m
    <3>1. Rivals(S, new, s) \subseteq S /\ S \subseteq Workers BY <1>2
    <3>2. Cardinality(S) \in Nat /\ n <= Cardinality(S) BY <3>1, WorkersCounted
    <3> QED BY <2>8, <3>2
  <2> HIDE DEF m, n
  <2>10. r <= s /\ r \in Int /\ s \in Int /\ m \in Int /\ n \in Int BY <1>2, <2>5, <2>7, <2>9
  <2>11. Fits(z, c, s, n) BY <2>6, <2>9, <2>10, FitsLater
  <2> QED BY <2>11 DEF s, n
<1>4. CASE v # w
  <2> DEFINE m == Cardinality(Rivals(S, cl, s))
  <2>1. new[v] = cl[v] BY <1>1, <1>4
  <2>2. Fits(z, c, s, m) BY <2>1 DEF Admitted
  <2> HIDE DEF s
  <2>3. Rivals(S, new, s) \subseteq Rivals(S, cl, s) /\ Rivals(S, cl, s) \subseteq Workers
    <3>1. ASSUME NEW x \in S, new[x] <= s PROVE cl[x] <= s
      <4>1. cl[x] \in Nat /\ cl[x] <= t BY DEF Clocks
      <4>2. CASE x = w BY <1>1, <1>2, <3>1, <4>1, <4>2
      <4>3. CASE x # w BY <1>1, <3>1, <4>3
      <4> QED BY <4>2, <4>3
    <3> QED BY <3>1 DEF Rivals
  <2>4. m \in Nat /\ n <= m
    <3>1. m \in Nat BY RivalsType
    <3> QED BY <2>3, <3>1, WorkersCounted
  <2> HIDE DEF m, n
  <2>5. s <= s /\ s \in Int /\ m \in Int /\ n \in Int BY <1>2, <2>4
  <2>6. Fits(z, c, s, n) BY <2>2, <2>4, <2>5, FitsLater
  <2> QED BY <2>6 DEF s, n
<1> QED BY <1>3, <1>4


-----------------------------------------------------------------------------
(* What the steps do to one node.                                           *)
SameLevel(lr, new) == new.excess = lr.excess /\ new.last = lr.last

(* Nothing is charged, and references may be given back.                    *)
LEMMA RateKept ==
  ASSUME NEW z \in Zones, NEW c \in Seq(ChargeRecord), NEW lr \in Node, NEW new, SameLevel(lr, new),
         NEW S \in SUBSET Workers, NEW T \in SUBSET S, NEW cl \in Clocks, Rate(z, c, lr, S, cl)
  PROVE  Rate(z, c, new, T, cl)
<1>1. lr.last \in Nat /\ new.excess = lr.excess /\ new.last = lr.last BY DEF Node, SameLevel
<1>2. Admitted(z, c, lr.last, T, cl) BY <1>1, AdmittedFewer DEF Rate
<1>3. Filled(z, c, new) BY <1>1 DEF Rate, Filled
<1> QED BY <1>1, <1>2, <1>3 DEF Rate

(* A node that has not been charged; and one that has just been made and    *)
(* charged with its first request.                                          *)
LEMMA RateFresh ==
  ASSUME NEW z \in Zones, NEW lr \in Node, NEW S, NEW cl
  PROVE  /\ Rate(z, <<>>, lr, S, cl)
         /\ \A x \in ChargeRecord : x.last = lr.last => Rate(z, <<x>>, lr, {}, cl)
<1>1. Rate(z, <<>>, lr, S, cl)
  <2>1. Len(<<>>) = 0 BY EmptySeq
  <2>2. \A i \in 1..Len(<<>>) : FALSE BY <2>1
  <2> DEFINE e == <<>>
  <2>3. \A i \in 1..Len(e) : FALSE BY <2>2
  <2> SUFFICES Rate(z, e, lr, S, cl)
    OBVIOUS
  <2> HIDE DEF e
  <2> QED BY <2>3 DEF Rate, Filled, Respected, Admitted, Fits
<1>2. ASSUME NEW x \in ChargeRecord, x.last = lr.last PROVE Rate(z, <<x>>, lr, {}, cl)
  <2> DEFINE c == <<x>>
  <2>1. Len(c) = 1 /\ c[1] = x OBVIOUS
  <2>2. lr.last \in Nat /\ lr.excess \in Nat BY DEF Node
  <2>3. Leak(z, 0) = 0 BY LeakLaws
  <2>4. lr.last - x.last = 0 /\ 1000 * (1 - 1) = 0 BY <1>2, <2>2
  <2>5. Leak(z, lr.last - x.last) = 0 BY <2>3, <2>4
  <2>6. 1000 * (1 - 1) <= lr.excess + Leak(z, lr.last - x.last) BY <2>2, <2>4, <2>5
  <2> SUFFICES Rate(z, c, lr, {}, cl)
    OBVIOUS
  <2> HIDE DEF c
  <2>7. \A i \in 1..Len(c) : i = 1 BY <2>1
  <2>8. Filled(z, c, lr) BY <2>1, <2>6, <2>7 DEF Filled
  <2>9. Respected(z, c)
    <3> SUFFICES ASSUME NEW i \in 1..Len(c), NEW j \in 1..Len(c), i < j PROVE FALSE
      BY DEF Respected
    <3> QED BY <2>1
  <2> QED BY <2>8, <2>9 DEF Rate, Admitted
<1> QED BY <1>1, <1>2

(* A worker reads the time.                                                 *)
LEMMA RateClock ==
  ASSUME NEW z \in Zones, NEW c \in Seq(ChargeRecord), NEW lr \in Node,
         NEW S \in SUBSET Workers, NEW cl \in Clocks, Rate(z, c, lr, S, cl),
         NEW w \in Workers, NEW t \in Nat, lr.last <= t, \A v \in Workers : cl[v] <= t
  PROVE  Rate(z, c, lr, S, [cl EXCEPT ![w] = t])
<1>1. lr.last \in Nat BY DEF Node
<1>2. Admitted(z, c, lr.last, S, [cl EXCEPT ![w] = t]) BY <1>1, AdmittedClock DEF Rate
<1> QED BY <1>2 DEF Rate

(* A worker whose request is within the burst takes a reference.            *)
LEMMA RateJoin ==
  ASSUME NEW z \in Zones, NEW c \in Seq(ChargeRecord), NEW lr \in Node, NEW new, SameLevel(lr, new),
         NEW S \in SUBSET Workers, NEW cl \in Clocks, Rate(z, c, lr, S, cl),
         NEW w \in Workers, Recent(lr, cl[w]), ~TooMany(z, Excess(z, lr, cl[w]))
  PROVE  Rate(z, c, new, S \cup {w}, cl)
<1>1. lr.last \in Nat /\ new.excess = lr.excess /\ new.last = lr.last /\ cl[w] \in Nat
  BY DEF Node, SameLevel, Clocks
<1>2. Fits(z, c, Later(cl[w], lr.last), W) BY <1>1, AdmittedFits DEF Rate
<1>3. Admitted(z, c, lr.last, S \cup {w}, cl) BY <1>1, <1>2, AdmittedMore DEF Rate
<1>4. Filled(z, c, new) BY <1>1 DEF Rate, Filled
<1> QED BY <1>1, <1>3, <1>4 DEF Rate

(* A worker charges its request to the node that it refers to.              *)
Charges(z, lr, t, x, new) ==
  /\ x.last = Later(t, lr.last)
  /\ new.excess = Excess(z, lr, t) /\ new.last = x.last

(* Such a charge keeps the rate: the worker uses up its own allowance.      *)
LEMMA RateCharge ==
  ASSUME NEW z \in Zones, z # Last, NEW c \in Seq(ChargeRecord), NEW lr \in Node,
         NEW S \in SUBSET Workers, NEW cl \in Clocks, Rate(z, c, lr, S, cl),
         NEW w \in S, Recent(lr, cl[w]),
         NEW x \in ChargeRecord, NEW new \in Node, Charges(z, lr, cl[w], x, new)
  PROVE  Rate(z, Append(c, x), new, S \ {w}, cl)
<1>1. lr.last \in Nat /\ cl[w] \in Nat /\ x.last = Later(cl[w], lr.last)
      /\ new.excess = Excess(z, lr, cl[w]) /\ new.last = x.last
  BY DEF Node, Clocks, Charges
<1>2. Admitted(z, Append(c, x), x.last, S \ {w}, cl) /\ Fits(z, c, x.last, 1)
  BY <1>1, AdmittedCharge DEF Rate
<1>3. Filled(z, Append(c, x), new) BY <1>1, FilledCharge DEF Rate
<1>4. 1000 * (W - 1) <= Overshoot(z)
  <2>1. 1000 * (W - 1) \in Int BY WorkersCounted
  <2> QED BY <2>1 DEF Overshoot, W
<1>5. Respected(z, Append(c, x))
  <2>1. 1 \in Int OBVIOUS
  <2> QED BY <1>2, <1>4, <2>1, RespectedCharge DEF Rate
<1> QED BY <1>1, <1>2, <1>3, <1>5 DEF Rate

(* The last zone is charged when it is looked up: no worker comes between.  *)
LEMMA RateLast ==
  ASSUME NEW c \in Seq(ChargeRecord), NEW lr \in Node, NEW cl \in Clocks, Rate(Last, c, lr, {}, cl),
         NEW t \in Nat, Recent(lr, t), ~TooMany(Last, Excess(Last, lr, t)),
         NEW x \in ChargeRecord, NEW new \in Node, Charges(Last, lr, t, x, new)
  PROVE  Rate(Last, Append(c, x), new, {}, cl)
<1>1. Last \in Zones BY ZonesType
<1>2. x.last = Later(t, lr.last) /\ new.excess = Excess(Last, lr, t) /\ new.last = x.last
  BY DEF Charges
<1>3. Filled(Last, Append(c, x), new) BY <1>1, <1>2, FilledCharge DEF Rate
<1>4. Fits(Last, c, x.last, W) BY <1>1, <1>2, AdmittedFits DEF Rate
<1>5. 1000 * (W - W) <= Overshoot(Last) /\ W \in Int BY WorkersCounted DEF Overshoot
<1>6. Respected(Last, Append(c, x)) BY <1>1, <1>4, <1>5, RespectedCharge DEF Rate
<1> QED BY <1>3, <1>6 DEF Rate, Admitted


-----------------------------------------------------------------------------
(* The times. A worker begins a batch with a recent time, and time waits    *)
(* for the workers that are busy.                                           *)
Times == \A w \in Workers : clock[w] <= now /\ (pc[w] # "idle" => now - clock[w] <= MaxBatch)
NodeTime(z, k) == node[z][k].last <= now

(* What the action of a worker does to the program counters.                *)
LEMMA BusyStep ==
  ASSUME IInv, NEW w \in Workers, Worker(w) \/ Failure(w)
  PROVE  /\ \A v \in Workers \ {w} : pc'[v] = pc[v]
         /\ pc[w] # "idle" \/ InBatch(w) \/ pc'[w] = pc[w]
<1>1. PcType /\ JobType /\ SharedInv BY DEF IInv, RestType
<1>2. CASE SkipZone(w) \/ LookupFound(w) \/ LookupMissing(w)
  <2>1. InLookup(w) BY <1>2 DEF SkipZone, LookupFound, LookupMissing, Found, Missing
  <2>2. PICK rc \in {"BUSY", "ERROR", "OK"} \cup Rcs, e \in Nat : Answer(w, rc, e)
    <3>1. CASE SkipZone(w)
      <4>1. job[w].rc \in Rcs /\ Answer(w, job[w].rc, 0) BY <1>1, <3>1 DEF JobType, Job, SkipZone
      <4> QED BY <4>1
    <3>2. CASE LookupFound(w) BY <1>1, <3>2, FoundCharges
    <3>3. CASE LookupMissing(w) BY <1>1, <3>3, MissingCharges
    <3> QED BY <1>2, <3>1, <3>2, <3>3
  <2>3. UNCHANGED clock BY <1>2 DEF SkipZone, LookupFound, LookupMissing
  <2> QED BY <1>1, <2>1, <2>2, <2>3, AnswerStep DEF InLookup
<1>3. CASE UpdateTime(w) \/ RollBack(w) \/ Account(w) BY <1>3 DEF UpdateTime, RollBack, Account
<1>4. CASE KeyFails(w) \/ Refuse(w) \/ Pass(w) \/ Postpone(w)
  BY <1>1, <1>4 DEF KeyFails, Refuse, Pass, Postpone, Finish, InLookup, PcType
<1>5. CASE \E r \in Requests, keys \in KeyChoices : Arrive(w, r, keys)
  BY <1>1, <1>5 DEF Arrive, Handler, PcType
<1>6. CASE \E r \in Requests : Release(w, r) \/ WakeFails(w, r) \/ ClientCloses(w, r)
  BY <1>1, <1>6 DEF Release, WakeFails, ClientCloses, Handler, PcType
<1>7. CASE StatsStart(w) \/ StatsLast(w) \/ StatsExcess(w)
  BY <1>1, <1>7 DEF StatsStart, StatsLast, StatsExcess, PcType
<1> QED BY <1>2, <1>3, <1>4, <1>5, <1>6, <1>7 DEF Worker, Failure

(* Only the event loop changes a worker's time, and only Tick the time.     *)
LEMMA ClockStep ==
  ASSUME NEW w \in Workers, Worker(w) \/ Failure(w)
  PROVE  now' = now /\ (UpdateTime(w) \/ clock' = clock)
BY DEF Worker, Failure, UpdateTime, Arrive, Release, SkipZone, LookupFound, LookupMissing, RollBack,
       Refuse, Account, Pass, Postpone, StatsStart, StatsLast, StatsExcess, KeyFails, WakeFails, ClientCloses

(* No worker's time is ahead, and none that is busy is far behind.          *)
LEMMA TimesStep ==
  ASSUME IInv, Times, Next
  PROVE  Times' /\ now <= now'
<1>1. now \in Nat /\ clock \in Clocks /\ scenario \in Scenario /\ MaxBatch \in Nat
  BY BoundsAssumption DEF IInv, RestType, JobType, Clocks
<1>2. ASSUME NEW t \in scenario.ticks, Tick(t) PROVE Times' /\ now <= now'
  <2>1. t \in Nat BY <1>1 DEF Scenario
  <2>2. now' = now + t /\ UNCHANGED <<clock, pc>>
        /\ \A w \in Workers : pc[w] # "idle" => now + t - clock[w] <= MaxBatch
    BY <1>2 DEF Tick
  <2>3. \A w \in Workers : clock[w] \in Nat /\ clock[w] <= now + t BY <1>1, <2>1 DEF Times, Clocks
  <2> QED BY <1>1, <2>1, <2>2, <2>3 DEF Times
<1>3. ASSUME NEW w \in Workers, Worker(w) \/ Failure(w) PROVE Times' /\ now <= now'
  <2>1. now' = now /\ (UpdateTime(w) \/ clock' = clock) BY <1>3, ClockStep
  <2>2. CASE UpdateTime(w)
    <3>1. pc' = pc /\ clock' = [clock EXCEPT ![w] = now] BY <2>2 DEF UpdateTime
    <3>2. clock'[w] = now /\ \A v \in Workers \ {w} : clock'[v] = clock[v] BY <1>1, <3>1 DEF Clocks
    <3>3. now - now <= MaxBatch /\ now <= now BY <1>1
    <3> QED BY <2>1, <3>1, <3>2, <3>3 DEF Times
  <2>3. CASE clock' = clock
    <3>1. /\ \A v \in Workers \ {w} : pc'[v] = pc[v]
          /\ pc[w] # "idle" \/ InBatch(w) \/ pc'[w] = pc[w]
      BY <1>3, BusyStep
    <3>2. now <= now BY <1>1
    <3> QED BY <2>1, <2>3, <3>1, <3>2 DEF Times, InBatch
  <2> QED BY <2>1, <2>2, <2>3
<1> QED BY <1>2, <1>3 DEF Next

-----------------------------------------------------------------------------
(* The rate of every node, step by step.                                    *)
NodesOK == \A z \in Zones : \A k \in DOMAIN node[z] : NodeTime(z, k) /\ NodeRate(z, k)

(* The types of what the rate of a node is about.                           *)
LEMMA NodeFacts ==
  ASSUME IInv, NEW z \in Zones, NEW k \in DOMAIN node[z]
  PROVE  /\ k \in Keys /\ node[z][k] \in Node /\ charges[z][k] \in Seq(ChargeRecord)
         /\ Users(z, k) \in SUBSET Workers /\ clock \in Clocks
         /\ now \in Nat /\ node[z][k].last \in Nat
<1>1. k \in Keys /\ node[z][k] \in Node BY DEF IInv, SharedInv, SharedType, NodeType
<1> QED BY <1>1 DEF IInv, SharedInv, SharedType, JobType, RestType, Clocks, Users, Node

(* A node that is not charged, and that no other worker comes to refer to.  *)
LEMMA OtherNode ==
  ASSUME IInv, NEW z \in Zones, NEW k \in DOMAIN node[z], NodeTime(z, k), NodeRate(z, k),
         charges'[z][k] = charges[z][k], SameLevel(node[z][k], node'[z][k]),
         Users(z, k)' \subseteq Users(z, k), clock' = clock, now' = now
  PROVE  NodeTime(z, k)' /\ NodeRate(z, k)'
<1> DEFINE c == charges[z][k]
           lr == node[z][k]
           new == node'[z][k]
           S == Users(z, k)
           T == Users(z, k)'
<1>1. /\ lr \in Node /\ c \in Seq(ChargeRecord) /\ S \in SUBSET Workers /\ clock \in Clocks
      /\ T \in SUBSET S /\ SameLevel(lr, new) /\ Rate(z, c, lr, S, clock)
  BY NodeFacts DEF NodeRate
<1>2. NodeTime(z, k)' BY DEF NodeTime, SameLevel
<1> HIDE DEF c, lr, new, S, T
<1>3. Rate(z, c, new, T, clock) BY <1>1, RateKept
<1>4. Rate(z, charges'[z][k], node'[z][k], Users(z, k)', clock') BY <1>3 DEF c, new, T
<1> QED BY <1>2, <1>4 DEF NodeRate

(* The rest of the world.                                                   *)
LEMMA NodesKept ==
  ASSUME IInv, NodesOK, UNCHANGED <<node, charges, ctxNode>>, clock' = clock, now' = now
  PROVE  NodesOK'
BY DEF NodesOK, NodeTime, NodeRate, Users


(* Time passes, or a worker reads it.                                       *)
LEMMA NodesTime ==
  ASSUME IInv, Times, NodesOK, \/ \E t \in scenario.ticks : Tick(t)
                               \/ \E w \in Workers : UpdateTime(w)
  PROVE  NodesOK'
<1>1. UNCHANGED <<node, charges, ctxNode>> BY DEF Tick, UpdateTime, shared
<1>2. now \in Nat /\ clock \in Clocks /\ scenario \in Scenario
  BY BoundsAssumption DEF IInv, RestType, JobType, Clocks
<1>3. CASE \E t \in scenario.ticks : Tick(t)
  <2>1. PICK t \in scenario.ticks : Tick(t) BY <1>3
  <2>2. t \in Nat /\ now' = now + t /\ clock' = clock BY <1>2, <2>1 DEF Scenario, Tick
  <2>3. ASSUME NEW z \in Zones, NEW k \in DOMAIN node[z] PROVE NodeTime(z, k)'
    <3>1. node[z][k].last \in Nat /\ node[z][k].last <= now BY NodeFacts DEF NodesOK, NodeTime
    <3>2. node[z][k].last <= now + t BY <1>2, <2>2, <3>1
    <3> QED BY <1>1, <2>2, <3>2 DEF NodeTime
  <2> QED BY <1>1, <2>2, <2>3 DEF NodesOK, NodeRate, Users
<1>4. CASE \E w \in Workers : UpdateTime(w)
  <2>1. PICK w \in Workers : UpdateTime(w) BY <1>4
  <2>2. now' = now /\ clock' = [clock EXCEPT ![w] = now] BY <2>1 DEF UpdateTime
  <2>3. \A v \in Workers : clock[v] <= now BY DEF Times
  <2>4. ASSUME NEW z \in Zones, NEW k \in DOMAIN node[z] PROVE NodeRate(z, k)'
    <3> DEFINE c == charges[z][k]
               lr == node[z][k]
               S == Users(z, k)
    <3>1. /\ lr \in Node /\ c \in Seq(ChargeRecord) /\ S \in SUBSET Workers
          /\ lr.last <= now /\ Rate(z, c, lr, S, clock)
      BY NodeFacts DEF NodesOK, NodeTime, NodeRate
    <3>2. charges'[z][k] = c /\ node'[z][k] = lr /\ Users(z, k)' = S BY <1>1 DEF Users
    <3> HIDE DEF c, lr, S
    <3>3. Rate(z, c, lr, S, clock') BY <1>2, <2>2, <2>3, <3>1, RateClock
    <3>4. Rate(z, charges'[z][k], node'[z][k], Users(z, k)', clock') BY <3>2, <3>3
    <3> QED BY <3>4 DEF NodeRate
  <2> QED BY <1>1, <2>2, <2>4 DEF NodesOK, NodeTime
<1> QED BY <1>3, <1>4

(* Who refers to a node after a pointer changed.                            *)
LEMMA UsersStep ==
  ASSUME IInv, NEW w \in Workers, NEW z \in Zones, NEW k \in Keys \cup {NoKey}, Points(w, z, k),
         NEW o, o = ctxNode[w][z]
  PROVE  /\ \A y \in Zones : \A x \in Keys : ~(y = z /\ x = k) => Users(y, x)' \subseteq Users(y, x)
         /\ Users(z, k)' = Users(z, k) \cup {w}
         /\ w \in Users(z, o) /\ (k # o => Users(z, o)' = Users(z, o) \ {w})
<1>1. \A v \in Workers, y \in Zones :
        ctxNode'[v][y] = IF v = w /\ y = z THEN k ELSE ctxNode[v][y]
  BY UsersUpdate DEF IInv, SharedInv, SharedType
<1>2. ASSUME NEW y \in Zones, NEW x \in Keys, ~(y = z /\ x = k)
      PROVE  Users(y, x)' \subseteq Users(y, x)
  BY <1>1, <1>2 DEF Users
<1>3. Users(z, k)' = Users(z, k) \cup {w} BY <1>1 DEF Users
<1>4. k # o => Users(z, o)' = Users(z, o) \ {w} BY <1>1 DEF Users
<1>5. w \in Users(z, o) BY DEF Users
<1> QED BY <1>2, <1>3, <1>4, <1>5


(* A reference is given back.                                               *)
LEMMA NodesRollBack ==
  ASSUME IInv, NodesOK, NEW w \in Workers, RollBack(w)
  PROVE  NodesOK'
<1>1. PICK z : z = job[w].n OBVIOUS
<1>2. PICK k : k = ctxNode[w][z] OBVIOUS
<1>3. /\ pc[w] = "reject" /\ z > 0 /\ charges' = charges /\ clock' = clock /\ now' = now
      /\ node' = IF k = NoKey THEN node ELSE [node EXCEPT ![z][k].count = @ - 1]
      /\ Points(w, z, NoKey)
  BY <1>1, <1>2 DEF RollBack, Points
<1>4. z \in Zones BY <1>1, <1>3, ZonesType DEF IInv, JobType, Job, Last
<1>5. \A y \in Zones : \A x \in Keys : Users(y, x)' \subseteq Users(y, x)
  <2>1. NoKey \in Keys \cup {NoKey} /\ NoKey \notin Keys BY KeysAssumption
  <2> QED BY <1>2, <1>3, <1>4, <2>1, UsersStep
<1>6. NodeType BY DEF IInv, SharedInv, SharedType
<1>7. /\ \A y \in Zones : DOMAIN node'[y] = DOMAIN node[y]
      /\ \A y \in Zones : \A x \in DOMAIN node[y] : SameLevel(node[y][x], node'[y][x])
  <2>1. CASE k = NoKey BY <1>3, <2>1 DEF SameLevel
  <2>2. CASE k # NoKey
    <3>1. k \in DOMAIN node[z] /\ node[z][k] \in Node BY <1>2, <1>4, <2>2, CountPositive DEF IInv
    <3> DEFINE lr == [node[z][k] EXCEPT !.count = @ - 1]
    <3>2. node' = [y \in Zones |-> IF y = z THEN [node[z] EXCEPT ![k] = lr] ELSE node[y]]
      BY <1>3, <1>4, <1>6, <2>2, <3>1 DEF NodeType
    <3>3. SameLevel(node[z][k], lr) BY <3>1 DEF SameLevel, Node
    <3> HIDE DEF lr
    <3> QED BY <1>4, <1>6, <3>1, <3>2, <3>3 DEF NodeType, SameLevel
  <2> QED BY <2>1, <2>2
<1>8. ASSUME NEW y \in Zones, NEW x \in DOMAIN node[y] PROVE NodeTime(y, x)' /\ NodeRate(y, x)'
  <2>1. x \in Keys /\ NodeTime(y, x) /\ NodeRate(y, x) BY NodeFacts DEF NodesOK
  <2> QED BY <1>3, <1>5, <1>7, <2>1, OtherNode
<1> QED BY <1>7, <1>8 DEF NodesOK

(* A busy worker's time is less than a minute behind the nodes it meets.    *)
ShortBatches == MaxBatch <= 60000

(* With batches that short, the clamp of lookup() at a minute is not met.   *)
LEMMA RecentNode ==
  ASSUME IInv, Times, NodesOK, ShortBatches, NEW w \in Workers, pc[w] # "idle",
         NEW z \in Zones, NEW k \in DOMAIN node[z]
  PROVE  /\ Recent(node[z][k], clock[w]) /\ clock[w] \in Nat
         /\ Later(clock[w], node[z][k].last) <= now
<1>1. now \in Nat /\ node[z][k].last \in Nat /\ clock[w] \in Nat /\ MaxBatch \in Nat
  BY NodeFacts, BoundsAssumption DEF Clocks
<1>2. node[z][k].last <= now /\ clock[w] <= now /\ now - clock[w] <= MaxBatch /\ MaxBatch <= 60000
  BY DEF NodesOK, NodeTime, Times, ShortBatches
<1> QED BY <1>1, <1>2 DEF Recent, Later


(* What a charge writes to a node and to the history.                       *)
LEMMA ChargeWrites ==
  ASSUME NEW z \in Zones, NEW lr \in Node, NEW t \in Nat, Recent(lr, t), NEW r \in Requests,
         NEW ch, ch = Charged(z, lr, t), NEW n \in Nat
  PROVE  /\ [req |-> r, last |-> ch.last] \in ChargeRecord /\ ch \in Node
         /\ [ch EXCEPT !.count = n] \in Node
         /\ Charges(z, lr, t, [req |-> r, last |-> ch.last], ch)
         /\ Charges(z, lr, t, [req |-> r, last |-> ch.last], [ch EXCEPT !.count = n])
<1>1. ch \in Node /\ ch.excess = Excess(z, lr, t) BY ChargedType
<1>2. ch.last = Later(t, lr.last)
  <2>1. lr.last - t <= 60000 BY DEF Recent
  <2> QED BY <2>1, ElapsedLater
<1>3. ch.last \in Nat BY <1>1 DEF Node
<1>4. [req |-> r, last |-> ch.last] \in ChargeRecord BY <1>3 DEF ChargeRecord
<1>5. [ch EXCEPT !.count = n] \in Node /\ SameLevel(ch, [ch EXCEPT !.count = n])
  BY <1>1 DEF Node, SameLevel
<1> QED BY <1>1, <1>2, <1>4, <1>5 DEF Charges, SameLevel

(* A zone before the last is charged, with the reference given back.        *)
LEMMA NodesAccount ==
  ASSUME IInv, Times, NodesOK, ShortBatches, NEW w \in Workers, Account(w)
  PROVE  NodesOK'
<1>1. PICK z : z = job[w].n OBVIOUS
<1>2. PICK k : k = ctxNode[w][z] OBVIOUS
<1>3. PICK ch : ch = Charged(z, node[z][k], clock[w]) OBVIOUS
<1>4. PICK r : r = job[w].r OBVIOUS
<1> DEFINE lr == node[z][k]
           new == [ch EXCEPT !.count = @ - 1]
           x == [req |-> r, last |-> ch.last]
           S == Users(z, k)
<1>5. /\ pc[w] = "account" /\ z > 0 /\ clock' = clock /\ now' = now /\ Points(w, z, NoKey)
      /\ \/ k = NoKey /\ UNCHANGED <<node, charges>>
         \/ /\ k # NoKey /\ Sets(z, k, new)
            /\ charges' = Charge(z, k, r, ch)
  BY <1>1, <1>2, <1>3, <1>4 DEF Account, Points, Sets
<1>6. z \in Zones /\ r \in Requests /\ SharedInv /\ NodeType
  BY <1>1, <1>4, <1>5, ZonesType DEF IInv, JobType, Job, Last, SharedInv, SharedType
<1>7. /\ \A y \in Zones : \A i \in Keys : Users(y, i)' \subseteq Users(y, i)
      /\ k # NoKey => w \in Users(z, k) /\ Users(z, k)' = Users(z, k) \ {w}
  <2>1. NoKey \in Keys \cup {NoKey} /\ NoKey \notin Keys BY KeysAssumption
  <2> QED BY <1>2, <1>5, <1>6, <2>1, UsersStep
<1>8. CASE k = NoKey /\ UNCHANGED <<node, charges>>
  <2>1. ASSUME NEW y \in Zones, NEW i \in DOMAIN node[y] PROVE NodeTime(y, i)' /\ NodeRate(y, i)'
    <3>1. i \in Keys /\ NodeTime(y, i) /\ NodeRate(y, i) BY NodeFacts DEF NodesOK
    <3>2. SameLevel(node[y][i], node'[y][i]) /\ charges'[y][i] = charges[y][i]
      BY <1>8 DEF SameLevel
    <3> QED BY <1>5, <1>7, <3>1, <3>2, OtherNode
  <2> QED BY <1>8, <2>1 DEF NodesOK
<1>9. CASE k # NoKey /\ Sets(z, k, new) /\ charges' = Charge(z, k, r, ch)
  <2>1. k \in DOMAIN node[z] /\ z # Last BY <1>2, <1>6, <1>9, CountPositive
  <2>2. lr.count - 1 \in Nat BY <1>2, <1>6, <1>9, CountPositive
  <2>3. /\ k \in Keys /\ lr \in Node /\ charges[z][k] \in Seq(ChargeRecord) /\ clock \in Clocks
        /\ S \in SUBSET Workers /\ Rate(z, charges[z][k], lr, S, clock)
    BY <1>6, <2>1, NodeFacts DEF NodesOK, NodeRate
  <2>4. Recent(lr, clock[w]) /\ clock[w] \in Nat /\ Later(clock[w], lr.last) <= now
    BY <1>5, <1>6, <2>1, RecentNode
  <2>5. ch.count = lr.count BY <1>3, <1>6, <2>3, <2>4, ChargedType
  <2>6. /\ x \in ChargeRecord /\ ch \in Node /\ new \in Node
        /\ Charges(z, lr, clock[w], x, new)
    <3> DEFINE n == lr.count - 1
    <3>1. n \in Nat /\ new = [ch EXCEPT !.count = n] BY <2>2, <2>5
    <3>2. ch = Charged(z, lr, clock[w]) BY <1>3
    <3> HIDE DEF n, new, lr
    <3> QED BY <1>6, <2>3, <2>4, <3>1, <3>2, ChargeWrites
  <2> HIDE DEF new
  <2>7. /\ \A y \in Zones : /\ DOMAIN node'[y] = DOMAIN node[y]
                            /\ \A i \in DOMAIN node[y] :
                                 node'[y][i] = IF y = z /\ i = k THEN new ELSE node[y][i]
    BY <1>6, <1>9, <2>1, <2>6, NodeUpdate
  <2>8. \A y \in Zones : \A i \in Keys :
          charges'[y][i] = IF y = z /\ i = k THEN Append(charges[z][k], x) ELSE charges[y][i]
    <3>1. charges' = Charge(z, k, r, ch) BY <1>9
    <3> QED BY <1>6, <2>3, <2>6, <3>1, ChargeStep
  <2>9. NodeTime(z, k)' /\ NodeRate(z, k)'
    <3>1. node'[z][k] = new /\ charges'[z][k] = Append(charges[z][k], x) /\ Users(z, k)' = S \ {w}
      BY <1>6, <1>7, <1>9, <2>1, <2>3, <2>7, <2>8
    <3>2. w \in S BY <1>7, <1>9
    <3>3. Rate(z, Append(charges[z][k], x), new, S \ {w}, clock)
      <4> HIDE DEF lr, x, S
      <4> QED BY <1>6, <2>1, <2>3, <2>4, <2>6, <3>2, RateCharge
    <3>4. Rate(z, charges'[z][k], node'[z][k], Users(z, k)', clock') BY <1>5, <3>1, <3>3
    <3>5. NodeTime(z, k)' BY <1>5, <2>4, <2>6, <3>1 DEF NodeTime, Charges
    <3> QED BY <3>4, <3>5 DEF NodeRate
  <2>10. ASSUME NEW y \in Zones, NEW i \in DOMAIN node[y], ~(y = z /\ i = k)
         PROVE  NodeTime(y, i)' /\ NodeRate(y, i)'
    <3>1. i \in Keys /\ NodeTime(y, i) /\ NodeRate(y, i) BY NodeFacts DEF NodesOK
    <3>2. SameLevel(node[y][i], node'[y][i]) /\ charges'[y][i] = charges[y][i]
      BY <2>7, <2>8, <2>10, <3>1 DEF SameLevel
    <3> QED BY <1>5, <1>7, <3>1, <3>2, OtherNode
  <2> QED BY <2>7, <2>9, <2>10 DEF NodesOK
<1> QED BY <1>5, <1>8, <1>9


(* The lookup of a key that has a node: refused, charged in the last zone,  *)
(* or referred to.                                                          *)
LEMMA NodesFound ==
  ASSUME IInv, Times, NodesOK, ShortBatches, NEW w \in Workers, LookupFound(w)
  PROVE  NodesOK'
<1>1. PICK z : z = Zone(w) OBVIOUS
<1>2. PICK k : k = Key(w) OBVIOUS
<1>3. PICK ch : ch = Charged(z, node[z][k], clock[w]) OBVIOUS
<1>4. PICK r : r = job[w].r OBVIOUS
<1> DEFINE lr == node[z][k]
           S == Users(z, k)
           x == [req |-> r, last |-> ch.last]
           more == [lr EXCEPT !.count = @ + 1]
           busy == TooMany(z, Excess(z, lr, clock[w]))
<1>5. /\ Found(w) /\ clock' = clock /\ now' = now
      /\ \/ UNCHANGED <<node, ctxNode, charges>>
         \/ /\ ~busy /\ z = Last /\ node' = [node EXCEPT ![z][k] = ch]
            /\ charges' = Charge(z, k, r, ch) /\ UNCHANGED ctxNode
         \/ /\ ~busy /\ z # Last /\ node' = [node EXCEPT ![z][k].count = @ + 1]
            /\ Points(w, z, k) /\ UNCHANGED charges
  BY <1>1, <1>2, <1>3, <1>4 DEF LookupFound, Refer, Points
<1>6. /\ z \in Zones /\ k \in Keys /\ k \in DOMAIN node[z] /\ r \in Requests /\ pc[w] # "idle"
      /\ SharedInv /\ NodeType
  BY <1>1, <1>2, <1>4, <1>5, LookupFacts DEF Found, InLookup, IInv, SharedInv, SharedType
<1>7. /\ lr \in Node /\ charges[z][k] \in Seq(ChargeRecord) /\ clock \in Clocks
      /\ S \in SUBSET Workers /\ Rate(z, charges[z][k], lr, S, clock) /\ lr.last <= now
  BY <1>6, NodeFacts DEF NodesOK, NodeRate, NodeTime
<1>8. Recent(lr, clock[w]) /\ clock[w] \in Nat /\ Later(clock[w], lr.last) <= now
  BY <1>6, RecentNode
<1>9. CASE UNCHANGED <<node, ctxNode, charges>> BY <1>5, <1>9, NodesKept
<1>10. CASE /\ ~busy /\ z = Last /\ node' = [node EXCEPT ![z][k] = ch]
            /\ charges' = Charge(z, k, r, ch) /\ UNCHANGED ctxNode
  <2>1. x \in ChargeRecord /\ ch \in Node /\ Charges(z, lr, clock[w], x, ch)
    <3>1. 0 \in Nat /\ ch = Charged(z, lr, clock[w]) BY <1>3
    <3> HIDE DEF lr
    <3> QED BY <1>6, <1>7, <1>8, <3>1, ChargeWrites
  <2>2. Sets(z, k, ch) BY <1>10 DEF Sets
  <2>3. \A y \in Zones : /\ DOMAIN node'[y] = DOMAIN node[y]
                         /\ \A i \in DOMAIN node[y] :
                              node'[y][i] = IF y = z /\ i = k THEN ch ELSE node[y][i]
    BY <1>6, <2>1, <2>2, NodeUpdate
  <2>4. \A y \in Zones : \A i \in Keys :
          charges'[y][i] = IF y = z /\ i = k THEN Append(charges[z][k], x) ELSE charges[y][i]
    <3>1. charges' = Charge(z, k, r, ch) BY <1>10
    <3> QED BY <1>6, <2>1, <3>1, ChargeStep
  <2>5. S = {} BY <1>6, <1>10, KeysAssumption DEF SharedInv, LastUnreferenced, Users
  <2>6. \A y, i : Users(y, i)' = Users(y, i) BY <1>10 DEF Users
  <2>7. NodeTime(z, k)' /\ NodeRate(z, k)'
    <3>1. node'[z][k] = ch /\ charges'[z][k] = Append(charges[z][k], x) /\ Users(z, k)' = {}
      BY <1>6, <2>3, <2>4, <2>5, <2>6
    <3>2. Rate(z, Append(charges[z][k], x), ch, {}, clock)
      <4>1. Rate(Last, charges[z][k], lr, {}, clock) /\ ~TooMany(Last, Excess(Last, lr, clock[w]))
            /\ Charges(Last, lr, clock[w], x, ch) /\ z = Last
        BY <1>7, <1>10, <2>1, <2>5
      <4> HIDE DEF lr, x
      <4>2. Rate(Last, Append(charges[z][k], x), ch, {}, clock)
        BY <1>7, <1>8, <2>1, <4>1, RateLast
      <4> QED BY <4>1, <4>2
    <3>3. Rate(z, charges'[z][k], node'[z][k], Users(z, k)', clock') BY <1>5, <3>1, <3>2
    <3>4. NodeTime(z, k)' BY <1>5, <1>8, <2>1, <3>1 DEF NodeTime, Charges
    <3> QED BY <3>3, <3>4 DEF NodeRate
  <2>8. ASSUME NEW y \in Zones, NEW i \in DOMAIN node[y], ~(y = z /\ i = k)
        PROVE  NodeTime(y, i)' /\ NodeRate(y, i)'
    <3>1. i \in Keys /\ NodeTime(y, i) /\ NodeRate(y, i) BY NodeFacts DEF NodesOK
    <3>2. SameLevel(node[y][i], node'[y][i]) /\ charges'[y][i] = charges[y][i]
          /\ Users(y, i)' \subseteq Users(y, i)
      BY <2>3, <2>4, <2>6, <2>8, <3>1 DEF SameLevel
    <3> QED BY <1>5, <3>1, <3>2, OtherNode
  <2> QED BY <2>3, <2>7, <2>8 DEF NodesOK
<1>11. CASE /\ ~busy /\ z # Last /\ node' = [node EXCEPT ![z][k].count = @ + 1]
            /\ Points(w, z, k) /\ UNCHANGED charges
  <2>1. more \in Node /\ SameLevel(lr, more)
    <3>1. lr.count + 1 \in Nat BY <1>7 DEF Node
    <3> QED BY <1>7, <3>1 DEF Node, SameLevel
  <2>2. Sets(z, k, more) BY <1>6, <1>11 DEF Sets, NodeType
  <2> HIDE DEF more
  <2>3. \A y \in Zones : /\ DOMAIN node'[y] = DOMAIN node[y]
                         /\ \A i \in DOMAIN node[y] :
                              node'[y][i] = IF y = z /\ i = k THEN more ELSE node[y][i]
    BY <1>6, <2>1, <2>2, NodeUpdate
  <2>4. /\ \A y \in Zones : \A i \in Keys : ~(y = z /\ i = k) => Users(y, i)' \subseteq Users(y, i)
        /\ Users(z, k)' = S \cup {w}
    <3>1. k \in Keys \cup {NoKey} /\ Points(w, z, k) BY <1>6, <1>11
    <3>2. PICK o : o = ctxNode[w][z] OBVIOUS
    <3> QED BY <1>6, <3>1, <3>2, UsersStep
  <2>5. NodeTime(z, k)' /\ NodeRate(z, k)'
    <3>1. node'[z][k] = more /\ charges'[z][k] = charges[z][k] BY <1>6, <1>11, <2>3
    <3>2. Rate(z, charges[z][k], more, S \cup {w}, clock)
      <4>1. ~TooMany(z, Excess(z, lr, clock[w])) BY <1>11
      <4> HIDE DEF lr, S
      <4> QED BY <1>6, <1>7, <1>8, <2>1, <4>1, RateJoin
    <3>3. Rate(z, charges'[z][k], node'[z][k], Users(z, k)', clock') BY <1>5, <2>4, <3>1, <3>2
    <3>4. NodeTime(z, k)' BY <1>5, <1>7, <2>1, <3>1 DEF NodeTime, SameLevel
    <3> QED BY <3>3, <3>4 DEF NodeRate
  <2>6. ASSUME NEW y \in Zones, NEW i \in DOMAIN node[y], ~(y = z /\ i = k)
        PROVE  NodeTime(y, i)' /\ NodeRate(y, i)'
    <3>1. i \in Keys /\ NodeTime(y, i) /\ NodeRate(y, i) BY NodeFacts DEF NodesOK
    <3>2. SameLevel(node[y][i], node'[y][i]) /\ charges'[y][i] = charges[y][i]
          /\ Users(y, i)' \subseteq Users(y, i)
      BY <1>11, <2>3, <2>4, <2>6, <3>1 DEF SameLevel
    <3> QED BY <1>5, <3>1, <3>2, OtherNode
  <2> QED BY <2>3, <2>5, <2>6 DEF NodesOK
<1> QED BY <1>5, <1>9, <1>10, <1>11


(* The lookup of a key that has none: its node is made, and others go.      *)
LEMMA NodesMissing ==
  ASSUME IInv, Times, NodesOK, NEW w \in Workers, LookupMissing(w)
  PROVE  NodesOK'
<1>1. PICK z : z = Zone(w) OBVIOUS
<1>2. PICK k : k = Key(w) OBVIOUS
<1>3. PICK t : t = clock[w] OBVIOUS
<1>4. PICK q : q = MakeRoom(z, t) OBVIOUS
<1>5. PICK lr : lr = IF z = Last THEN [excess |-> 0, last |-> t, count |-> 0]
                     ELSE [excess |-> 0, last |-> 0, count |-> 1]
  OBVIOUS
<1>6. PICK rc : rc = IF Len(q) >= MaxNodes THEN "ERROR" ELSE IF z = Last THEN "OK" ELSE "AGAIN"
  OBVIOUS
<1>7. PICK kept : kept = IF rc = "ERROR" THEN q ELSE <<k>> \o q OBVIOUS
<1>8. PICK live : live = Members(kept) OBVIOUS
<1>9. PICK c : c = [req |-> job[w].r, last |-> lr.last] OBVIOUS
<1> DEFINE left == [i \in Keys |-> IF i \in live THEN charges[z][i] ELSE <<>>]
           new == IF rc = "OK" THEN [left EXCEPT ![k] = <<c>>] ELSE left
<1>10. /\ Missing(w) /\ clock' = clock /\ now' = now
       /\ Grows(z, live, k, lr) /\ charges' = [charges EXCEPT ![z] = new]
       /\ IF rc = "AGAIN" THEN Points(w, z, k) ELSE UNCHANGED ctxNode
  BY <1>1, <1>2, <1>3, <1>4, <1>5, <1>6, <1>7, <1>8, <1>9 DEF LookupMissing, Refer, Points, Grows
<1>11. /\ z \in Zones /\ k \in Keys /\ k \notin DOMAIN node[z] /\ job[w].r \in Requests /\ t \in Nat
       /\ SharedInv /\ NodeType /\ now \in Nat /\ t <= now /\ clock \in Clocks
  BY <1>1, <1>2, <1>3, <1>10, LookupFacts
  DEF Missing, InLookup, IInv, SharedInv, SharedType, RestType, JobType, Times, Clocks
<1>12. /\ lr \in Node /\ lr.last <= now /\ c \in ChargeRecord /\ c.last = lr.last
  <2>1. lr \in Node /\ lr.last <= now BY <1>5, <1>11 DEF Node
  <2> QED BY <1>9, <1>11, <2>1 DEF Node, ChargeRecord
<1>13. rc = "OK" => z = Last BY <1>6
<1>14. live \subseteq DOMAIN node[z] \cup {k}
  <2>1. queue[z] \in Seq(Keys) /\ Once(queue[z])
    BY <1>11 DEF SharedInv, SharedType, QueueMatchesTree, Once
  <2>2. Len(q) \in Nat /\ MaxNodes \in Nat BY <1>4, <2>1, LimitsAssumption, MakeRoomOK, LenProperties
  <2>3. kept = q \/ (Len(q) < MaxNodes /\ kept = <<k>> \o q) BY <1>6, <1>7, <2>2
  <2>4. kept = MakeRoom(z, t) \/ (Len(MakeRoom(z, t)) < MaxNodes /\ kept = <<k>> \o MakeRoom(z, t))
    BY <1>4, <2>3
  <2> QED BY <1>8, <1>11, <2>4, RoomStep
<1>15. /\ DOMAIN node'[z] = live
       /\ \A i \in live : node'[z][i] = IF i = k THEN lr ELSE node[z][i]
       /\ \A y \in Zones : y # z => node'[y] = node[y]
  BY <1>10, <1>11, <1>12, <1>14, TreeStep
<1>16. charges \in [Zones -> [Keys -> Seq(ChargeRecord)]] /\ charges[z][k] = <<>>
  BY <1>11 DEF SharedInv, SharedType, Forgotten
<1>17. /\ \A y \in Zones : y # z => charges'[y] = charges[y]
       /\ \A i \in live \ {k} : charges'[z][i] = charges[z][i]
       /\ charges'[z][k] = IF rc = "OK" THEN <<c>> ELSE <<>>
  <2>1. DOMAIN left = Keys /\ live \subseteq Keys BY <1>11, <1>14 DEF NodeType
  <2>2. left[k] = <<>> /\ \A i \in live : left[i] = charges[z][i] BY <1>11, <1>16, <2>1
  <2> HIDE DEF left
  <2>3. new[k] = (IF rc = "OK" THEN <<c>> ELSE <<>>) /\ \A i \in live \ {k} : new[i] = charges[z][i]
    BY <1>11, <2>1, <2>2
  <2> HIDE DEF new
  <2>4. charges'[z] = new /\ \A y \in Zones : y # z => charges'[y] = charges[y]
    BY <1>10, <1>11, <1>16
  <2> QED BY <2>3, <2>4
<1> HIDE DEF new
<1>18. \A y \in Zones : \A i \in Keys : ~(y = z /\ i = k) => Users(y, i)' \subseteq Users(y, i)
  <2>1. CASE rc = "AGAIN"
    <3>1. k \in Keys \cup {NoKey} /\ Points(w, z, k) BY <1>10, <1>11, <2>1
    <3>2. PICK o : o = ctxNode[w][z] OBVIOUS
    <3> QED BY <1>11, <3>1, <3>2, UsersStep
  <2>2. CASE rc # "AGAIN" BY <1>10, <2>2 DEF Users
  <2> QED BY <2>1, <2>2
<1>19. ASSUME k \in live PROVE NodeTime(z, k)' /\ NodeRate(z, k)'
  <2>1. node'[z][k] = lr BY <1>15, <1>19
  <2>2. NodeTime(z, k)' BY <1>10, <1>12, <2>1 DEF NodeTime
  <2>3. CASE rc = "OK"
    <3>1. Users(z, k)' = {}
      BY <1>10, <1>11, <1>13, <2>3, KeysAssumption DEF SharedInv, LastUnreferenced, Users
    <3>2. Rate(z, <<c>>, lr, {}, clock) BY <1>11, <1>12, RateFresh
    <3>3. Rate(z, charges'[z][k], node'[z][k], Users(z, k)', clock')
      BY <1>10, <1>17, <2>1, <2>3, <3>1, <3>2
    <3> QED BY <2>2, <3>3 DEF NodeRate
  <2>4. CASE rc # "OK"
    <3>1. charges'[z][k] = <<>> BY <1>17, <2>4
    <3>2. \A S : Rate(z, <<>>, lr, S, clock) BY <1>11, <1>12, RateFresh
    <3>3. Rate(z, charges'[z][k], node'[z][k], Users(z, k)', clock')
      BY <1>10, <2>1, <3>1, <3>2
    <3> QED BY <2>2, <3>3 DEF NodeRate
  <2> QED BY <2>3, <2>4
<1>20. ASSUME NEW y \in Zones, NEW i \in DOMAIN node'[y], ~(y = z /\ i = k)
       PROVE  NodeTime(y, i)' /\ NodeRate(y, i)'
  <2>1. /\ i \in DOMAIN node[y] /\ node'[y][i] = node[y][i] /\ charges'[y][i] = charges[y][i]
    BY <1>14, <1>15, <1>17, <1>20
  <2>2. i \in Keys /\ NodeTime(y, i) /\ NodeRate(y, i) BY <2>1, NodeFacts DEF NodesOK
  <2>3. SameLevel(node[y][i], node'[y][i]) /\ Users(y, i)' \subseteq Users(y, i)
    BY <1>18, <1>20, <2>1, <2>2 DEF SameLevel
  <2> QED BY <1>10, <2>1, <2>2, <2>3, OtherNode
<1> QED BY <1>15, <1>19, <1>20 DEF NodesOK

-----------------------------------------------------------------------------
(* The invariant that carries the rate.                                     *)
RateInv == Times /\ NodesOK

(* It holds when the proxy starts: there are no nodes.                      *)
LEMMA InitRate == Init => RateInv
<1> SUFFICES ASSUME Init PROVE RateInv
  OBVIOUS
<1>1. Times BY BoundsAssumption DEF Init, Times
<1>2. \A z \in Zones : DOMAIN node[z] = {} BY DEF Init
<1> QED BY <1>1, <1>2 DEF RateInv, NodesOK

(* Every step preserves it, if the batches are short.                       *)
LEMMA NextRate ==
  ASSUME ShortBatches, IInv, RateInv, [Next]_vars
  PROVE  RateInv'
<1>1. CASE UNCHANGED vars
  <2>1. UNCHANGED <<node, charges, ctxNode>> /\ clock' = clock /\ now' = now /\ pc' = pc
    BY <1>1 DEF vars, shared
  <2>2. NodesOK' BY <2>1, NodesKept DEF RateInv
  <2> QED BY <2>1, <2>2 DEF RateInv, Times
<1>2. CASE Next
  <2>1. Times' BY <1>2, TimesStep DEF RateInv
  <2>2. CASE \E t \in scenario.ticks : Tick(t) BY <2>1, <2>2, NodesTime DEF RateInv
  <2>3. ASSUME NEW w \in Workers, Worker(w) \/ Failure(w) PROVE NodesOK'
    <3>1. CASE UpdateTime(w) BY <3>1, NodesTime DEF RateInv
    <3>2. CASE LookupFound(w) BY <3>2, NodesFound DEF RateInv
    <3>3. CASE LookupMissing(w) BY <3>3, NodesMissing DEF RateInv
    <3>4. CASE RollBack(w) BY <3>4, NodesRollBack DEF RateInv
    <3>5. CASE Account(w) BY <3>5, NodesAccount DEF RateInv
    <3>6. CASE \/ \E r \in Requests, keys \in KeyChoices : Arrive(w, r, keys)
               \/ \E r \in Requests : Release(w, r) \/ WakeFails(w, r) \/ ClientCloses(w, r)
               \/ SkipZone(w) \/ KeyFails(w) \/ Refuse(w) \/ Pass(w) \/ Postpone(w)
               \/ StatsStart(w) \/ StatsLast(w) \/ StatsExcess(w)
      <4>1. UNCHANGED <<node, charges, ctxNode>> /\ clock' = clock /\ now' = now
        BY <3>6 DEF Arrive, Release, WakeFails, ClientCloses, SkipZone, KeyFails, Refuse, Pass, Postpone,
                    StatsStart, StatsLast, StatsExcess, shared
      <4> QED BY <4>1, NodesKept DEF RateInv
    <3> QED BY <2>3, <3>1, <3>2, <3>3, <3>4, <3>5, <3>6 DEF Worker, Failure
  <2> QED BY <1>2, <2>1, <2>2, <2>3 DEF RateInv, Next
<1> QED BY <1>1, <1>2

(* Over every interval in the life of a node ngx_http_limit_req_lookup()    *)
(* and ngx_http_limit_req_account() charge at most the burst, what leaks in *)
(* it and, before the last zone, one request for every other worker: for    *)
(* any number of workers and requests, if no worker is busy with a batch    *)
(* for longer than the minute that lookup() allows clocks to differ by.     *)
THEOREM RateBounded ==
  ASSUME MaxBatch <= 60000
  PROVE  Spec => []RateRespected
<1>1. ShortBatches BY DEF ShortBatches
<1>2. RateInv => RateRespected
  BY DEF RateInv, NodesOK, NodeRate, Rate, Respected, RateRespected
<1>3. IInv /\ RateInv /\ [Next]_vars => RateInv' BY <1>1, NextRate
<1> QED BY Inductive, InitRate, <1>2, <1>3, PTL DEF Spec
=============================================================================
