------------------------ MODULE LimitReqSharedProofs ------------------------
(***************************************************************************)
(* Proofs about LimitReq for any workers, keys, limits and scenarios: what *)
(* the shared memory holds, the trees, the queues and the counts.          *)
(***************************************************************************)
EXTENDS LimitReq, Extrema, SequenceTheorems, FiniteSetTheorems

-----------------------------------------------------------------------------
(* The queue of a zone.                                                     *)
Once(q) == \A i, j \in 1..Len(q) : q[i] = q[j] => i = j

(* Moving a key to the head keeps every key in the queue, and once.         *)
LEMMA BumpedOK ==
  ASSUME NEW S, NEW q \in Seq(S), NEW k \in Members(q), Once(q)
  PROVE  /\ Bumped(q, k) \in Seq(S) /\ Len(Bumped(q, k)) = Len(q)
         /\ Members(Bumped(q, k)) = Members(q) /\ Once(Bumped(q, k))
<1> DEFINE p == CHOOSE i \in 1..Len(q) : q[i] = k
           a == SubSeq(q, 1, p - 1)
           d == SubSeq(q, p + 1, Len(q))
           b == Bumped(q, k)
<1>1. Len(q) \in Nat /\ \A i \in 1..Len(q) : q[i] \in S
  BY ElementOfSeq, LenProperties
<1>2. p \in 1..Len(q) /\ q[p] = k
  BY DEF Members
<1>3. b = <<k>> \o a \o d
  BY DEF Bumped
<1> HIDE DEF p, b
<1>4. /\ a \in Seq(S) /\ Len(a) = p - 1
      /\ \A i \in 1..(p - 1) : a[i] = q[i]
  BY <1>1, <1>2, SubSeqProperties
<1>5. /\ d \in Seq(S) /\ Len(d) = Len(q) - p
      /\ \A i \in 1..(Len(q) - p) : d[i] = q[p + i]
  BY <1>1, <1>2, SubSeqProperties
<1> HIDE DEF a, d
<1>6. <<k>> \in Seq(S) /\ Len(<<k>>) = 1 /\ <<k>>[1] = k
  BY <1>1, <1>2
<1>7. /\ <<k>> \o a \in Seq(S) /\ Len(<<k>> \o a) = p
      /\ (<<k>> \o a)[1] = k /\ \A i \in 2..p : (<<k>> \o a)[i] = q[i - 1]
  BY <1>2, <1>4, <1>6, ConcatProperties
<1>8. /\ b \in Seq(S) /\ Len(b) = Len(q) /\ b[1] = k
      /\ \A i \in 2..p : b[i] = q[i - 1]
      /\ \A i \in (p + 1)..Len(q) : b[i] = q[i]
  <2> DEFINE e == <<k>> \o a
  <2>1. e \in Seq(S) /\ Len(e) = p BY <1>7
  <2> HIDE DEF e
  <2>2. /\ b \in Seq(S) /\ Len(b) = Len(e) + Len(d)
        /\ \A i \in 1..(Len(e) + Len(d)) : b[i] = IF i <= Len(e) THEN e[i] ELSE d[i - Len(e)]
    BY <1>3, <1>5, <2>1, ConcatProperties DEF e
  <2>3. Len(b) = Len(q) BY <1>1, <1>2, <1>5, <2>1, <2>2
  <2>4. ASSUME NEW i \in 1..p PROVE b[i] = e[i]
    <3>1. i \in 1..(Len(e) + Len(d)) /\ i <= Len(e) BY <1>1, <1>2, <1>5, <2>1
    <3> QED BY <2>2, <3>1
  <2>5. ASSUME NEW i \in (p + 1)..Len(q) PROVE b[i] = q[i]
    <3>1. b[i] = d[i - p] /\ i - p \in 1..(Len(q) - p) BY <1>1, <1>2, <1>5, <2>1, <2>2
    <3> QED BY <1>1, <1>2, <1>5, <3>1
  <2> QED BY <1>2, <1>7, <2>2, <2>3, <2>4, <2>5 DEF e
<1>9. Members(b) = Members(q)
  <2>1. ASSUME NEW i \in 1..Len(b) PROVE b[i] \in Members(q)
    <3>1. i = 1 \/ (i \in 2..p /\ i - 1 \in 1..Len(q)) \/ (i \in (p + 1)..Len(q) /\ i \in 1..Len(q))
      BY <1>1, <1>2, <1>8
    <3> QED BY <1>8, <3>1 DEF Members
  <2>2. ASSUME NEW i \in 1..Len(q) PROVE q[i] \in Members(b)
    <3>1. i = p \/ (i + 1 \in 2..p /\ i = (i + 1) - 1) \/ i \in (p + 1)..Len(q) BY <1>1, <1>2
    <3>2. i = p => q[i] = b[1] BY <1>2, <1>8
    <3>3. i + 1 \in 2..p => q[i] = b[i + 1] /\ i + 1 \in 1..Len(b) BY <1>1, <1>2, <1>8
    <3> QED BY <1>1, <1>2, <1>8, <3>1, <3>2, <3>3 DEF Members
  <2> QED BY <2>1, <2>2 DEF Members
<1>10. Once(b)
  <2> SUFFICES ASSUME NEW i \in 1..Len(b), NEW j \in 1..Len(b), b[i] = b[j] PROVE i = j
    BY DEF Once
  <2> DEFINE at(x) == IF x = 1 THEN p ELSE IF x <= p THEN x - 1 ELSE x
  <2>1. \A x \in 1..Len(b) : at(x) \in 1..Len(q) /\ b[x] = q[at(x)]
    BY <1>1, <1>2, <1>8
  <2>2. at(i) = at(j)
    BY <2>1 DEF Once
  <2> QED BY <1>1, <1>2, <1>8, <2>2
<1> QED BY <1>8, <1>9, <1>10 DEF b

(* What is left of a queue after entries went from its end.                 *)
LEMMA ShortenedOK ==
  ASSUME NEW S, NEW q \in Seq(S), NEW m \in 0..Len(q), Once(q)
  PROVE  /\ Shortened(q, m) \in Seq(S) /\ Len(Shortened(q, m)) = Len(q) - m
         /\ \A i \in 1..(Len(q) - m) : Shortened(q, m)[i] = q[i]
         /\ Once(Shortened(q, m))
<1>1. Len(q) \in Nat /\ \A i \in 1..Len(q) : q[i] \in S
  BY ElementOfSeq, LenProperties
<1>2. /\ Shortened(q, m) \in Seq(S) /\ Len(Shortened(q, m)) = Len(q) - m
      /\ \A i \in 1..(Len(q) - m) : Shortened(q, m)[i] = q[i]
  BY <1>1, SubSeqProperties DEF Shortened
<1> QED BY <1>1, <1>2 DEF Once

(* A key put before a queue that does not hold it.                          *)
LEMMA PushedOK ==
  ASSUME NEW S, NEW q \in Seq(S), NEW k \in S, k \notin Members(q), Once(q)
  PROVE  /\ <<k>> \o q \in Seq(S) /\ Len(<<k>> \o q) = Len(q) + 1
         /\ Members(<<k>> \o q) = Members(q) \cup {k} /\ Once(<<k>> \o q)
<1> DEFINE b == <<k>> \o q
<1>1. Len(q) \in Nat /\ \A i \in 1..Len(q) : q[i] \in S
  BY ElementOfSeq, LenProperties
<1>2. <<k>> \in Seq(S) /\ Len(<<k>>) = 1 /\ <<k>>[1] = k
  OBVIOUS
<1>3. /\ b \in Seq(S) /\ Len(b) = Len(q) + 1 /\ b[1] = k
      /\ \A i \in 2..(Len(q) + 1) : b[i] = q[i - 1]
  BY <1>1, <1>2, ConcatProperties
<1> HIDE DEF b
<1>4. \A i \in 1..Len(q) : b[i + 1] = q[i]
  BY <1>1, <1>3
<1>5. Members(b) = Members(q) \cup {k}
  <2>1. ASSUME NEW i \in 1..Len(b) PROVE b[i] \in Members(q) \cup {k}
    <3>1. i = 1 \/ (i \in 2..(Len(q) + 1) /\ i - 1 \in 1..Len(q)) BY <1>1, <1>3
    <3> QED BY <1>3, <3>1 DEF Members
  <2>2. ASSUME NEW i \in 1..Len(q) PROVE q[i] \in Members(b)
    <3>1. i + 1 \in 1..Len(b) BY <1>1, <1>3
    <3> QED BY <1>4, <3>1 DEF Members
  <2>3. k \in Members(b)
    <3>1. 1 \in 1..Len(b) BY <1>1, <1>3
    <3> QED BY <1>3, <3>1 DEF Members
  <2> QED BY <2>1, <2>2, <2>3 DEF Members
<1>6. Once(b)
  <2> SUFFICES ASSUME NEW i \in 1..Len(b), NEW j \in 1..Len(b), b[i] = b[j] PROVE i = j
    BY DEF Once
  <2>1. \A x \in 2..Len(b) : x - 1 \in 1..Len(q) /\ b[x] = q[x - 1] /\ b[x] # k
    BY <1>1, <1>3 DEF Members
  <2>2. CASE i = 1 \/ j = 1
    BY <1>1, <1>3, <2>1, <2>2
  <2>3. CASE i # 1 /\ j # 1
    <3>1. i - 1 \in 1..Len(q) /\ j - 1 \in 1..Len(q) /\ q[i - 1] = q[j - 1]
      BY <1>1, <1>3, <2>1, <2>3
    <3>2. i - 1 = j - 1
      BY <3>1 DEF Once
    <3> QED BY <1>1, <1>3, <3>2
  <2> QED BY <2>2, <2>3
<1> QED BY <1>3, <1>5, <1>6 DEF b

(* ngx_http_limit_req_expire() takes entries off the end that nobody uses.  *)
LEMMA ExpiredOK ==
  ASSUME NEW z, NEW q \in Seq(Keys), NEW t, NEW force \in Nat
  PROVE  /\ Expired(z, q, t, force) \in 0..Len(q)
         /\ \A i \in 1..Expired(z, q, t, force) : node[z][q[Len(q) + 1 - i]].count = 0
<1> DEFINE goes(m) == \A i \in 1..m : Disposable(z, node[z][q[Len(q) + 1 - i]], t, i <= force)
           stops(m) == m <= Len(q) /\ goes(m) /\ ((m < 2 + force /\ m < Len(q)) => ~goes(m + 1))
           T == {m \in Nat : m = 2 + force \/ m = Len(q) \/ ~goes(m + 1)}
<1>1. Len(q) \in Nat BY LenProperties
<1>2. Expired(z, q, t, force) = CHOOSE m \in 0..(2 + force) : stops(m)
  BY DEF Expired
<1> HIDE DEF goes
<1>3. 2 + force \in T /\ Len(q) \in T /\ T \subseteq Nat
  BY <1>1
<1>4. PICK m \in T : \A j \in T : m <= j
  <2>1. T # {} BY <1>3
  <2> HIDE DEF T
  <2> QED BY <1>3, <2>1, HasMin
<1>5. m \in Nat /\ m <= 2 + force /\ m <= Len(q)
  BY <1>3, <1>4
<1>6. goes(m)
  <2>1. CASE m = 0 BY <2>1 DEF goes
  <2>2. CASE m # 0
    <3>1. m - 1 \in Nat /\ m - 1 \notin T BY <1>4, <1>5, <2>2
    <3>2. goes((m - 1) + 1) BY <3>1
    <3> QED BY <1>5, <3>2
  <2> QED BY <2>1, <2>2
<1>7. stops(m) BY <1>4, <1>5, <1>6
<1>8. \E x \in 0..(2 + force) : stops(x) BY <1>5, <1>7
<1> DEFINE n == Expired(z, q, t, force)
<1>9. n \in 0..(2 + force) /\ stops(n) BY <1>2, <1>8
<1> HIDE DEF n
<1>10. n \in 0..Len(q) /\ goes(n) BY <1>1, <1>9
<1>11. \A i \in 1..n : node[z][q[Len(q) + 1 - i]].count = 0 BY <1>10 DEF goes, Disposable
<1> QED BY <1>10, <1>11 DEF n

(* The lookup makes room at the expense of entries that nobody uses.        *)
LEMMA MakeRoomOK ==
  ASSUME NEW z, queue[z] \in Seq(Keys), Once(queue[z]), NEW t
  PROVE  LET q == MakeRoom(z, t) IN
         /\ q \in Seq(Keys) /\ Once(q) /\ Len(q) <= Len(queue[z])
         /\ \A i \in 1..Len(q) : q[i] = queue[z][i]
         /\ \A i \in (Len(q) + 1)..Len(queue[z]) : node[z][queue[z][i]].count = 0
<1> DEFINE o == queue[z]
           m == Expired(z, o, t, 0)
           p == Shortened(o, m)
           n == Expired(z, p, t, 1)
           s == Shortened(p, n)
<1>1. Len(o) \in Nat /\ MakeRoom(z, t) = (IF Len(p) < MaxNodes THEN p ELSE s)
  BY LenProperties DEF MakeRoom
<1>2. m \in 0..Len(o) /\ \A i \in 1..m : node[z][o[Len(o) + 1 - i]].count = 0
  BY ExpiredOK
<1> HIDE DEF m
<1>3. /\ p \in Seq(Keys) /\ Len(p) = Len(o) - m /\ Once(p)
      /\ \A i \in 1..(Len(o) - m) : p[i] = o[i]
  BY <1>2, ShortenedOK
<1>4. ASSUME NEW i \in (Len(p) + 1)..Len(o) PROVE node[z][o[i]].count = 0
  <2>1. Len(o) + 1 - i \in 1..m /\ Len(o) + 1 - (Len(o) + 1 - i) = i
    BY <1>1, <1>2, <1>3
  <2> QED BY <1>2, <2>1
<1> HIDE DEF p
<1>5. n \in 0..Len(p) /\ \A i \in 1..n : node[z][p[Len(p) + 1 - i]].count = 0
  <2>1. 1 \in Nat /\ p \in Seq(Keys) BY <1>3
  <2> QED BY <2>1, ExpiredOK, Zenon
<1> HIDE DEF n
<1>6. /\ s \in Seq(Keys) /\ Len(s) = Len(p) - n /\ Once(s)
      /\ \A i \in 1..(Len(p) - n) : s[i] = p[i]
  BY <1>3, <1>5, ShortenedOK
<1>7. ASSUME NEW i \in (Len(s) + 1)..Len(p) PROVE node[z][p[i]].count = 0
  <2>1. Len(p) \in Nat BY <1>3, LenProperties
  <2>2. Len(p) + 1 - i \in 1..n /\ Len(p) + 1 - (Len(p) + 1 - i) = i
    BY <1>5, <1>6, <2>1
  <2> QED BY <1>5, <2>2
<1> HIDE DEF s
<1>8. ASSUME NEW i \in (Len(s) + 1)..Len(o) PROVE node[z][o[i]].count = 0
  <2>1. CASE i <= Len(p)
    <3>1. p[i] = o[i] /\ i \in (Len(s) + 1)..Len(p)
      BY <1>1, <1>2, <1>3, <1>5, <1>6, <2>1
    <3> QED BY <1>7, <3>1
  <2>2. CASE i > Len(p)
    <3>1. i \in (Len(p) + 1)..Len(o) BY <1>1, <1>2, <1>3, <1>5, <1>6, <2>2
    <3> QED BY <1>4, <3>1
  <2> QED BY <1>1, <1>2, <1>3, <1>5, <1>6, <2>1, <2>2
<1>9. \A i \in 1..Len(s) : s[i] = o[i]
  BY <1>1, <1>2, <1>3, <1>5, <1>6
<1>10. Len(p) <= Len(o) /\ Len(s) <= Len(o) /\ \A i \in 1..Len(p) : p[i] = o[i]
  BY <1>1, <1>2, <1>3, <1>5, <1>6
<1> QED BY <1>1, <1>3, <1>4, <1>6, <1>8, <1>9, <1>10

-----------------------------------------------------------------------------
(* The tree, the references and the history of charges of the zones.        *)
NodeType ==
  /\ node = [z \in Zones |-> node[z]]
  /\ \A z \in Zones : DOMAIN node[z] \subseteq Keys /\ node[z] \in [DOMAIN node[z] -> Node]

(* A change of one node.                                                    *)
Sets(z, k, lr) == node' = [node EXCEPT ![z][k] = lr]

(* Such a change leaves the tree and the other nodes as they were.          *)
LEMMA NodeUpdate ==
  ASSUME NodeType, NEW z \in Zones, NEW k \in DOMAIN node[z], NEW lr \in Node,
         Sets(z, k, lr)
  PROVE  /\ NodeType'
         /\ \A y \in Zones : /\ DOMAIN node'[y] = DOMAIN node[y]
                             /\ \A x \in DOMAIN node[y] :
                                  node'[y][x] = IF y = z /\ x = k THEN lr ELSE node[y][x]
<1>1. node' = [y \in Zones |-> IF y = z THEN [node[z] EXCEPT ![k] = lr] ELSE node[y]]
  BY DEF NodeType, Sets
<1>2. ASSUME NEW y \in Zones
      PROVE  /\ DOMAIN node'[y] = DOMAIN node[y] /\ node'[y] \in [DOMAIN node[y] -> Node]
             /\ \A x \in DOMAIN node[y] :
                  node'[y][x] = IF y = z /\ x = k THEN lr ELSE node[y][x]
  BY <1>1 DEF NodeType
<1>3. node' = [y \in Zones |-> node'[y]] BY <1>1
<1> QED BY <1>2, <1>3 DEF NodeType

(* The workers that point to a node.                                        *)
Users(z, k) == {w \in Workers : ctxNode[w][z] = k}
PointerType == ctxNode \in [Workers -> [Zones -> Keys \cup {NoKey}]]

(* They are finitely many, so they can be counted.                          *)
LEMMA UsersFinite == \A z, k : IsFiniteSet(Users(z, k)) /\ Cardinality(Users(z, k)) \in Nat
  BY KeysAssumption, FS_Subset, FS_CardinalityType DEF Users

(* How many point to a node if worker w's pointer in zone z becomes k.      *)
Points(w, z, k) == ctxNode' = [ctxNode EXCEPT ![w][z] = k]

(* The users of k gain w, those of its earlier node lose it.                *)
LEMMA UsersUpdate ==
  ASSUME PointerType, NEW w \in Workers, NEW z \in Zones, NEW k \in Keys \cup {NoKey},
         Points(w, z, k)
  PROVE  /\ PointerType'
         /\ \A v \in Workers, y \in Zones :
              ctxNode'[v][y] = IF v = w /\ y = z THEN k ELSE ctxNode[v][y]
         /\ \A y \in Zones, x \in Keys :
              Cardinality(Users(y, x)') =
                Cardinality(Users(y, x)) + (IF y = z /\ x = k THEN 1 ELSE 0)
                                         - (IF y = z /\ x = ctxNode[w][z] THEN 1 ELSE 0)
<1>1. /\ PointerType'
      /\ \A v \in Workers, y \in Zones :
           ctxNode'[v][y] = IF v = w /\ y = z THEN k ELSE ctxNode[v][y]
  BY DEF PointerType, Points
<1>2. ASSUME NEW y \in Zones, NEW x \in Keys
      PROVE  Cardinality(Users(y, x)') =
               Cardinality(Users(y, x)) + (IF y = z /\ x = k THEN 1 ELSE 0)
                                        - (IF y = z /\ x = ctxNode[w][z] THEN 1 ELSE 0)
  <2> DEFINE U == Users(y, x)
  <2>1. IsFiniteSet(U) /\ Cardinality(U) \in Nat BY UsersFinite
  <2>2. CASE y # z \/ (x # k /\ x # ctxNode[w][z]) \/ (x = k /\ x = ctxNode[w][z])
    <3>1. U' = U BY <1>1, <2>2 DEF Users
    <3> QED BY <2>1, <2>2, <3>1
  <2>3. CASE y = z /\ x = k /\ x # ctxNode[w][z]
    <3>1. U' = U \cup {w} /\ w \notin U BY <1>1, <2>3 DEF Users
    <3>2. Cardinality(U \cup {w}) = Cardinality(U) + 1 BY <2>1, <3>1, FS_AddElement
    <3> QED BY <2>1, <2>3, <3>1, <3>2
  <2>4. CASE y = z /\ x # k /\ x = ctxNode[w][z]
    <3>1. U' = U \ {w} /\ w \in U BY <1>1, <2>4 DEF Users
    <3>2. Cardinality(U \ {w}) = Cardinality(U) - 1 BY <2>1, <3>1, FS_RemoveElement
    <3> QED BY <2>1, <2>4, <3>1, <3>2
  <2> QED BY <2>2, <2>3, <2>4
<1> QED BY <1>1, <1>2

-----------------------------------------------------------------------------
(* The zones, and the leaky bucket of each.                                 *)
LEMMA ZonesType == Last \in Zones /\ Last \in Nat /\ Zones = 1..Last
BY LimitsAssumption, LenProperties DEF Zones, Last

(* The limits of a zone are numbers.                                        *)
LEMMA LimitsType ==
  ASSUME NEW z \in Zones
  PROVE  /\ Limits[z].rate \in Nat \ {0} /\ Limits[z].burst \in Nat /\ Limits[z].delay \in Nat
         /\ Last \in Zones /\ Last \in Nat /\ Zones = 1..Last
<1>1. Len(Limits) \in Nat /\ Limits[z] \in [rate : Nat \ {0}, burst : Nat, delay : Nat]
  BY LimitsAssumption, ElementOfSeq, LenProperties DEF Zones
<1> QED BY <1>1, LimitsAssumption DEF Zones, Last

(* The leak of a time is a natural number.                                  *)
LEMMA LeakType ==
  ASSUME NEW z \in Zones, NEW ms \in Nat
  PROVE  Leak(z, ms) \in Nat
<1>1. Limits[z].rate \in Nat BY LimitsType
<1>2. Limits[z].rate * ms \in Nat BY <1>1
<1> QED BY <1>2 DEF Leak

(* So is the excess, which lookup() clamps at 0; a charge sets it and keeps *)
(* the count.                                                               *)
LEMMA ChargedType ==
  ASSUME NEW z \in Zones, NEW lr \in Node, NEW t \in Nat
  PROVE  /\ Elapsed(lr, t) \in Nat
         /\ Excess(z, lr, t) \in Nat
         /\ Charged(z, lr, t) \in Node /\ Charged(z, lr, t).count = lr.count
         /\ Charged(z, lr, t).excess = Excess(z, lr, t)
         /\ Charged(z, lr, t).last = IF Elapsed(lr, t) # 0 THEN t ELSE lr.last
<1>1. lr.excess \in Nat /\ lr.last \in Nat BY DEF Node
<1>2. Elapsed(lr, t) \in Nat BY <1>1 DEF Elapsed
<1>3. Leak(z, Elapsed(lr, t)) \in Nat BY <1>2, LeakType
<1>4. Excess(z, lr, t) \in Nat BY <1>1, <1>3 DEF Excess
<1> QED BY <1>1, <1>2, <1>4 DEF Charged, Node

(* A delay is at most the time in which the excess leaks.                   *)
LEMMA DelayType ==
  ASSUME NEW z \in Zones, NEW e \in Nat
  PROVE  /\ Delay(z, e) \in Nat
         /\ Delay(z, e) # 0 => Limits[z].rate * Delay(z, e) <= 1000 * e
<1> DEFINE r == Limits[z].rate
           a == (e - Limits[z].delay) * 1000
<1>1. r \in Nat \ {0} /\ Limits[z].delay \in Nat BY LimitsType
<1>2. CASE e <= Limits[z].delay BY <1>2 DEF Delay
<1>3. CASE ~(e <= Limits[z].delay)
  <2>1. a \in Nat /\ a <= 1000 * e BY <1>1, <1>3
  <2>2. Delay(z, e) = a \div r BY <1>3 DEF Delay
  <2> HIDE DEF a, r
  <2>3. a \div r \in Nat /\ r * (a \div r) <= a BY <1>1, <2>1
  <2>4. r * (a \div r) <= 1000 * e
    <3> DEFINE b == r * (a \div r)
    <3>1. b \in Int /\ b <= a BY <1>1, <2>3
    <3> HIDE DEF b
    <3>2. b <= 1000 * e BY <2>1, <3>1
    <3> QED BY <3>2 DEF b
  <2> QED BY <2>2, <2>3, <2>4 DEF r
<1> QED BY <1>2, <1>3

-----------------------------------------------------------------------------
(* What holds of the shared memory: a node that went leaves no reference    *)
(* and no charge behind, and the last zone is charged, never referred to.   *)
ChargeRecord == [req : Requests, last : Nat]
Forgotten == \A z \in Zones : \A k \in Keys \ DOMAIN node[z] : lost[z][k] = 0 /\ charges[z][k] = <<>>
LastUnreferenced == \A w \in Workers : ctxNode[w][Last] = NoKey
SharedType ==
  /\ PointerType /\ NodeType
  /\ queue \in [Zones -> Seq(Keys)]
  /\ charges \in [Zones -> [Keys -> Seq(ChargeRecord)]]
  /\ lost \in [Zones -> [Keys -> Nat]]
SharedInv == SharedType /\ QueueMatchesTree /\ ReferencesCounted /\ Forgotten /\ LastUnreferenced

(* The locals of the handlers.                                              *)
JobType ==
  /\ job \in [Workers -> Job] /\ clock \in [Workers -> Nat]
  /\ \A w \in Workers : /\ pc[w] = "lookup" => job[w].n \in Zones
                        /\ pc[w] = "reject" => job[w].n < Last

(* A key that is looked up moves to the head of its queue.                  *)
LEMMA QueueBumped ==
  ASSUME SharedInv, NEW z \in Zones, NEW k \in DOMAIN node[z],
         queue' = [queue EXCEPT ![z] = Bumped(@, k)],
         \A y \in Zones : DOMAIN node'[y] = DOMAIN node[y]
  PROVE  queue' \in [Zones -> Seq(Keys)] /\ QueueMatchesTree'
<1>1. queue[z] \in Seq(Keys) /\ k \in Members(queue[z]) /\ Once(queue[z])
  BY DEF SharedInv, SharedType, QueueMatchesTree, Once
<1>2. /\ Bumped(queue[z], k) \in Seq(Keys) /\ Len(Bumped(queue[z], k)) = Len(queue[z])
      /\ Members(Bumped(queue[z], k)) = Members(queue[z]) /\ Once(Bumped(queue[z], k))
  BY <1>1, BumpedOK
<1>3. queue' \in [Zones -> Seq(Keys)] BY <1>2 DEF SharedInv, SharedType
<1>4. ASSUME NEW y \in Zones
      PROVE  /\ Members(queue'[y]) = DOMAIN node'[y] /\ Once(queue'[y])
             /\ Len(queue'[y]) <= MaxNodes
  <2>1. CASE y = z BY <1>2, <2>1 DEF SharedInv, SharedType, QueueMatchesTree
  <2>2. CASE y # z BY <2>2 DEF SharedInv, SharedType, QueueMatchesTree, Once
  <2> QED BY <2>1, <2>2
<1> QED BY <1>3, <1>4 DEF QueueMatchesTree, Once, Members

(* If no queue and no tree changes, they still match.                       *)
LEMMA QueueKept ==
  ASSUME SharedInv, UNCHANGED queue, \A y \in Zones : DOMAIN node'[y] = DOMAIN node[y]
  PROVE  queue' \in [Zones -> Seq(Keys)] /\ QueueMatchesTree'
<1>1. queue' \in [Zones -> Seq(Keys)] BY DEF SharedInv, SharedType
<1>2. ASSUME NEW y \in Zones
      PROVE  /\ Members(queue'[y]) = DOMAIN node'[y] /\ Once(queue'[y])
             /\ Len(queue'[y]) <= MaxNodes
  BY DEF SharedInv, QueueMatchesTree, Once
<1> QED BY <1>1, <1>2 DEF QueueMatchesTree, Once, Members

Balanced ==
  \A y \in Zones : \A x \in DOMAIN node[y] :
    node'[y][x].count + Cardinality(Users(y, x)) + lost[y][x] =
      node[y][x].count + Cardinality(Users(y, x)') + lost'[y][x]

(* Where count and users change together, the count stays right.            *)
LEMMA ReferencesStep ==
  ASSUME SharedInv, Balanced, NodeType', lost' \in [Zones -> [Keys -> Nat]],
         \A y \in Zones : DOMAIN node'[y] = DOMAIN node[y],
         \A v \in Workers, y \in Zones : ctxNode'[v][y] # NoKey => ctxNode'[v][y] \in DOMAIN node[y]
  PROVE  ReferencesCounted'
<1> SUFFICES ASSUME NEW y \in Zones, NEW x \in DOMAIN node[y]
             PROVE  node'[y][x].count = Cardinality(Users(y, x)') + lost'[y][x]
  BY DEF ReferencesCounted, Users
<1>1. x \in Keys BY DEF SharedInv, SharedType, NodeType
<1>2. /\ node[y][x].count \in Nat /\ lost[y][x] \in Nat /\ lost'[y][x] \in Nat
      /\ node'[y][x].count \in Nat
  BY <1>1 DEF SharedInv, SharedType, NodeType, Node
<1>3. Cardinality(Users(y, x)) \in Nat /\ Cardinality(Users(y, x)') \in Nat
  <2> DEFINE U == Users(y, x)'
  <2>1. U \subseteq Workers BY DEF Users
  <2> HIDE DEF U
  <2>2. Cardinality(U) \in Nat BY <2>1, KeysAssumption, FS_Subset, FS_CardinalityType
  <2> QED BY <2>2, UsersFinite DEF U
<1>4. node[y][x].count = Cardinality(Users(y, x)) + lost[y][x]
  BY DEF SharedInv, ReferencesCounted, Users
<1>5. node'[y][x].count + Cardinality(Users(y, x)) + lost[y][x] =
        node[y][x].count + Cardinality(Users(y, x)') + lost'[y][x]
  BY DEF Balanced
<1> DEFINE n == node[y][x].count
           m == node'[y][x].count
           u == Cardinality(Users(y, x))
           uu == Cardinality(Users(y, x)')
           l == lost[y][x]
           h == lost'[y][x]
<1>6. n \in Nat /\ m \in Nat /\ u \in Nat /\ uu \in Nat /\ l \in Nat /\ h \in Nat
  BY <1>2, <1>3
<1>7. n = u + l BY <1>4
<1>8. m + u + l = n + uu + h BY <1>5
<1> HIDE DEF n, m, u, uu, l, h
<1>9. m = uu + h BY <1>6, <1>7, <1>8
<1> QED BY <1>9 DEF m, uu, h

(* The references of a zone after a worker's pointer changed with the       *)
(* counter: c and l are what it adds to a key's counter and lost references.*)
Moves(w, z, k) ==
  \A y \in Zones : \A x \in DOMAIN node[y] :
    /\ y # z => node'[y][x].count = node[y][x].count /\ lost'[y][x] = lost[y][x]
    /\ y = z => \E c, l \in Int :
         /\ node'[y][x].count = node[y][x].count + c /\ lost'[y][x] = lost[y][x] + l
         /\ c = (IF x = k THEN 1 ELSE 0) - (IF x = ctxNode[w][z] THEN 1 ELSE 0) + l

(* A worker moves its pointer from one node of a zone to another, or to     *)
(* none.                                                                    *)
LEMMA PointerStep ==
  ASSUME SharedInv, NEW w \in Workers, NEW z \in Zones, z # Last, NEW k \in Keys \cup {NoKey},
         k # NoKey => k \in DOMAIN node[z],
         Points(w, z, k),
         NodeType', lost' \in [Zones -> [Keys -> Nat]],
         \A y \in Zones : DOMAIN node'[y] = DOMAIN node[y],
         Moves(w, z, k)
  PROVE  PointerType' /\ ReferencesCounted' /\ LastUnreferenced'
<1>0. PointerType BY DEF SharedInv, SharedType
<1>1. /\ PointerType'
      /\ \A v \in Workers, y \in Zones :
           ctxNode'[v][y] = IF v = w /\ y = z THEN k ELSE ctxNode[v][y]
      /\ \A y \in Zones, x \in Keys :
           Cardinality(Users(y, x)') =
             Cardinality(Users(y, x)) + (IF y = z /\ x = k THEN 1 ELSE 0)
                                      - (IF y = z /\ x = ctxNode[w][z] THEN 1 ELSE 0)
  BY <1>0, UsersUpdate
<1>2. \A v \in Workers, y \in Zones : ctxNode'[v][y] # NoKey => ctxNode'[v][y] \in DOMAIN node[y]
  BY <1>1 DEF SharedInv, ReferencesCounted
<1>3. LastUnreferenced'
  BY <1>1, LimitsType DEF SharedInv, LastUnreferenced
<1>4. Balanced
  <2> SUFFICES ASSUME NEW y \in Zones, NEW x \in DOMAIN node[y]
               PROVE  node'[y][x].count + Cardinality(Users(y, x)) + lost[y][x] =
                        node[y][x].count + Cardinality(Users(y, x)') + lost'[y][x]
    BY DEF Balanced
  <2> DEFINE n == node[y][x].count
             m == node'[y][x].count
             u == Cardinality(Users(y, x))
             uu == Cardinality(Users(y, x)')
             l == lost[y][x]
             h == lost'[y][x]
             a == IF x = k THEN 1 ELSE 0
             b == IF x = ctxNode[w][z] THEN 1 ELSE 0
  <2>1. x \in Keys BY DEF SharedInv, SharedType, NodeType
  <2>2. n \in Nat /\ m \in Nat /\ l \in Nat /\ h \in Nat
    BY <2>1 DEF SharedInv, SharedType, NodeType, Node
  <2>3. u \in Nat BY UsersFinite
  <2>4. CASE y # z
    <3>1. uu = u + 0 - 0 BY <1>1, <2>1, <2>4
    <3>2. m = n /\ h = l BY <2>4 DEF Moves
    <3> HIDE DEF n, m, u, uu, l, h
    <3>3. m + u + l = n + uu + h BY <2>2, <2>3, <3>1, <3>2
    <3> QED BY <3>3 DEF n, m, u, uu, l, h
  <2>5. CASE y = z
    <3>1. uu = u + a - b BY <1>1, <2>1, <2>5
    <3>2. a \in Int /\ b \in Int OBVIOUS
    <3>3. \E c, d \in Int : m = n + c /\ h = l + d /\ c = a - b + d BY <2>5 DEF Moves
    <3> HIDE DEF n, m, u, uu, l, h, a, b
    <3>4. PICK c, d \in Int : m = n + c /\ h = l + d /\ c = a - b + d BY <3>3
    <3>5. m + u + l = n + uu + h BY <2>2, <2>3, <3>1, <3>2, <3>4
    <3> QED BY <3>5 DEF n, m, u, uu, l, h
  <2> QED BY <2>4, <2>5
<1>5. ReferencesCounted' BY <1>2, <1>4, ReferencesStep
<1> QED BY <1>1, <1>3, <1>5

(* What a change of one counter and one pointer does to the references.     *)
LEMMA CountStep ==
  ASSUME SharedInv, NEW w \in Workers, NEW z \in Zones, z # Last,
         NEW k \in Keys \cup {NoKey}, Points(w, z, k),
         NEW x \in DOMAIN node[z], NEW lr \in Node, Sets(z, x, lr),
         \/ /\ x = k /\ lr.count = node[z][x].count + 1
            /\ lost' = IF ctxNode[w][z] = NoKey THEN lost
                       ELSE [lost EXCEPT ![z][ctxNode[w][z]] = @ + 1]
         \/ /\ k = NoKey /\ x = ctxNode[w][z]
            /\ lr.count = node[z][x].count - 1 /\ lost' = lost
  PROVE  /\ PointerType' /\ NodeType' /\ ReferencesCounted' /\ LastUnreferenced'
         /\ lost' \in [Zones -> [Keys -> Nat]]
         /\ \A y \in Zones : /\ DOMAIN node'[y] = DOMAIN node[y]
                             /\ \A i \in DOMAIN node[y] :
                                  node'[y][i] = IF y = z /\ i = x THEN lr ELSE node[y][i]
         /\ \A y \in Zones : \A i \in Keys \ DOMAIN node[y] : lost'[y][i] = lost[y][i]
<1> DEFINE o == ctxNode[w][z]
<1>1. NodeType /\ o \in Keys \cup {NoKey} /\ (o # NoKey => o \in DOMAIN node[z])
  BY DEF SharedInv, SharedType, PointerType, ReferencesCounted
<1>2. /\ NodeType'
      /\ \A y \in Zones : /\ DOMAIN node'[y] = DOMAIN node[y]
                          /\ \A i \in DOMAIN node[y] :
                               node'[y][i] = IF y = z /\ i = x THEN lr ELSE node[y][i]
  BY <1>1, NodeUpdate
<1>3. lost \in [Zones -> [Keys -> Nat]] /\ NoKey \notin Keys /\ DOMAIN node[z] \subseteq Keys
  BY KeysAssumption DEF SharedInv, SharedType, NodeType
<1>4. \A y \in Zones : \A i \in DOMAIN node[y] : node[y][i].count \in Int
  BY <1>1 DEF NodeType, Node
<1> HIDE DEF o
<1>5. CASE /\ x = k /\ lr.count = node[z][x].count + 1
           /\ lost' = IF o = NoKey THEN lost ELSE [lost EXCEPT ![z][o] = @ + 1]
  <2>1. /\ lost' \in [Zones -> [Keys -> Nat]]
        /\ \A y \in Zones : \A i \in Keys :
             lost'[y][i] = IF y = z /\ i = o THEN lost[y][i] + 1 ELSE lost[y][i]
    BY <1>1, <1>3, <1>5
  <2>2. ASSUME NEW y \in Zones, NEW i \in DOMAIN node[y]
        PROVE  /\ y # z => node'[y][i].count = node[y][i].count /\ lost'[y][i] = lost[y][i]
               /\ y = z => \E c, l \in Int :
                    /\ node'[y][i].count = node[y][i].count + c /\ lost'[y][i] = lost[y][i] + l
                    /\ c = (IF i = k THEN 1 ELSE 0) - (IF i = o THEN 1 ELSE 0) + l
    <3>0. i \in Keys BY <1>1 DEF NodeType
    <3>1. CASE y # z BY <1>2, <2>1, <3>0, <3>1
    <3>2. CASE y = z
      <4> DEFINE c == IF i = k THEN 1 ELSE 0
                 l == IF i = o THEN 1 ELSE 0
      <4>1. node'[y][i].count = node[y][i].count + c BY <1>2, <1>4, <1>5, <3>2
      <4>2. lost'[y][i] = lost[y][i] + l
        <5>1. lost[y][i] \in Nat BY <1>3, <3>0
        <5> QED BY <2>1, <3>0, <3>2, <5>1
      <4>3. c \in Int /\ l \in Int OBVIOUS
      <4> HIDE DEF c, l
      <4>4. c = c - l + l BY <4>3
      <4>5. \E a, b \in Int : /\ node'[y][i].count = node[y][i].count + a /\ lost'[y][i] = lost[y][i] + b
                              /\ a = c - l + b
        BY <4>1, <4>2, <4>3, <4>4
      <4> QED BY <3>2, <4>5 DEF c, l
    <3> QED BY <3>1, <3>2
  <2>3. Moves(w, z, k) BY <2>2 DEF Moves, o
  <2>4. k # NoKey => k \in DOMAIN node[z] BY <1>5
  <2>5. PointerType' /\ ReferencesCounted' /\ LastUnreferenced'
    BY <1>2, <2>1, <2>3, <2>4, PointerStep
  <2> QED BY <1>1, <1>2, <2>1, <2>5
<1>6. CASE k = NoKey /\ x = o /\ lr.count = node[z][x].count - 1 /\ lost' = lost
  <2>1. lost' \in [Zones -> [Keys -> Nat]] BY <1>3, <1>6
  <2>2. ASSUME NEW y \in Zones, NEW i \in DOMAIN node[y]
        PROVE  /\ y # z => node'[y][i].count = node[y][i].count /\ lost'[y][i] = lost[y][i]
               /\ y = z => \E c, l \in Int :
                    /\ node'[y][i].count = node[y][i].count + c /\ lost'[y][i] = lost[y][i] + l
                    /\ c = (IF i = k THEN 1 ELSE 0) - (IF i = o THEN 1 ELSE 0) + l
    <3>0. i \in Keys /\ i # k BY <1>1, <1>3, <1>6 DEF NodeType
    <3>1. CASE y # z BY <1>2, <1>6, <3>0, <3>1
    <3>2. CASE y = z
      <4> DEFINE l == IF i = o THEN 1 ELSE 0
      <4>1. node'[y][i].count = node[y][i].count + (0 - l) BY <1>2, <1>4, <1>6, <3>2
      <4>2. lost'[y][i] = lost[y][i] + 0
        <5>1. lost[y][i] \in Nat BY <1>3, <3>0
        <5> QED BY <1>6, <5>1
      <4>3. l \in Int OBVIOUS
      <4> HIDE DEF l
      <4>4. 0 - l \in Int /\ 0 - l = 0 - l + 0 BY <4>3
      <4>5. \E a, b \in Int : /\ node'[y][i].count = node[y][i].count + a /\ lost'[y][i] = lost[y][i] + b
                              /\ a = 0 - l + b
        BY <4>1, <4>2, <4>4
      <4> QED BY <3>0, <3>2, <4>5 DEF l
    <3> QED BY <3>1, <3>2
  <2>3. Moves(w, z, k) BY <2>2 DEF Moves, o
  <2>5. PointerType' /\ ReferencesCounted' /\ LastUnreferenced'
    BY <1>2, <1>6, <2>1, <2>3, PointerStep
  <2> QED BY <1>2, <1>6, <2>1, <2>5
<1> QED BY <1>5, <1>6 DEF o

(* A change of a node that leaves its counter alone.                        *)
LEMMA SameCount ==
  ASSUME SharedInv, NEW z \in Zones, NEW x \in DOMAIN node[z], NEW lr \in Node, Sets(z, x, lr),
         lr.count = node[z][x].count, UNCHANGED <<ctxNode, lost>>
  PROVE  /\ PointerType' /\ NodeType' /\ ReferencesCounted' /\ LastUnreferenced'
         /\ \A y \in Zones : /\ DOMAIN node'[y] = DOMAIN node[y]
                             /\ \A i \in DOMAIN node[y] :
                                  node'[y][i] = IF y = z /\ i = x THEN lr ELSE node[y][i]
<1>1. /\ NodeType'
      /\ \A y \in Zones : /\ DOMAIN node'[y] = DOMAIN node[y]
                          /\ \A i \in DOMAIN node[y] :
                               node'[y][i] = IF y = z /\ i = x THEN lr ELSE node[y][i]
  BY NodeUpdate DEF SharedInv, SharedType
<1>2. \A y \in Zones : \A i \in DOMAIN node[y] : node'[y][i].count = node[y][i].count
  BY <1>1
<1>3. ReferencesCounted'
  BY <1>1, <1>2 DEF SharedInv, ReferencesCounted
<1> QED BY <1>1, <1>3 DEF SharedInv, SharedType, PointerType, LastUnreferenced

(* A request is charged to a node of the tree.                              *)
LEMMA ChargeStep ==
  ASSUME SharedInv, NEW z \in Zones, NEW k \in Keys, NEW r \in Requests, NEW lr \in Node,
         charges' = Charge(z, k, r, lr)
  PROVE  /\ charges' \in [Zones -> [Keys -> Seq(ChargeRecord)]]
         /\ \A y \in Zones : \A i \in Keys :
              charges'[y][i] = IF y = z /\ i = k
                               THEN Append(charges[z][k], [req |-> r, last |-> lr.last])
                               ELSE charges[y][i]
<1> DEFINE c == [req |-> r, last |-> lr.last]
           a == Append(charges[z][k], c)
<1>1. c \in ChargeRecord BY DEF ChargeRecord, Node
<1>2. charges \in [Zones -> [Keys -> Seq(ChargeRecord)]] BY DEF SharedInv, SharedType
<1>3. a \in Seq(ChargeRecord) BY <1>1, <1>2, AppendProperties
<1>4. charges' = [charges EXCEPT ![z][k] = a] BY DEF Charge
<1> HIDE DEF a
<1>5. /\ charges' \in [Zones -> [Keys -> Seq(ChargeRecord)]]
      /\ \A y \in Zones : \A i \in Keys : charges'[y][i] = IF y = z /\ i = k THEN a ELSE charges[y][i]
  BY <1>2, <1>3, <1>4
<1> QED BY <1>5 DEF a

(* What a handler in the lookup of a zone knows.                            *)
LEMMA LookupFacts ==
  ASSUME JobType, NEW w \in Workers, InLookup(w)
  PROVE  /\ Zone(w) \in Zones /\ Key(w) \in Keys \cup {NoKey} /\ job[w].r \in Requests
         /\ clock[w] \in Nat
BY KeysAssumption DEF JobType, InLookup, Zone, Key, Job

(* The lookup of a key that has a node.                                     *)
LEMMA FoundShared ==
  ASSUME SharedInv, JobType, NEW w \in Workers, LookupFound(w)
  PROVE  SharedInv'
<1> DEFINE z == Zone(w)
           k == Key(w)
           lr == node[z][k]
           excess == Excess(z, lr, clock[w])
           charged == Charged(z, lr, clock[w])
           rc == IF TooMany(z, excess) THEN "BUSY" ELSE IF z = Last THEN "OK" ELSE "AGAIN"
<1>1. /\ Found(w) /\ queue' = [queue EXCEPT ![z] = Bumped(@, k)]
      /\ \/ rc = "BUSY" /\ UNCHANGED <<node, ctxNode, charges, lost>>
         \/ /\ rc = "OK" /\ node' = [node EXCEPT ![z][k] = charged]
            /\ charges' = Charge(z, k, job[w].r, charged) /\ UNCHANGED <<ctxNode, lost>>
         \/ /\ rc = "AGAIN" /\ node' = [node EXCEPT ![z][k].count = @ + 1]
            /\ Refer(w, z, k) /\ UNCHANGED charges
  BY DEF LookupFound
<1>2. z \in Zones /\ k \in Keys /\ k \in DOMAIN node[z] /\ job[w].r \in Requests /\ clock[w] \in Nat
  BY <1>1, LookupFacts DEF Found
<1>3. lr \in Node /\ NodeType BY <1>2 DEF SharedInv, SharedType, NodeType
<1> HIDE DEF z, k
<1>4. CASE rc = "BUSY" /\ UNCHANGED <<node, ctxNode, charges, lost>>
  <2>1. QueueMatchesTree' /\ queue' \in [Zones -> Seq(Keys)]
    BY <1>1, <1>2, <1>4, QueueBumped
  <2>2. ReferencesCounted' BY <1>4 DEF SharedInv, ReferencesCounted
  <2>3. PointerType' /\ NodeType' /\ Forgotten' /\ LastUnreferenced'
    BY <1>4 DEF SharedInv, SharedType, PointerType, NodeType, Forgotten, LastUnreferenced
  <2> QED BY <1>4, <2>1, <2>2, <2>3 DEF SharedInv, SharedType
<1>5. CASE /\ rc = "OK" /\ node' = [node EXCEPT ![z][k] = charged]
           /\ charges' = Charge(z, k, job[w].r, charged) /\ UNCHANGED <<ctxNode, lost>>
  <2>1. charged \in Node /\ charged.count = lr.count BY <1>2, <1>3, ChargedType
  <2> HIDE DEF charged
  <2>2. Sets(z, k, charged) BY <1>5 DEF Sets
  <2>3. /\ PointerType' /\ NodeType' /\ ReferencesCounted' /\ LastUnreferenced'
        /\ \A y \in Zones : DOMAIN node'[y] = DOMAIN node[y]
    BY <1>2, <1>5, <2>1, <2>2, SameCount
  <2>4. /\ charges' \in [Zones -> [Keys -> Seq(ChargeRecord)]]
        /\ \A y \in Zones : \A i \in Keys : ~(y = z /\ i = k) => charges'[y][i] = charges[y][i]
    <3>1. charges' = Charge(z, k, job[w].r, charged) BY <1>5
    <3>2. /\ charges' \in [Zones -> [Keys -> Seq(ChargeRecord)]]
          /\ \A y \in Zones : \A i \in Keys :
               charges'[y][i] = IF y = z /\ i = k
                                THEN Append(charges[z][k], [req |-> job[w].r, last |-> charged.last])
                                ELSE charges[y][i]
      BY <1>2, <2>1, <3>1, ChargeStep
    <3> QED BY <3>2
  <2>5. QueueMatchesTree' /\ queue' \in [Zones -> Seq(Keys)]
    BY <1>1, <1>2, <2>3, QueueBumped
  <2>6. Forgotten'
    <3>1. lost' = lost BY <1>5
    <3> QED BY <1>2, <2>3, <2>4, <3>1 DEF SharedInv, Forgotten
  <2> QED BY <1>5, <2>3, <2>4, <2>5, <2>6 DEF SharedInv, SharedType
<1>6. CASE /\ rc = "AGAIN" /\ node' = [node EXCEPT ![z][k].count = @ + 1]
           /\ Refer(w, z, k) /\ UNCHANGED charges
  <2> DEFINE new == [lr EXCEPT !.count = @ + 1]
  <2>1. new \in Node /\ new.count = lr.count + 1
    <3>1. lr.count \in Nat BY <1>3 DEF Node
    <3>2. lr.count + 1 \in Nat BY <3>1
    <3> QED BY <1>3, <3>2 DEF Node
  <2>2. Sets(z, k, new) BY <1>2, <1>3, <1>6 DEF Sets, NodeType
  <2> HIDE DEF new
  <2>3. Points(w, z, k) BY <1>6 DEF Points, Refer
  <2>4. z # Last BY <1>6
  <2>5. lost' = IF ctxNode[w][z] = NoKey THEN lost ELSE [lost EXCEPT ![z][ctxNode[w][z]] = @ + 1]
    BY <1>6 DEF Refer
  <2>6. /\ PointerType' /\ NodeType' /\ ReferencesCounted' /\ LastUnreferenced'
        /\ lost' \in [Zones -> [Keys -> Nat]]
        /\ \A y \in Zones : DOMAIN node'[y] = DOMAIN node[y]
        /\ \A y \in Zones : \A i \in Keys \ DOMAIN node[y] : lost'[y][i] = lost[y][i]
    BY <1>2, <2>1, <2>2, <2>3, <2>4, <2>5, CountStep
  <2>7. QueueMatchesTree' /\ queue' \in [Zones -> Seq(Keys)]
    BY <1>1, <1>2, <2>6, QueueBumped
  <2>8. Forgotten' BY <1>6, <2>6 DEF SharedInv, Forgotten
  <2> QED BY <1>6, <2>6, <2>7, <2>8 DEF SharedInv, SharedType
<1> QED BY <1>1, <1>4, <1>5, <1>6

(* A key without a node, or whose node has the count 0, nobody refers to.   *)
LEMMA Unused ==
  ASSUME SharedInv, NEW z \in Zones, NEW x \in Keys,
         x \in DOMAIN node[z] => node[z][x].count = 0
  PROVE  Users(z, x) = {} /\ Cardinality(Users(z, x)) = 0 /\ lost[z][x] = 0
<1>1. Cardinality({}) = 0 BY FS_EmptySet
<1>2. CASE x \notin DOMAIN node[z]
  <2>1. Users(z, x) = {}
    BY <1>2, KeysAssumption DEF SharedInv, ReferencesCounted, Users
  <2> QED BY <1>1, <1>2, <2>1 DEF SharedInv, Forgotten
<1>3. CASE x \in DOMAIN node[z]
  <2>1. node[z][x].count = 0 /\ node[z][x].count = Cardinality(Users(z, x)) + lost[z][x]
    BY <1>3 DEF SharedInv, ReferencesCounted, Users
  <2>2. lost[z][x] \in Nat /\ Cardinality(Users(z, x)) \in Nat /\ IsFiniteSet(Users(z, x))
    BY UsersFinite DEF SharedInv, SharedType
  <2>3. Cardinality(Users(z, x)) = 0 /\ lost[z][x] = 0 BY <2>1, <2>2
  <2> QED BY <2>2, <2>3, FS_EmptySet
<1> QED BY <1>2, <1>3

(* The lookup of a key that has no node: the nodes that go are not used.    *)
LEMMA RoomStep ==
  ASSUME SharedInv, NEW z \in Zones, NEW k \in Keys, k \notin DOMAIN node[z], NEW t,
         NEW kept, \/ kept = MakeRoom(z, t)
                   \/ Len(MakeRoom(z, t)) < MaxNodes /\ kept = <<k>> \o MakeRoom(z, t)
  PROVE  /\ kept \in Seq(Keys) /\ Once(kept) /\ Len(kept) <= MaxNodes
         /\ Members(kept) \subseteq DOMAIN node[z] \cup {k}
         /\ \A x \in DOMAIN node[z] \ Members(kept) : node[z][x].count = 0
         /\ k \in Members(kept) <=> kept # MakeRoom(z, t)
<1> DEFINE o == queue[z]
           q == MakeRoom(z, t)
<1>1. o \in Seq(Keys) /\ Once(o) /\ Members(o) = DOMAIN node[z] /\ Len(o) <= MaxNodes
  BY DEF SharedInv, SharedType, QueueMatchesTree, Once
<1>2. /\ q \in Seq(Keys) /\ Once(q) /\ Len(q) <= Len(o) /\ Len(q) \in Nat /\ Len(o) \in Nat
      /\ \A i \in 1..Len(q) : q[i] = o[i]
      /\ \A i \in (Len(q) + 1)..Len(o) : node[z][o[i]].count = 0
  BY <1>1, MakeRoomOK, LenProperties
<1> HIDE DEF q, o
<1>3. Members(q) \subseteq Members(o)
  <2>1. \A i \in 1..Len(q) : i \in 1..Len(o) /\ q[i] = o[i] BY <1>2
  <2> QED BY <2>1 DEF Members
<1>4. ASSUME NEW x \in Members(o) \ Members(q) PROVE node[z][x].count = 0
  <2>1. PICK i \in 1..Len(o) : x = o[i] BY DEF Members
  <2>2. i \notin 1..Len(q) BY <1>2, <2>1 DEF Members
  <2>3. i \in (Len(q) + 1)..Len(o) BY <1>2, <2>2
  <2> QED BY <1>2, <2>1, <2>3
<1>5. k \notin Members(q) BY <1>1, <1>3
<1>6. CASE kept = q
  <2>1. Len(q) <= MaxNodes BY <1>1, <1>2, LimitsAssumption
  <2> QED BY <1>1, <1>2, <1>3, <1>4, <1>5, <1>6, <2>1 DEF q
<1>7. CASE Len(q) < MaxNodes /\ kept = <<k>> \o q
  <2>1. /\ <<k>> \o q \in Seq(Keys) /\ Len(<<k>> \o q) = Len(q) + 1
        /\ Members(<<k>> \o q) = Members(q) \cup {k} /\ Once(<<k>> \o q)
    BY <1>2, <1>5, PushedOK
  <2>2. Len(kept) <= MaxNodes BY <1>2, <1>7, <2>1, LimitsAssumption
  <2>3. kept # q BY <1>5, <1>7, <2>1
  <2> QED BY <1>1, <1>3, <1>4, <1>7, <2>1, <2>2, <2>3 DEF q
<1> QED BY <1>6, <1>7 DEF q

(* The tree of a zone that loses nodes and gets one.                        *)
Grows(z, live, k, lr) ==
  node' = [node EXCEPT ![z] = [x \in live |-> IF x = k THEN lr ELSE node[z][x]]]

(* What such a tree holds.                                                  *)
LEMMA TreeStep ==
  ASSUME NodeType, NEW z \in Zones, NEW k \in Keys, NEW lr \in Node,
         NEW live, live \subseteq DOMAIN node[z] \cup {k}, Grows(z, live, k, lr)
  PROVE  /\ NodeType' /\ DOMAIN node'[z] = live
         /\ \A x \in live : node'[z][x] = IF x = k THEN lr ELSE node[z][x]
         /\ \A y \in Zones : y # z => node'[y] = node[y]
<1> DEFINE f == [x \in live |-> IF x = k THEN lr ELSE node[z][x]]
<1>1. f \in [live -> Node] /\ live \subseteq Keys BY DEF NodeType
<1>2. /\ DOMAIN f = live
      /\ \A x \in live : f[x] = IF x = k THEN lr ELSE node[z][x]
  OBVIOUS
<1>3. node' = [y \in Zones |-> IF y = z THEN f ELSE node[y]] BY DEF NodeType, Grows
<1> HIDE DEF f
<1>4. node'[z] = f /\ \A y \in Zones : y # z => node'[y] = node[y] BY <1>3
<1>5. node' = [y \in Zones |-> node'[y]] BY <1>3
<1>6. \A y \in Zones : DOMAIN node'[y] \subseteq Keys /\ node'[y] \in [DOMAIN node'[y] -> Node]
  BY <1>1, <1>2, <1>4 DEF NodeType
<1> QED BY <1>2, <1>4, <1>5, <1>6 DEF NodeType

(* A lookup that makes a node, after expire() has freed others, keeps the   *)
(* shared memory in order.                                                  *)
LEMMA MissingShared ==
  ASSUME SharedInv, JobType, NEW w \in Workers, LookupMissing(w)
  PROVE  SharedInv'
<1> DEFINE z == Zone(w)
           k == Key(w)
           t == clock[w]
           q == MakeRoom(z, t)
           lr == IF z = Last THEN [excess |-> 0, last |-> clock[w], count |-> 0]
                 ELSE [excess |-> 0, last |-> 0, count |-> 1]
           rc == IF Len(q) >= MaxNodes THEN "ERROR" ELSE IF z = Last THEN "OK" ELSE "AGAIN"
           kept == IF rc = "ERROR" THEN q ELSE <<k>> \o q
           live == Members(kept)
           left == [x \in Keys |-> IF x \in live THEN charges[z][x] ELSE <<>>]
           o == ctxNode[w][z]
<1>1. /\ Missing(w) /\ queue' = [queue EXCEPT ![z] = kept]
      /\ node' = [node EXCEPT ![z] = [x \in live |-> IF x = k THEN lr ELSE node[z][x]]]
      /\ charges' = [charges EXCEPT ![z] =
                       IF rc = "OK" THEN [left EXCEPT ![k] = <<[req |-> job[w].r, last |-> lr.last]>>]
                       ELSE left]
      /\ IF rc = "AGAIN" THEN Refer(w, z, k) ELSE UNCHANGED <<ctxNode, lost>>
  BY DEF LookupMissing
<1>2. z \in Zones /\ k \in Keys /\ k \notin DOMAIN node[z] /\ job[w].r \in Requests /\ t \in Nat
  BY <1>1, LookupFacts DEF Missing
<1>3. /\ lr \in Node /\ lr.last \in Nat /\ lr.count = IF z = Last THEN 0 ELSE 1
  BY <1>2 DEF Node
<1>4. rc \in {"ERROR", "OK", "AGAIN"} /\ (rc = "OK" => z = Last) /\ (rc = "AGAIN" => z # Last)
  OBVIOUS
<1>5. kept = q \/ (Len(q) < MaxNodes /\ kept = <<k>> \o q)
  <2>1. Len(q) \in Nat
    <3>1. queue[z] \in Seq(Keys) /\ Once(queue[z])
      BY <1>2 DEF SharedInv, SharedType, QueueMatchesTree, Once
    <3> QED BY <3>1, MakeRoomOK, LenProperties
  <2>2. MaxNodes \in Nat BY LimitsAssumption
  <2> HIDE DEF q
  <2> QED BY <2>1, <2>2
<1> HIDE DEF z, k, lr, rc, o
<1>6. /\ kept \in Seq(Keys) /\ Once(kept) /\ Len(kept) <= MaxNodes
      /\ live \subseteq DOMAIN node[z] \cup {k}
      /\ \A x \in DOMAIN node[z] \ live : node[z][x].count = 0
      /\ k \in live <=> kept # q
  <2> HIDE DEF kept, t
  <2> QED BY <1>2, <1>5, RoomStep
<1>7. k \in live <=> rc # "ERROR"
  <2>1. rc = "ERROR" => kept = q OBVIOUS
  <2>2. rc # "ERROR" => k \in live
    <3>1. rc # "ERROR" => kept = <<k>> \o q OBVIOUS
    <3>2. <<k>> \o q # q
      <4>1. q \in Seq(Keys) /\ Len(q) \in Nat
        <5>1. queue[z] \in Seq(Keys) /\ Once(queue[z])
          BY <1>2 DEF SharedInv, SharedType, QueueMatchesTree, Once
        <5> QED BY <5>1, MakeRoomOK, LenProperties
      <4> HIDE DEF q
      <4>2. Len(<<k>> \o q) = 1 + Len(q)
        <5>1. <<k>> \in Seq(Keys) /\ Len(<<k>>) = 1 BY <1>2
        <5> QED BY <4>1, <5>1, ConcatProperties
      <4> QED BY <4>1, <4>2
    <3> QED BY <1>6, <3>1, <3>2
  <2> QED BY <1>6, <2>1, <2>2
<1> HIDE DEF kept, q
<1>8. /\ NodeType' /\ DOMAIN node'[z] = live
      /\ \A x \in live : node'[z][x] = IF x = k THEN lr ELSE node[z][x]
      /\ \A y \in Zones : y # z => node'[y] = node[y]
  <2>1. NodeType BY DEF SharedInv, SharedType
  <2>2. Grows(z, live, k, lr) BY <1>1 DEF Grows
  <2> HIDE DEF live
  <2> QED BY <1>2, <1>3, <1>6, <2>1, <2>2, TreeStep
<1>9. queue' \in [Zones -> Seq(Keys)] /\ QueueMatchesTree'
  <2>1. queue \in [Zones -> Seq(Keys)] BY DEF SharedInv, SharedType
  <2>2. queue' \in [Zones -> Seq(Keys)] /\ queue'[z] = kept
        /\ \A y \in Zones : y # z => queue'[y] = queue[y]
    BY <1>1, <1>2, <1>6, <2>1
  <2>3. ASSUME NEW y \in Zones
        PROVE  Members(queue'[y]) = DOMAIN node'[y] /\ Once(queue'[y]) /\ Len(queue'[y]) <= MaxNodes
    <3>1. CASE y = z BY <1>6, <1>8, <2>2, <3>1
    <3>2. CASE y # z BY <1>8, <2>2, <3>2 DEF SharedInv, QueueMatchesTree, Once
    <3> QED BY <3>1, <3>2
  <2> QED BY <2>2, <2>3 DEF QueueMatchesTree, Once, Members
<1> HIDE DEF live
<1>10. /\ charges' \in [Zones -> [Keys -> Seq(ChargeRecord)]]
       /\ \A x \in Keys \ live : charges'[z][x] = <<>>
       /\ \A y \in Zones : y # z => charges'[y] = charges[y]
  <2> DEFINE c == <<[req |-> job[w].r, last |-> lr.last]>>
             new == IF rc = "OK" THEN [left EXCEPT ![k] = c] ELSE left
  <2>1. charges \in [Zones -> [Keys -> Seq(ChargeRecord)]] BY DEF SharedInv, SharedType
  <2>2. c \in Seq(ChargeRecord)
    <3>1. [req |-> job[w].r, last |-> lr.last] \in ChargeRecord BY <1>2, <1>3 DEF ChargeRecord
    <3> QED BY <3>1
  <2>3. left \in [Keys -> Seq(ChargeRecord)] /\ \A x \in Keys \ live : left[x] = <<>>
    BY <1>2, <2>1, EmptySeq
  <2> HIDE DEF c, left
  <2>4. new \in [Keys -> Seq(ChargeRecord)] /\ \A x \in Keys \ live : new[x] = <<>>
    BY <1>2, <1>7, <2>2, <2>3
  <2>5. charges' = [charges EXCEPT ![z] = new] BY <1>1 DEF c, left
  <2> HIDE DEF new
  <2> QED BY <1>2, <2>1, <2>4, <2>5
<1>11. ASSUME NEW x \in Keys, x \notin live \/ x = k
       PROVE  Users(z, x) = {} /\ Cardinality(Users(z, x)) = 0 /\ lost[z][x] = 0 /\ x # o
  <2>1. x \in DOMAIN node[z] => node[z][x].count = 0 BY <1>2, <1>6, <1>11
  <2>2. Users(z, x) = {} /\ Cardinality(Users(z, x)) = 0 /\ lost[z][x] = 0
    BY <1>2, <2>1, Unused
  <2> QED BY <2>2 DEF Users, o
<1>12. \A v \in Workers, y \in Zones : ctxNode[v][y] # NoKey => ctxNode[v][y] \in DOMAIN node'[y]
  <2> SUFFICES ASSUME NEW v \in Workers, NEW y \in Zones, ctxNode[v][y] # NoKey
               PROVE  ctxNode[v][y] \in DOMAIN node'[y]
    OBVIOUS
  <2>1. ctxNode[v][y] \in DOMAIN node[y] /\ ctxNode[v][y] \in Keys
    BY DEF SharedInv, SharedType, PointerType, ReferencesCounted
  <2>2. CASE y # z BY <1>8, <2>1, <2>2
  <2>3. CASE y = z
    <3>1. v \in Users(z, ctxNode[v][z]) BY DEF Users
    <3> QED BY <1>8, <1>11, <2>1, <2>3, <3>1
  <2> QED BY <2>2, <2>3
<1>13. CASE rc = "AGAIN"
  <2>1. Points(w, z, k) BY <1>1, <1>13 DEF Points, Refer
  <2>2. PointerType /\ z # Last /\ lost \in [Zones -> [Keys -> Nat]]
    BY <1>4, <1>13 DEF SharedInv, SharedType
  <2>3. /\ PointerType'
        /\ \A v \in Workers, y \in Zones :
             ctxNode'[v][y] = IF v = w /\ y = z THEN k ELSE ctxNode[v][y]
        /\ \A y \in Zones, x \in Keys :
             Cardinality(Users(y, x)') =
               Cardinality(Users(y, x)) + (IF y = z /\ x = k THEN 1 ELSE 0)
                                        - (IF y = z /\ x = ctxNode[w][z] THEN 1 ELSE 0)
    BY <1>2, <2>1, <2>2, UsersUpdate
  <2>4. /\ lost' \in [Zones -> [Keys -> Nat]]
        /\ \A y \in Zones : \A x \in Keys :
             lost'[y][x] = IF y = z /\ x = o THEN lost[y][x] + 1 ELSE lost[y][x]
    <3>1. lost' = IF o = NoKey THEN lost ELSE [lost EXCEPT ![z][o] = @ + 1]
      BY <1>1, <1>13 DEF Refer, o
    <3>2. o \in Keys \cup {NoKey} /\ NoKey \notin Keys BY <1>2, <2>2, KeysAssumption DEF PointerType, o
    <3> QED BY <1>2, <2>2, <3>1, <3>2
  <2>5. LastUnreferenced'
    <3>1. Last \in Zones BY ZonesType
    <3>2. \A v \in Workers : ctxNode'[v][Last] = ctxNode[v][Last] BY <2>2, <2>3, <3>1
    <3> QED BY <3>2 DEF SharedInv, LastUnreferenced
  <2>6. ASSUME NEW y \in Zones, NEW x \in DOMAIN node'[y]
        PROVE  node'[y][x].count = Cardinality(Users(y, x)') + lost'[y][x]
    <3>1. x \in Keys BY <1>8 DEF NodeType
    <3>2. Cardinality(Users(y, x)) \in Nat /\ lost[y][x] \in Nat BY <2>2, <3>1, UsersFinite
    <3>3. CASE y = z /\ x = k
      <4>1. node'[y][x].count = 1 BY <1>3, <1>8, <2>2, <2>6, <3>3
      <4>2. Cardinality(Users(y, x)) = 0 /\ lost[y][x] = 0 /\ x # o BY <1>11, <3>1, <3>3
      <4>3. Cardinality(Users(y, x)') = 0 + 1 - 0 BY <2>3, <3>1, <3>3, <4>2 DEF o
      <4>4. lost'[y][x] = 0 BY <2>4, <3>1, <4>2
      <4> QED BY <4>1, <4>3, <4>4
    <3>4. CASE ~(y = z /\ x = k)
      <4> DEFINE n == node[y][x].count
                 u == Cardinality(Users(y, x))
                 l == lost[y][x]
                 b == IF y = z /\ x = o THEN 1 ELSE 0
                 uu == Cardinality(Users(y, x)')
                 h == lost'[y][x]
      <4>1. x \in DOMAIN node[y] /\ node'[y][x] = node[y][x]
        BY <1>6, <1>8, <2>6, <3>4
      <4>2. n = u + l BY <4>1 DEF SharedInv, ReferencesCounted, Users
      <4>3. uu = u + 0 - b BY <2>3, <3>1, <3>4 DEF o
      <4>4. h = l + b BY <2>4, <3>1, <3>2
      <4>5. u \in Nat /\ l \in Nat /\ b \in Int BY <3>2
      <4> HIDE DEF n, u, l, b, uu, h
      <4>6. n = uu + h BY <4>2, <4>3, <4>4, <4>5
      <4> QED BY <4>1, <4>6 DEF n, uu, h
    <3> QED BY <3>3, <3>4
  <2>7. \A v \in Workers, y \in Zones : ctxNode'[v][y] # NoKey => ctxNode'[v][y] \in DOMAIN node'[y]
    BY <1>4, <1>7, <1>8, <1>12, <1>13, <2>3
  <2>8. ReferencesCounted' BY <2>6, <2>7 DEF ReferencesCounted, Users
  <2>9. ASSUME NEW y \in Zones, NEW x \in Keys \ DOMAIN node'[y]
        PROVE  lost'[y][x] = 0 /\ charges'[y][x] = <<>>
    <3>1. CASE y # z
      <4>1. node'[y] = node[y] /\ charges'[y] = charges[y] BY <1>8, <1>10, <3>1
      <4>2. lost'[y][x] = lost[y][x] BY <2>4, <3>1
      <4>3. x \in Keys \ DOMAIN node[y] BY <4>1
      <4>4. lost[y][x] = 0 /\ charges[y][x] = <<>> BY <4>3 DEF SharedInv, Forgotten
      <4> QED BY <4>1, <4>2, <4>4
    <3>2. CASE y = z
      BY <1>8, <1>10, <1>11, <2>4, <2>9, <3>2
    <3> QED BY <3>1, <3>2
  <2>10. Forgotten' BY <2>9 DEF Forgotten
  <2> QED BY <1>8, <1>9, <1>10, <2>3, <2>4, <2>5, <2>8, <2>10 DEF SharedInv, SharedType
<1>14. CASE rc # "AGAIN"
  <2>1. UNCHANGED <<ctxNode, lost>> BY <1>1, <1>14
  <2>2. PointerType' /\ LastUnreferenced' /\ lost' \in [Zones -> [Keys -> Nat]]
    BY <2>1 DEF SharedInv, SharedType, PointerType, LastUnreferenced
  <2>3. ASSUME NEW y \in Zones, NEW x \in DOMAIN node'[y]
        PROVE  node'[y][x].count = Cardinality(Users(y, x)) + lost[y][x]
    <3>1. CASE y = z /\ x = k
      <4>1. rc = "OK" BY <1>4, <1>7, <1>8, <1>14, <2>3, <3>1
      <4>2. node'[y][x].count = 0 BY <1>3, <1>4, <1>8, <2>3, <3>1, <4>1
      <4>3. Cardinality(Users(y, x)) = 0 /\ lost[y][x] = 0 BY <1>2, <1>11, <3>1
      <4> QED BY <4>2, <4>3
    <3>2. CASE ~(y = z /\ x = k)
      <4>1. x \in DOMAIN node[y] /\ node'[y][x] = node[y][x]
        BY <1>6, <1>8, <2>3, <3>2
      <4> QED BY <4>1 DEF SharedInv, ReferencesCounted, Users
    <3> QED BY <3>1, <3>2
  <2>4. ReferencesCounted' BY <1>12, <2>1, <2>3 DEF ReferencesCounted, Users
  <2>5. ASSUME NEW y \in Zones, NEW x \in Keys \ DOMAIN node'[y]
        PROVE  lost[y][x] = 0 /\ charges'[y][x] = <<>>
    <3>1. CASE y # z
      <4>1. node'[y] = node[y] /\ charges'[y] = charges[y] BY <1>8, <1>10, <3>1
      <4>2. x \in Keys \ DOMAIN node[y] BY <4>1
      <4>3. lost[y][x] = 0 /\ charges[y][x] = <<>> BY <4>2 DEF SharedInv, Forgotten
      <4> QED BY <4>1, <4>3
    <3>2. CASE y = z
      BY <1>8, <1>10, <1>11, <2>5, <3>2
    <3> QED BY <3>1, <3>2
  <2>6. Forgotten' BY <2>1, <2>5 DEF Forgotten
  <2> QED BY <1>8, <1>9, <1>10, <2>2, <2>4, <2>6 DEF SharedInv, SharedType
<1> QED BY <1>13, <1>14

(* What one change of node, pointer and charges does to the whole.          *)
LEMMA CountShared ==
  ASSUME SharedInv, NEW w \in Workers, NEW z \in Zones, z # Last,
         Points(w, z, NoKey), ctxNode[w][z] # NoKey,
         NEW lr \in Node, Sets(z, ctxNode[w][z], lr),
         lr.count = node[z][ctxNode[w][z]].count - 1,
         UNCHANGED <<lost, queue>>,
         charges' \in [Zones -> [Keys -> Seq(ChargeRecord)]],
         \A y \in Zones : \A i \in Keys \ DOMAIN node[y] : charges'[y][i] = charges[y][i]
  PROVE  SharedInv'
<1> DEFINE x == ctxNode[w][z]
<1>1. x \in DOMAIN node[z] BY DEF SharedInv, ReferencesCounted
<1> HIDE DEF x
<1>2. Sets(z, x, lr) /\ lr.count = node[z][x].count - 1 /\ lost' = lost /\ x = ctxNode[w][z]
  BY DEF x
<1>3. /\ PointerType' /\ NodeType' /\ ReferencesCounted' /\ LastUnreferenced'
      /\ lost' \in [Zones -> [Keys -> Nat]]
      /\ \A y \in Zones : DOMAIN node'[y] = DOMAIN node[y]
  BY <1>1, <1>2, CountStep
<1>4. queue' \in [Zones -> Seq(Keys)] /\ QueueMatchesTree' BY <1>3, QueueKept
<1>5. ASSUME NEW y \in Zones, NEW i \in Keys \ DOMAIN node'[y]
      PROVE  lost'[y][i] = 0 /\ charges'[y][i] = <<>>
  <2>1. i \in Keys \ DOMAIN node[y] BY <1>3
  <2>2. lost[y][i] = 0 /\ charges[y][i] = <<>> BY <2>1 DEF SharedInv, Forgotten
  <2> QED BY <1>2, <2>1, <2>2
<1>6. Forgotten' BY <1>5 DEF Forgotten
<1> QED BY <1>3, <1>4, <1>6 DEF SharedInv, SharedType

(* A step that touches neither the shared memory nor the pointers.          *)
LEMMA SharedKept ==
  ASSUME SharedInv, UNCHANGED <<shared, ctxNode>>
  PROVE  SharedInv'
<1>1. UNCHANGED <<node, queue, charges, lost, ctxNode>> BY DEF shared
<1>2. SharedType' BY <1>1 DEF SharedInv, SharedType, PointerType, NodeType
<1>3. QueueMatchesTree' BY <1>1 DEF SharedInv, QueueMatchesTree
<1>4. ReferencesCounted' BY <1>1 DEF SharedInv, ReferencesCounted
<1>5. Forgotten' /\ LastUnreferenced' BY <1>1 DEF SharedInv, Forgotten, LastUnreferenced
<1> QED BY <1>2, <1>3, <1>4, <1>5 DEF SharedInv

(* A null pointer that is written leaves everything as it is.               *)
LEMMA NullShared ==
  ASSUME SharedInv, NEW w \in Workers, NEW z \in Zones, Points(w, z, NoKey),
         ctxNode[w][z] = NoKey, UNCHANGED shared
  PROVE  SharedInv' /\ ctxNode' = ctxNode
<1>1. ctxNode' = ctxNode BY DEF Points, SharedInv, SharedType, PointerType
<1> QED BY <1>1, SharedKept

(* A reference is one of those counted.                                     *)
LEMMA CountPositive ==
  ASSUME SharedInv, NEW w \in Workers, NEW z \in Zones, ctxNode[w][z] # NoKey
  PROVE  /\ ctxNode[w][z] \in DOMAIN node[z] /\ ctxNode[w][z] \in Keys
         /\ node[z][ctxNode[w][z]] \in Node /\ node[z][ctxNode[w][z]].count - 1 \in Nat
         /\ z # Last
<1> DEFINE k == ctxNode[w][z]
<1>1. k \in DOMAIN node[z] /\ k \in Keys /\ z # Last
  BY DEF SharedInv, SharedType, PointerType, ReferencesCounted, LastUnreferenced
<1>2. node[z][k] \in Node BY <1>1 DEF SharedInv, SharedType, NodeType
<1>3. w \in Users(z, k) BY DEF Users
<1> HIDE DEF k
<1>4. Cardinality(Users(z, k)) # 0 /\ Cardinality(Users(z, k)) \in Nat
  BY <1>3, UsersFinite, FS_EmptySet
<1>5. node[z][k].count = Cardinality(Users(z, k)) + lost[z][k] /\ lost[z][k] \in Nat
  BY <1>1 DEF SharedInv, SharedType, ReferencesCounted, Users
<1> DEFINE n == node[z][k].count
           u == Cardinality(Users(z, k))
           l == lost[z][k]
<1>6. n = u + l /\ u \in Nat /\ u # 0 /\ l \in Nat BY <1>4, <1>5
<1> HIDE DEF n, u, l
<1>7. n - 1 \in Nat BY <1>6
<1> QED BY <1>1, <1>2, <1>7 DEF n, k

(* A reference is given back.                                               *)
LEMMA RollBackShared ==
  ASSUME SharedInv, JobType, NEW w \in Workers, RollBack(w)
  PROVE  SharedInv'
<1> DEFINE z == job[w].n
           k == ctxNode[w][z]
           lr == [node[z][k] EXCEPT !.count = @ - 1]
<1>1. /\ pc[w] = "reject" /\ z > 0 /\ UNCHANGED <<queue, charges, lost>>
      /\ node' = IF k = NoKey THEN node ELSE [node EXCEPT ![z][k].count = @ - 1]
      /\ Points(w, z, NoKey)
  BY DEF RollBack, Points
<1>2. z \in Zones /\ z # Last
  BY <1>1, ZonesType DEF JobType, Job, Last
<1> HIDE DEF z
<1>3. CASE k = NoKey
  <2>1. UNCHANGED shared BY <1>1, <1>3 DEF shared
  <2> QED BY <1>1, <1>2, <1>3, <2>1, NullShared
<1>4. CASE k # NoKey
  <2>1. k \in DOMAIN node[z] /\ k \in Keys /\ node[z][k] \in Node /\ node[z][k].count - 1 \in Nat
    BY <1>2, <1>4, CountPositive
  <2>2. lr \in Node /\ lr.count = node[z][k].count - 1
    <3> DEFINE o == node[z][k]
               c == o.count - 1
    <3>1. o \in Node /\ c \in Nat BY <2>1
    <3> HIDE DEF o, c
    <3>2. [o EXCEPT !.count = c] \in Node /\ [o EXCEPT !.count = c].count = c BY <3>1 DEF Node
    <3> QED BY <3>2 DEF o, c
  <2>3. Sets(z, k, lr)
    BY <1>1, <1>2, <1>4, <2>1 DEF Sets, SharedInv, SharedType, NodeType
  <2>4. charges' = charges /\ lost' = lost /\ queue' = queue BY <1>1
  <2>5. charges' \in [Zones -> [Keys -> Seq(ChargeRecord)]]
    BY <2>4 DEF SharedInv, SharedType
  <2> HIDE DEF lr
  <2> QED BY <1>1, <1>2, <1>4, <2>2, <2>3, <2>4, <2>5, CountShared
<1> QED BY <1>3, <1>4

(* A zone is charged and the reference on its node given back.              *)
LEMMA AccountShared ==
  ASSUME SharedInv, JobType, NEW w \in Workers, Account(w)
  PROVE  SharedInv'
<1> DEFINE z == job[w].n
           k == ctxNode[w][z]
           ch == Charged(z, node[z][k], clock[w])
           lr == [ch EXCEPT !.count = @ - 1]
<1>1. /\ pc[w] = "account" /\ z > 0 /\ UNCHANGED <<queue, lost>>
      /\ \/ k = NoKey /\ UNCHANGED <<node, charges>>
         \/ /\ k # NoKey /\ Sets(z, k, lr)
            /\ charges' = Charge(z, k, job[w].r, ch)
      /\ Points(w, z, NoKey)
  BY DEF Account, Points, Sets
<1>2. z \in Zones /\ clock[w] \in Nat /\ job[w].r \in Requests
  BY <1>1, ZonesType DEF JobType, Job, Last
<1> HIDE DEF z
<1>3. CASE k = NoKey
  <2>1. UNCHANGED shared BY <1>1, <1>3 DEF shared
  <2> QED BY <1>1, <1>2, <1>3, <2>1, NullShared
<1>4. CASE k # NoKey
  <2>1. /\ k \in DOMAIN node[z] /\ k \in Keys /\ node[z][k] \in Node /\ node[z][k].count - 1 \in Nat
        /\ z # Last
    BY <1>2, <1>4, CountPositive
  <2>2. ch \in Node /\ ch.count = node[z][k].count BY <1>2, <2>1, ChargedType
  <2> HIDE DEF ch
  <2>3. lr \in Node /\ lr.count = node[z][k].count - 1
    <3> DEFINE c == node[z][k].count - 1
    <3>1. ch.count - 1 = c /\ c \in Nat BY <2>1, <2>2
    <3> HIDE DEF c
    <3>2. [ch EXCEPT !.count = c] \in Node /\ [ch EXCEPT !.count = c].count = c BY <2>2, <3>1 DEF Node
    <3> QED BY <3>1, <3>2 DEF c
  <2>4. Sets(z, k, lr) /\ lost' = lost /\ queue' = queue BY <1>1, <1>4
  <2>5. charges' = Charge(z, k, job[w].r, ch) BY <1>1, <1>4
  <2> HIDE DEF k
  <2>6. /\ charges' \in [Zones -> [Keys -> Seq(ChargeRecord)]]
        /\ \A y \in Zones : \A i \in Keys :
             charges'[y][i] = IF y = z /\ i = k
                              THEN Append(charges[z][k], [req |-> job[w].r, last |-> ch.last])
                              ELSE charges[y][i]
    BY <1>2, <2>1, <2>2, <2>5, ChargeStep
  <2>7. \A y \in Zones : \A i \in Keys \ DOMAIN node[y] : charges'[y][i] = charges[y][i]
    BY <2>1, <2>6
  <2> HIDE DEF lr
  <2> USE DEF k
  <2> QED BY <1>1, <1>2, <1>4, <2>1, <2>3, <2>4, <2>6, <2>7, CountShared
<1> QED BY <1>3, <1>4

=============================================================================
