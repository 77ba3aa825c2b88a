--------------------- MODULE DeviceConfigurationProofs ---------------------
(***************************************************************************)
(* Theorems about DeviceConfiguration, for any ids, settings and length of *)
(* a life: that looking an id up finds what was written last, and that a   *)
(* configuration is read back as it was written.                           *)
(*                                                                         *)
(* Both rest on what KeepAt returns, which is proved by induction on the   *)
(* positions of the list, as induction over a set of numbers.              *)
(***************************************************************************)
EXTENDS DeviceConfiguration, SequenceTheorems, NaturalsInduction, WellFoundedInduction, TLAPS

----------------------------------------------------------------------------
(* Numbers. *)

\* A set of numbers has a least one.
LEMMA SmallestNumber ==
  ASSUME NEW T, T \subseteq Nat, T # {}
  PROVE  \E x \in T : \A y \in T : x <= y
<1>1. PICK x \in T : \A y \in T : <<y, x>> \notin OpToRel(<, Nat)
  BY WFMin, NatLessThanWellFounded, Zenon
<1>2. \A y \in T : ~(y < x)
  BY <1>1, Zenon DEF OpToRel
<1>3. \A y \in T : x <= y
  <2> TAKE y \in T
  <2>1. x \in Nat /\ y \in Nat /\ ~(y < x)
    BY <1>2
  <2> QED
    BY <2>1
<1> QED
  BY <1>3

\* Induction: a set that holds 0, and the successor of each number it holds.
LEMMA Induction ==
  ASSUME NEW S, 0 \in S, \A n \in Nat : n \in S => n + 1 \in S
  PROVE  \A n \in Nat : n \in S
<1> SUFFICES ASSUME NEW m \in Nat, m \notin S PROVE FALSE
  OBVIOUS
<1> DEFINE T == Nat \ S
<1>1. PICK x \in T : \A y \in T : x <= y
  BY SmallestNumber
<1>2. x \in Nat /\ x # 0 /\ x - 1 \in Nat /\ x - 1 < x
  BY <1>1
<1>3. x - 1 \in S
  BY <1>1, <1>2
<1>4. (x - 1) + 1 = x
  BY <1>2
<1> QED
  BY <1>1, <1>2, <1>3, <1>4

----------------------------------------------------------------------------
(* What KeepAt returns. *)

\* The elements kept of the first n of list: kept[n] for a function that obeys this.
Obeys(kept, n, list, positions) ==
  kept[n] = IF n = 0 THEN <<>>
            ELSE IF n \in positions THEN Append(kept[n - 1], list[n]) ELSE kept[n - 1]

\* The recursive definition of KeepAt defines a function.
LEMMA KeptExists ==
  ASSUME NEW S, NEW list \in Seq(S), NEW positions
  PROVE  \E kept \in [0..Len(list) -> Seq(S)] :
           /\ KeepAt(list, positions) = kept[Len(list)]
           /\ \A n \in 0..Len(list) : Obeys(kept, n, list, positions)
<1> DEFINE N == Len(list)
           Good == {m \in Nat : m <= N =>
                      \E g \in [0..m -> Seq(S)] : \A n \in 0..m : Obeys(g, n, list, positions)}
<1>1. N \in Nat
  OBVIOUS
<1>2. 0 \in Good
  <2> DEFINE g == [n \in 0..0 |-> <<>>]
  <2>1. g \in [0..0 -> Seq(S)] /\ \A n \in 0..0 : Obeys(g, n, list, positions)
    BY EmptySeq DEF Obeys
  <2> HIDE DEF g
  <2> QED
    BY <2>1
<1>3. ASSUME NEW m \in Nat, m \in Good
      PROVE  m + 1 \in Good
  <2> SUFFICES ASSUME m + 1 <= N
               PROVE  \E h \in [0..(m + 1) -> Seq(S)] :
                        \A n \in 0..(m + 1) : Obeys(h, n, list, positions)
    OBVIOUS
  <2>1. PICK g \in [0..m -> Seq(S)] : \A n \in 0..m : Obeys(g, n, list, positions)
    BY <1>1, <1>3
  <2> DEFINE next == IF m + 1 \in positions THEN Append(g[m], list[m + 1]) ELSE g[m]
             h == [n \in 0..(m + 1) |-> IF n = m + 1 THEN next ELSE g[n]]
  <2>2. next \in Seq(S)
    <3>1. g[m] \in Seq(S) /\ list[m + 1] \in S
      BY <1>1, ElementOfSeq
    <3> QED
      BY <3>1, AppendProperties
  <2> HIDE DEF next
  <2>3. h \in [0..(m + 1) -> Seq(S)]
    BY <2>2
  <2>4. h[m + 1] = next /\ \A n \in 0..m : h[n] = g[n]
    OBVIOUS
  <2> HIDE DEF h
  <2>5. ASSUME NEW n \in 0..(m + 1)
        PROVE  Obeys(h, n, list, positions)
    <3>1. CASE n = m + 1
      <4>1. h[n - 1] = g[m] /\ n # 0
        BY <2>4, <3>1
      <4> QED
        BY <2>4, <3>1, <4>1 DEF Obeys, next
    <3>2. CASE n = 0
      BY <2>1, <2>4, <3>2 DEF Obeys
    <3>3. CASE n # 0 /\ n # m + 1
      <4>1. n \in 0..m /\ n - 1 \in 0..m
        BY <2>5, <3>3
      <4> QED
        BY <2>1, <2>4, <3>3, <4>1 DEF Obeys
    <3> QED
      BY <3>1, <3>2, <3>3
  <2> QED
    BY <2>3, <2>5
<1>4. PICK g \in [0..N -> Seq(S)] : \A n \in 0..N : Obeys(g, n, list, positions)
  <2>1. N \in Good
    BY <1>1, <1>2, <1>3, Induction
  <2> QED
    BY <1>1, <2>1
<1> DEFINE Definition(k) ==
             k = [n \in 0..N |-> IF n = 0 THEN <<>>
                                 ELSE IF n \in positions THEN Append(k[n - 1], list[n]) ELSE k[n - 1]]
<1>5. Definition(g)
  BY <1>4 DEF Obeys
<1> DEFINE kept == CHOOSE k : Definition(k)
<1>6. KeepAt(list, positions) = kept[N]
  BY DEF KeepAt
<1> HIDE DEF Definition
<1>7. Definition(kept)
  BY <1>5, Zenon
<1> HIDE DEF kept
<1>8. /\ DOMAIN kept = 0..N
      /\ \A n \in 0..N : Obeys(kept, n, list, positions)
  BY <1>1, <1>7 DEF Definition, Obeys
<1>9. \A n \in 0..N : kept[n] = g[n]
  <2> DEFINE Same == {n \in Nat : n <= N => kept[n] = g[n]}
  <2>1. 0 \in Same
    BY <1>1, <1>4, <1>8 DEF Obeys
  <2>2. ASSUME NEW n \in Nat, n \in Same
        PROVE  n + 1 \in Same
    <3> SUFFICES ASSUME n + 1 <= N
                 PROVE  kept[n + 1] = g[n + 1]
      OBVIOUS
    <3>1. kept[n] = g[n] /\ n + 1 \in 0..N /\ n + 1 # 0 /\ (n + 1) - 1 = n
      BY <1>1, <2>2
    <3> QED
      BY <1>4, <1>8, <3>1 DEF Obeys
  <2> HIDE DEF Same
  <2>3. \A n \in Nat : n \in Same
    BY <2>1, <2>2, Induction
  <2> QED
    BY <1>1, <2>3 DEF Same
<1> QED
  BY <1>4, <1>6, <1>9

\* result is the first n elements of list at positions: pos[k] is where its k-th was.
Picks(pos, result, n, list, positions) ==
  /\ \A k \in 1..Len(result) : pos[k] \in positions /\ result[k] = list[pos[k]]
  /\ \A i \in 1..n : i \in positions => \E k \in 1..Len(result) : pos[k] = i
  /\ \A k, l \in 1..Len(result) : pos[k] = pos[l] => k = l
  /\ 1..n \subseteq positions => Len(result) = n /\ \A k \in 1..n : pos[k] = k

\* One more element, kept or not.
LEMMA PickOne ==
  ASSUME NEW S, NEW list \in Seq(S), NEW positions, NEW n \in Nat, n + 1 <= Len(list),
         NEW result \in Seq(S), NEW pos \in [1..Len(result) -> 1..n],
         Picks(pos, result, n, list, positions),
         NEW longer, longer = IF n + 1 \in positions THEN Append(result, list[n + 1]) ELSE result
  PROVE  \E p \in [1..Len(longer) -> 1..(n + 1)] : Picks(p, longer, n + 1, list, positions)
<1> DEFINE L == Len(result)
<1>1. L \in Nat /\ list[n + 1] \in S
  BY LenProperties, ElementOfSeq
<1>2. CASE n + 1 \notin positions
  <2>1. longer = result /\ pos \in [1..Len(longer) -> 1..(n + 1)]
    BY <1>2
  <2>2. Picks(pos, longer, n + 1, list, positions)
    <3>1. ASSUME NEW i \in 1..(n + 1), i \in positions
          PROVE  \E k \in 1..Len(result) : pos[k] = i
      <4>1. i \in 1..n
        BY <1>2, <3>1
      <4> QED
        BY <3>1, <4>1 DEF Picks
    <3>2. ~(1..(n + 1) \subseteq positions)
      BY <1>2
    <3> QED
      BY <2>1, <3>1, <3>2 DEF Picks
  <2> QED
    BY <2>1, <2>2
<1>3. CASE n + 1 \in positions
  <2> DEFINE p == [k \in 1..(L + 1) |-> IF k = L + 1 THEN n + 1 ELSE pos[k]]
  <2>1. /\ Len(longer) = L + 1 /\ longer[L + 1] = list[n + 1]
        /\ \A k \in 1..L : longer[k] = result[k]
    BY <1>1, <1>3, AppendProperties
  <2> HIDE DEF L
  <2>2. p[L + 1] = n + 1 /\ \A k \in 1..L : p[k] = pos[k] /\ p[k] \in 1..n
    <3>1. L + 1 \in 1..(L + 1) /\ \A k \in 1..L : k \in 1..(L + 1) /\ k # L + 1
      BY <1>1
    <3>2. \A k \in 1..L : pos[k] \in 1..n
      BY DEF L
    <3> QED
      BY <3>1, <3>2
  <2>3. p \in [1..(L + 1) -> 1..(n + 1)]
    <3>1. \A k \in 1..(L + 1) : k # L + 1 => pos[k] \in 1..n
      BY <1>1 DEF L
    <3>2. n + 1 \in 1..(n + 1) /\ 1..n \subseteq 1..(n + 1)
      OBVIOUS
    <3> QED
      BY <3>1, <3>2
  <2> HIDE DEF p
  <2>4. \A k \in 1..(L + 1) : k \in 1..L \/ k = L + 1
    BY <1>1
  <2>5. \A k \in 1..L : /\ pos[k] \in positions /\ result[k] = list[pos[k]]
                        /\ \A l \in 1..L : pos[k] = pos[l] => k = l
    BY DEF Picks, L
  <2>6. \A k \in 1..(L + 1) : p[k] \in positions /\ longer[k] = list[p[k]]
    BY <1>3, <2>1, <2>2, <2>4, <2>5
  <2>7. \A k, l \in 1..(L + 1) : p[k] = p[l] => k = l
    BY <2>2, <2>4, <2>5
  <2>8. ASSUME NEW i \in 1..(n + 1), i \in positions
        PROVE  \E k \in 1..(L + 1) : p[k] = i
    <3>1. CASE i = n + 1
      BY <1>1, <2>2, <3>1
    <3>2. CASE i \in 1..n
      <4>1. PICK k \in 1..L : pos[k] = i
        BY <2>8, <3>2 DEF Picks, L
      <4>2. k \in 1..(L + 1) /\ p[k] = pos[k]
        BY <1>1, <2>2
      <4> QED
        BY <4>1, <4>2
    <3> QED
      BY <3>1, <3>2
  <2>9. ASSUME 1..(n + 1) \subseteq positions
        PROVE  L + 1 = n + 1 /\ \A k \in 1..(n + 1) : p[k] = k
    <3>1. L = n /\ \A k \in 1..n : pos[k] = k
      BY <2>9 DEF Picks, L
    <3> QED
      BY <2>2, <2>4, <3>1
  <2>10. Picks(p, longer, n + 1, list, positions)
    BY <2>1, <2>6, <2>7, <2>8, <2>9 DEF Picks
  <2> QED
    BY <2>1, <2>3, <2>10
<1> QED
  BY <1>2, <1>3

\* KeepAt returns the elements at the positions, each once and in no other place: all
\* of the list, when all of its positions are kept.
LEMMA KeepAtPicks ==
  ASSUME NEW S, NEW list \in Seq(S), NEW positions
  PROVE  /\ KeepAt(list, positions) \in Seq(S)
         /\ \E pos \in [1..Len(KeepAt(list, positions)) -> 1..Len(list)] :
              Picks(pos, KeepAt(list, positions), Len(list), list, positions)
<1> DEFINE N == Len(list)
<1>1. PICK kept \in [0..N -> Seq(S)] :
        /\ KeepAt(list, positions) = kept[N]
        /\ \A n \in 0..N : Obeys(kept, n, list, positions)
  BY KeptExists
<1> DEFINE Good == {n \in Nat : n <= N =>
                      \E pos \in [1..Len(kept[n]) -> 1..n] : Picks(pos, kept[n], n, list, positions)}
<1>2. N \in Nat
  OBVIOUS
<1>3. 0 \in Good
  <2> DEFINE pos == [k \in 1..0 |-> 0]
  <2>1. kept[0] = <<>> /\ Len(<<>>) = 0
    BY <1>1, <1>2, EmptySeq DEF Obeys
  <2>2. pos \in [1..0 -> 1..0] /\ Picks(pos, <<>>, 0, list, positions)
    BY <2>1 DEF Picks
  <2> HIDE DEF pos
  <2> QED
    BY <2>1, <2>2
<1>4. ASSUME NEW n \in Nat, n \in Good
      PROVE  n + 1 \in Good
  <2> SUFFICES ASSUME n + 1 <= N
               PROVE  \E p \in [1..Len(kept[n + 1]) -> 1..(n + 1)] :
                        Picks(p, kept[n + 1], n + 1, list, positions)
    OBVIOUS
  <2>1. PICK pos \in [1..Len(kept[n]) -> 1..n] : Picks(pos, kept[n], n, list, positions)
    BY <1>2, <1>4
  <2>2. /\ kept[n] \in Seq(S)
        /\ kept[n + 1] = IF n + 1 \in positions THEN Append(kept[n], list[n + 1]) ELSE kept[n]
    <3>1. n \in 0..N /\ n + 1 \in 0..N /\ n + 1 # 0 /\ (n + 1) - 1 = n
      BY <1>2
    <3> QED
      BY <1>1, <3>1 DEF Obeys
  <2> QED
    BY <2>1, <2>2, PickOne
<1> HIDE DEF Good
<1>5. N \in Good
  BY <1>2, <1>3, <1>4, Induction
<1> QED
  BY <1>1, <1>2, <1>5 DEF Good

----------------------------------------------------------------------------
(* The invariant. *)

Apps == [isObject : {TRUE}, id : Ids, content : Nat]
Elements == Apps \cup {NotAnObject}

\* The applications a reader finds in a frame.
Listed(frame) == Value(Value(frame, "configuration", frame), "applications", <<>>)

\* apps is the list of a device where wrote[id] was last written under each id and
\* the ids in twice were added twice.
HasOnlyWritten(apps, wrote, twice) ==
  \A i \in 1..Len(apps) :
    /\ wrote[apps[i].id] # 0
    /\ apps[i].id \notin twice => apps[i].content = wrote[apps[i].id]

HasOnce(apps, twice) ==
  \A i, j \in 1..Len(apps) : apps[i].id = apps[j].id /\ apps[i].id \notin twice => i = j

HasAllWritten(apps, wrote, twice) ==
  \A id \in Ids : id \notin twice /\ wrote[id] # 0 => \E i \in 1..Len(apps) : apps[i].id = id

Agree(apps, wrote, twice) ==
  /\ apps \in Seq(Apps)
  /\ wrote \in [Ids -> Nat]
  /\ HasOnlyWritten(apps, wrote, twice)
  /\ HasOnce(apps, twice)
  /\ HasAllWritten(apps, wrote, twice)

IsConfiguration(c) ==
  c = [version |-> c.version, deviceId |-> c.deviceId, activeAppId |-> c.activeAppId,
       lastModified |-> c.lastModified, systemConfiguration |-> c.systemConfiguration,
       applications |-> c.applications]

DeviceInv ==
  /\ now \in Nat /\ now # 0
  /\ IsConfiguration(config)
  /\ Agree(config.applications, written, duplicate)
  /\ "configuration" \notin DOMAIN saved.json
  /\ Agree(Value(saved.json, "applications", <<>>), saved.written, saved.duplicate)

----------------------------------------------------------------------------
(* What the operations do to a list that agrees. *)

\* A list of elements that all are applications is a list of applications.
LEMMA AllApps ==
  ASSUME NEW list \in Seq(Elements), \A k \in 1..Len(list) : list[k] \in Apps
  PROVE  list \in Seq(Apps)
BY SeqDef

\* The objects of a list that agrees agree, after a value that is no object too.
LEMMA ObjectsAgree ==
  ASSUME NEW apps, NEW wrote, NEW twice, Agree(apps, wrote, twice), NEW d \in {0, 1},
         NEW list \in Seq(Elements), Len(list) = Len(apps) + d,
         \A i \in 1..Len(apps) : list[i + d] = apps[i],
         d = 1 => list[1] = NotAnObject
  PROVE  Agree(Objects(list), wrote, twice)
<1> DEFINE positions == {i \in 1..Len(list) : list[i].isObject}
           K == KeepAt(list, positions)
<1> HIDE DEF positions
<1>1. K \in Seq(Elements)
  BY KeepAtPicks
<1>2. PICK pos \in [1..Len(K) -> 1..Len(list)] : Picks(pos, K, Len(list), list, positions)
  BY KeepAtPicks
<1>3. Objects(list) = K
  BY DEF Objects, positions
<1> HIDE DEF K
<1>4. apps \in Seq(Apps) /\ Len(apps) \in Nat /\ Len(list) \in Nat
  BY DEF Agree
<1>5. ASSUME NEW k \in 1..Len(K)
      PROVE  pos[k] - d \in 1..Len(apps) /\ K[k] = apps[pos[k] - d]
  <2>1. pos[k] \in 1..Len(list) /\ pos[k] \in positions /\ K[k] = list[pos[k]]
    BY <1>2 DEF Picks
  <2>2. list[pos[k]].isObject
    BY <2>1 DEF positions
  <2>3. ~(d = 1 /\ pos[k] = 1)
    BY <2>2 DEF NotAnObject
  <2>4. pos[k] - d \in 1..Len(apps) /\ (pos[k] - d) + d = pos[k]
    BY <1>4, <2>1, <2>3
  <2> QED
    BY <2>1, <2>4
<1>6. K \in Seq(Apps)
  <2>1. \A k \in 1..Len(K) : K[k] \in Apps
    BY <1>4, <1>5, ElementOfSeq
  <2> QED
    BY <1>1, <2>1, AllApps
<1>7. HasOnlyWritten(K, wrote, twice)
  BY <1>5 DEF Agree, HasOnlyWritten
<1>8. HasOnce(K, twice)
  <2> SUFFICES ASSUME NEW k \in 1..Len(K), NEW l \in 1..Len(K),
                      K[k].id = K[l].id, K[k].id \notin twice
               PROVE  k = l
    BY DEF HasOnce
  <2> DEFINE q == pos[k] - d
             r == pos[l] - d
  <2>1. q = r
    <3>1. \A i, j \in 1..Len(apps) : apps[i].id = apps[j].id /\ apps[i].id \notin twice => i = j
      BY DEF Agree, HasOnce
    <3>2. /\ q \in 1..Len(apps) /\ K[k] = apps[q]
          /\ r \in 1..Len(apps) /\ K[l] = apps[r]
      BY <1>5
    <3> HIDE DEF q, r
    <3> QED
      BY <3>1, <3>2
  <2>2. pos[k] = pos[l]
    <3>1. pos[k] \in Int /\ pos[l] \in Int
      OBVIOUS
    <3> QED
      BY <2>1, <3>1
  <2> QED
    BY <1>2, <2>2 DEF Picks
<1>9. HasAllWritten(K, wrote, twice)
  <2> SUFFICES ASSUME NEW id \in Ids, id \notin twice, wrote[id] # 0
               PROVE  \E k \in 1..Len(K) : K[k].id = id
    BY DEF HasAllWritten
  <2>1. PICK i \in 1..Len(apps) : apps[i].id = id
    BY DEF Agree, HasAllWritten
  <2>2. i + d \in 1..Len(list) /\ list[i + d] = apps[i] /\ apps[i] \in Apps
    BY <1>4, ElementOfSeq
  <2>3. i + d \in positions
    BY <2>2 DEF positions, Apps
  <2>4. PICK k \in 1..Len(K) : pos[k] = i + d
    BY <1>2, <2>2, <2>3 DEF Picks
  <2>5. K[k] = list[pos[k]]
    BY <1>2 DEF Picks
  <2> QED
    BY <2>1, <2>2, <2>4, <2>5
<1> QED
  BY <1>3, <1>6, <1>7, <1>8, <1>9 DEF Agree

\* A list of applications keeps all of its elements.
LEMMA AllObjects ==
  ASSUME NEW apps \in Seq(Apps)
  PROVE  Objects(apps) = apps
<1> DEFINE positions == {i \in 1..Len(apps) : apps[i].isObject}
           K == KeepAt(apps, positions)
<1>1. 1..Len(apps) \subseteq positions
  <2>1. \A i \in 1..Len(apps) : apps[i] \in Apps
    BY ElementOfSeq
  <2> QED
    BY <2>1 DEF Apps
<1> HIDE DEF positions
<1>2. PICK pos \in [1..Len(K) -> 1..Len(apps)] : Picks(pos, K, Len(apps), apps, positions)
  BY KeepAtPicks
<1>3. K \in Seq(Apps)
  BY KeepAtPicks
<1>4. Objects(apps) = K
  BY DEF Objects, positions
<1> HIDE DEF K
<1>5. Len(K) = Len(apps) /\ \A k \in 1..Len(apps) : K[k] = apps[pos[k]] /\ pos[k] = k
  BY <1>1, <1>2 DEF Picks
<1>6. \A k \in 1..Len(apps) : K[k] = apps[k]
  BY <1>5
<1> QED
  BY <1>3, <1>4, <1>5, <1>6, SeqEqual

\* Adding an application at the end.
LEMMA AppendAgrees ==
  ASSUME NEW apps, NEW wrote, NEW twice, Agree(apps, wrote, twice),
         NEW id \in Ids, NEW time \in Nat, time # 0,
         NEW again, again = IF {i \in 1..Len(apps) : apps[i].id = id} = {} THEN twice ELSE twice \cup {id}
  PROVE  Agree(Append(apps, Application(id, time)), [wrote EXCEPT ![id] = time], again)
<1> DEFINE app == Application(id, time)
           longer == Append(apps, app)
           wrote2 == [wrote EXCEPT ![id] = time]
           L == Len(apps)
<1>1. app \in Apps /\ app.id = id /\ app.content = time
  BY DEF Application, Apps
<1>2. apps \in Seq(Apps) /\ wrote \in [Ids -> Nat] /\ L \in Nat
  BY DEF Agree
<1>3. /\ wrote2 \in [Ids -> Nat] /\ wrote2[id] = time
      /\ \A other \in Ids : other # id => wrote2[other] = wrote[other]
  BY <1>2
<1> HIDE DEF app, wrote2
<1>4. /\ longer \in Seq(Apps) /\ Len(longer) = L + 1 /\ longer[L + 1] = app
      /\ \A i \in 1..L : longer[i] = apps[i]
  BY <1>1, <1>2, AppendProperties
<1>5. \A i \in 1..L : apps[i].id \in Ids
  <2>1. \A i \in 1..L : apps[i] \in Apps
    BY <1>2, ElementOfSeq
  <2> QED
    BY <2>1 DEF Apps
<1> HIDE DEF longer
<1>6. ASSUME NEW i \in 1..(L + 1)
      PROVE  i \in 1..L \/ i = L + 1
  BY <1>2
<1>7. twice \subseteq again /\ \A i \in 1..L : apps[i].id = id => id \in again
  OBVIOUS
<1> HIDE DEF L
<1>8. HasOnlyWritten(longer, wrote2, again)
  <2> SUFFICES ASSUME NEW i \in 1..(L + 1)
               PROVE  /\ wrote2[longer[i].id] # 0
                      /\ longer[i].id \notin again => longer[i].content = wrote2[longer[i].id]
    BY <1>4 DEF HasOnlyWritten
  <2>1. CASE i = L + 1
    BY <1>1, <1>3, <1>4, <2>1
  <2>2. CASE i \in 1..L
    <3>1. longer[i] = apps[i] /\ apps[i].id \in Ids
      BY <1>4, <1>5, <2>2
    <3>2. /\ wrote[apps[i].id] # 0
          /\ apps[i].id \notin twice => apps[i].content = wrote[apps[i].id]
      BY <2>2 DEF Agree, HasOnlyWritten, L
    <3>3. CASE apps[i].id = id
      BY <1>3, <1>7, <2>2, <3>1, <3>3
    <3>4. CASE apps[i].id # id
      BY <1>3, <1>7, <3>1, <3>2, <3>4
    <3> QED
      BY <3>3, <3>4
  <2> QED
    BY <1>6, <2>1, <2>2
<1>9. HasOnce(longer, again)
  <2> SUFFICES ASSUME NEW i \in 1..(L + 1), NEW j \in 1..(L + 1),
                      longer[i].id = longer[j].id, longer[i].id \notin again
               PROVE  i = j
    BY <1>4 DEF HasOnce
  <2>1. \A k, l \in 1..L : apps[k].id = apps[l].id /\ apps[k].id \notin twice => k = l
    BY DEF Agree, HasOnce, L
  <2> QED
    BY <1>1, <1>4, <1>6, <1>7, <2>1
<1>10. HasAllWritten(longer, wrote2, again)
  <2> SUFFICES ASSUME NEW other \in Ids, other \notin again, wrote2[other] # 0
               PROVE  \E i \in 1..(L + 1) : longer[i].id = other
    BY <1>4 DEF HasAllWritten
  <2>1. 1..L \subseteq 1..(L + 1) /\ L + 1 \in 1..(L + 1)
    BY <1>2 DEF L
  <2>2. CASE other = id
    BY <1>1, <1>4, <2>1, <2>2
  <2>3. CASE other # id
    <3>1. PICK i \in 1..L : apps[i].id = other
      BY <1>3, <1>7, <2>3 DEF Agree, HasAllWritten, L
    <3> QED
      BY <1>4, <2>1, <3>1
  <2> QED
    BY <2>2, <2>3
<1> QED
  BY <1>3, <1>4, <1>8, <1>9, <1>10 DEF Agree, longer, app, wrote2

\* Taking every application of an id out.
LEMMA RemovalAgrees ==
  ASSUME NEW apps, NEW wrote, NEW twice, Agree(apps, wrote, twice), NEW id \in Ids
  PROVE  Agree(KeepAt(apps, 1..Len(apps) \ {i \in 1..Len(apps) : apps[i].id = id}),
               [wrote EXCEPT ![id] = 0], twice \ {id})
<1> DEFINE positions == 1..Len(apps) \ {i \in 1..Len(apps) : apps[i].id = id}
           K == KeepAt(apps, positions)
           wrote2 == [wrote EXCEPT ![id] = 0]
<1>1. apps \in Seq(Apps) /\ wrote \in [Ids -> Nat]
  BY DEF Agree
<1>2. /\ wrote2 \in [Ids -> Nat] /\ wrote2[id] = 0
      /\ \A other \in Ids : other # id => wrote2[other] = wrote[other]
  BY <1>1
<1>3. \A i \in 1..Len(apps) : apps[i].id \in Ids
  <2>1. \A i \in 1..Len(apps) : apps[i] \in Apps
    BY <1>1, ElementOfSeq
  <2> QED
    BY <2>1 DEF Apps
<1>4. \A i \in 1..Len(apps) : i \in positions <=> apps[i].id # id
  OBVIOUS
<1> HIDE DEF positions, wrote2
<1>5. PICK pos \in [1..Len(K) -> 1..Len(apps)] : Picks(pos, K, Len(apps), apps, positions)
  BY <1>1, KeepAtPicks
<1>6. K \in Seq(Apps)
  BY <1>1, KeepAtPicks
<1> HIDE DEF K
<1>7. ASSUME NEW k \in 1..Len(K)
      PROVE  pos[k] \in 1..Len(apps) /\ K[k] = apps[pos[k]] /\ apps[pos[k]].id \in Ids \ {id}
  BY <1>3, <1>4, <1>5 DEF Picks
<1>8. HasOnlyWritten(K, wrote2, twice \ {id})
  BY <1>2, <1>7 DEF Agree, HasOnlyWritten
<1>9. HasOnce(K, twice \ {id})
  <2> SUFFICES ASSUME NEW k \in 1..Len(K), NEW l \in 1..Len(K),
                      K[k].id = K[l].id, K[k].id \notin twice \ {id}
               PROVE  k = l
    BY DEF HasOnce
  <2>1. pos[k] = pos[l]
    BY <1>7 DEF Agree, HasOnce
  <2> QED
    BY <1>5, <2>1 DEF Picks
<1>10. HasAllWritten(K, wrote2, twice \ {id})
  <2> SUFFICES ASSUME NEW other \in Ids, other \notin twice \ {id}, wrote2[other] # 0
               PROVE  \E k \in 1..Len(K) : K[k].id = other
    BY DEF HasAllWritten
  <2>1. other # id /\ wrote[other] # 0
    BY <1>2
  <2>2. PICK i \in 1..Len(apps) : apps[i].id = other
    BY <2>1 DEF Agree, HasAllWritten
  <2>3. PICK k \in 1..Len(K) : pos[k] = i
    BY <1>4, <1>5, <2>1, <2>2 DEF Picks
  <2> QED
    BY <1>7, <2>2, <2>3
<1> QED
  BY <1>2, <1>6, <1>8, <1>9, <1>10 DEF Agree, K, positions, wrote2

\* Replacing the first application of an id.
LEMMA ReplacementAgrees ==
  ASSUME NEW apps, NEW wrote, NEW twice, Agree(apps, wrote, twice),
         NEW id \in Ids, NEW time \in Nat, time # 0,
         {i \in 1..Len(apps) : apps[i].id = id} # {}
  PROVE  Agree([apps EXCEPT ![Min({i \in 1..Len(apps) : apps[i].id = id})] = Application(id, time)],
               [wrote EXCEPT ![id] = time], twice)
<1> DEFINE app == Application(id, time)
           places == {i \in 1..Len(apps) : apps[i].id = id}
           first == Min(places)
           list == [apps EXCEPT ![first] = app]
           wrote2 == [wrote EXCEPT ![id] = time]
<1>1. app \in Apps /\ app.id = id /\ app.content = time
  BY DEF Application, Apps
<1>2. apps \in Seq(Apps) /\ wrote \in [Ids -> Nat]
  BY DEF Agree
<1>3. /\ wrote2 \in [Ids -> Nat] /\ wrote2[id] = time
      /\ \A other \in Ids : other # id => wrote2[other] = wrote[other]
  BY <1>2
<1> HIDE DEF app, wrote2
<1>4. first \in 1..Len(apps) /\ apps[first].id = id
  <2>1. places \subseteq Nat /\ places # {} /\ places \subseteq 1..Len(apps)
    OBVIOUS
  <2> HIDE DEF places
  <2>2. \E x \in places : \A y \in places : x <= y
    BY <2>1, SmallestNumber
  <2>3. first \in places
    BY <2>2, Zenon DEF Min
  <2> QED
    BY <2>3 DEF places
<1> HIDE DEF first, places
<1>5. /\ list \in Seq(Apps) /\ Len(list) = Len(apps)
      /\ \A i \in 1..Len(apps) : list[i] = IF i = first THEN app ELSE apps[i]
  BY <1>1, <1>2, <1>4, ExceptSeq
<1> HIDE DEF list
<1>6. \A i \in 1..Len(apps) : list[i].id = apps[i].id /\ apps[i].id \in Ids
  <2>1. \A i \in 1..Len(apps) : apps[i] \in Apps
    BY <1>2, ElementOfSeq
  <2> QED
    BY <1>1, <1>4, <1>5, <2>1 DEF Apps
<1>7. HasOnlyWritten(list, wrote2, twice)
  <2> SUFFICES ASSUME NEW i \in 1..Len(apps)
               PROVE  /\ wrote2[list[i].id] # 0
                      /\ list[i].id \notin twice => list[i].content = wrote2[list[i].id]
    BY <1>5 DEF HasOnlyWritten
  <2>1. /\ wrote[apps[i].id] # 0
        /\ apps[i].id \notin twice => apps[i].content = wrote[apps[i].id]
    BY DEF Agree, HasOnlyWritten
  <2>2. CASE apps[i].id # id
    BY <1>3, <1>4, <1>5, <1>6, <2>1, <2>2
  <2>3. CASE apps[i].id = id
    <3>1. id \notin twice => i = first
      BY <1>4, <2>3 DEF Agree, HasOnce
    <3> QED
      BY <1>1, <1>3, <1>5, <1>6, <2>3, <3>1
  <2> QED
    BY <2>2, <2>3
<1>8. HasOnce(list, twice)
  BY <1>5, <1>6 DEF Agree, HasOnce
<1>9. HasAllWritten(list, wrote2, twice)
  <2> SUFFICES ASSUME NEW other \in Ids, other \notin twice, wrote2[other] # 0
               PROVE  \E i \in 1..Len(apps) : list[i].id = other
    BY <1>5 DEF HasAllWritten
  <2>1. CASE other = id
    BY <1>4, <1>6, <2>1
  <2>2. CASE other # id
    <3>1. PICK i \in 1..Len(apps) : apps[i].id = other
      BY <1>3, <2>2 DEF Agree, HasAllWritten
    <3> QED
      BY <1>6, <3>1
  <2> QED
    BY <2>1, <2>2
<1> QED
  BY <1>3, <1>5, <1>7, <1>8, <1>9 DEF Agree, list, first, places, app, wrote2

----------------------------------------------------------------------------
(* What a reader finds. *)

\* The members of what toJson writes.
LEMMA WrittenMembers ==
  ASSUME NEW c
  PROVE  /\ DOMAIN toJson(c) = Keys(c)
         /\ "configuration" \notin Keys(c)
         /\ toJson(c)["version"] = c.version
         /\ toJson(c)["applications"] = c.applications
         /\ "device_id" \in Keys(c) => toJson(c)["device_id"] = c.deviceId
         /\ "active_app_id" \in Keys(c) => toJson(c)["active_app_id"] = c.activeAppId
         /\ "last_modified" \in Keys(c) => toJson(c)["last_modified"] = Seconds(c.lastModified)
         /\ "system_configuration" \in Keys(c) =>
              toJson(c)["system_configuration"] = c.systemConfiguration
<1> DEFINE members == [version |-> c.version, applications |-> c.applications,
                       device_id |-> c.deviceId, last_modified |-> Seconds(c.lastModified),
                       active_app_id |-> c.activeAppId,
                       system_configuration |-> c.systemConfiguration]
<1>1. toJson(c) = [key \in Keys(c) |-> members[key]]
  BY DEF toJson, Restrict
<1>2. "configuration" \notin Keys(c) /\ "version" \in Keys(c) /\ "applications" \in Keys(c)
  BY DEF Keys, Keys_WithoutSettings
<1>3. /\ members["version"] = c.version /\ members["applications"] = c.applications
      /\ members["device_id"] = c.deviceId /\ members["active_app_id"] = c.activeAppId
      /\ members["last_modified"] = Seconds(c.lastModified)
      /\ members["system_configuration"] = c.systemConfiguration
  OBVIOUS
<1> HIDE DEF members
<1> QED
  BY <1>1, <1>2, <1>3

\* Reading what toJson wrote, in a frame or not, at a time.
LEMMA ReadBack ==
  ASSUME NEW c, c.applications \in Seq(Apps), NEW time,
         NEW frame \in {toJson(c), InFrame(toJson(c))}
  PROVE  fromJson(frame, time) =
           [version |-> c.version, deviceId |-> c.deviceId, activeAppId |-> c.activeAppId,
            lastModified |-> IF c.lastModified = InvalidTime THEN time ELSE Seconds(c.lastModified),
            systemConfiguration |-> c.systemConfiguration, applications |-> c.applications]
<1> DEFINE json == toJson(c)
<1>1. Value(frame, "configuration", frame) = json
  <2>1. CASE frame = json
    BY <2>1, WrittenMembers DEF Value
  <2>2. CASE frame = InFrame(json)
    BY <2>2 DEF Value, InFrame
  <2> QED
    BY <2>1, <2>2
<1> HIDE DEF json
<1>2. /\ DOMAIN json = Keys(c)
      /\ json["version"] = c.version
      /\ json["applications"] = c.applications
      /\ "device_id" \in Keys(c) => json["device_id"] = c.deviceId
      /\ "active_app_id" \in Keys(c) => json["active_app_id"] = c.activeAppId
      /\ "last_modified" \in Keys(c) => json["last_modified"] = Seconds(c.lastModified)
      /\ "system_configuration" \in Keys(c) => json["system_configuration"] = c.systemConfiguration
  BY WrittenMembers DEF json
<1>3. /\ "version" \in Keys(c) /\ "applications" \in Keys(c)
      /\ "device_id" \in Keys(c) <=> c.deviceId # NoText
      /\ "active_app_id" \in Keys(c) <=> c.activeAppId # NoText
      /\ "last_modified" \in Keys(c) <=> c.lastModified # InvalidTime
      /\ "system_configuration" \in Keys(c) <=> c.systemConfiguration # 0
  BY DEF Keys, Keys_WithoutSettings
<1>4. /\ Value(json, "version", "1.0") = c.version
      /\ Value(json, "device_id", NoText) = c.deviceId
      /\ Value(json, "active_app_id", NoText) = c.activeAppId
      /\ Value(json, "last_modified", time) =
           IF c.lastModified = InvalidTime THEN time ELSE Seconds(c.lastModified)
      /\ Value(json, "system_configuration", 0) = c.systemConfiguration
      /\ Value(json, "applications", <<>>) = c.applications
  BY <1>2, <1>3 DEF Value
<1>5. Objects(Value(json, "applications", <<>>)) = c.applications
  BY <1>4, AllObjects
<1> QED
  BY <1>1, <1>4, <1>5 DEF fromJson

\* What a reader finds of a list that agrees agrees.
LEMMA ReadingAgrees ==
  ASSUME NEW json, "configuration" \notin DOMAIN json, NEW wrote, NEW twice,
         Agree(Value(json, "applications", <<>>), wrote, twice),
         NEW frame \in Readings(json), NEW time
  PROVE  Agree(fromJson(frame, time).applications, wrote, twice)
<1> DEFINE apps == Value(json, "applications", <<>>)
<1>1. fromJson(frame, time).applications = Objects(Listed(frame))
  BY DEF fromJson, Listed
<1>2. apps \in Seq(Apps) /\ apps \in Seq(Elements) /\ Len(apps) \in Nat
  BY SeqMonotonic, LenProperties DEF Agree, Elements
<1> HIDE DEF apps
<1>3. ASSUME Listed(frame) = apps
      PROVE  Agree(Objects(Listed(frame)), wrote, twice)
  <2>1. Objects(apps) = apps
    BY <1>2, AllObjects
  <2> QED
    BY <1>3, <2>1 DEF apps
<1>4. CASE frame = json
  <2>1. Listed(frame) = apps
    BY <1>4 DEF Listed, Value, apps
  <2> QED
    BY <1>1, <1>3, <2>1
<1>5. CASE frame = InFrame(json)
  <2>1. Value(frame, "configuration", frame) = json
    BY <1>5 DEF InFrame, Value
  <2>2. Listed(frame) = apps
    BY <2>1 DEF Listed, apps
  <2> QED
    BY <1>1, <1>3, <2>2
<1>6. CASE frame = Restrict(json, DOMAIN json \ {"last_modified"})
  <2>1. /\ DOMAIN frame = DOMAIN json \ {"last_modified"}
        /\ \A key \in DOMAIN frame : frame[key] = json[key]
    BY <1>6 DEF Restrict
  <2>2. Value(frame, "configuration", frame) = frame
    BY <2>1 DEF Value
  <2>3. Value(frame, "applications", <<>>) = apps
    BY <2>1 DEF Value, apps
  <2>4. Listed(frame) = apps
    BY <2>2, <2>3 DEF Listed
  <2> QED
    BY <1>1, <1>3, <2>4
<1>7. CASE frame = With(json, "last_modified", InvalidTime)
  <2>1. /\ DOMAIN frame = DOMAIN json \cup {"last_modified"}
        /\ \A key \in DOMAIN json : key # "last_modified" => frame[key] = json[key]
    BY <1>7 DEF With
  <2>2. Value(frame, "configuration", frame) = frame
    BY <2>1 DEF Value
  <2>3. Value(frame, "applications", <<>>) = apps
    BY <2>1 DEF Value, apps
  <2>4. Listed(frame) = apps
    BY <2>2, <2>3 DEF Listed
  <2> QED
    BY <1>1, <1>3, <2>4
<1>8. CASE frame = With(json, "applications", <<NotAnObject>> \o apps)
  <2> DEFINE list == <<NotAnObject>> \o apps
  <2>1. /\ DOMAIN frame = DOMAIN json \cup {"applications"}
        /\ frame["applications"] = list
    BY <1>8 DEF With
  <2>2. /\ list \in Seq(Elements) /\ Len(list) = Len(apps) + 1 /\ list[1] = NotAnObject
        /\ \A i \in 1..Len(apps) : list[i + 1] = apps[i]
    <3>1. /\ <<NotAnObject>> \in Seq(Elements) /\ Len(<<NotAnObject>>) = 1
          /\ <<NotAnObject>>[1] = NotAnObject
      BY DEF Elements
    <3>2. /\ list \in Seq(Elements) /\ Len(list) = 1 + Len(apps)
          /\ \A i \in 1..(1 + Len(apps)) :
               list[i] = IF i <= 1 THEN <<NotAnObject>>[i] ELSE apps[i - 1]
      BY <1>2, <3>1, ConcatProperties
    <3> HIDE DEF list
    <3> QED
      BY <1>2, <3>1, <3>2
  <2> HIDE DEF list
  <2>3. Value(frame, "configuration", frame) = frame
    BY <2>1 DEF Value
  <2>4. Listed(frame) = list
    BY <2>1, <2>3 DEF Listed, Value
  <2>5. Agree(Objects(list), wrote, twice)
    BY <2>2, ObjectsAgree DEF apps
  <2> QED
    BY <1>1, <2>4, <2>5
<1> QED
  BY <1>4, <1>5, <1>6, <1>7, <1>8 DEF Readings, apps

----------------------------------------------------------------------------
(* The theorems. *)

\* A configuration that is new has no applications.
LEMMA InitHolds == Init => DeviceInv
<1> SUFFICES ASSUME Init PROVE DeviceInv
  OBVIOUS
<1>1. now = 2 /\ config = NewConfiguration(2) /\ saved = NothingSaved
      /\ written = [id \in Ids |-> 0] /\ duplicate = {}
  BY DEF Init
<1>2. Agree(<<>>, [id \in Ids |-> 0], {})
  BY EmptySeq DEF Agree, HasOnlyWritten, HasOnce, HasAllWritten
<1>3. IsConfiguration(config) /\ config.applications = <<>>
  BY <1>1 DEF NewConfiguration, IsConfiguration
<1>4. /\ "configuration" \notin DOMAIN saved.json
      /\ Value(saved.json, "applications", <<>>) = <<>>
      /\ saved.written = [id \in Ids |-> 0] /\ saved.duplicate = {}
  BY <1>1 DEF NothingSaved, Value
<1>5. now \in Nat /\ now # 0
  BY <1>1
<1> QED
  BY <1>1, <1>2, <1>3, <1>4, <1>5 DEF DeviceInv

\* The operations write the applications of a configuration, and its date.
LEMMA ChangedApplications ==
  ASSUME NEW c, IsConfiguration(c), NEW apps
  PROVE  /\ IsConfiguration(Changed([c EXCEPT !.applications = apps]))
         /\ Changed([c EXCEPT !.applications = apps]).applications = apps
<1> DEFINE d == Changed([c EXCEPT !.applications = apps])
<1>1. d = [version |-> c.version, deviceId |-> c.deviceId, activeAppId |-> c.activeAppId,
           lastModified |-> now, systemConfiguration |-> c.systemConfiguration,
           applications |-> apps]
  <2> DEFINE e == [c EXCEPT !.applications = apps]
  <2>1. e = [version |-> c.version, deviceId |-> c.deviceId, activeAppId |-> c.activeAppId,
             lastModified |-> c.lastModified, systemConfiguration |-> c.systemConfiguration,
             applications |-> apps]
    BY DEF IsConfiguration
  <2>2. d = [e EXCEPT !.lastModified = now]
    BY DEF Changed
  <2> HIDE DEF e, d
  <2> QED
    BY <2>1, <2>2
<1> HIDE DEF d
<1>2. IsConfiguration(d) /\ d.applications = apps
  BY <1>1 DEF IsConfiguration
<1> QED
  BY <1>2 DEF d

LEMMA AddedAgrees ==
  ASSUME DeviceInv, NEW id \in Ids
  PROVE  LET c == Added(config, Application(id, now)) IN
         /\ IsConfiguration(c)
         /\ Agree(c.applications, [written EXCEPT ![id] = now],
                  IF Positions(config, id) = {} THEN duplicate ELSE duplicate \cup {id})
<1> DEFINE apps == Append(config.applications, Application(id, now))
           c == Added(config, Application(id, now))
<1>1. c = Changed([config EXCEPT !.applications = apps])
  BY DEF Added, DeviceInv, IsConfiguration
<1>2. IsConfiguration(c) /\ c.applications = apps
  BY <1>1, ChangedApplications DEF DeviceInv
<1>3. Agree(apps, [written EXCEPT ![id] = now],
            IF Positions(config, id) = {} THEN duplicate ELSE duplicate \cup {id})
  BY AppendAgrees DEF DeviceInv, Positions
<1> HIDE DEF c, apps
<1> QED
  BY <1>2, <1>3 DEF c

\* The operations of the application, one by one.
LEMMA AddKeepsInv ==
  ASSUME DeviceInv, NEW id \in Ids, addApplication(id)
  PROVE  DeviceInv'
<1>1. now' = now + 1 /\ saved' = saved
  BY DEF addApplication, Tick
<1>2. /\ config' = Added(config, Application(id, now))
      /\ written' = [written EXCEPT ![id] = now]
      /\ duplicate' = IF Positions(config, id) = {} THEN duplicate ELSE duplicate \cup {id}
  BY DEF addApplication, Wrote
<1>3. IsConfiguration(config') /\ Agree(config'.applications, written', duplicate')
  BY <1>2, AddedAgrees
<1> QED
  BY <1>1, <1>3 DEF DeviceInv

LEMMA RemoveKeepsInv ==
  ASSUME DeviceInv, NEW id \in Ids, removeApplication(id)
  PROVE  DeviceInv'
<1> DEFINE apps == KeepAt(config.applications,
                          1..Len(config.applications) \ Positions(config, id))
<1>1. now' = now + 1 /\ saved' = saved
  BY DEF removeApplication, Tick
<1>2. /\ config' = Removed(config, id)
      /\ written' = [written EXCEPT ![id] = 0]
      /\ duplicate' = duplicate \ {id}
  BY DEF removeApplication, Wrote
<1>3. config' = Changed([config EXCEPT !.applications = apps])
  BY <1>2 DEF Removed, DeviceInv, IsConfiguration
<1>4. IsConfiguration(config') /\ config'.applications = apps
  BY <1>3, ChangedApplications DEF DeviceInv
<1>5. Agree(apps, written', duplicate')
  BY <1>2, RemovalAgrees DEF DeviceInv, Positions
<1> HIDE DEF apps
<1> QED
  BY <1>1, <1>4, <1>5 DEF DeviceInv

LEMMA UpdateKeepsInv ==
  ASSUME DeviceInv, NEW id \in Ids, updateApplication(id)
  PROVE  DeviceInv'
<1> DEFINE app == Application(id, now)
<1>1. now' = now + 1 /\ saved' = saved /\ duplicate' = duplicate
  BY DEF updateApplication, Tick
<1>2. config' = Updated(config, app) /\ written' = [written EXCEPT ![id] = now]
  BY DEF updateApplication, Wrote
<1>3. app.id = id
  BY DEF Application
<1>4. CASE Positions(config, id) = {}
  <2>1. config' = Added(config, app)
    BY <1>2, <1>3, <1>4 DEF Updated
  <2>2. IsConfiguration(config') /\ Agree(config'.applications, written', duplicate)
    BY <1>2, <1>4, <2>1, AddedAgrees
  <2> QED
    BY <1>1, <2>2 DEF DeviceInv
<1>5. CASE Positions(config, id) # {}
  <2> DEFINE first == Min(Positions(config, id))
             apps == [config.applications EXCEPT ![first] = app]
  <2> HIDE DEF app
  <2>1. config' = Changed([config EXCEPT !.applications[first] = app])
    BY <1>2, <1>3, <1>5 DEF Updated
  <2>2. config' = Changed([config EXCEPT !.applications = apps])
    BY <2>1 DEF DeviceInv, IsConfiguration
  <2>3. IsConfiguration(config') /\ config'.applications = apps
    BY <2>2, ChangedApplications DEF DeviceInv
  <2>4. Agree(apps, written', duplicate)
    BY <1>2, <1>5, ReplacementAgrees DEF DeviceInv, Positions, app
  <2> HIDE DEF apps
  <2> QED
    BY <1>1, <2>3, <2>4 DEF DeviceInv
<1> QED
  BY <1>4, <1>5

LEMMA AssignKeepsInv ==
  ASSUME DeviceInv, assign
  PROVE  DeviceInv'
<1>1. now' = now + 1 /\ UNCHANGED <<saved, written, duplicate>>
  BY DEF assign, Tick
<1>2. IsConfiguration(config') /\ config'.applications = config.applications
  <2>1. \/ \E id \in Ids : config' = [config EXCEPT !.activeAppId = id]
        \/ \E s \in Settings : config' = [config EXCEPT !.systemConfiguration = s]
        \/ config' = [config EXCEPT !.version = NoText]
        \/ config' = [config EXCEPT !.deviceId = "SN"]
        \/ config' = [config EXCEPT !.lastModified = InvalidTime]
    BY DEF assign
  <2> QED
    BY <2>1 DEF DeviceInv, IsConfiguration
<1> QED
  BY <1>1, <1>2 DEF DeviceInv

\* What is saved holds the list as it is, and what is loaded is read from what was saved.
LEMMA SaveKeepsInv ==
  ASSUME DeviceInv, save
  PROVE  DeviceInv'
<1>1. now' = now + 1 /\ UNCHANGED <<config, written, duplicate>>
  BY DEF save, Tick
<1>2. saved'.json = toJson(config) /\ saved'.written = written /\ saved'.duplicate = duplicate
  BY DEF save
<1>3. /\ "configuration" \notin DOMAIN saved'.json
      /\ Value(saved'.json, "applications", <<>>) = config.applications
  <2>1. "applications" \in Keys(config)
    BY DEF Keys, Keys_WithoutSettings
  <2> QED
    BY <1>2, <2>1, WrittenMembers DEF Value
<1> QED
  BY <1>1, <1>2, <1>3 DEF DeviceInv

LEMMA LoadKeepsInv ==
  ASSUME DeviceInv, load
  PROVE  DeviceInv'
<1>1. now' = now + 1 /\ saved' = saved
  BY DEF load, Tick
<1>2. written' = saved.written /\ duplicate' = saved.duplicate
  BY DEF load
<1>3. PICK frame \in Readings(saved.json) : config' = fromJson(frame, now)
  BY DEF load
<1>4. IsConfiguration(config')
  BY <1>3 DEF fromJson, IsConfiguration
<1>5. Agree(config'.applications, written', duplicate')
  BY <1>2, <1>3, ReadingAgrees DEF DeviceInv
<1> QED
  BY <1>1, <1>4, <1>5 DEF DeviceInv

\* The invariant holds of every life of a configuration.
LEMMA DeviceInvInductive == Spec => []DeviceInv
<1>1. DeviceInv /\ [Next]_configVars => DeviceInv'
  <2> SUFFICES ASSUME DeviceInv, [Next]_configVars PROVE DeviceInv'
    OBVIOUS
  <2>1. CASE UNCHANGED configVars
    BY <2>1 DEF configVars, DeviceInv
  <2>2. CASE Next
    <3>1. \/ \E id \in Ids : addApplication(id) \/ removeApplication(id) \/ updateApplication(id)
          \/ assign \/ save \/ load
      BY <2>2 DEF Next
    <3> QED
      BY <3>1, AddKeepsInv, RemoveKeepsInv, UpdateKeepsInv, AssignKeepsInv, SaveKeepsInv,
         LoadKeepsInv
  <2> QED
    BY <2>1, <2>2
<1> QED
  BY <1>1, InitHolds, PTL DEF Spec

\* Whatever applications are added, updated and removed, however often the device
\* restarts and whatever a hand has done to the file meanwhile, looking an id up
\* finds what was last written under it (DeviceConfiguration.cpp, the application
\* list and its JSON).
THEOREM LastWriteWinsHolds == Spec => []LastWriteWins
<1>1. DeviceInv => LastWriteWins
  <2> SUFFICES ASSUME DeviceInv, NEW id \in Ids
               PROVE  LET contents == {config.applications[i].content : i \in Positions(config, id)} IN
                      /\ written[id] = 0 => contents = {}
                      /\ id \notin duplicate /\ written[id] # 0 => contents = {written[id]}
    BY DEF LastWriteWins
  <2> DEFINE apps == config.applications
             places == Positions(config, id)
  <2>1. \A i : i \in places <=> i \in 1..Len(apps) /\ apps[i].id = id
    BY DEF Positions
  <2> HIDE DEF places
  <2>2. /\ HasOnlyWritten(apps, written, duplicate)
        /\ HasAllWritten(apps, written, duplicate)
    BY DEF DeviceInv, Agree
  <2>3. written[id] = 0 => places = {}
    BY <2>1, <2>2 DEF HasOnlyWritten
  <2>4. ASSUME id \notin duplicate, written[id] # 0
        PROVE  places # {} /\ \A i \in places : apps[i].content = written[id]
    BY <2>1, <2>2, <2>4 DEF HasOnlyWritten, HasAllWritten
  <2> QED
    BY <2>3, <2>4 DEF places
<1> QED
  BY <1>1, DeviceInvInductive, PTL

\* Writing a configuration and reading it back, in a frame or not, loses nothing but
\* the fraction of a second, whatever was done to it before (toJson, fromJson).
THEOREM RoundTripHolds == Spec => []RoundTrip
<1>1. DeviceInv => RoundTrip
  <2> SUFFICES ASSUME DeviceInv, NEW frame \in {toJson(config), InFrame(toJson(config))}
               PROVE  fromJson(frame, now) =
                        [config EXCEPT !.lastModified = IF @ = InvalidTime THEN now ELSE Seconds(@)]
    BY DEF RoundTrip
  <2>1. config.applications \in Seq(Apps)
    BY DEF DeviceInv, Agree
  <2>2. fromJson(frame, now) =
          [version |-> config.version, deviceId |-> config.deviceId,
           activeAppId |-> config.activeAppId,
           lastModified |-> IF config.lastModified = InvalidTime THEN now
                            ELSE Seconds(config.lastModified),
           systemConfiguration |-> config.systemConfiguration,
           applications |-> config.applications]
    BY <2>1, ReadBack
  <2> QED
    BY <2>2 DEF DeviceInv, IsConfiguration
<1> QED
  BY <1>1, DeviceInvInductive, PTL
=============================================================================
