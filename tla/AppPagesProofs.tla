---------------------------- MODULE AppPagesProofs ----------------------------
(* Proofs about the pages of luci-app-homeproxy, luci-app-3ginfo-lite and the *)
(* argon theme, for any sections, nodes, subscriptions, lists and menus: page *)
(* by page an inductive invariant over the page's own variables, and at the   *)
(* end the theorems about the composition, of which every page is a projection. *)
EXTENDS AppPages, FiniteSetTheorems, SequenceTheorems, WellFoundedInduction, TLAPS

-----------------------------------------------------------------------------
(* Lists that are filtered.                                                *)

\* A position among K is told by how many of K are up to it.
LEMMA RanksTell ==
  ASSUME NEW K, IsFiniteSet(K), K \subseteq Nat, NEW n \in 1..Cardinality(K)
  PROVE  \E k \in K : Cardinality({j \in K : j <= k}) = n
  <1> DEFINE Upto(k) == {j \in K : j <= k}
             rank == [k \in K |-> Cardinality(Upto(k))]
  <1>1. \A k \in K : IsFiniteSet(Upto(k)) /\ Cardinality(Upto(k)) \in 1..Cardinality(K)
    <2> SUFFICES ASSUME NEW k \in K
                 PROVE  IsFiniteSet(Upto(k)) /\ Cardinality(Upto(k)) \in 1..Cardinality(K)
      OBVIOUS
    <2>1. Upto(k) \in SUBSET K /\ k \in Upto(k)
      OBVIOUS
    <2>2. IsFiniteSet(Upto(k)) /\ Cardinality(Upto(k)) <= Cardinality(K)
      BY <2>1, FS_Subset
    <2>3. Cardinality(Upto(k)) \in Nat /\ Cardinality(K) \in Nat
      BY <2>2, FS_CardinalityType
    <2>4. Cardinality(Upto(k)) # 0
      BY <2>1, <2>2, FS_EmptySet
    <2> QED
      BY <2>2, <2>3, <2>4
  <1>2. \A k, l \in K : k < l => rank[k] # rank[l]
    <2> SUFFICES ASSUME NEW k \in K, NEW l \in K, k < l, rank[k] = rank[l]
                 PROVE  FALSE
      OBVIOUS
    <2>0. k \in Nat /\ l \in Nat /\ \A j \in K : j \in Nat /\ (j <= k => j <= l)
      <3> HIDE DEF Upto, rank
      <3> QED
        OBVIOUS
    <2>1. Upto(k) \in SUBSET Upto(l)
      BY <2>0
    <2>2. Cardinality(Upto(k)) = Cardinality(Upto(l))
      OBVIOUS
    <2>3. Upto(l) = Upto(k)
      BY <1>1, <2>1, <2>2, FS_Subset
    <2> QED
      BY <2>0, <2>3
  <1>3. rank \in Injection(K, 1..Cardinality(K))
    <2>1. rank \in [K -> 1..Cardinality(K)]
      BY <1>1
    <2>2. \A k, l \in K : rank[k] = rank[l] => k = l
      <3> HIDE DEF rank
      <3> QED
        BY <1>2
    <2> HIDE DEF rank
    <2> QED
      BY <2>1, <2>2 DEF Injection, IsInjective
  <1>4. Cardinality(K) \in Nat
    BY FS_CardinalityType
  <1>5. IsFiniteSet(1..Cardinality(K)) /\ Cardinality(1..Cardinality(K)) = Cardinality(K)
    BY <1>4, FS_Interval
  <1>6. rank \in Surjection(K, 1..Cardinality(K))
    <2> HIDE DEF rank
    <2> QED
      BY <1>3, <1>5, FS_Injection
  <1>7. PICK k \in K : rank[k] = n
    <2> HIDE DEF rank
    <2> QED
      BY <1>6 DEF Surjection
  <1> QED
    BY <1>7

\* What Picked takes from a sequence is at positions of K, each taken once, in their order.
TakesOnce(s, K, at) ==
  /\ at \in [1..Cardinality(K) -> K]
  /\ Picked(s, K) = [n \in 1..Cardinality(K) |-> s[at[n]]]
  /\ \A m, n \in 1..Cardinality(K) : m < n => at[m] < at[n]

LEMMA PickedIs ==
  ASSUME NEW s, NEW K, IsFiniteSet(K), K \subseteq Nat
  PROVE  \E at : TakesOnce(s, K, at)
  <1> DEFINE Rank(k) == Cardinality({j \in K : j <= k})
             at == [n \in 1..Cardinality(K) |-> CHOOSE k \in K : Rank(k) = n]
  <1>1. \A n \in 1..Cardinality(K) : at[n] \in K /\ Rank(at[n]) = n
    <2> SUFFICES ASSUME NEW n \in 1..Cardinality(K) PROVE at[n] \in K /\ Rank(at[n]) = n
      OBVIOUS
    <2>1. \E k \in K : Rank(k) = n
      BY RanksTell
    <2> HIDE DEF Rank
    <2> QED
      BY <2>1
  <1>2. Picked(s, K) = [n \in 1..Cardinality(K) |-> s[at[n]]]
    BY DEF Picked
  <1>3. at \in [1..Cardinality(K) -> K]
    <2> HIDE DEF Rank
    <2> QED
      BY <1>1
  <1>4. ASSUME NEW m \in 1..Cardinality(K), NEW n \in 1..Cardinality(K), m < n
        PROVE  at[m] < at[n]
    <2> DEFINE a == at[m]
               b == at[n]
               Upto(k) == {j \in K : j <= k}
    <2>0. Cardinality(K) \in Nat
      BY FS_CardinalityType
    <2>1. a \in K /\ b \in K /\ Rank(a) = m /\ Rank(b) = n /\ m \in Nat /\ n \in Nat
      <3> HIDE DEF Rank, at
      <3> QED
        BY <1>1, <2>0
    <2> HIDE DEF at, a, b
    <2>2. Upto(a) \in SUBSET K
      OBVIOUS
    <2>3. IsFiniteSet(Upto(a))
      BY <2>2, FS_Subset
    <2>4. ASSUME b <= a PROVE FALSE
      <3>1. Upto(b) \in SUBSET Upto(a)
        <4>1. a \in Nat /\ b \in Nat /\ \A j \in K : j \in Nat
          BY <2>1
        <4>2. \A j \in K : j <= b => j <= a
          <5> HIDE DEF Rank, Upto
          <5> QED
            BY <2>4, <4>1
        <4> QED
          BY <4>2
      <3>2. Cardinality(Upto(b)) <= Cardinality(Upto(a))
        BY <2>3, <3>1, FS_Subset
      <3>3. Cardinality(Upto(b)) = n /\ Cardinality(Upto(a)) = m
        BY <2>1
      <3> QED
        BY <1>4, <2>1, <3>2, <3>3
    <2>5. a < b
      <3>1. a \in Nat /\ b \in Nat
        BY <2>1
      <3> QED
        BY <2>4, <3>1
    <2> QED
      BY <2>5 DEF a, b
  <1>5. TakesOnce(s, K, at)
    <2> HIDE DEF at
    <2> QED
      BY <1>2, <1>3, <1>4 DEF TakesOnce
  <1> QED
    BY <1>5

-----------------------------------------------------------------------------
(* The formats.                                                            *)

LEMMA LastIs ==
  ASSUME NEW hits \in SUBSET (1..4), hits # {}
  PROVE  Last(hits) \in hits /\ \A j \in hits : j <= Last(hits)
  <1>1. \E i \in hits : \A j \in hits : j <= i
    <2>1. CASE 4 \in hits
      BY <2>1
    <2>2. CASE 4 \notin hits /\ 3 \in hits
      BY <2>2
    <2>3. CASE 4 \notin hits /\ 3 \notin hits /\ 2 \in hits
      BY <2>3
    <2>4. CASE 4 \notin hits /\ 3 \notin hits /\ 2 \notin hits
      <3>1. \A j \in hits : j = 1
        <4>1. \A j \in 1..4 : j = 1 \/ j = 2 \/ j = 3 \/ j = 4
          OBVIOUS
        <4> QED
          BY <2>4, <4>1
      <3>2. PICK i \in hits : TRUE
        OBVIOUS
      <3>3. \A j \in hits : j <= i
        BY <3>1
      <3> QED
        BY <3>2, <3>3
    <2> QED
      BY <2>1, <2>2, <2>3, <2>4
  <1> QED
    BY <1>1 DEF Last

\* The ranges of every bar go from the best to the worst without a gap.
Descend(scale, from, to) ==
  /\ \A i \in 1..4 : /\ from[i] \in Int /\ to[i] \in Int
                     /\ Ranges[scale][i][1] = from[i] /\ Ranges[scale][i][2] = to[i]
                     /\ Ranges[scale][i][3] = Grades[5 - i]
  /\ \A i \in 1..3 : from[i + 1] < from[i] /\ from[i] <= to[i + 1] + 1
  /\ from[4] <= (IF scale = "csq" THEN 1 ELSE Low) /\ to[1] >= (IF scale = "csq" THEN 31 ELSE High)

LEMMA RangesDescend == ASSUME NEW scale \in Bars PROVE \E from, to : Descend(scale, from, to)
  <1>1. \A k \in 1..4 : k = 1 \/ k = 2 \/ k = 3 \/ k = 4
    OBVIOUS
  <1>2. Grades[4] = "lime" /\ Grades[3] = "yellow" /\ Grades[2] = "darkorange" /\ Grades[1] = "red"
    BY DEF Grades
  <1>3. CASE scale = "csq"
    <2>1. Descend(scale, <<20, 14, 10, 1>>, <<31, 19, 13, 9>>)
      BY <1>1, <1>2, <1>3 DEF Descend, Ranges
    <2> QED
      BY <2>1
  <1>4. CASE scale = "rssi"
    <2>1. Descend(scale, <<-69, -85, -100, -200>>, <<200, -70, -86, -101>>)
      BY <1>1, <1>2, <1>4 DEF Descend, Ranges, Low, High
    <2> QED
      BY <2>1
  <1>5. CASE scale = "rsrp"
    <2>1. Descend(scale, <<-80, -90, -100, -200>>, <<200, -79, -89, -101>>)
      BY <1>1, <1>2, <1>5 DEF Descend, Ranges, Low, High
    <2> QED
      BY <2>1
  <1>6. CASE scale = "sinr"
    <2>1. Descend(scale, <<21, 13, 1, -200>>, <<200, 20, 12, 0>>)
      BY <1>1, <1>2, <1>6 DEF Descend, Ranges, Low, High
    <2> QED
      BY <2>1
  <1>7. CASE scale = "rsrq"
    <2>1. Descend(scale, <<-10, -15, -20, -200>>, <<200, -9, -14, -21>>)
      BY <1>1, <1>2, <1>7 DEF Descend, Ranges, Low, High
    <2> QED
      BY <2>1
  <1> QED
    BY <1>3, <1>4, <1>5, <1>6, <1>7 DEF Bars, Ranges

\* What is drawn for a reading: the ranges that apply, and the grade of the last of them.
Hits(scale, n) == {i \in 1..4 : Clamp(scale, n) >= Ranges[scale][i][1] /\ Clamp(scale, n) <= Ranges[scale][i][2]}

LEMMA GradeIs ==
  ASSUME NEW scale \in Bars, NEW n \in Int, NEW from, NEW to, Descend(scale, from, to),
         Clamp(scale, n) \in Int, Clamp(scale, n) >= from[4], Clamp(scale, n) <= to[1]
  PROVE  /\ Hits(scale, n) \in SUBSET (1..4) /\ Hits(scale, n) # {}
         /\ Grade(Colour(scale, n, "red")) = 5 - Last(Hits(scale, n))
  <1> DEFINE c == Clamp(scale, n)
             hits == Hits(scale, n)
             k == Last(hits)
  <1>1. \A i \in 1..4 : i \in hits <=> (from[i] <= c /\ c <= to[i])
    BY DEF Hits, Descend
  <1>2. hits \in SUBSET (1..4)
    BY DEF Hits
  <1>3. hits # {}
    <2>1. \A i \in 1..4 : from[i] \in Int /\ to[i] \in Int
      BY DEF Descend
    <2>2. from[1] <= to[2] + 1 /\ from[2] <= to[3] + 1 /\ from[3] <= to[4] + 1
      BY DEF Descend
    <2>3. \/ from[1] <= c /\ c <= to[1]
          \/ from[2] <= c /\ c <= to[2]
          \/ from[3] <= c /\ c <= to[3]
          \/ from[4] <= c /\ c <= to[4]
      <3>1. c \in Int /\ from[4] <= c /\ c <= to[1]
        OBVIOUS
      <3> HIDE DEF c
      <3> QED
        BY <2>1, <2>2, <3>1
    <2>4. 1 \in 1..4 /\ 2 \in 1..4 /\ 3 \in 1..4 /\ 4 \in 1..4
      OBVIOUS
    <2> HIDE DEF c, hits
    <2>5. 1 \in hits \/ 2 \in hits \/ 3 \in hits \/ 4 \in hits
      BY <1>1, <2>3, <2>4
    <2> QED
      BY <2>5
  <1>4. k \in 1..4 /\ k \in hits
    <2> HIDE DEF hits
    <2> QED
      BY <1>2, <1>3, LastIs
  <1>5. Colour(scale, n, "red") = Grades[5 - k]
    <2>1. Colour(scale, n, "red") = Ranges[scale][k][3]
      BY <1>3 DEF Colour, Hits
    <2> HIDE DEF k
    <2> QED
      BY <1>4, <2>1 DEF Descend
  <1>6. \A i, j \in 1..4 : Grades[i] = Grades[j] => i = j
    BY DEF Grades
  <1>7. 5 - k \in 1..4
    <2> HIDE DEF k
    <2> QED
      BY <1>4
  <1>8. Grade(Grades[5 - k]) = 5 - k
    <2> HIDE DEF k
    <2> QED
      BY <1>6, <1>7 DEF Grade
  <1> QED
    BY <1>2, <1>3, <1>5, <1>8

LEMMA ClampIs ==
  ASSUME NEW scale, NEW n \in Int, NEW m \in Int, n <= m
  PROVE  /\ Clamp(scale, n) \in Int /\ Clamp(scale, m) \in Int /\ Clamp(scale, n) <= Clamp(scale, m)
         /\ n \in Low..High => Clamp(scale, n) \in Low..High
         /\ m \in Low..High => Clamp(scale, m) \in Low..High
  <1>1. CASE scale = "rssi"
    BY <1>1 DEF Clamp, Low, High
  <1>2. CASE scale = "rsrp"
    BY <1>2 DEF Clamp, Low, High
  <1>3. CASE scale = "rsrq"
    BY <1>3 DEF Clamp, Low, High
  <1>4. CASE scale \notin {"rssi", "rsrp", "rsrq"}
    BY <1>4 DEF Clamp, Low, High
  <1> QED
    BY <1>1, <1>2, <1>3, <1>4

LEMMA StrongerHolds == FormatInit => StrongerLooksStronger
  <1> SUFFICES ASSUME FormatInit, kind \in Bars PROVE StrongerLooksStronger
    BY DEF StrongerLooksStronger
  <1>1. /\ value \in Readings /\ other \in Readings /\ value < other
        /\ kind = "csq" => value >= 1 /\ other <= 31
    BY DEF FormatInit, Bars, Ranges
  <1>2. value \in Int /\ other \in Int /\ value \in Low..High /\ other \in Low..High
    BY <1>1, ReadingsAssumption DEF Low, High
  <1> DEFINE c == Clamp(kind, value)
             d == Clamp(kind, other)
  <1>3. c \in Int /\ d \in Int /\ c <= d /\ c \in Low..High /\ d \in Low..High
    BY <1>1, <1>2, ClampIs
  <1>4. kind = "csq" => c = value /\ d = other
    BY DEF Clamp
  <1>5. PICK from, to : Descend(kind, from, to)
    BY RangesDescend
  <1>6. from[4] <= c /\ d <= to[1] /\ from[4] \in Int /\ to[1] \in Int
    <2>1. /\ from[4] \in Int /\ to[1] \in Int
          /\ from[4] <= (IF kind = "csq" THEN 1 ELSE Low) /\ to[1] >= (IF kind = "csq" THEN 31 ELSE High)
      BY <1>5 DEF Descend
    <2> HIDE DEF c, d
    <2> QED
      BY <1>1, <1>2, <1>3, <1>4, <2>1 DEF Low, High
  <1>7. from[4] <= d /\ c <= to[1]
    <2> HIDE DEF c, d
    <2> QED
      BY <1>3, <1>6
  <1> DEFINE K(n) == Last(Hits(kind, n))
  <1>8. /\ Hits(kind, value) \in SUBSET (1..4) /\ Hits(kind, value) # {}
        /\ Grade(Colour(kind, value, "red")) = 5 - K(value)
    BY <1>2, <1>3, <1>5, <1>6, <1>7, GradeIs
  <1>9. /\ Hits(kind, other) \in SUBSET (1..4) /\ Hits(kind, other) # {}
        /\ Grade(Colour(kind, other, "red")) = 5 - K(other)
    BY <1>2, <1>3, <1>5, <1>6, <1>7, GradeIs
  <1>10. K(other) <= K(value) /\ K(other) \in 1..4 /\ K(value) \in 1..4
    <2>1. /\ K(value) \in Hits(kind, value) /\ \A j \in Hits(kind, value) : j <= K(value)
      BY <1>8, LastIs
    <2>2. K(other) \in Hits(kind, other)
      BY <1>9, LastIs
    <2>3. /\ \A i \in 1..4 : i \in Hits(kind, value) <=> (from[i] <= c /\ c <= to[i])
          /\ \A i \in 1..4 : i \in Hits(kind, other) <=> (from[i] <= d /\ d <= to[i])
      BY <1>5 DEF Hits, Descend
    <2>4. \A i, j \in 1..4 : i < j => from[j] < from[i]
      <3>1. /\ from[1] \in Int /\ from[2] \in Int /\ from[3] \in Int /\ from[4] \in Int
            /\ from[2] < from[1] /\ from[3] < from[2] /\ from[4] < from[3]
        BY <1>5 DEF Descend
      <3>2. from[4] < from[1] /\ from[4] < from[2] /\ from[3] < from[1]
        BY <3>1
      <3> QED
        BY <3>1, <3>2
    <2>5. \A i \in 1..4 : from[i] \in Int /\ to[i] \in Int
      BY <1>5 DEF Descend
    <2>6. K(value) \in 1..4 /\ K(other) \in 1..4
      BY <1>8, <1>9, <2>1, <2>2
    <2> HIDE DEF K, c, d
    <2>7. ASSUME K(value) < K(other) PROVE FALSE
      <3>1. from[K(other)] < from[K(value)] /\ from[K(value)] <= c /\ d <= to[K(other)]
        BY <2>1, <2>2, <2>3, <2>4, <2>6, <2>7
      <3>2. from[K(other)] <= c /\ c <= to[K(other)]
        BY <1>3, <2>5, <2>6, <3>1
      <3>3. K(other) \in Hits(kind, value)
        BY <2>3, <2>6, <3>2
      <3> QED
        BY <2>1, <2>6, <2>7, <3>3
    <2> QED
      BY <2>6, <2>7
  <1>11. Grade(Colour(kind, value, "red")) <= Grade(Colour(kind, other, "red"))
    <2> HIDE DEF K
    <2> QED
      BY <1>8, <1>9, <1>10
  <1>12. Width(kind, value) <= Width(kind, other)
    <2> HIDE DEF c, d
    <2>1. CASE kind = "csq"
      BY <1>1, <1>2, <2>1 DEF Width
    <2>2. CASE kind = "rssi"
      <3>1. (100 * (c + 110)) \div 60 <= (100 * (d + 110)) \div 60
        BY <1>3
      <3> QED
        BY <2>2, <3>1 DEF Width, c, d
    <2>3. CASE kind = "rsrp"
      <3>1. (120 * (c + 120)) \div 70 <= (120 * (d + 120)) \div 70
        BY <1>3
      <3> QED
        BY <2>3, <3>1 DEF Width, c, d
    <2>4. CASE kind = "sinr"
      BY <1>1, <1>2, <2>4 DEF Width
    <2>5. CASE kind = "rsrq"
      BY <1>1, <1>2, <2>5 DEF Width
    <2> QED
      BY <2>1, <2>2, <2>3, <2>4, <2>5 DEF Bars, Ranges
  <1> QED
    BY <1>11, <1>12 DEF StrongerLooksStronger

LEMMA DurationHolds == FormatInit => DurationIsTime
  <1> SUFFICES ASSUME FormatInit, kind = "time" PROVE DurationIsTime
    BY DEF DurationIsTime
  <1>1. value \in Nat
    BY SamplesAssumption DEF FormatInit, Bars, Ranges
  <1> DEFINE d == value \div 86400
             h == (value \div 3600) % 24
             m == (value \div 60) % 60
             s == value % 60
             units == <<<<d, "d">>, <<h, "h">>, <<m, "m">>, <<s, "s">>>>
             Leads(i) == (units[i][1] > 0 \/ i = 4) /\ \A j \in 1..(i - 1) : units[j][1] = 0
             first == CHOOSE i \in 1..4 : Leads(i)
             D == Duration(value)
  <1>2. /\ d \in Nat /\ h \in 0..23 /\ m \in 0..59 /\ s \in 0..59
        /\ d * 86400 + h * 3600 + m * 60 + s = value
    <2>4. value \div 60 \in Nat /\ value \div 3600 \in Nat /\ d \in Nat /\ s \in 0..59
      BY <1>1
    <2>5. value = 60 * (value \div 60) + s
      BY <1>1
    <2>1. value \div 3600 = (value \div 60) \div 60 /\ value \div 86400 = (value \div 3600) \div 24
      BY <1>1
    <2>6. value \div 60 = 60 * (value \div 3600) + m /\ m \in 0..59
      BY <2>1, <2>4
    <2>7. value \div 3600 = 24 * d + h /\ h \in 0..23
      <3>1. PICK r \in Nat : r = value \div 3600
        BY <2>4
      <3>2. d = r \div 24 /\ h = r % 24
        BY <2>1, <3>1
      <3> HIDE DEF d, h
      <3> QED
        BY <3>1, <3>2
    <2> DEFINE q == value \div 60
               r == value \div 3600
    <2> HIDE DEF d, h, m, s, q, r
    <2>8. q = 60 * r + m /\ r = 24 * d + h /\ value = 60 * q + s
      BY <2>5, <2>6, <2>7 DEF q, r
    <2> QED
      BY <2>4, <2>6, <2>7, <2>8
  <1>3. D = SubSeq(units, first, 4)
    BY DEF Duration
  <1> HIDE DEF d, h, m, s, D
  <1>4. /\ units[1][1] = d /\ units[2][1] = h /\ units[3][1] = m /\ units[4][1] = s
        /\ units[1][2] = "d" /\ units[2][2] = "h" /\ units[3][2] = "m" /\ units[4][2] = "s"
        /\ Len(units) = 4
    OBVIOUS
  <1> HIDE DEF units
  <1>5. \E i \in 1..4 : Leads(i)
    <2>1. CASE d > 0
      <3>1. Leads(1)
        BY <1>4, <2>1
      <3> QED
        BY <3>1
    <2>2. CASE d = 0 /\ h > 0
      <3>1. Leads(2)
        BY <1>4, <2>2
      <3> QED
        BY <3>1
    <2>3. CASE d = 0 /\ h = 0 /\ m > 0
      <3>1. \A j \in 1..2 : j = 1 \/ j = 2
        OBVIOUS
      <3>2. Leads(3)
        BY <1>4, <2>3, <3>1
      <3> QED
        BY <3>2
    <2>4. CASE d = 0 /\ h = 0 /\ m = 0
      <3>1. \A j \in 1..3 : j = 1 \/ j = 2 \/ j = 3
        OBVIOUS
      <3>2. Leads(4)
        BY <1>4, <2>4, <3>1
      <3> QED
        BY <3>2
    <2> QED
      BY <1>2, <2>1, <2>2, <2>3, <2>4
  <1>6. first \in 1..4 /\ Leads(first)
    <2> HIDE DEF Leads
    <2> QED
      BY <1>5
  <1>7. /\ first > 1 => d = 0
        /\ first > 2 => h = 0
        /\ first > 3 => m = 0
        /\ first < 4 => units[first][1] > 0
    <2> HIDE DEF first
    <2> QED
      BY <1>4, <1>6
  <1> HIDE DEF first
  <1>8. Len(D) = 5 - first /\ \A i \in 1..(5 - first) : D[i] = units[i + first - 1]
    BY <1>3, <1>6
  <1>9. DOMAIN D = 1..(5 - first)
    BY <1>3, <1>6
  <1>10. /\ SecondsOf("d") = 86400 /\ SecondsOf("h") = 3600 /\ SecondsOf("m") = 60 /\ SecondsOf("s") = 1
    BY DEF SecondsOf
  <1>11. Len(D) <= 4 /\ (Len(D) > 1 => D[1][1] > 0)
    BY <1>6, <1>7, <1>8
  <1>12. TimeOf(D) = value /\ \A i \in 2..Len(D) : D[i][1] * SecondsOf(D[i][2]) < SecondsOf(D[i - 1][2])
    <2>1. CASE first = 1
      <3>1. DOMAIN D = 1..4 /\ D[1] = units[1] /\ D[2] = units[2] /\ D[3] = units[3] /\ D[4] = units[4]
        BY <1>8, <1>9, <2>1
      <3>2. TimeOf(D) = d * 86400 + h * 3600 + m * 60 + s * 1
        BY <1>2, <1>4, <1>10, <3>1 DEF TimeOf
      <3>3. \A i \in 2..4 : i = 2 \/ i = 3 \/ i = 4
        OBVIOUS
      <3>4. \A i \in 2..Len(D) : D[i][1] * SecondsOf(D[i][2]) < SecondsOf(D[i - 1][2])
        BY <1>2, <1>4, <1>8, <1>10, <2>1, <3>1, <3>3
      <3>5. TimeOf(D) = value
        <4> HIDE DEF d, h, m, s, D
        <4> QED
          BY <1>2, <3>2
      <3> QED
        BY <3>4, <3>5
    <2>2. CASE first = 2
      <3>1. DOMAIN D = 1..3 /\ D[1] = units[2] /\ D[2] = units[3] /\ D[3] = units[4]
        BY <1>8, <1>9, <2>2
      <3>2. TimeOf(D) = h * 3600 + m * 60 + s * 1 + 0
        BY <1>2, <1>4, <1>10, <3>1 DEF TimeOf
      <3>3. \A i \in 2..3 : i = 2 \/ i = 3
        OBVIOUS
      <3>4. \A i \in 2..Len(D) : D[i][1] * SecondsOf(D[i][2]) < SecondsOf(D[i - 1][2])
        BY <1>2, <1>4, <1>8, <1>10, <2>2, <3>1, <3>3
      <3>5. TimeOf(D) = value
        <4>1. d = 0
          BY <1>7, <2>2
        <4> HIDE DEF d, h, m, s, D, units, Leads, first
        <4>2. value = h * 3600 + m * 60 + s
          BY <1>2, <4>1
        <4> QED
          BY <1>2, <3>2, <4>2
      <3> QED
        BY <3>4, <3>5
    <2>3. CASE first = 3
      <3>1. DOMAIN D = 1..2 /\ D[1] = units[3] /\ D[2] = units[4]
        BY <1>8, <1>9, <2>3
      <3>2. TimeOf(D) = m * 60 + s * 1 + 0 + 0
        BY <1>2, <1>4, <1>10, <3>1 DEF TimeOf
      <3>4. \A i \in 2..Len(D) : D[i][1] * SecondsOf(D[i][2]) < SecondsOf(D[i - 1][2])
        BY <1>2, <1>4, <1>8, <1>10, <2>3, <3>1
      <3>5. TimeOf(D) = value
        <4>1. d = 0 /\ h = 0
          BY <1>7, <2>3
        <4> HIDE DEF d, h, m, s, D, units, Leads, first
        <4>2. value = m * 60 + s
          BY <1>2, <4>1
        <4> QED
          BY <1>2, <3>2, <4>2
      <3> QED
        BY <3>4, <3>5
    <2>4. CASE first = 4
      <3>1. DOMAIN D = 1..1 /\ D[1] = units[4]
        BY <1>8, <1>9, <2>4
      <3>2. TimeOf(D) = s * 1 + 0 + 0 + 0
        BY <1>2, <1>4, <1>10, <3>1 DEF TimeOf
      <3> QED
        BY <1>2, <1>7, <1>8, <2>4, <3>2
    <2> QED
      BY <1>6, <2>1, <2>2, <2>3, <2>4
  <1> QED
    BY <1>11, <1>12 DEF DurationIsTime, D

\* What is left of three digits without the first.
LEMMA TailOfThree ==
  ASSUME NEW S, NEW t \in Seq(S), Len(t) = 3
  PROVE  Tail(t) \in Seq(S) /\ Len(Tail(t)) = 2 /\ \A i \in 1..2 : Tail(t)[i] = t[i + 1]
  <1>1. t # <<>>
    BY Len(<<>>) = 0
  <1>2. Tail(t) \in Seq(S) /\ Len(Tail(t)) = Len(t) - 1 /\ \A i \in 1..Len(Tail(t)) : Tail(t)[i] = t[i + 1]
    BY <1>1, HeadTailProperties
  <1>3. Len(Tail(t)) = 2
    BY <1>2
  <1> QED
    BY <1>2, <1>3

LEMMA MncHolds == FormatInit => MncKeepsValue
  <1> SUFFICES ASSUME FormatInit, kind = "mnc" PROVE MncKeepsValue
    BY DEF MncKeepsValue
  <1>1. value \in Seqs!SeqOf(Digits, 3) /\ value # <<>>
    BY DEF FormatInit, Bars, Ranges
  <1>2. PICK n \in 0..3 : value \in [1..n -> Digits]
    BY <1>1 DEF Seqs!SeqOf
  <1>3. \A i \in 1..n : value[i] \in 0..9
    BY <1>2, SamplesAssumption
  <1>4. value \in Seq(0..9) /\ Len(value) = n /\ n \in 1..3 /\ DOMAIN value = 1..n
    BY <1>1, <1>2, <1>3
  <1>5. CASE n = 3
    <2> DEFINE a == value[1]
               b == value[2]
               c == value[3]
    <2>1. a \in 0..9 /\ b \in 0..9 /\ c \in 0..9
      BY <1>3, <1>5
    <2>2. DecimalOf(value) = c + 10 * b + 100 * a
      BY <1>4, <1>5, <2>1 DEF DecimalOf
    <2> DEFINE tail == Tail(value)
    <2>6. Len(tail) = 2 /\ DOMAIN tail = 1..2 /\ tail[1] = b /\ tail[2] = c
      <3>1. tail \in Seq(0..9) /\ Len(tail) = 2 /\ \A i \in 1..2 : tail[i] = value[i + 1]
        BY <1>4, <1>5, TailOfThree
      <3> HIDE DEF tail
      <3>2. DOMAIN tail = 1..2
        BY <3>1
      <3> QED
        BY <3>1, <3>2
    <2>3. CASE a = 0 /\ b = 0
      <3>1. CutMnc(value) = <<c>>
        BY <1>4, <1>5, <2>3 DEF CutMnc
      <3>2. Len(<<c>>) = 1 /\ DecimalOf(<<c>>) = c
        BY <2>1 DEF DecimalOf
      <3> QED
        BY <2>1, <2>2, <2>3, <3>1, <3>2 DEF MncKeepsValue
    <2>4. CASE a = 0 /\ b # 0
      <3>1. CutMnc(value) = Tail(value)
        BY <1>4, <1>5, <2>4 DEF CutMnc
      <3> HIDE DEF tail
      <3>3. DecimalOf(tail) = c * 1 + b * 10 + 0
        BY <2>1, <2>6 DEF DecimalOf
      <3>4. CutMnc(value) = tail
        BY <3>1 DEF tail
      <3> QED
        BY <2>1, <2>2, <2>4, <2>6, <3>3, <3>4 DEF MncKeepsValue
    <2>5. CASE a # 0
      <3>1. CutMnc(value) = value
        BY <1>4, <1>5, <2>5 DEF CutMnc
      <3> QED
        BY <2>5, <3>1 DEF MncKeepsValue
    <2> QED
      BY <2>3, <2>4, <2>5
  <1>6. CASE n = 2
    <2> DEFINE a == value[1]
               b == value[2]
    <2>1. a \in 0..9 /\ b \in 0..9
      BY <1>3, <1>6
    <2>2. DecimalOf(value) = b * 1 + a * 10 + 0
      BY <1>4, <1>6, <2>1 DEF DecimalOf
    <2> DEFINE tail == Tail(value)
    <2>6. Len(tail) = 1 /\ DOMAIN tail = 1..1 /\ tail[1] = b
      <3>1. tail \in Seq(0..9) /\ Len(tail) = 1 /\ tail[1] = value[2]
        <4>1. tail \in Seq(0..9) /\ Len(tail) = n - 1 /\ \A i \in 1..Len(tail) : tail[i] = value[i + 1]
          BY <1>1, <1>4, HeadTailProperties
        <4> HIDE DEF tail
        <4> QED
          BY <1>6, <4>1
      <3> HIDE DEF tail
      <3>2. DOMAIN tail = 1..1
        BY <3>1
      <3> QED
        BY <3>1, <3>2
    <2>3. CASE a = 0
      <3>1. CutMnc(value) = Tail(value)
        BY <1>4, <1>6, <2>3 DEF CutMnc
      <3> HIDE DEF tail
      <3>3. DecimalOf(tail) = b * 1 + 0 + 0
        BY <2>1, <2>6 DEF DecimalOf
      <3>4. CutMnc(value) = tail
        BY <3>1 DEF tail
      <3>5. DecimalOf(value) = b /\ DecimalOf(tail) = b
        BY <2>1, <2>2, <2>3, <3>3
      <3>6. DecimalOf(CutMnc(value)) = DecimalOf(value)
        BY Zenon, <3>4, <3>5
      <3>7. Len(CutMnc(value)) = 1
        BY Zenon, <2>6, <3>4
      <3> QED
        BY <3>6, <3>7 DEF MncKeepsValue
    <2>4. CASE a # 0
      <3>1. CutMnc(value) = value
        BY <1>4, <1>6, <2>4 DEF CutMnc
      <3> QED
        BY <2>4, <3>1 DEF MncKeepsValue
    <2> QED
      BY <2>3, <2>4
  <1>7. CASE n = 1
    <2>1. CutMnc(value) = value
      BY <1>4, <1>7 DEF CutMnc
    <2> QED
      BY <1>4, <1>7, <2>1 DEF MncKeepsValue
  <1> QED
    BY <1>4, <1>5, <1>6, <1>7

\* Picked leaves none of the positions out.
TakesEvery(K, at) == \A k \in K : \E n \in 1..Cardinality(K) : at[n] = k

LEMMA TakesAll ==
  ASSUME NEW s, NEW K, IsFiniteSet(K), NEW at, TakesOnce(s, K, at), K \subseteq Nat
  PROVE  TakesEvery(K, at)
  <1> DEFINE I == 1..Cardinality(K)
  <1>1. Cardinality(K) \in Nat
    BY FS_CardinalityType
  <1>2. IsFiniteSet(I) /\ Cardinality(I) = Cardinality(K)
    BY <1>1, FS_Interval
  <1>3. at \in [I -> K] /\ \A m, n \in I : m < n => at[m] < at[n]
    BY DEF TakesOnce
  <1>4. \A m, n \in I : at[m] = at[n] => m = n
    <2> SUFFICES ASSUME NEW m \in I, NEW n \in I, m # n PROVE at[m] # at[n]
      OBVIOUS
    <2>1. m < n \/ n < m
      BY <1>1
    <2>2. at[m] \in Nat /\ at[n] \in Nat
      BY <1>3
    <2> QED
      BY <1>3, <2>1, <2>2
  <1>5. at \in Injection(I, K)
    <2> HIDE DEF I
    <2> QED
      BY <1>3, <1>4 DEF Injection, IsInjective
  <1>6. at \in Surjection(I, K)
    <2> HIDE DEF I
    <2> QED
      BY <1>2, <1>5, FS_Injection
  <1> QED
    BY <1>6 DEF Surjection, TakesEvery

LEMMA FirstOf ==
  ASSUME NEW n \in Nat, NEW words \in [1..n -> Words], NEW i \in 1..n
  PROVE  \E j \in Firsts(words) : words[j].letters = words[i].letters
  <1> DEFINE same == {j \in 1..n : words[j].letters = words[i].letters}
  <1>1. same \in SUBSET Nat /\ i \in same
    OBVIOUS
  <1>2. PICK j \in same : \A k \in same : j <= k
    <2> DEFINE lt == {p \in Nat \X Nat : p[1] < p[2]}
    <2>1. IsWellFoundedOn(lt, Nat)
      BY NatLessThanWellFounded DEF OpToRel
    <2>2. \E j \in same : \A k \in same : <<k, j>> \notin lt
      <3> HIDE DEF lt, same
      <3> QED
        BY <1>1, <2>1, WFMin
    <2>3. PICK j \in same : \A k \in same : <<k, j>> \notin lt
      BY <2>2
    <2>4. ASSUME NEW k \in same PROVE j <= k
      <3>1. k \in Nat /\ j \in Nat /\ <<k, j>> \notin lt
        BY <1>1, <2>3
      <3> QED
        BY <3>1
    <2> QED
      BY <2>3, <2>4
  <1>3. \A k \in 1..(j - 1) : words[k].letters # words[j].letters
    <2> SUFFICES ASSUME NEW k \in 1..(j - 1), words[k].letters = words[j].letters PROVE FALSE
      OBVIOUS
    <2>1. k \in same
      OBVIOUS
    <2> QED
      BY <1>2, <2>1
  <1> QED
    BY <1>3 DEF Firsts

LEMMA NameHolds == FormatInit => NameKeepsWords
  <1> SUFFICES ASSUME FormatInit, kind = "name" PROVE NameKeepsWords
    BY DEF NameKeepsWords
  <1>1. value \in Seqs!SeqOf(Words, LongestName)
    BY DEF FormatInit, Bars, Ranges
  <1>2. PICK max \in Nat : value \in [1..max -> Words]
    BY <1>1, WordsAssumption DEF Seqs!SeqOf
  <1> DEFINE F == Firsts(value)
             N == Numbers(value)
             nums == {value[i].number : i \in N}
             pick == [k \in nums |-> value[CHOOSE i \in N : value[i].number = k]]
             A == Picked(pick, nums)
             B == Picked(value, F \ N)
             ca == Cardinality(nums)
             cb == Cardinality(F \ N)
             name == OperatorName(value)
  <1>3. /\ F \in SUBSET (1..max) /\ N \in SUBSET F /\ DOMAIN value = 1..max
        /\ \A i \in 1..max : value[i] \in Words
        /\ \A i \in N : value[i].number # NaN
        /\ \A i \in F \ N : value[i].number = NaN
        /\ \A i, j \in F : i < j => value[i].letters # value[j].letters
    <2>1. F \in SUBSET (1..max) /\ N \in SUBSET F
      BY <1>2 DEF Firsts, Numbers
    <2>2. (\A i \in N : value[i].number # NaN) /\ (\A i \in F \ N : value[i].number = NaN)
      BY DEF Numbers
    <2>3. \A i, j \in F : i < j => value[i].letters # value[j].letters
      <3> SUFFICES ASSUME NEW i \in F, NEW j \in F, i < j PROVE value[i].letters # value[j].letters
        OBVIOUS
      <3>1. i \in 1..(j - 1)
        BY <2>1
      <3> QED
        BY <3>1 DEF Firsts
    <2> QED
      BY <1>2, <2>1, <2>2, <2>3
  <1>4. name = A \o B
    BY DEF OperatorName
  <1>5. \A i, j \in 1..max : /\ value[i].number \in Nat \cup {NaN}
                             /\ value[i].letters = value[j].letters => value[i].number = value[j].number
                             /\ value[i].number = value[j].number /\ value[j].number # NaN =>
                                  value[i].letters = value[j].letters
    BY <1>3, WordsAssumption
  <1> HIDE DEF F, N, name
  <1>6. \A i \in N : i \in 1..max /\ i \in F /\ value[i].number \in Nat
    BY <1>3, <1>5
  <1>7. nums \subseteq Nat
    BY <1>6
  <1>8. IsFiniteSet(N) /\ IsFiniteSet(F \ N)
    <2>1. IsFiniteSet(1..max)
      BY <1>2, FS_Interval
    <2>2. N \in SUBSET (1..max) /\ F \ N \in SUBSET (1..max)
      BY <1>3
    <2> QED
      BY <2>1, <2>2, FS_Subset
  <1>9. IsFiniteSet(nums)
    <2> DEFINE num == [i \in N |-> value[i].number]
    <2>1. num \in [N -> nums] /\ \A k \in nums : \E i \in N : num[i] = k
      OBVIOUS
    <2>2. num \in Surjection(N, nums)
      <3> HIDE DEF num, nums
      <3> QED
        BY <2>1 DEF Surjection
    <2> HIDE DEF num, nums
    <2> QED
      BY <1>8, <2>2, FS_Surjection
  <1>10. \A k \in nums : \E i \in N : value[i].number = k /\ pick[k] = value[i]
    <2> SUFFICES ASSUME NEW k \in nums PROVE \E i \in N : value[i].number = k /\ pick[k] = value[i]
      OBVIOUS
    <2>1. \E i \in N : value[i].number = k
      OBVIOUS
    <2>2. pick[k] = value[CHOOSE i \in N : value[i].number = k]
      OBVIOUS
    <2> HIDE DEF pick
    <2> QED
      BY <2>1, <2>2
  <1>11. F \ N \subseteq Nat
    BY <1>3
  <1> HIDE DEF nums, pick
  <1>12. PICK a : TakesOnce(pick, nums, a)
    BY <1>7, <1>9, PickedIs
  <1>13. PICK b : TakesOnce(value, F \ N, b)
    BY <1>8, <1>11, PickedIs
  <1>14. ca \in Nat /\ cb \in Nat
    BY <1>8, <1>9, FS_CardinalityType
  <1>15. (\A k \in nums : \E n \in 1..ca : a[n] = k) /\ (\A k \in F \ N : \E n \in 1..cb : b[n] = k)
    <2>1. \A k \in nums : \E n \in 1..ca : a[n] = k
      <3> HIDE DEF A, B, cb
      <3>1. TakesEvery(nums, a)
        BY <1>7, <1>9, <1>12, TakesAll
      <3> QED
        BY <3>1 DEF TakesEvery
    <2>2. \A k \in F \ N : \E n \in 1..cb : b[n] = k
      <3> HIDE DEF A, B, ca
      <3>1. TakesEvery(F \ N, b)
        BY <1>8, <1>11, <1>13, TakesAll
      <3> QED
        BY <3>1 DEF TakesEvery
    <2> QED
      BY <2>1, <2>2
  <1>16. /\ DOMAIN A = 1..ca
         /\ \A n \in 1..ca : a[n] \in nums /\ A[n] = pick[a[n]]
         /\ \A m, n \in 1..ca : m < n => a[m] < a[n]
    BY <1>12 DEF TakesOnce
  <1>17. /\ DOMAIN B = 1..cb
         /\ \A n \in 1..cb : b[n] \in F \ N /\ B[n] = value[b[n]]
         /\ \A m, n \in 1..cb : m < n => b[m] < b[n]
    BY <1>13 DEF TakesOnce
  <1>18. A \in Seq(Words) /\ Len(A) = ca /\ B \in Seq(Words) /\ Len(B) = cb
    <2>1. \A n \in 1..ca : A[n] \in Words
      <3> HIDE DEF A, ca
      <3> QED
        BY <1>3, <1>6, <1>10, <1>16
    <2>2. \A n \in 1..cb : B[n] \in Words
      <3> HIDE DEF B, cb
      <3> QED
        BY <1>3, <1>17
    <2>3. A = [n \in 1..ca |-> A[n]] /\ B = [n \in 1..cb |-> B[n]]
      BY <1>12, <1>13 DEF TakesOnce
    <2> HIDE DEF A, B, ca, cb
    <2>4. A \in [1..ca -> Words] /\ B \in [1..cb -> Words]
      BY <2>1, <2>2, <2>3
    <2> QED
      BY <1>14, <2>4
  <1> HIDE DEF A, B, ca, cb
  <1>19. /\ DOMAIN name = 1..(ca + cb)
         /\ \A n \in 1..ca : name[n] = A[n]
         /\ \A n \in (ca + 1)..(ca + cb) : name[n] = B[n - ca]
    <2>1. /\ name \in Seq(Words) /\ Len(name) = ca + cb
          /\ \A n \in 1..(ca + cb) : name[n] = IF n <= ca THEN A[n] ELSE B[n - ca]
      BY <1>4, <1>18, ConcatProperties
    <2> QED
      BY <1>14, <2>1
  \* What stands among the numbers, and what behind them.
  <1>20. \A n \in 1..ca : \E i \in N : name[n] = value[i] /\ name[n].number = a[n] /\ a[n] \in Nat
    <2> SUFFICES ASSUME NEW n \in 1..ca
                 PROVE  \E i \in N : name[n] = value[i] /\ name[n].number = a[n] /\ a[n] \in Nat
      OBVIOUS
    <2>1. a[n] \in nums /\ name[n] = pick[a[n]]
      BY <1>16, <1>19
    <2>2. PICK i \in N : value[i].number = a[n] /\ pick[a[n]] = value[i]
      BY <1>10, <2>1
    <2> QED
      BY <1>7, <2>1, <2>2
  <1>21. \A n \in (ca + 1)..(ca + cb) : /\ n - ca \in 1..cb /\ b[n - ca] \in F \ N
                                        /\ name[n] = value[b[n - ca]] /\ name[n].number = NaN
    <2> SUFFICES ASSUME NEW n \in (ca + 1)..(ca + cb), NEW k, k = n - ca
                 PROVE  /\ k \in 1..cb /\ b[k] \in F \ N /\ name[n] = value[b[k]] /\ name[n].number = NaN
      OBVIOUS
    <2>1. k \in 1..cb
      BY <1>14
    <2>2. name[n] = B[k]
      BY <1>19
    <2> QED
      <3>1. b[k] \in F \ N /\ B[k] = value[b[k]]
        BY <1>17, <2>1
      <3> QED
        BY <1>3, <2>1, <2>2, <3>1
  <1>22. \A n \in 1..(ca + cb) : n \in 1..ca \/ n \in (ca + 1)..(ca + cb)
    BY <1>14
  <1>23. ASSUME NEW i \in DOMAIN value PROVE \E n \in DOMAIN name : name[n].letters = value[i].letters
    <2>1. PICK j \in F : value[j].letters = value[i].letters
      BY <1>2, <1>3, FirstOf DEF F
    <2>2. CASE j \in N
      <3>1. value[j].number \in nums
        BY <2>2 DEF nums
      <3>2. PICK n \in 1..ca : a[n] = value[j].number
        BY <1>15, <3>1
      <3>3. PICK k \in N : name[n] = value[k] /\ value[k].number = value[j].number
        BY <1>20, <3>2
      <3>4. value[k].letters = value[j].letters
        BY <1>3, <1>5, <1>6, <2>2, <3>3
      <3>5. n \in DOMAIN name
        BY <1>14, <1>19
      <3> QED
        BY <2>1, <3>3, <3>4, <3>5
    <2>3. CASE j \notin N
      <3>1. PICK k \in 1..cb : b[k] = j
        BY <1>15, <2>3
      <3>2. PICK n \in (ca + 1)..(ca + cb) : n - ca = k
        <4>1. k + ca \in (ca + 1)..(ca + cb) /\ (k + ca) - ca = k
          BY <1>14
        <4> QED
          BY <4>1
      <3>3. name[n] = value[j] /\ n \in DOMAIN name
        BY <1>14, <1>19, <1>21, <3>1, <3>2
      <3> QED
        BY <2>1, <3>3
    <2> QED
      BY <2>2, <2>3
  <1>24. ASSUME NEW n \in DOMAIN name PROVE \E i \in F : name[n] = value[i]
    <2>1. CASE n \in 1..ca
      BY <1>6, <1>20, <2>1
    <2>2. CASE n \in (ca + 1)..(ca + cb)
      BY <1>21, <2>2
    <2> QED
      BY <1>19, <1>22, <2>1, <2>2
  <1>25. ASSUME NEW m \in DOMAIN name, NEW n \in DOMAIN name, m < n
         PROVE  /\ name[m].letters # name[n].letters
                /\ name[n].number # NaN => name[m].number \in 0..(name[n].number - 1)
                /\ name[m].number = NaN => \E i, j \in F : i < j /\ name[m] = value[i] /\ name[n] = value[j]
    <2>1. CASE m \in 1..ca /\ n \in 1..ca
      <3>1. PICK i \in N : name[m] = value[i] /\ name[m].number = a[m] /\ a[m] \in Nat
        BY <1>20, <2>1
      <3>2. PICK j \in N : name[n] = value[j] /\ name[n].number = a[n] /\ a[n] \in Nat
        BY <1>20, <2>1
      <3>3. a[m] < a[n]
        BY <1>16, <1>25, <2>1
      <3>4. name[m].letters # name[n].letters
        BY <1>5, <1>6, <3>1, <3>2, <3>3
      <3>5. name[m].number # NaN
        BY <1>3, <3>1
      <3> QED
        BY <3>1, <3>2, <3>3, <3>4, <3>5
    <2>2. CASE m \in 1..ca /\ n \in (ca + 1)..(ca + cb)
      <3>1. PICK i \in N : name[m] = value[i]
        BY <1>20, <2>2
      <3>2. b[n - ca] \in F \ N /\ name[n] = value[b[n - ca]] /\ name[n].number = NaN
        BY <1>21, <2>2
      <3>3. name[m].number # NaN
        BY <1>3, <3>1
      <3>4. name[m].letters # name[n].letters
        <4>1. i \in 1..max /\ b[n - ca] \in 1..max
          BY <1>3, <1>6, <3>2
        <4>2. name[m].letters = name[n].letters => name[m].number = name[n].number
          BY <1>5, <3>1, <3>2, <4>1
        <4> QED
          BY <3>2, <3>3, <4>2
      <3> QED
        BY <3>2, <3>3, <3>4
    <2>3. CASE m \in (ca + 1)..(ca + cb) /\ n \in (ca + 1)..(ca + cb)
      <3>1. /\ m - ca \in 1..cb /\ b[m - ca] \in F \ N /\ name[m] = value[b[m - ca]]
            /\ n - ca \in 1..cb /\ b[n - ca] \in F \ N /\ name[n] = value[b[n - ca]] /\ name[n].number = NaN
        BY <1>21, <2>3
      <3>2. m - ca < n - ca
        BY <1>14, <1>25, <2>3
      <3>3. b[m - ca] < b[n - ca]
        BY <1>17, <3>1, <3>2
      <3> QED
        BY <1>3, <3>1, <3>3
    <2>4. CASE m \in (ca + 1)..(ca + cb) /\ n \in 1..ca
      BY <1>14, <1>25, <2>4
    <2> QED
      BY <1>19, <1>22, <2>1, <2>2, <2>3, <2>4
  <1> QED
    BY <1>23, <1>24, <1>25 DEF NameKeepsWords, name, F

LEMMA FormatTells == FormatInit => FormatsKeepMeaning
  BY StrongerHolds, DurationHolds, NameHolds, MncHolds DEF FormatsKeepMeaning

-----------------------------------------------------------------------------
(* The pages of 3ginfo-lite.                                               *)

DetInv ==
  /\ bar \in [BarNames -> [visible : BOOLEAN, whole : BOOLEAN, current : BOOLEAN]]
  /\ polling \in BOOLEAN /\ orphaned \in BOOLEAN
  /\ PausedForDialog /\ BarSeenWithValue

\* Before the first poll every bar has a value and is seen.
LEMMA FreshShows ==
  /\ Fresh \in [BarNames -> [visible : BOOLEAN, whole : BOOLEAN, current : BOOLEAN]]
  /\ \A b \in BarNames : Fresh[b].visible
  /\ \A seen \in BOOLEAN : \A a \in FirstAnswers(seen) : \A b \in BarNames : a[b] = "plain"
  BY DEF Fresh, FirstAnswers

LEMMA DetInitInv == DetInit => DetInv
  <1> SUFFICES ASSUME DetInit PROVE DetInv
    OBVIOUS
  <1>1. BarSeenWithValue
    BY FreshShows DEF DetInit, BarSeenWithValue
  <1> QED
    BY <1>1, FreshShows DEF DetInit, DetInv, PausedForDialog

\* A bar that is drawn is seen if and only if there is a value; one that is not drawn is
\* not up to date.
LEMMA DrawCellsShows ==
  ASSUME NEW a \in Answers, DrawCells(a), bar \in [BarNames -> [visible : BOOLEAN, whole : BOOLEAN, current : BOOLEAN]]
  PROVE  /\ bar' \in [BarNames -> [visible : BOOLEAN, whole : BOOLEAN, current : BOOLEAN]]
         /\ BarSeenWithValue'
  <1> DEFINE S == [visible : BOOLEAN, whole : BOOLEAN, current : BOOLEAN]
  <1>1. ASSUME NEW b \in BarNames, NEW s \in S, NEW v
        PROVE  /\ Drawn(b, s, v) \in S
               /\ b # "csq" /\ Drawn(b, s, v).current => (Drawn(b, s, v).visible <=> v # "absent")
    <2>1. CASE v = "absent"
      BY <2>1 DEF Drawn
    <2>2. CASE v = "plain"
      BY <2>2 DEF Drawn
    <2>3. CASE v \notin {"absent", "plain"}
      BY <2>3 DEF Drawn
    <2> QED
      BY <2>1, <2>2, <2>3
  <1>2. ASSUME NEW b \in BarNames
        PROVE  bar'[b] = [bar[b] EXCEPT !.current = FALSE] \/ bar'[b] = Drawn(b, bar[b], a[b])
    <2> DEFINE new(c) == IF \E i \in Breaks(a) : \E j \in (i + 1)..5 : BarOrder[j] = c
                         THEN [bar[c] EXCEPT !.current = FALSE] ELSE Drawn(c, bar[c], a[c])
    <2>1. bar' = [c \in BarNames |-> new(c)]
      BY DEF DrawCells
    <2>2. bar'[b] = new(b)
      BY <2>1
    <2> QED
      BY <2>2
  <1>3. bar' \in [BarNames -> S]
    <2>1. ASSUME NEW b \in BarNames PROVE bar'[b] \in S
      <3>1. PICK s \in S : s = bar[b]
        OBVIOUS
      <3>2. [s EXCEPT !.current = FALSE] \in S /\ Drawn(b, s, a[b]) \in S
        BY <1>1
      <3> QED
        BY <1>2, <3>1, <3>2
    <2> QED
      BY <2>1 DEF DrawCells
  <1>4. ASSUME NEW b \in BarNames \ {"csq"}, bar'[b].current
        PROVE  bar'[b].visible <=> a[b] # "absent"
    <2>1. CASE bar'[b] = [bar[b] EXCEPT !.current = FALSE]
      BY <1>4, <2>1
    <2>2. CASE bar'[b] = Drawn(b, bar[b], a[b])
      <3>1. bar[b] \in S /\ b \in BarNames /\ b # "csq"
        OBVIOUS
      <3>2. Drawn(b, bar[b], a[b]).current => (Drawn(b, bar[b], a[b]).visible <=> a[b] # "absent")
        BY ONLY <1>1, <3>1
      <3> QED
        BY <1>4, <2>2, <3>2
    <2> QED
      BY <1>2, <2>1, <2>2
  <1> QED
    BY <1>3, <1>4 DEF BarSeenWithValue, DrawCells

LEMMA DetNextInv == DetInv /\ [DetNext]_detVars => DetInv'
  <1> SUFFICES ASSUME DetInv, [DetNext]_detVars PROVE DetInv'
    OBVIOUS
  <1>1. ASSUME NEW a \in Answers, PollAnswered(a) PROVE DetInv'
    <2>1. orphaned' \in BOOLEAN
      BY <1>1 DEF PollAnswered, DetInv
    <2>2. PausedForDialog'
      BY <1>1 DEF PollAnswered, DetInv, PausedForDialog
    <2> QED
      BY <1>1, <2>1, <2>2, DrawCellsShows DEF PollAnswered, DetInv
  <1>2. CASE Poll \/ PollFailed \/ Dismiss \/ SaveModem \/ UNCHANGED detVars
    <2>1. bar' = bar /\ answer' = answer /\ orphaned' = orphaned /\ watching' = watching
      BY <1>2 DEF Poll, PollFailed, Dismiss, SaveModem, detVars, cells
    <2>2. polling' = TRUE \/ (polling' = polling /\ dialog' = dialog)
      BY <1>2 DEF Poll, PollFailed, Dismiss, SaveModem, detVars, cells
    <2>3. BarSeenWithValue'
      BY <2>1 DEF BarSeenWithValue, DetInv
    <2> QED
      BY <2>1, <2>2, <2>3 DEF DetInv, PausedForDialog
  <1>3. ASSUME NEW d \in {"modem", "sim"}, ShowDialog(d) \/ DialogLoaded(d) \/ DialogFailed(d) PROVE DetInv'
    BY <1>3 DEF ShowDialog, DialogLoaded, DialogFailed, cells, DetInv, PausedForDialog, BarSeenWithValue
  <1>4. CASE LoadAnew
    <2>1. BarSeenWithValue'
      BY <1>4, FreshShows DEF LoadAnew, BarSeenWithValue
    <2> QED
      BY <1>4, <2>1, FreshShows DEF LoadAnew, DetInv, PausedForDialog
  <1> QED
    BY <1>1, <1>2, <1>3, <1>4 DEF DetNext

DbgInv ==
  /\ text \in [of : Nat, shown : BOOLEAN] /\ crossed \in BOOLEAN /\ ran \in Nat
  /\ ~crossed =>
       /\ \A m, n \in writes : m = n
       /\ text.shown => /\ writes = {} => file = text.of
                        /\ \A n \in writes : n = text.of

LEMMA DbgInitInv == DbgInit => DbgInv
  <1>1. [of |-> 0, shown |-> FALSE] \in [of : Nat, shown : BOOLEAN]
    OBVIOUS
  <1> QED
    BY <1>1 DEF DbgInit, DbgInv

LEMMA DbgNextInv == DbgInv /\ [DbgNext]_dbgVars => DbgInv'
  <1> SUFFICES ASSUME DbgInv, [DbgNext]_dbgVars PROVE DbgInv'
    OBVIOUS
  <1>1. CASE RunCommand \/ CommandFailed \/ UNCHANGED dbgVars
    BY <1>1 DEF RunCommand, CommandFailed, dbgVars, DbgInv
  <1>2. CASE CommandDone
    <2>1. crossed' \in BOOLEAN
      BY <1>2 DEF CommandDone, Write, DbgInv
    <2>2. text' \in [of : Nat, shown : BOOLEAN] /\ text'.of = ran
      BY <1>2 DEF CommandDone, DbgInv
    <2> QED
      BY <1>2, <2>1, <2>2 DEF CommandDone, Write, DbgInv
  <1>3. CASE Clear
    <2>1. crossed' \in BOOLEAN
      BY <1>3 DEF Clear, Write, DbgInv
    <2>2. text' \in [of : Nat, shown : BOOLEAN] /\ ~text'.shown
      BY <1>3 DEF Clear, DbgInv
    <2> QED
      BY <1>3, <2>1, <2>2 DEF Clear, Write, DbgInv
  <1>4. ASSUME NEW n \in writes, Written(n) \/ WriteFailed(n) PROVE DbgInv'
    BY <1>4 DEF Written, WriteFailed, DbgInv
  <1> QED
    BY <1>1, <1>2, <1>3, <1>4 DEF DbgNext

LEMMA DetailTells == DetInv /\ DbgInv => DetailIsCurrent
  BY DEF DetInv, DbgInv, DetailIsCurrent, DownloadIsShown

-----------------------------------------------------------------------------
(* The argon theme.                                                        *)

Style == [display : {"css", "block", "none"}, sized : BOOLEAN]
Slide == [kind : {"none", "down", "up"}, sized : BOOLEAN]

\* No slide will restore a height of another one, and a slide goes where the class says.
SubmenuInv(m) ==
  /\ style[m] \in Style /\ running[m] \in Slide
  /\ ~running[m].sized
  /\ running[m].kind = "none" =>
       /\ ~style[m].sized
       /\ style[m].display # "css" => (style[m].display = "block" <=> m \in active)
  /\ running[m].kind = "down" => m \in active /\ style[m].display = "block"
  /\ running[m].kind = "up" => m \notin active

MenuInv ==
  /\ active \subseteq Menus /\ \A m, n \in active : m = n
  /\ style \in [Menus -> Style] /\ running \in [Menus -> Slide]
  /\ \A m \in Menus : SubmenuInv(m)

LEMMA MenuInitInv == MenuInit => MenuInv
  <1> SUFFICES ASSUME MenuInit PROVE MenuInv
    OBVIOUS
  <1>1. Clean("css") \in Style /\ Clean("css").display = "css" /\ ~Clean("css").sized
    BY DEF Clean, Style
  <1>2. NoSlide \in Slide /\ NoSlide.kind = "none" /\ ~NoSlide.sized
    BY DEF NoSlide, Slide
  <1> QED
    BY <1>1, <1>2 DEF MenuInit, MenuInv, SubmenuInv

\* Whatever slide is stopped, no height is left, and only its end changes what is displayed.
LEMMA StoppedClean ==
  ASSUME NEW m \in Menus, SubmenuInv(m), NEW s, s = Stopped(style[m], running[m])
  PROVE  /\ s \in Style /\ ~s.sized
         /\ running[m].kind = "none" => s = style[m]
         /\ running[m].kind = "down" => s.display = "block"
         /\ running[m].kind = "up" => s.display = "none"
  <1>1. CASE running[m].kind = "none"
    BY <1>1 DEF Stopped, Cleaned, SubmenuInv
  <1>2. CASE running[m].kind = "down"
    BY <1>2 DEF Stopped, Cleaned, SubmenuInv, Style, Slide
  <1>3. CASE running[m].kind = "up"
    BY <1>3 DEF Stopped, Cleaned, SubmenuInv, Style, Slide
  <1> QED
    BY <1>1, <1>2, <1>3 DEF SubmenuInv, Slide

LEMMA ClickMenuInv == ASSUME MenuInv, NEW e, ClickMenu(e) PROVE MenuInv'
  <1> DEFINE moved(m) == CASE m \in active            -> SlideUp(m)
                           [] m = e /\ m \notin active -> SlideDown(m)
                           [] OTHER                   -> [style |-> style[m], slide |-> running[m]]
  <1>1. /\ active' = (IF e \in Menus THEN {e} ELSE {}) \ active
        /\ style' = [m \in Menus |-> moved(m).style]
        /\ running' = [m \in Menus |-> moved(m).slide]
    BY DEF ClickMenu
  <1>2. ASSUME NEW m \in Menus PROVE /\ style'[m] = moved(m).style /\ running'[m] = moved(m).slide
    BY <1>1
  <1>3. ASSUME NEW m \in Menus PROVE SubmenuInv(m)'
    <2>0. SubmenuInv(m)
      BY DEF MenuInv
    <2>1. PICK s : s = Stopped(style[m], running[m])
      OBVIOUS
    <2>2. s \in Style /\ ~s.sized
      BY <2>0, <2>1, StoppedClean
    <2>3. CASE m \in active
      <3>1. PICK u, v : u = [s EXCEPT !.sized = TRUE] /\ v = [kind |-> "up", sized |-> s.sized]
        OBVIOUS
      <3>2. moved(m) = [style |-> u, slide |-> v]
        BY <2>1, <2>3, <3>1 DEF SlideUp
      <3>3. u \in Style /\ v \in Slide /\ v.kind = "up" /\ ~v.sized
        BY <2>2, <3>1 DEF Style, Slide
      <3>4. style'[m] = u /\ running'[m] = v
        BY <1>2, <3>2
      <3>5. m \notin active'
        BY <1>1, <2>3
      <3> QED
        BY <3>3, <3>4, <3>5 DEF SubmenuInv
    <2>4. CASE m = e /\ m \notin active
      <3>1. PICK u, v : u = [display |-> "block", sized |-> TRUE] /\ v = [kind |-> "down", sized |-> s.sized]
        OBVIOUS
      <3>2. moved(m) = [style |-> u, slide |-> v]
        BY <2>1, <2>4, <3>1 DEF SlideDown
      <3>3. u \in Style /\ u.display = "block" /\ v \in Slide /\ v.kind = "down" /\ ~v.sized
        BY <2>2, <3>1 DEF Style, Slide
      <3>4. style'[m] = u /\ running'[m] = v
        BY <1>2, <3>2
      <3>5. m \in active'
        BY <1>1, <2>4
      <3> QED
        BY <3>3, <3>4, <3>5 DEF SubmenuInv
    <2>5. CASE m # e /\ m \notin active
      <3>1. moved(m) = [style |-> style[m], slide |-> running[m]]
        BY <2>5
      <3>2. style'[m] = style[m] /\ running'[m] = running[m]
        BY <1>2, <3>1
      <3>3. m \notin active'
        BY <1>1, <2>5
      <3> QED
        BY <2>0, <2>5, <3>2, <3>3 DEF SubmenuInv
    <2> QED
      BY <2>3, <2>4, <2>5
  <1>4. \A m \in Menus : style'[m] \in Style /\ running'[m] \in Slide
    BY <1>3 DEF SubmenuInv
  <1>5. style' \in [Menus -> Style] /\ running' \in [Menus -> Slide]
    BY <1>1, <1>4
  <1>6. active' \subseteq Menus /\ \A m, n \in active' : m = n
    BY <1>1
  <1> QED
    BY <1>3, <1>5, <1>6 DEF MenuInv

LEMMA SlideEndsInv == ASSUME MenuInv, NEW m \in Menus, SlideEnds(m) PROVE MenuInv'
  <1>1. PICK s : s = Stopped(style[m], running[m])
    OBVIOUS
  <1>2. /\ style' = [style EXCEPT ![m] = s] /\ running' = [running EXCEPT ![m] = NoSlide]
        /\ active' = active /\ running[m].kind # "none"
    BY <1>1 DEF SlideEnds, Stopped
  <1>3. SubmenuInv(m)
    BY DEF MenuInv
  <1>4. /\ s \in Style /\ ~s.sized
        /\ running[m].kind = "down" => s.display = "block"
        /\ running[m].kind = "up" => s.display = "none"
    BY <1>1, <1>3, StoppedClean
  <1>5. NoSlide \in Slide /\ NoSlide.kind = "none" /\ ~NoSlide.sized
    BY DEF NoSlide, Slide
  <1>6. style' \in [Menus -> Style] /\ running' \in [Menus -> Slide]
    BY <1>2, <1>4, <1>5 DEF MenuInv
  <1>7. style'[m] = s /\ running'[m] = NoSlide
    BY <1>2 DEF MenuInv
  <1>8. SubmenuInv(m)'
    <2>1. s.display = "block" <=> m \in active
      BY <1>2, <1>3, <1>4 DEF SubmenuInv, Slide
    <2> QED
      BY <1>2, <1>4, <1>5, <1>7, <2>1 DEF SubmenuInv
  <1>9. ASSUME NEW n \in Menus \ {m} PROVE SubmenuInv(n)'
    <2>1. style'[n] = style[n] /\ running'[n] = running[n] /\ SubmenuInv(n)
      BY <1>2 DEF MenuInv
    <2> QED
      BY <1>2, <2>1 DEF SubmenuInv
  <1> QED
    BY <1>2, <1>6, <1>8, <1>9 DEF MenuInv

LEMMA MenuNextInv == MenuInv /\ [MenuNext]_menuVars => MenuInv'
  <1> SUFFICES ASSUME MenuInv, [MenuNext]_menuVars PROVE MenuInv'
    OBVIOUS
  <1>1. CASE ToggleSidebar \/ UNCHANGED menuVars
    BY <1>1 DEF ToggleSidebar, menuVars, MenuInv, SubmenuInv
  <1> QED
    BY <1>1, ClickMenuInv, SlideEndsInv DEF MenuNext

LEMMA MenuTells == MenuInv => MenusSettle
  <1> SUFFICES ASSUME MenuInv PROVE MenusSettle
    OBVIOUS
  <1>1. \A m \in Menus : running[m].kind = "none" =>
          /\ ~style[m].sized
          /\ style[m].display # "css" => (style[m].display = "block" <=> m \in active)
    BY DEF MenuInv, SubmenuInv
  <1>2. active = {} \/ \E m : active = {m}
    <2> SUFFICES ASSUME NEW m \in active PROVE active = {m}
      OBVIOUS
    <2>1. \A n \in active : n = m
      BY DEF MenuInv
    <2> QED
      BY <2>1
  <1>3. Cardinality(active) \in {0, 1}
    BY <1>2, FS_EmptySet, FS_Singleton
  <1>4. Cardinality(active) <= 1
    BY <1>3
  <1> QED
    BY <1>1, <1>4 DEF MenusSettle

-----------------------------------------------------------------------------
(* Tabs: one level has one bar, two levels two.                            *)

LEMMA AppendNew ==
  /\ Append1(<<1>>, 2) = <<1, 2>>
  /\ Append1(<<1, 2>>, 2) = <<1, 2>>
  <1>1. Append1(<<1>>, 2) = <<1, 2>>
    <2>1. \A i \in DOMAIN <<1>> : <<1>>[i] # 2
      OBVIOUS
    <2>2. Append1(<<1>>, 2) = Append(<<1>>, 2)
      BY <2>1 DEF Append1
    <2> QED
      BY <2>2
  <1>2. Append1(<<1, 2>>, 2) = <<1, 2>>
    <2>1. PICK at : at = CHOOSE i \in DOMAIN <<1, 2>> : <<1, 2>>[i] = 2
      OBVIOUS
    <2>2. at \in DOMAIN <<1, 2>> /\ <<1, 2>>[at] = 2
      <3>1. \E i \in DOMAIN <<1, 2>> : <<1, 2>>[i] = 2
        <4>1. 2 \in DOMAIN <<1, 2>> /\ <<1, 2>>[2] = 2
          OBVIOUS
        <4> QED
          BY <4>1
      <3> QED
        BY <2>1, <3>1
    <2>3. at = 2
      BY <2>2
    <2>4. Append1(<<1, 2>>, 2) = [i \in DOMAIN <<1, 2>> |->
             IF i < at THEN <<1, 2>>[i] ELSE IF i = Len(<<1, 2>>) THEN 2 ELSE <<1, 2>>[i + 1]]
      BY <2>1, <2>2 DEF Append1
    <2>5. DOMAIN <<1, 2>> = 1..2 /\ Len(<<1, 2>>) = 2 /\ <<1, 2>>[1] = 1 /\ <<1, 2>>[2] = 2
      OBVIOUS
    <2>6. Append1(<<1, 2>>, 2) = [i \in 1..2 |-> i]
      BY <2>3, <2>4, <2>5
    <2> QED
      BY <2>6
  <1> QED
    BY <1>1, <1>2

LEMMA TwoBars == TabBars(1) = <<1>> /\ TabBars(2) = <<1, 2>>
  <1>1. TabBars(1) = <<1>>
    <2> DEFINE D(f) == [i \in 1..1 |-> IF i = 1 THEN <<1>> ELSE Append1(f[i - 1], i)]
               d == CHOOSE f : f = D(f)
               U(f) == [i \in 1..1 |-> IF i = 1 THEN d[1] ELSE Append1(f[i + 1], i + 1)]
               u == CHOOSE f : f = U(f)
    <2>1. TabBars(1) = u[1]
      BY DEF TabBars
    <2>2. D([i \in 1..1 |-> <<1>>]) = [i \in 1..1 |-> <<1>>]
      OBVIOUS
    <2>3. d = D(d)
      BY <2>2
    <2>4. U([i \in 1..1 |-> d[1]]) = [i \in 1..1 |-> d[1]]
      OBVIOUS
    <2>5. u = U(u)
      BY <2>4
    <2>6. d[1] = <<1>>
      BY <2>3
    <2> HIDE DEF d
    <2>7. u[1] = d[1]
      BY <2>5
    <2> QED
      BY <2>1, <2>6, <2>7
  <1>2. TabBars(2) = <<1, 2>>
    <2> DEFINE one == <<1>>
               two == <<1, 2>>
               D(f) == [i \in 1..2 |-> IF i = 1 THEN one ELSE Append1(f[i - 1], i)]
               d == CHOOSE f : f = D(f)
               U(f) == [i \in 1..2 |-> IF i = 2 THEN d[2] ELSE Append1(f[i + 1], i + 1)]
               u == CHOOSE f : f = U(f)
               bars == [i \in 1..2 |-> IF i = 1 THEN one ELSE two]
    <2>1. TabBars(2) = u[1]
      BY DEF TabBars
    <2>2. Append1(one, 2) = two /\ Append1(two, 2) = two
      BY AppendNew
    <2> HIDE DEF one, two
    <2>3. D(bars) = bars
      <3>1. ASSUME NEW i \in 1..2 PROVE D(bars)[i] = bars[i]
        <4>1. CASE i = 1
          BY <4>1
        <4>2. CASE i = 2
          BY <2>2, <4>2
        <4> QED
          BY <4>1, <4>2
      <3> QED
        BY <3>1
    <2>4. d = D(d)
      BY <2>3
    <2> HIDE DEF d
    <2>5. d[1] = one /\ d[2] = Append1(d[1], 2)
      BY <2>4
    <2>6. d[2] = two
      BY <2>2, <2>5
    <2> DEFINE both == [i \in 1..2 |-> two]
    <2>7. U(both) = both
      <3>1. ASSUME NEW i \in 1..2 PROVE U(both)[i] = both[i]
        <4>1. CASE i = 2
          BY <2>6, <4>1
        <4>2. CASE i = 1
          BY <2>2, <4>2
        <4> QED
          BY <4>1, <4>2
      <3> QED
        BY <3>1
    <2>8. u = U(u)
      BY <2>7
    <2> HIDE DEF u
    <2>9. u[2] = d[2] /\ u[1] = Append1(u[2], 2)
      BY <2>8
    <2> QED
      BY <2>1, <2>2, <2>6, <2>9 DEF two
  <1> QED
    BY <1>1, <1>2

TabInv == depth \in 1..3 /\ (depth <= 2 => tabs = TabBars(depth))

LEMMA TabInitInv == TabInit => TabInv
  BY TwoBars DEF TabInit, TabInv

LEMMA TabNextInv == TabInv /\ [TabNext]_tabVars => TabInv'
  BY DEF TabInv, TabNext, OpenPage, tabVars

LEMMA TabTells == TabInv => TabsInOrder
  <1> SUFFICES ASSUME TabInv, depth <= 2 PROVE \A i \in 1..Len(tabs) : tabs[i] = i
    BY DEF TabsInOrder
  <1>1. CASE depth = 1
    <2>1. tabs = <<1>>
      BY <1>1, TwoBars DEF TabInv
    <2> QED
      BY <2>1
  <1>2. CASE depth = 2
    <2>1. tabs = <<1, 2>>
      BY <1>2, TwoBars DEF TabInv
    <2> QED
      BY <2>1
  <1> QED
    BY <1>1, <1>2 DEF TabInv

-----------------------------------------------------------------------------

CfgInv ==
  /\ step \in [Windows -> [at : {"idle", "rename", "remove"}, picture : Pictures \cup {NoPicture}]]
  /\ NothingInTmp

LEMMA CfgInitInv == CfgInit => CfgInv
  BY DEF CfgInit, CfgInv, NothingInTmp

LEMMA CfgNextInv == CfgInv /\ [CfgNext]_cfgVars => CfgInv'
  <1> SUFFICES ASSUME CfgInv, [CfgNext]_cfgVars PROVE CfgInv'
    OBVIOUS
  <1>1. ASSUME NEW w \in Windows, NEW p \in Pictures, Upload(w, p) PROVE CfgInv'
    BY <1>1 DEF Upload, CfgInv, NothingInTmp
  <1>2. ASSUME NEW w \in Windows, NEW ok \in BOOLEAN, Rename(w, ok) PROVE CfgInv'
    BY <1>2 DEF Rename, CfgInv, NothingInTmp
  <1>3. ASSUME NEW w \in Windows, RemoveTmp(w) PROVE CfgInv'
    BY <1>3 DEF RemoveTmp, CfgInv, NothingInTmp
  <1>4. CASE UNCHANGED cfgVars \/ \E p \in Pictures : DeletePicture(p)
    BY <1>4 DEF DeletePicture, cfgVars, CfgInv, NothingInTmp
  <1> QED
    BY <1>1, <1>2, <1>3, <1>4 DEF CfgNext

-----------------------------------------------------------------------------
(* The status page of homeproxy.                                           *)

Read == [kind : ResourceKinds, version : Nat]
Reset == [n : Nat, kind : ResourceKinds, read : SUBSET Read]
Check == [kind : ResourceKinds, n : Nat, status : {"none", "running", "updated", "failed", "latest"}]

StatusTypeOK ==
  /\ version \in [ResourceKinds -> Nat]
  /\ shownVersion \in [ResourceKinds -> Nat]
  /\ checks \subseteq Check /\ resets \subseteq Reset
  /\ checked \in Nat /\ overtaken \in BOOLEAN

\* Every update that may change a version is followed by a reset; while the resets come
\* one after the other, the last one reads what no update changes any more.
StatusInv ==
  /\ StatusTypeOK
  /\ ~overtaken =>
       /\ \A r, q \in resets : r = q
       /\ checks = {} => /\ resets = {} => shownVersion = version
                         /\ \A r \in resets : \A v \in r.read : v.version = version[v.kind]

LEMMA StatusInitInv == StatusInit => StatusInv
  <1> SUFFICES ASSUME StatusInit PROVE StatusInv
    OBVIOUS
  <1>1. version \in [ResourceKinds -> Nat] /\ shownVersion = version
    BY DEF StatusInit
  <1> QED
    BY <1>1 DEF StatusInit, StatusInv, StatusTypeOK

LEMMA StatusNextInv == StatusInv /\ [StatusNext]_versionVars => StatusInv'
  <1> SUFFICES ASSUME StatusInv, [StatusNext]_versionVars PROVE StatusInv'
    OBVIOUS
  <1>1. CASE TypeToken \/ UNCHANGED versionVars
    BY <1>1 DEF TypeToken, versionVars, StatusInv, StatusTypeOK
  <1>2. ASSUME NEW k \in ResourceKinds, CheckUpdate(k) PROVE StatusInv'
    <2>1. PICK c : c = [kind |-> k, n |-> checked', status |-> IF k \in updating THEN "running" ELSE "none"]
      OBVIOUS
    <2>2. checks' = checks \cup {c} /\ checked' = checked + 1
      BY <1>2, <2>1 DEF CheckUpdate
    <2>3. c \in Check
      BY <2>1, <2>2 DEF Check, StatusInv, StatusTypeOK
    <2> QED
      BY <1>2, <2>2, <2>3 DEF CheckUpdate, StatusInv, StatusTypeOK
  <1>3. ASSUME NEW c \in checks, NEW s \in {"updated", "failed", "latest"}, Updated(c, s) PROVE StatusInv'
    <2>1. PICK d : d = [c EXCEPT !.status = s]
      OBVIOUS
    <2>2. checks' = (checks \ {c}) \cup {d}
      BY <1>3, <2>1 DEF Updated
    <2>3. d \in Check
      BY <2>1 DEF Check, StatusInv, StatusTypeOK
    <2>4. version' \in [ResourceKinds -> Nat]
      BY <1>3 DEF Updated, StatusInv, StatusTypeOK, Check
    <2> QED
      BY <1>3, <2>2, <2>3, <2>4 DEF Updated, StatusInv, StatusTypeOK
  <1>4. ASSUME NEW c \in checks, CheckAnswered(c) PROVE StatusInv'
    <2>1. PICK r : r = [n |-> c.n, kind |-> c.kind, read |-> {}]
      OBVIOUS
    <2>2. /\ resets' = resets \cup {r} /\ overtaken' = (overtaken \/ resets # {})
          /\ checks' = checks \ {c}
          /\ version' = version /\ shownVersion' = shownVersion /\ checked' = checked
      BY <1>4, <2>1 DEF CheckAnswered
    <2>3. r \in Reset /\ r.read = {}
      BY <2>1 DEF Reset, Check, StatusInv, StatusTypeOK
    <2> QED
      BY <2>2, <2>3 DEF StatusInv, StatusTypeOK
  <1>5. ASSUME NEW k \in ResourceKinds, NEW r \in resets, ReadVersion(r, k) PROVE StatusInv'
    <2>1. PICK V : V = r.read \cup {[kind |-> k, version |-> version[k]]}
      OBVIOUS
    <2>2. PICK q : q = [r EXCEPT !.read = V]
      OBVIOUS
    <2>3. /\ resets' = (resets \ {r}) \cup {q} /\ overtaken' = overtaken
          /\ checks' = checks /\ version' = version /\ shownVersion' = shownVersion /\ checked' = checked
      BY <1>5, <2>1, <2>2 DEF ReadVersion
    <2>4. V \subseteq Read /\ \A v \in V : v \in r.read \/ v.version = version[v.kind]
      BY <2>1 DEF Read, Reset, StatusInv, StatusTypeOK
    <2>5. q \in Reset /\ q.read = V
      BY <2>2, <2>4 DEF Reset, StatusInv, StatusTypeOK
    <2> QED
      BY <2>3, <2>4, <2>5 DEF StatusInv, StatusTypeOK
  <1>6. ASSUME NEW r \in resets, ShownAnew(r) PROVE StatusInv'
    <2>1. /\ r \in Reset /\ resets' = resets \ {r} /\ overtaken' = overtaken
          /\ checks' = checks /\ version' = version /\ checked' = checked
      BY <1>6 DEF ShownAnew, StatusInv, StatusTypeOK
    <2>2. ASSUME NEW k \in ResourceKinds
          PROVE  /\ (CHOOSE v \in r.read : v.kind = k) \in r.read
                 /\ (CHOOSE v \in r.read : v.kind = k).kind = k
      <3>1. \E v \in r.read : v.kind = k
        BY <1>6 DEF ShownAnew
      <3> QED
        BY <3>1
    <2>3. shownVersion' = [k \in ResourceKinds |-> (CHOOSE v \in r.read : v.kind = k).version]
      BY <1>6 DEF ShownAnew
    <2>4. shownVersion' \in [ResourceKinds -> Nat]
      BY <2>1, <2>2, <2>3 DEF Reset, Read
    <2>5. (\A v \in r.read : v.version = version[v.kind]) => shownVersion' = version
      BY <2>2, <2>3 DEF StatusInv, StatusTypeOK
    <2> QED
      BY <2>1, <2>4, <2>5 DEF StatusInv, StatusTypeOK
  <1> QED
    BY <1>1, <1>2, <1>3, <1>4, <1>5, <1>6 DEF StatusNext

LEMMA StatusTells == StatusInv => VersionIsCurrent
  BY DEF StatusInv, VersionIsCurrent

-----------------------------------------------------------------------------
(* The routing nodes and the DNS servers.                                  *)

RouteRow ==
  [there : {TRUE}, enabled : BOOLEAN, node : ProxyNodes \cup {UrlTest}, outbound : Sections \cup {Direct}]
Table == [Sections -> RouteRow \cup {Absent}]

RouteTypeOK ==
  /\ routes \in Table /\ rows \in Table
  /\ opened \in Sections \cup {"none"}

\* A row refers to a node the list offered when the page was shown, and the dialog offers
\* what is enabled while it is open.
RouteInv ==
  /\ RouteTypeOK
  /\ \A s \in Sections : rows[s].there <=> routes[s].there
  /\ \A s \in Sections : rows[s].there => rows[s].outbound \in Offered(routes, s) \cup {Direct}
  /\ opened # "none" => offering = Offered(routes, opened)
  /\ ReferencesRepaired

LEMMA RowIsRow ==
  ASSUME NEW on \in BOOLEAN, NEW n \in ProxyNodes \cup {UrlTest}, NEW up \in Sections \cup {Direct}
  PROVE  Row(on, n, up) \in RouteRow
  BY DEF Row, RouteRow

LEMMA AbsentNotThere == ~Absent.there
  BY DEF Absent

LEMMA TableThere ==
  ASSUME NEW t \in Table
  PROVE  \A s \in Sections : (t[s].there => t[s] \in RouteRow) /\ (~t[s].there => t[s] = Absent)
  BY AbsentNotThere DEF Table, RouteRow

\* As the page is shown anew, every row refers to a node that is offered.
LEMMA RenderedRefers ==
  ASSUME NEW t \in Table
  PROVE  /\ Rendered(t) \in Table
         /\ \A s \in Sections : Rendered(t)[s].there <=> t[s].there
         /\ \A s \in Sections : Rendered(t)[s].there => Rendered(t)[s].outbound \in Offered(t, s) \cup {Direct}
  <1>1. ASSUME NEW s \in Sections, t[s].there
        PROVE  /\ Rendered(t)[s] \in RouteRow
               /\ Rendered(t)[s].outbound \in Offered(t, s) \cup {Direct}
    <2>1. t[s] \in RouteRow
      BY <1>1, TableThere
    <2>2. PICK up : up = Listed(t[s].outbound, Offered(t, s))
      OBVIOUS
    <2>3. up \in Offered(t, s) \cup {Direct}
      BY <2>2 DEF Listed
    <2>4. Offered(t, s) \subseteq Sections
      BY DEF Offered, Enabled, There
    <2>5. PICK r : r = [t[s] EXCEPT !.outbound = up]
      OBVIOUS
    <2>6. r \in RouteRow /\ r.outbound = up
      BY <2>1, <2>3, <2>4, <2>5 DEF RouteRow
    <2>7. Rendered(t)[s] = r
      BY <1>1, <2>2, <2>5 DEF Rendered
    <2> QED
      BY <2>3, <2>6, <2>7
  <1>2. ASSUME NEW s \in Sections, ~t[s].there PROVE Rendered(t)[s] = Absent
    BY <1>2 DEF Rendered
  <1>3. ASSUME NEW r \in RouteRow PROVE r.there
    BY DEF RouteRow
  <1>4. ASSUME NEW s \in Sections PROVE Rendered(t)[s] \in RouteRow \cup {Absent}
    BY <1>1, <1>2
  <1>5. Rendered(t) \in Table
    BY <1>4 DEF Rendered, Table
  <1> QED
    BY <1>1, <1>2, <1>3, <1>5, AbsentNotThere

LEMMA RouteInitInv == RouteInit => RouteInv /\ NotEachOthersResolver
  <1> SUFFICES ASSUME RouteInit PROVE RouteInv /\ NotEachOthersResolver
    OBVIOUS
  <1>1. routes \in Table /\ rows = routes /\ \A s \in Sections : ~routes[s].there
    BY AbsentNotThere DEF RouteInit, Table
  <1>2. RouteInv
    BY <1>1 DEF RouteInit, RouteInv, RouteTypeOK, ReferencesRepaired, There
  <1>3. NotEachOthersResolver
    BY DEF RouteInit, NotEachOthersResolver, Servers
  <1> QED
    BY <1>2, <1>3

\* The rows as they are rendered fit the routing nodes they are rendered from.
LEMMA RenderedFits ==
  ASSUME RouteInv, routes' \in Table, rows' = Rendered(routes'), opened' = "none", ReferencesRepaired'
  PROVE  RouteInv'
  BY RenderedRefers DEF RouteInv, RouteTypeOK

LEMMA SaveRowsInv == ASSUME RouteInv, SaveRows PROVE RouteInv'
  <1>1. routes' = rows /\ rows' = Rendered(rows) /\ dropped' = Enabled(routes) \ Enabled(rows) /\ opened' = "none"
    BY DEF SaveRows
  <1>2. ReferencesRepaired'
    BY <1>1, SectionsAssumption DEF ReferencesRepaired, There, Offered, RouteInv
  <1> QED
    BY <1>1, <1>2, RenderedFits DEF RouteInv, RouteTypeOK

LEMMA RemoveRouteInv == ASSUME RouteInv, NEW s \in Sections, RemoveRoute(s) PROVE RouteInv'
  <1>1. PICK fewer, kept : fewer = [routes EXCEPT ![s] = Absent] /\ kept = [rows EXCEPT ![s] = Absent]
    OBVIOUS
  <1>2. fewer \in Table /\ kept \in Table
    BY <1>1 DEF Table, RouteInv, RouteTypeOK
  <1>3. /\ rows' = Rendered(routes') /\ opened' = "none"
        /\ \/ routes' = kept /\ dropped' = Enabled(routes) \ Enabled(kept)
           \/ routes' = fewer /\ dropped' = dropped \cup {s}
    BY <1>1 DEF RemoveRoute
  <1>4. ReferencesRepaired'
    <2>1. CASE routes' = kept /\ dropped' = Enabled(routes) \ Enabled(kept)
      <3>1. ASSUME NEW r \in There(kept) PROVE r \in Sections /\ r # s /\ kept[r] = rows[r] /\ rows[r].there
        BY <1>1, AbsentNotThere DEF There, RouteInv, RouteTypeOK, Table
      <3> QED
        BY <2>1, <3>1, SectionsAssumption DEF ReferencesRepaired, Offered, RouteInv
    <2>2. CASE routes' = fewer /\ dropped' = dropped \cup {s}
      <3>1. ASSUME NEW r \in There(fewer) PROVE r # s /\ fewer[r] = routes[r] /\ routes[r].there
        BY <1>1, AbsentNotThere DEF There, RouteInv, RouteTypeOK, Table
      <3>2. Enabled(routes) \ {s} \subseteq Enabled(fewer)
        BY <1>1 DEF Enabled, There, RouteInv, RouteTypeOK, Table
      <3> QED
        BY <2>2, <3>1, <3>2 DEF ReferencesRepaired, RouteInv, There
    <2> QED
      BY <1>3, <2>1, <2>2
  <1> QED
    BY <1>2, <1>3, <1>4, RenderedFits

LEMMA SaveRouteInv == ASSUME RouteInv, NEW row \in RouteRow, SaveRoute(row) PROVE RouteInv'
  <1>1. opened \in Sections /\ offering = Offered(routes, opened)
    BY DEF SaveRoute, RouteInv, RouteTypeOK
  <1>2. /\ routes' = [routes EXCEPT ![opened] = row] /\ rows' = Rendered(routes') /\ opened' = "none"
        /\ dropped' = dropped \cup (Enabled(routes) \ Enabled(routes'))
        /\ row.outbound \in Offered(routes, opened) \cup {Direct}
    BY <1>1 DEF SaveRoute
  <1>3. routes' \in Table
    BY <1>1, <1>2 DEF Table, RouteInv, RouteTypeOK
  <1>4. Offered(routes, opened) \subseteq Enabled(routes')
    BY <1>1, <1>2 DEF Offered, Enabled, There, RouteInv, RouteTypeOK, Table
  <1>5. ASSUME NEW s \in There(routes'), routes'[s].outbound \in Sections \ Enabled(routes')
        PROVE  routes'[s].outbound \in dropped'
    <2>1. s # opened
      BY <1>1, <1>2, <1>4, <1>5, SectionsAssumption DEF RouteInv, RouteTypeOK, Table
    <2>2. s \in There(routes) /\ routes'[s] = routes[s]
      BY <1>2, <1>5, <2>1 DEF There, RouteInv, RouteTypeOK, Table
    <2> QED
      BY <1>2, <1>5, <2>2 DEF RouteInv, ReferencesRepaired
  <1> QED
    BY <1>2, <1>3, <1>5, RenderedFits DEF ReferencesRepaired

LEMMA EditRowInv == ASSUME RouteInv, NEW s \in Sections, NEW row \in RouteRow, EditRow(s, row) PROVE RouteInv'
  <1>1. /\ rows' = [rows EXCEPT ![s] = row] /\ rows[s].there /\ row.there
        /\ row.outbound \in Offered(routes, s) \cup {Direct}
        /\ routes' = routes /\ opened' = opened /\ offering' = offering /\ dropped' = dropped
    BY DEF EditRow, RouteRow
  <1>2. rows' \in Table
    BY <1>1 DEF Table, RouteInv, RouteTypeOK
  <1>3. ASSUME NEW r \in Sections PROVE rows'[r] = IF r = s THEN row ELSE rows[r]
    BY <1>1 DEF Table, RouteInv, RouteTypeOK
  <1> QED
    BY <1>1, <1>2, <1>3 DEF RouteInv, RouteTypeOK, ReferencesRepaired, There, Enabled, Offered

LEMMA ResolverInv == ASSUME NotEachOthersResolver, ResolverNext, resolvers \in [Sections -> Sections \cup {Direct, "absent"}]
                     PROVE  /\ NotEachOthersResolver'
                            /\ resolvers' \in [Sections -> Sections \cup {Direct, "absent"}]
  <1>1. ASSUME NEW s \in Sections, NEW up \in Sections \cup {Direct}, SaveResolver(s, up)
        PROVE  NotEachOthersResolver'
    <2>1. /\ resolvers' = [resolvers EXCEPT ![s] = up]
          /\ up # Direct => resolvers[up] # s /\ up \in Servers \ {s}
      BY <1>1 DEF SaveResolver
    <2>2. \A t \in Sections : resolvers'[t] = IF t = s THEN up ELSE resolvers[t]
      BY <2>1
    <2> QED
      BY <2>1, <2>2, SectionsAssumption DEF NotEachOthersResolver, Servers
  <1>2. ASSUME NEW s \in Sections, RemoveResolver(s) PROVE NotEachOthersResolver'
    BY <1>2 DEF RemoveResolver, NotEachOthersResolver, Servers
  <1>3. resolvers' \in [Sections -> Sections \cup {Direct, "absent"}]
    BY DEF ResolverNext, SaveResolver, RemoveResolver
  <1> QED
    BY <1>1, <1>2, <1>3 DEF ResolverNext

RoutingInv ==
  /\ RouteInv /\ NotEachOthersResolver
  /\ resolvers \in [Sections -> Sections \cup {Direct, "absent"}]

LEMMA RoutingInitInv == RouteInit => RoutingInv
  BY RouteInitInv DEF RoutingInv, RouteInit

\* A save of the routing nodes leaves the DNS servers alone, and the other way round.
LEMMA RoutingNextInv == RoutingInv /\ [RouteNext \/ ResolverNext]_routeVars => RoutingInv'
  <1> SUFFICES ASSUME RoutingInv, [RouteNext \/ ResolverNext]_routeVars PROVE RoutingInv'
    OBVIOUS
  <1>1. ASSUME NEW on \in BOOLEAN, NEW n \in ProxyNodes \cup {UrlTest}, NEW up \in Sections \cup {Direct},
               \/ SaveRoute(Row(on, n, up))
               \/ \E s \in Sections : EditRow(s, Row(on, n, up))
        PROVE  RouteInv'
    BY <1>1, RowIsRow, SaveRouteInv, EditRowInv DEF RoutingInv
  <1>2. ASSUME NEW s \in Sections, OpenRoute(s) PROVE RouteInv'
    <2>1. /\ opened' = s /\ offering' = Offered(routes, s)
          /\ routes' = routes /\ rows' = rows /\ dropped' = dropped
      BY <1>2 DEF OpenRoute
    <2>2. RouteInv /\ RouteTypeOK' /\ ReferencesRepaired'
      BY <2>1 DEF RoutingInv, RouteInv, RouteTypeOK, ReferencesRepaired, There, Enabled
    <2>3. offering' = Offered(routes', opened')
      BY <2>1
    <2>4. \A r \in Sections : Offered(routes', r) = Offered(routes, r) /\ rows'[r] = rows[r] /\ routes'[r] = routes[r]
      BY <2>1
    <2> QED
      BY <2>2, <2>3, <2>4 DEF RouteInv
  <1>3. ASSUME CloseDialog PROVE RouteInv'
    BY <1>3 DEF CloseDialog, RoutingInv, RouteInv, RouteTypeOK, ReferencesRepaired, There, Enabled, Offered
  <1>4. ASSUME RouteNext PROVE RouteInv'
    BY <1>1, <1>2, <1>3, <1>4, SaveRowsInv, RemoveRouteInv DEF RouteNext, RoutingInv
  <1>5. ASSUME RouteNext PROVE resolvers' = resolvers
    BY <1>5 DEF RouteNext, SaveRows, CloseDialog, RemoveRoute, OpenRoute, SaveRoute, EditRow
  <1>6. ASSUME ResolverNext \/ UNCHANGED routeVars
        PROVE  routes' = routes /\ rows' = rows /\ opened' = opened /\ offering' = offering /\ dropped' = dropped
    BY <1>6 DEF ResolverNext, SaveResolver, RemoveResolver, routeVars
  <1>7. ASSUME ResolverNext \/ UNCHANGED routeVars PROVE RouteInv'
    BY <1>6, <1>7 DEF RoutingInv, RouteInv, RouteTypeOK, ReferencesRepaired, There, Enabled, Offered
  <1>8. ASSUME resolvers' = resolvers PROVE NotEachOthersResolver'
    BY <1>8 DEF RoutingInv, NotEachOthersResolver, Servers
  <1>9. CASE RouteNext
    BY <1>4, <1>5, <1>8, <1>9 DEF RoutingInv
  <1>10. CASE ResolverNext
    BY <1>7, <1>10, ResolverInv DEF RoutingInv
  <1>11. CASE UNCHANGED routeVars
    BY <1>7, <1>8, <1>11 DEF RoutingInv, routeVars
  <1> QED
    BY <1>9, <1>10, <1>11

-----------------------------------------------------------------------------
(* The list of proxy nodes.                                                *)

NodeInv ==
  /\ owner \in [Labels -> Groups \cup {Nobody, ByUser}]
  /\ picked \in [Ways -> Labels \cup {NoNode, "urltest", "same"}]
  /\ updates \in Nat
  /\ PickedNodesThere

LEMMA NodeInitInv == NodeListInit => NodeInv
  BY LabelsAssumption DEF NodeListInit, NodeInv, PickedNodesThere, Ways

\* What is saved with the page only adds nodes.
LEMMA SavedOwnerAdds ==
  ASSUME NodeInv
  PROVE  /\ SavedOwner \in [Labels -> Groups \cup {Nobody, ByUser}]
         /\ \A n \in Labels : owner[n] # Nobody => SavedOwner[n] = owner[n]
  BY DEF SavedOwner, NodeInv

\* A node that was picked and exists stays while no node goes.
LEMMA NothingGoes ==
  ASSUME NodeInv, owner' \in [Labels -> Groups \cup {Nobody, ByUser}],
         \A n \in Labels : owner[n] # Nobody => owner'[n] # Nobody,
         excused' = excused \ Existing(owner'), picked' = picked
  PROVE  PickedNodesThere'
  BY DEF NodeInv, PickedNodesThere, Existing

LEMMA ImportInv == ASSUME NodeInv, NEW links, Import(links) PROVE NodeInv'
  <1>1. picked' = picked /\ updates' = updates /\ excused' = excused \ Existing(owner')
    BY DEF Import
  <1>2. /\ owner' \in [Labels -> Groups \cup {Nobody, ByUser}]
        /\ \A n \in Labels : owner[n] # Nobody => owner'[n] # Nobody
    <2>1. CASE owner' = owner
      BY <2>1 DEF NodeInv
    <2>2. CASE owner' = [n \in Labels |-> IF n \in Readable(links) /\ SavedOwner[n] = Nobody THEN ByUser ELSE SavedOwner[n]]
      BY <2>2, SavedOwnerAdds
    <2> QED
      BY <2>1, <2>2 DEF Import
  <1>3. PickedNodesThere'
    BY <1>1, <1>2, NothingGoes
  <1> QED
    BY <1>1, <1>2, <1>3 DEF NodeInv

LEMMA RemoveNodeInv == ASSUME NodeInv, NEW n \in Labels, RemoveNode(n) PROVE NodeInv'
  <1>1. /\ owner' = [SavedOwner EXCEPT ![n] = Nobody] /\ picked' = picked /\ updates' = updates
        /\ excused' = (excused \cup {n}) \ Existing(owner')
    BY DEF RemoveNode
  <1>2. /\ owner' \in [Labels -> Groups \cup {Nobody, ByUser}]
        /\ \A m \in Labels \ {n} : owner[m] # Nobody => owner'[m] = owner[m]
    BY <1>1, SavedOwnerAdds
  <1> QED
    BY <1>1, <1>2 DEF NodeInv, PickedNodesThere, Existing

LEMMA PickInv ==
  ASSUME NodeInv, NEW w \in Ways, NEW n \in Labels \cup {NoNode, "urltest", "same"},
         NEW nodes \in SUBSET Labels, Pick(w, n, nodes)
  PROVE  NodeInv'
  <1>1. /\ owner' = SavedOwner /\ picked' = [picked EXCEPT ![w] = n] /\ updates' = updates
        /\ excused' = excused \ Existing(owner')
        /\ n \in Labels => owner[n] # Nobody
    BY LabelsAssumption DEF Pick, Existing, NoNode
  <1>2. picked' \in [Ways -> Labels \cup {NoNode, "urltest", "same"}]
    BY <1>1 DEF NodeInv
  <1>3. \A v \in Ways : picked'[v] = IF v = w THEN n ELSE picked[v]
    BY <1>1 DEF NodeInv
  <1>4. PickedNodesThere'
    BY <1>1, <1>3, SavedOwnerAdds DEF NodeInv, PickedNodesThere, Existing
  <1> QED
    BY <1>1, <1>2, <1>4, SavedOwnerAdds DEF NodeInv

LEMMA RemoveSubscriptionsInv == ASSUME NodeInv, RemoveSubscriptions PROVE NodeInv'
  <1> DEFINE gone == {n \in Labels : owner[n] \in Groups}
  <1>1. /\ owner' = [n \in Labels |-> IF n \in gone THEN Nobody ELSE SavedOwner[n]]
        /\ picked' = [w \in Ways |-> IF picked[w] \in gone THEN NoNode ELSE picked[w]]
        /\ excused' = excused \ Existing(owner') /\ updates' = updates
    BY DEF RemoveSubscriptions
  <1>2. /\ owner' \in [Labels -> Groups \cup {Nobody, ByUser}]
        /\ \A n \in Labels \ gone : owner[n] # Nobody => owner'[n] = owner[n]
    BY <1>1, SavedOwnerAdds
  <1>3. picked' \in [Ways -> Labels \cup {NoNode, "urltest", "same"}]
    BY <1>1 DEF NodeInv
  <1>4. ASSUME NEW w \in Ways, picked'[w] \in Labels PROVE picked'[w] = picked[w] /\ picked[w] \notin gone
    BY <1>1, <1>4, LabelsAssumption DEF NoNode
  <1>5. PickedNodesThere'
    BY <1>1, <1>2, <1>4 DEF NodeInv, PickedNodesThere, Existing
  <1> QED
    BY <1>1, <1>2, <1>3, <1>5 DEF NodeInv

\* What an update puts in the place of a node that is gone is there.
LEMMA RepairedIsThere ==
  ASSUME NodeInv, NEW o \in [Labels -> Groups \cup {Nobody, ByUser}], picked["tcp"] # NoNode,
         NEW first, first \in (IF Existing(o) = {} THEN {NoNode} ELSE Existing(o))
  PROVE  /\ Repaired(o, first) \in [Ways -> Labels \cup {NoNode, "urltest", "same"}]
         /\ \A w \in Ways : Repaired(o, first)[w] \in Labels => Repaired(o, first)[w] \in Existing(o)
  <1>1. CASE Existing(o) = {}
    BY <1>1, LabelsAssumption DEF Repaired, NoNode
  <1>2. CASE Existing(o) # {}
    <2> DEFINE new(w) == IF picked[w] \notin {NoNode, "same"} /\ Gone(w, o) THEN first ELSE picked[w]
    <2>1. Repaired(o, first) = [w \in Ways |-> new(w)]
      BY <1>2 DEF Repaired
    <2>2. first \in Existing(o) /\ Existing(o) \subseteq Labels
      BY <1>2 DEF Existing
    <2>3. ASSUME NEW w \in Ways
          PROVE  /\ new(w) \in Labels \cup {NoNode, "urltest", "same"}
                 /\ new(w) \in Labels => new(w) \in Existing(o)
      <3>1. CASE new(w) = first
        BY <2>2, <3>1
      <3>2. CASE new(w) = picked[w] /\ (picked[w] \in {NoNode, "same"} \/ ~Gone(w, o))
        BY <3>2, LabelsAssumption DEF Gone, NodeInv
      <3> QED
        BY <3>1, <3>2
    <2> QED
      BY <2>1, <2>3
  <1> QED
    BY <1>1, <1>2

LEMMA UpdateInv == ASSUME NodeInv, NEW got, Update(got) PROVE NodeInv'
  <1>1. updates' = updates + 1
    BY DEF Update
  <1>2. CASE UNCHANGED <<owner, picked, tested, excused>>
    BY <1>1, <1>2 DEF NodeInv, PickedNodesThere
  <1>3. CASE Silent(got) # DOMAIN got
    <2>1. PICK taker \in [Labels -> Groups \cup {Nobody}] :
            owner' = [n \in Labels |-> IF taker[n] # Nobody THEN taker[n] ELSE KeptOwner(got)[n]]
      BY <1>3 DEF Update
    <2>2. KeptOwner(got) \in [Labels -> Groups \cup {Nobody, ByUser}]
      BY DEF KeptOwner, NodeInv
    <2>3. owner' \in [Labels -> Groups \cup {Nobody, ByUser}]
      BY <2>1, <2>2
    <2>4. PICK first \in (IF Existing(owner') = {} THEN {NoNode} ELSE Existing(owner')) : picked' = Repaired(owner', first)
      BY <1>3 DEF Update
    <2>5. excused' = (excused \cup (IF picked["tcp"] = NoNode THEN Existing(owner) ELSE {})) \ Existing(owner')
      BY <1>3 DEF Update
    <2>6. CASE picked["tcp"] = NoNode
      <3>1. picked' = picked
        BY <2>4, <2>6 DEF Repaired
      <3> QED
        BY <1>1, <2>3, <2>5, <2>6, <3>1 DEF NodeInv, PickedNodesThere, Existing
    <2>7. CASE picked["tcp"] # NoNode
      <3>1. /\ picked' \in [Ways -> Labels \cup {NoNode, "urltest", "same"}]
            /\ \A w \in Ways : picked'[w] \in Labels => picked'[w] \in Existing(owner')
        BY <2>3, <2>4, <2>7, RepairedIsThere
      <3> QED
        BY <1>1, <2>3, <3>1 DEF NodeInv, PickedNodesThere, Existing
    <2> QED
      BY <2>6, <2>7
  <1> QED
    BY <1>2, <1>3 DEF Update

LEMMA NodeNextInv == NodeInv /\ [NodeListNext]_listVars => NodeInv'
  <1> SUFFICES ASSUME NodeInv, [NodeListNext]_listVars PROVE NodeInv'
    OBVIOUS
  <1>1. CASE UNCHANGED listVars
    BY <1>1 DEF listVars, NodeInv, PickedNodesThere
  <1> QED
    BY <1>1, RemoveSubscriptionsInv, ImportInv, RemoveNodeInv, PickInv, UpdateInv DEF NodeListNext

KeepsOthers ==
  updates' # updates =>
    \A n \in Labels :
      owner[n] \in {ByUser} \cup Silent(fetched') /\ (\A g \in Groups : ~Provides(fetched', g, n))
        => owner'[n] = owner[n]

LEMMA NodeStepKeeps == NodeInv /\ [NodeListNext]_listVars => [KeepsOthers]_listVars
  <1> SUFFICES ASSUME NodeInv, [NodeListNext]_listVars PROVE KeepsOthers
    OBVIOUS
  <1>1. ASSUME updates' = updates PROVE KeepsOthers
    BY <1>1 DEF KeepsOthers
  <1>2. ASSUME NEW got, Update(got), NEW n \in Labels,
               owner[n] \in {ByUser} \cup Silent(got), \A g \in Groups : ~Provides(got, g, n)
        PROVE  owner'[n] = owner[n]
    <2>1. CASE UNCHANGED <<owner, picked, tested, excused>>
      BY <2>1
    <2>2. CASE Silent(got) # DOMAIN got
      <3>1. Takers(got, n) = {}
        BY <1>2 DEF Takers
      <3>2. PICK taker \in [Labels -> Groups \cup {Nobody}] :
              /\ \A m \in Labels : IF Takers(got, m) = {} THEN taker[m] = Nobody ELSE taker[m] \in Takers(got, m)
              /\ owner' = [m \in Labels |-> IF taker[m] # Nobody THEN taker[m] ELSE KeptOwner(got)[m]]
        BY <1>2, <2>2 DEF Update
      <3>3. KeptOwner(got)[n] = owner[n]
        BY <1>2, LabelsAssumption DEF KeptOwner
      <3> QED
        BY <3>1, <3>2, <3>3
    <2> QED
      BY <1>2, <2>1, <2>2 DEF Update
  <1>3. ASSUME NEW got, Update(got) PROVE KeepsOthers
    <2>1. fetched' = got
      BY <1>3 DEF Update
    <2> QED
      BY <1>2, <1>3, <2>1 DEF KeepsOthers
  <1>4. CASE \/ RemoveSubscriptions \/ UNCHANGED listVars
             \/ \E links \in Links : Import(links)
             \/ \E n \in Labels : RemoveNode(n)
             \/ \E w \in Ways, n \in Labels \cup {NoNode, "urltest", "same"}, nodes \in SUBSET Labels : Pick(w, n, nodes)
    BY <1>1, <1>4 DEF RemoveSubscriptions, Import, RemoveNode, Pick, listVars
  <1> QED
    BY <1>3, <1>4 DEF NodeListNext

-----------------------------------------------------------------------------
(* The lists of domains and addresses.                                     *)

\* What was loaded is what is on disk, or nothing: the page never writes a list that it
\* has not shown.
ListInv == loaded \in {listFile, ""} /\ lists \in Nat

LEMMA ListInitInv == ListInit => ListInv
  <1> SUFFICES ASSUME ListInit PROVE ListInv
    OBVIOUS
  <1>1. lists \in Nat
    BY DEF ListInit
  <1>2. loaded \in {listFile, ""}
    BY DEF ListInit
  <1> QED
    BY <1>1, <1>2 DEF ListInv

LEMMA ListNextInv == ListInv /\ [ListNext]_domainVars => ListInv'
  <1> SUFFICES ASSUME ListInv, [ListNext]_domainVars PROVE ListInv'
    OBVIOUS
  <1>1. ASSUME NEW typed \in Lists, TypeList(typed) PROVE ListInv'
    <2>1. lists' = lists + 1 /\ lists \in Nat
      BY <1>1 DEF TypeList, ListInv
    <2>2. lists' \in Nat
      BY <2>1
    <2> QED
      BY <1>1, <2>2 DEF TypeList, ListInv
  <1>2. ASSUME NEW ok \in BOOLEAN, SavePage(ok) PROVE ListInv'
    BY <1>2 DEF SavePage, Reloaded, ListInv
  <1>3. ASSUME NEW ok \in BOOLEAN, NEW m, ChooseMode(m, ok) PROVE ListInv'
    BY <1>3 DEF ChooseMode, Reloaded, ListInv
  <1>4. CASE UNCHANGED domainVars
    BY <1>4 DEF domainVars, ListInv
  <1> QED
    BY <1>1, <1>2, <1>3, <1>4 DEF ListNext

LEMMA ListStepKeeps ==
  ListInv /\ [ListNext]_domainVars =>
    [mode = "global" /\ mode' = mode /\ lists' = lists => listFile' = box]_domainVars
  <1> SUFFICES ASSUME ListInv, ListNext, mode = "global", mode' = mode, lists' = lists
               PROVE  listFile' = box
    OBVIOUS
  <1>1. ASSUME NEW typed \in Lists, TypeList(typed) PROVE FALSE
    <2>1. lists' = lists + 1 /\ lists \in Nat
      BY <1>1 DEF TypeList, ListInv
    <2> QED
      BY <2>1
  <1>2. ASSUME NEW ok \in BOOLEAN, SavePage(ok) PROVE listFile' = box
    BY <1>2 DEF SavePage, WriteList, ListInv
  <1>3. ASSUME NEW ok \in BOOLEAN, NEW m, ChooseMode(m, ok) PROVE FALSE
    BY <1>3 DEF ChooseMode
  <1> QED
    BY <1>1, <1>2, <1>3 DEF ListNext

-----------------------------------------------------------------------------
(* Forms with options that depend on others.                               *)

\* An option of two tables that are one is in one of them; what the first lacks is as in
\* the second.
LEMMA Joined ==
  ASSUME NEW t, NEW u, NEW o
  PROVE  /\ o \in DOMAIN (t ++ u) <=> o \in DOMAIN t \/ o \in DOMAIN u
         /\ o \in DOMAIN t => (t ++ u)[o] = t[o]
         /\ o \in DOMAIN u /\ o \notin DOMAIN t => (t ++ u)[o] = u[o]
  BY DEF ++

\* What is active is what the last of several looks finds.
LEMMA Looks ==
  ASSUME NEW table, NEW v
  PROVE  \E A, B, C, D, E : /\ Active(table, v) = Look(table, v, A)
                            /\ A = Look(table, v, B) /\ B = Look(table, v, C)
                            /\ C = Look(table, v, D) /\ D = Look(table, v, E)
  BY DEF Active

\* A look finds the options that are always there, and of those with one alternative the
\* ones whose alternative holds of what the look before has found.
LEMMA LookAlways ==
  ASSUME NEW table, NEW v, NEW A, NEW o \in DOMAIN table, table[o] = Always
  PROVE  o \in Look(table, v, A)
  BY DEF Look

LEMMA LookOne ==
  ASSUME NEW table, NEW v, NEW A, NEW o \in DOMAIN table, NEW d, table[o] = {d}
  PROVE  o \in Look(table, v, A) <=> \A k \in DOMAIN d : (IF k \in A THEN v[k] ELSE Null) \in d[k]
  <1>1. table[o] # Always
    BY DEF Always
  <1> QED
    BY <1>1 DEF Look

LEMMA LookOn ==
  ASSUME NEW table, NEW v, NEW A, NEW o \in DOMAIN table, NEW k, NEW V, table[o] = {On(k, V)}, Null \notin V
  PROVE  o \in Look(table, v, A) <=> k \in A /\ v[k] \in V
  <1>1. PICK d : d = On(k, V)
    OBVIOUS
  <1>2. DOMAIN d = {k} /\ d[k] = V
    BY <1>1 DEF On
  <1>3. o \in Look(table, v, A) <=> \A l \in DOMAIN d : (IF l \in A THEN v[l] ELSE Null) \in d[l]
    BY <1>1, LookOne
  <1> QED
    BY <1>2, <1>3

LEMMA LookOn2 ==
  ASSUME NEW table, NEW v, NEW A, NEW o \in DOMAIN table, NEW k, NEW V, NEW l, NEW W, k # l,
         table[o] = {On2(k, V, l, W)}, Null \notin V, Null \notin W
  PROVE  o \in Look(table, v, A) <=> k \in A /\ v[k] \in V /\ l \in A /\ v[l] \in W
  <1>1. PICK d : d = On2(k, V, l, W)
    OBVIOUS
  <1>2. DOMAIN d = {k, l} /\ d[k] = V /\ d[l] = W
    BY <1>1 DEF On2
  <1>3. o \in Look(table, v, A) <=> \A m \in DOMAIN d : (IF m \in A THEN v[m] ELSE Null) \in d[m]
    BY <1>1, LookOne
  <1> QED
    BY <1>2, <1>3

\* What is saved of an option is its value if it is active.
LEMMA SavedIs ==
  ASSUME NEW table, NEW v
  PROVE  /\ DOMAIN Saved(table, v) = DOMAIN table
         /\ \A o \in DOMAIN table : Saved(table, v)[o] = IF o \in Active(table, v) THEN v[o] ELSE ""
  BY DEF Saved

-----------------------------------------------------------------------------
(* The server's dialog.                                                    *)

\* The tables the options about TLS are in, and what they hold there.
TlsOptions == {"tls", "tls_reality", "tls_cert_path", "tls_key_path", "tls_reality_private_key", "tls_acme", "tls_acme_domain"}

LEMMA OtherTables ==
  /\ "type" \in DOMAIN ServerProtocol /\ ServerProtocol["type"] = Always
  /\ \A o \in TlsOptions : /\ o \notin DOMAIN ServerProtocol /\ o \notin DOMAIN ServerTransport
                           /\ o \notin DOMAIN ServerMux /\ o \notin DOMAIN ServerExtra
  <1>0. /\ "type" \in DOMAIN ServerAuth /\ ServerAuth["type"] = Always
        /\ \A o \in TlsOptions : o \notin DOMAIN ServerAuth
    BY DEF ServerAuth, TlsOptions
  <1>1. "type" \in DOMAIN ServerProtocol
    BY <1>0 DEF ServerProtocol, ++, Each
  <1>2. ServerProtocol["type"] = Always
    BY <1>0 DEF ServerProtocol, ++, Each
  <1>3. \A o \in TlsOptions : o \notin DOMAIN ServerProtocol
    BY <1>0 DEF ServerProtocol, TlsOptions, ++, Each
  <1>4. \A o \in TlsOptions : o \notin DOMAIN ServerTransport
    BY Zenon DEF ServerTransport, TlsOptions, ++, Each
  <1>5. \A o \in TlsOptions : o \notin DOMAIN ServerMux
    BY Zenon DEF ServerMux, TlsOptions, ++, Each
  <1>6. \A o \in TlsOptions : o \notin DOMAIN ServerExtra
    BY Zenon DEF ServerExtra, TlsOptions, ++, Each
  <1> QED
    BY <1>1, <1>2, <1>3, <1>4, <1>5, <1>6

LEMMA TlsEntries ==
  /\ TlsOptions \ {"tls_acme", "tls_acme_domain"} \subseteq DOMAIN ServerTls
  /\ {"tls_acme", "tls_acme_domain"} \cap DOMAIN ServerTls = {}
  /\ ServerTls["tls"] = {OfType(ServerTypes \ {"mixed", "shadowsocks", "socks"})}
  /\ ServerTls["tls_reality"] = {[tls |-> {"1"}, tls_acme |-> NoAcme, type |-> {"anytls", "vless"}]}
  /\ ServerTls["tls_cert_path"] = {OwnCertificate}
  /\ ServerTls["tls_key_path"] = {OwnCertificate}
  /\ ServerTls["tls_reality_private_key"] = {On("tls_reality", {"1"})}
  <1>1. TlsOptions \ {"tls_acme", "tls_acme_domain"} \subseteq DOMAIN ServerTls
    BY Zenon DEF ServerTls, TlsOptions, ++, Each
  <1>2. {"tls_acme", "tls_acme_domain"} \cap DOMAIN ServerTls = {}
    BY Zenon DEF ServerTls, ++, Each
  <1>3. ServerTls["tls"] = {OfType(ServerTypes \ {"mixed", "shadowsocks", "socks"})}
    BY Zenon DEF ServerTls, ++, Each
  <1>4. ServerTls["tls_reality"] = {[tls |-> {"1"}, tls_acme |-> NoAcme, type |-> {"anytls", "vless"}]}
    BY Zenon DEF ServerTls, ++, Each
  <1>5. ServerTls["tls_cert_path"] = {OwnCertificate}
    BY Zenon DEF ServerTls, ++, Each
  <1>6. ServerTls["tls_key_path"] = {OwnCertificate}
    BY Zenon DEF ServerTls, ++, Each
  <1>7. ServerTls["tls_reality_private_key"] = {On("tls_reality", {"1"})}
    BY Zenon DEF ServerTls, ++, Each
  <1> QED
    BY <1>1, <1>2, <1>3, <1>4, <1>5, <1>6, <1>7

LEMMA AcmeEntries ==
  /\ {"tls_acme", "tls_acme_domain"} \subseteq DOMAIN ServerAcme
  /\ ServerAcme["tls_acme"] = {On("tls", {"1"})}
  /\ ServerAcme["tls_acme_domain"] = {On("tls_acme", {"1"})}
  <1>1. {"tls_acme", "tls_acme_domain"} \subseteq DOMAIN ServerAcme
    BY Zenon DEF ServerAcme, ++, Each
  <1>2. ServerAcme["tls_acme"] = {On("tls", {"1"})}
    BY Zenon DEF ServerAcme, ++, Each
  <1>3. ServerAcme["tls_acme_domain"] = {On("tls_acme", {"1"})}
    BY Zenon DEF ServerAcme, ++, Each
  <1> QED
    BY <1>1, <1>2, <1>3

LEMMA ServerEntries ==
  ASSUME NEW acme \in BOOLEAN, NEW table, table = ServerTable(acme)
  PROVE  /\ {"type", "tls", "tls_reality", "tls_cert_path", "tls_key_path", "tls_reality_private_key"} \subseteq DOMAIN table
         /\ table["type"] = Always
         /\ table["tls"] = {OfType(ServerTypes \ {"mixed", "shadowsocks", "socks"})}
         /\ table["tls_reality"] = {[tls |-> {"1"}, tls_acme |-> NoAcme, type |-> {"anytls", "vless"}]}
         /\ table["tls_cert_path"] = {OwnCertificate}
         /\ table["tls_key_path"] = {OwnCertificate}
         /\ table["tls_reality_private_key"] = {On("tls_reality", {"1"})}
         /\ acme => /\ {"tls_acme", "tls_acme_domain"} \subseteq DOMAIN table
                    /\ table["tls_acme"] = {On("tls", {"1"})}
                    /\ table["tls_acme_domain"] = {On("tls_acme", {"1"})}
         /\ ~acme => "tls_acme" \notin DOMAIN table
  <1> PICK last : last = IF acme THEN ServerAcme ELSE <<>>
    OBVIOUS
  <1> PICK t, u, w, x : /\ t = ServerProtocol ++ ServerTransport /\ u = t ++ ServerMux
                        /\ w = u ++ ServerTls /\ x = w ++ ServerExtra
    OBVIOUS
  <1>1. table = x ++ last
    BY DEF ServerTable
  <1>2. "type" \in DOMAIN t /\ t["type"] = Always /\ \A o \in TlsOptions : o \notin DOMAIN t
    BY OtherTables, Joined
  <1>3. "type" \in DOMAIN u /\ u["type"] = Always /\ \A o \in TlsOptions : o \notin DOMAIN u
    BY <1>2, OtherTables, Joined
  <1>4. /\ "type" \in DOMAIN w /\ w["type"] = Always
        /\ \A o \in TlsOptions : /\ o \in DOMAIN w <=> o \in DOMAIN ServerTls
                                 /\ o \in DOMAIN ServerTls => w[o] = ServerTls[o]
    BY <1>3, Joined
  <1>5. /\ "type" \in DOMAIN x /\ x["type"] = Always
        /\ \A o \in TlsOptions : /\ o \in DOMAIN x <=> o \in DOMAIN ServerTls
                                 /\ o \in DOMAIN ServerTls => x[o] = ServerTls[o]
    BY <1>4, OtherTables, Joined
  <1>6. /\ "type" \in DOMAIN table /\ table["type"] = Always
        /\ \A o \in TlsOptions : /\ o \in DOMAIN table <=> o \in DOMAIN ServerTls \/ o \in DOMAIN last
                                 /\ o \in DOMAIN ServerTls => table[o] = ServerTls[o]
                                 /\ o \notin DOMAIN ServerTls /\ o \in DOMAIN last => table[o] = last[o]
    BY <1>1, <1>5, Joined
  <1>7. \A o \in TlsOptions : o \in DOMAIN ServerTls <=> o \notin {"tls_acme", "tls_acme_domain"}
    BY TlsEntries DEF TlsOptions
  <1>8. {"tls", "tls_reality", "tls_cert_path", "tls_key_path", "tls_reality_private_key"} \subseteq TlsOptions \ {"tls_acme", "tls_acme_domain"}
    BY DEF TlsOptions
  <1>9. {"tls_acme", "tls_acme_domain"} \subseteq TlsOptions
    BY DEF TlsOptions
  <1>10. ASSUME acme PROVE /\ {"tls_acme", "tls_acme_domain"} \subseteq DOMAIN table
                           /\ table["tls_acme"] = {On("tls", {"1"})}
                           /\ table["tls_acme_domain"] = {On("tls_acme", {"1"})}
    BY <1>10, <1>6, <1>7, <1>9, AcmeEntries
  <1>11. ASSUME ~acme PROVE "tls_acme" \notin DOMAIN table
    <2>1. last = <<>>
      BY <1>11
    <2>2. DOMAIN last = {}
      BY <2>1
    <2> QED
      BY <2>2, <1>6, <1>7, <1>9
  <1>12. \A o \in TlsOptions \ {"tls_acme", "tls_acme_domain"} : o \in DOMAIN table /\ table[o] = ServerTls[o]
    BY <1>6, <1>7
  <1> QED
    BY <1>6, <1>8, <1>10, <1>11, <1>12, TlsEntries

\* What the last looks find of the options about TLS; look by look, they depend on what
\* is found already.
LEMMA ServerActive ==
  ASSUME NEW acme \in BOOLEAN, NEW table, table = ServerTable(acme), NEW v
  PROVE  LET M == Active(table, v)
             tls == v["type"] \in ServerTypes \ {"mixed", "shadowsocks", "socks"}
             byAcme == acme /\ v["tls_acme"] \notin NoAcme
             reality == v["type"] \in {"anytls", "vless"} /\ v["tls_reality"] = "1"
         IN  /\ "type" \in M
             /\ "tls" \in M <=> tls
             /\ tls /\ v["tls"] = "1" /\ byAcme /\ v["tls_acme"] = "1" => "tls_acme_domain" \in M
             /\ tls /\ v["tls"] = "1" /\ ~byAcme /\ reality => "tls_reality_private_key" \in M
             /\ tls /\ v["tls"] = "1" /\ ~byAcme /\ ~reality /\ v["tls_reality"] \in {"0", "1"} =>
                  {"tls_cert_path", "tls_key_path"} \subseteq M
  <1> DEFINE M == Active(table, v)
             T == ServerTypes \ {"mixed", "shadowsocks", "socks"}
             tls == v["type"] \in T
             byAcme == acme /\ v["tls_acme"] \notin NoAcme
             reality == v["type"] \in {"anytls", "vless"} /\ v["tls_reality"] = "1"
  <1>1. PICK A, B, C, D, E : M = Look(table, v, A) /\ A = Look(table, v, B) /\ B = Look(table, v, C)
                             /\ C = Look(table, v, D) /\ D = Look(table, v, E)
    BY Looks
  <1>e. /\ {"type", "tls", "tls_reality", "tls_cert_path", "tls_key_path", "tls_reality_private_key"} \subseteq DOMAIN table
        /\ table["tls_reality"] = {[tls |-> {"1"}, tls_acme |-> NoAcme, type |-> {"anytls", "vless"}]}
        /\ table["tls_cert_path"] = {OwnCertificate}
        /\ table["tls_key_path"] = {OwnCertificate}
        /\ table["tls_reality_private_key"] = {On("tls_reality", {"1"})}
    BY ServerEntries
  <1>a. ASSUME acme PROVE /\ {"tls_acme", "tls_acme_domain"} \subseteq DOMAIN table
                          /\ table["tls_acme"] = {On("tls", {"1"})}
                          /\ table["tls_acme_domain"] = {On("tls_acme", {"1"})}
    BY <1>a, ServerEntries
  <1>b. ASSUME ~acme PROVE "tls_acme" \notin DOMAIN table
    BY <1>b, ServerEntries
  <1>2. Null \notin T /\ Null \notin {"1"} /\ Null \notin {"anytls", "vless"} /\ Null \in NoAcme
    BY DEF Null, ServerTypes, NoAcme
  <1> HIDE DEF M, T
  <1>3. ASSUME NEW L PROVE "type" \in Look(table, v, L)
    BY ServerEntries, LookAlways
  <1>4. ASSUME NEW L, "type" \in L PROVE "tls" \in Look(table, v, L) <=> tls
    BY <1>2, <1>4, ServerEntries, LookOn DEF OfType, T
  <1>5. ASSUME NEW L, "tls" \in L <=> tls
        PROVE  "tls_acme" \in Look(table, v, L) <=> acme /\ tls /\ v["tls"] = "1"
    <2>1. CASE acme
      <3>1. "tls_acme" \in DOMAIN table /\ table["tls_acme"] = {On("tls", {"1"})}
        BY <2>1, <1>a
      <3>2. "tls_acme" \in Look(table, v, L) <=> "tls" \in L /\ v["tls"] \in {"1"}
        BY <3>1, <1>2, LookOn
      <3> QED
        BY <3>2, <1>5, <2>1
    <2>2. ASSUME ~acme PROVE "tls_acme" \notin Look(table, v, L)
      <3>1. Look(table, v, L) \subseteq DOMAIN table
        BY DEF Look
      <3> QED
        BY <2>2, <3>1, <1>b
    <2> QED
      BY <2>1, <2>2
  <1>6. "type" \in D /\ "type" \in C /\ "type" \in B /\ "type" \in A /\ "type" \in M
    BY <1>1, <1>3
  <1>7. ("tls" \in C <=> tls) /\ ("tls" \in B <=> tls) /\ ("tls" \in A <=> tls) /\ ("tls" \in M <=> tls)
    BY <1>1, <1>4, <1>6
  <1>8. /\ "tls_acme" \in B <=> acme /\ tls /\ v["tls"] = "1"
        /\ "tls_acme" \in A <=> acme /\ tls /\ v["tls"] = "1"
    BY <1>1, <1>5, <1>7
  <1>9. ASSUME tls, v["tls"] = "1", acme, v["tls_acme"] = "1" PROVE "tls_acme_domain" \in M
    <2>1. "tls_acme_domain" \in DOMAIN table /\ table["tls_acme_domain"] = {On("tls_acme", {"1"})}
      BY <1>9, <1>a
    <2>2. "tls_acme_domain" \in Look(table, v, A) <=> "tls_acme" \in A /\ v["tls_acme"] \in {"1"}
      BY <1>2, <2>1, LookOn
    <2> QED
      BY <1>1, <1>8, <1>9, <2>2
  <1>10. ASSUME tls, v["tls"] = "1", ~byAcme
         PROVE  (IF "tls_acme" \in A THEN v["tls_acme"] ELSE Null) \in NoAcme /\
                (IF "tls_acme" \in B THEN v["tls_acme"] ELSE Null) \in NoAcme
    BY <1>2, <1>8, <1>10
  <1>11. ASSUME tls, v["tls"] = "1", ~byAcme
         PROVE  "tls_reality" \in A <=> v["type"] \in {"anytls", "vless"}
    <2>1. PICK d : d = [tls |-> {"1"}, tls_acme |-> NoAcme, type |-> {"anytls", "vless"}]
      OBVIOUS
    <2>2. DOMAIN d = {"tls", "tls_acme", "type"} /\ d["tls"] = {"1"} /\ d["tls_acme"] = NoAcme /\ d["type"] = {"anytls", "vless"}
      BY <2>1
    <2>3. "tls_reality" \in Look(table, v, B) <=> \A k \in DOMAIN d : (IF k \in B THEN v[k] ELSE Null) \in d[k]
      <3>1. table["tls_reality"] = {d}
        BY <2>1, <1>e
      <3> QED
        BY <3>1, <1>e, LookOne
    <2> QED
      BY <1>1, <1>6, <1>7, <1>10, <1>11, <2>2, <2>3
  <1>12. ASSUME tls, v["tls"] = "1", ~byAcme, reality PROVE "tls_reality_private_key" \in M
    BY <1>1, <1>2, <1>11, <1>12, ServerEntries, LookOn
  <1>13. ASSUME tls, v["tls"] = "1", ~byAcme, ~reality, v["tls_reality"] \in {"0", "1"}, NEW o \in {"tls_cert_path", "tls_key_path"}
         PROVE  o \in M
    <2>1. PICK d : d = OwnCertificate
      OBVIOUS
    <2>2. DOMAIN d = {"tls", "tls_acme", "tls_reality"} /\ d["tls"] = {"1"} /\ d["tls_acme"] = NoAcme /\ d["tls_reality"] = {"0", Null}
      BY <2>1 DEF OwnCertificate
    <2>3. o \in Look(table, v, A) <=> \A k \in DOMAIN d : (IF k \in A THEN v[k] ELSE Null) \in d[k]
      BY <2>1, <1>e, LookOne
    <2>4. (IF "tls_reality" \in A THEN v["tls_reality"] ELSE Null) \in {"0", Null}
      BY <1>11, <1>13
    <2> QED
      BY <1>1, <1>7, <1>10, <1>13, <2>2, <2>3, <2>4
  <1> QED
    BY <1>6, <1>7, <1>9, <1>12, <1>13 DEF M, T

ServerInv == TlsHasIdentity /\ QuicHasTls

LEMMA ServerInitInv == ServerInit => ServerInv
  <1> SUFFICES ASSUME ServerInit PROVE ServerInv
    OBVIOUS
  <1>1. \A o : o \in {"tls"} => o \notin DOMAIN server
    BY DEF ServerInit
  <1> QED
    BY <1>1 DEF ServerInit, ServerInv, TlsHasIdentity, QuicHasTls, Has

LEMMA ServerNextInv == ServerInv /\ [ServerNext]_serverVars => ServerInv'
  <1> SUFFICES ASSUME NEW acme \in BOOLEAN, NEW entered \in ServerValues, SaveServer(acme, entered) PROVE ServerInv'
    BY DEF ServerNext, serverVars, ServerInv, TlsHasIdentity, QuicHasTls, Has
  <1>1. PICK table, v : table = ServerTable(acme) /\ v = ForceTls(entered)
    OBVIOUS
  <1>2. /\ v["type"] \in {"hysteria", "hysteria2", "tuic"} => v["tls"] = "1"
        /\ \A o \in {"tls", "tls_acme", "tls_reality"} : v[o] \in {"0", "1"}
        /\ \A o \in {"tls_cert_path", "tls_key_path", "tls_acme_domain", "tls_reality_private_key"} : v[o] \in {"", "set"}
    <2>1. /\ {"type", "tls", "tls_acme", "tls_reality", "tls_cert_path", "tls_key_path", "tls_acme_domain",
              "tls_reality_private_key"} \subseteq DOMAIN entered
          /\ \A o \in {"tls", "tls_acme", "tls_reality"} : entered[o] \in {"0", "1"}
          /\ \A o \in {"tls_cert_path", "tls_key_path", "tls_acme_domain", "tls_reality_private_key"} : entered[o] \in {"", "set"}
      BY ServerAssumption
    <2>2. CASE entered["type"] \in {"hysteria", "hysteria2", "tuic"}
      <3>1. v = [entered EXCEPT !["tls"] = "1"]
        BY <1>1, <2>2 DEF ForceTls
      <3>2. v["tls"] = "1" /\ \A o \in DOMAIN entered : o # "tls" => v[o] = entered[o]
        BY <3>1, <2>1
      <3> QED
        BY <2>1, <3>2
    <2>3. CASE entered["type"] \notin {"hysteria", "hysteria2", "tuic"}
      BY <1>1, <2>1, <2>3 DEF ForceTls
    <2> QED
      BY <2>2, <2>3
  <1>3. PICK M : M = Active(table, v)
    OBVIOUS
  <1>4. /\ DOMAIN server' = DOMAIN table
        /\ \A o \in DOMAIN table : server'[o] = IF o \in M THEN v[o] ELSE ""
        /\ \A o \in ServerNeeds \cap M : v[o] # ""
    BY <1>1, <1>3, SavedIs DEF SaveServer
  <1>5. {"type", "tls", "tls_reality", "tls_cert_path", "tls_key_path", "tls_reality_private_key"} \subseteq DOMAIN table
    BY <1>1, ServerEntries
  <1>6. M \subseteq DOMAIN table
    BY <1>3, Looks DEF Look
  <1> DEFINE Saves(o) == o \in DOMAIN server' /\ server'[o] \notin {"", "0"}
  <1>7. \A o \in {"tls_cert_path", "tls_key_path", "tls_acme_domain", "tls_reality_private_key"} : o \in M => Saves(o)
    BY <1>2, <1>4, <1>6 DEF ServerNeeds
  <1>8. Saves("tls") <=> "tls" \in M /\ v["tls"] = "1"
    BY <1>2, <1>4, <1>5
  <1>9. /\ "tls" \in M <=> v["type"] \in ServerTypes \ {"mixed", "shadowsocks", "socks"}
        /\ "type" \in M
    BY <1>1, <1>3, ServerActive
  <1> DEFINE byAcme == acme /\ v["tls_acme"] \notin NoAcme
             reality == v["type"] \in {"anytls", "vless"} /\ v["tls_reality"] = "1"
  <1>12. ASSUME Saves("tls"), byAcme PROVE "tls_acme_domain" \in M
    <2>1. v["tls_acme"] = "1"
      BY <1>2, <1>12 DEF NoAcme
    <2> QED
      BY <2>1, <1>1, <1>3, <1>8, <1>9, <1>12, ServerActive
  <1>13. ASSUME Saves("tls"), ~byAcme, reality PROVE "tls_reality_private_key" \in M
    BY <1>1, <1>3, <1>8, <1>9, <1>13, ServerActive
  <1>14. ASSUME Saves("tls"), ~byAcme, ~reality PROVE "tls_cert_path" \in M /\ "tls_key_path" \in M
    <2>1. v["tls_reality"] \in {"0", "1"}
      BY <1>2
    <2> QED
      BY <2>1, <1>1, <1>3, <1>8, <1>9, <1>14, ServerActive
  <1>10. Saves("tls") => \/ Saves("tls_cert_path") /\ Saves("tls_key_path")
                         \/ Saves("tls_acme_domain") \/ Saves("tls_reality_private_key")
    BY <1>7, <1>12, <1>13, <1>14
  <1>11. server'["type"] \in {"hysteria", "hysteria2", "tuic"} => Saves("tls")
    <2>1. server'["type"] = v["type"]
      BY <1>4, <1>5, <1>9
    <2> QED
      BY <2>1, <1>2, <1>8, <1>9 DEF ServerTypes
  <1> QED
    BY <1>10, <1>11 DEF ServerInv, TlsHasIdentity, QuicHasTls, Has

KeyInv == method \in Methods /\ GeneratedFits

LEMMA KeyInitInv == KeyInit => KeyInv
  BY DEF KeyInit, KeyInv, GeneratedFits, Methods

LEMMA KeyNextInv == KeyInv /\ [KeyNext]_keyVars => KeyInv'
  <1> SUFFICES ASSUME KeyInv, [KeyNext]_keyVars PROVE KeyInv'
    OBVIOUS
  <1>1. CASE GenerateKey
    <2>1. method' = method /\ method \in Methods
      BY <1>1 DEF GenerateKey, KeyInv
    <2>2. /\ KeyBytes["2022-128"] = 16 /\ KeyBytes["2022-256"] = 32
          /\ \A m \in Methods \ {"2022-128", "2022-256"} : KeyBytes[m] = 0
      BY DEF KeyBytes, Methods
    <2>3. /\ method = "2022-128" => password' = Base64(16)
          /\ method = "2022-256" => password' = Base64(32)
      BY <1>1, <2>2 DEF GenerateKey
    <2>6. ASSUME method \in {"", "aes-128-gcm"} PROVE password' = Hex(16)
      <3>1. KeyBytes[method] = 0 /\ method # "none"
        BY <2>2, <2>6 DEF Methods
      <3> QED
        BY <1>1, <3>1 DEF GenerateKey
    <2>4. Hex(16).chars > 0
      BY DEF Hex
    <2>5. Accepted'
      BY <2>1, <2>3, <2>4, <2>6 DEF Accepted, Methods
    <2> QED
      BY <2>1, <2>5 DEF KeyInv, GeneratedFits
  <1>2. ASSUME NEW m \in Methods, ChangeMethod(m) PROVE KeyInv'
    BY <1>2 DEF ChangeMethod, KeyInv, GeneratedFits
  <1>3. ASSUME NEW typed, TypePassword(typed) PROVE KeyInv'
    BY <1>3 DEF TypePassword, KeyInv, GeneratedFits
  <1>4. CASE UNCHANGED keyVars
    BY <1>4 DEF keyVars, KeyInv, GeneratedFits, Accepted
  <1> QED
    BY <1>1, <1>2, <1>3, <1>4 DEF KeyNext

-----------------------------------------------------------------------------
(* The forms of the client page.                                           *)

LEMMA RuleEntries ==
  /\ {"action", "outbound", "reject_method", "reject_no_drop", "tls_fragment", "resolve_server", "tls_fragment_fallback_delay"}
       \subseteq DOMAIN RuleTable
  /\ {"server", "predefined_rcode"} \cap DOMAIN RuleTable = {}
  /\ RuleTable["action"] = Always
  /\ RuleTable["outbound"] = Action({"route"})
  /\ RuleTable["reject_method"] = Action({"reject"})
  /\ RuleTable["reject_no_drop"] = {On("reject_method", {"default"})}
  /\ RuleTable["tls_fragment"] = Action({"route", "route-options"})
  /\ RuleTable["tls_fragment_fallback_delay"] = {On("tls_fragment", {"1"})}
  /\ RuleTable["resolve_server"] = Action({"resolve"})
  <1>1. {"action", "outbound", "reject_method", "reject_no_drop", "tls_fragment", "resolve_server", "tls_fragment_fallback_delay"}
          \subseteq DOMAIN RuleTable
    BY Zenon DEF RuleTable, ++, Each
  <1>2. {"server", "predefined_rcode"} \cap DOMAIN RuleTable = {}
    BY Zenon DEF RuleTable, ++, Each
  <1>3. RuleTable["action"] = Always /\ RuleTable["outbound"] = Action({"route"})
    BY Zenon DEF RuleTable, ++, Each
  <1>4. RuleTable["reject_method"] = Action({"reject"}) /\ RuleTable["reject_no_drop"] = {On("reject_method", {"default"})}
    BY Zenon DEF RuleTable, ++, Each
  <1>5. /\ RuleTable["tls_fragment"] = Action({"route", "route-options"})
        /\ RuleTable["tls_fragment_fallback_delay"] = {On("tls_fragment", {"1"})}
        /\ RuleTable["resolve_server"] = Action({"resolve"})
    BY Zenon DEF RuleTable, ++, Each
  <1> QED
    BY <1>1, <1>2, <1>3, <1>4, <1>5

LEMMA DnsRuleEntries ==
  /\ {"action", "server", "reject_method", "reject_no_drop", "predefined_rcode"} \subseteq DOMAIN DnsRuleTable
  /\ {"outbound", "resolve_server", "tls_fragment_fallback_delay"} \cap DOMAIN DnsRuleTable = {}
  /\ DnsRuleTable["action"] = Always
  /\ DnsRuleTable["server"] = Action({"route"})
  /\ DnsRuleTable["reject_method"] = Action({"reject"})
  /\ DnsRuleTable["reject_no_drop"] = {On("reject_method", {"default"})}
  /\ DnsRuleTable["predefined_rcode"] = Action({"predefined"})
  <1>1. {"action", "server", "reject_method", "reject_no_drop", "predefined_rcode"} \subseteq DOMAIN DnsRuleTable
    BY Zenon DEF DnsRuleTable, ++, Each
  <1>2. {"outbound", "resolve_server", "tls_fragment_fallback_delay"} \cap DOMAIN DnsRuleTable = {}
    BY Zenon DEF DnsRuleTable, ++, Each
  <1>3. DnsRuleTable["action"] = Always /\ DnsRuleTable["server"] = Action({"route"})
    BY Zenon DEF DnsRuleTable, ++, Each
  <1>4. DnsRuleTable["reject_method"] = Action({"reject"}) /\ DnsRuleTable["reject_no_drop"] = {On("reject_method", {"default"})}
    BY Zenon DEF DnsRuleTable, ++, Each
  <1>5. DnsRuleTable["predefined_rcode"] = Action({"predefined"})
    BY Zenon DEF DnsRuleTable, ++, Each
  <1> QED
    BY <1>1, <1>2, <1>3, <1>4, <1>5

LEMMA MainEntries ==
  /\ {"routing_mode", "proxy_mode", "main_node", "main_udp_node", "main_urltest_nodes", "main_udp_urltest_nodes"}
       \subseteq DOMAIN MainTable
  /\ MainTable["routing_mode"] = Always /\ MainTable["proxy_mode"] = Always
  /\ MainTable["main_node"] = {On("routing_mode", NotCustom)}
  /\ MainTable["main_udp_node"] = {On2("routing_mode", NotCustom, "proxy_mode", ProxyModes \ {"redirect"})}
  /\ MainTable["main_urltest_nodes"] = {On("main_node", {"urltest"})}
  /\ MainTable["main_udp_urltest_nodes"] = {On("main_udp_node", {"urltest"})}
  <1>1. {"routing_mode", "proxy_mode", "main_node", "main_udp_node", "main_urltest_nodes", "main_udp_urltest_nodes"}
          \subseteq DOMAIN MainTable
    BY Zenon DEF MainTable, ++, Each
  <1>2. MainTable["main_urltest_nodes"] = {On("main_node", {"urltest"})}
    BY Zenon DEF MainTable, ++, Each
  <1>3. MainTable["main_udp_urltest_nodes"] = {On("main_udp_node", {"urltest"})}
    BY Zenon DEF MainTable, ++, Each
  <1>4. MainTable["routing_mode"] = Always /\ MainTable["proxy_mode"] = Always
    BY Zenon DEF MainTable, ++, Each
  <1>5. MainTable["main_node"] = {On("routing_mode", NotCustom)}
    BY Zenon DEF MainTable, ++, Each
  <1>6. MainTable["main_udp_node"] = {On2("routing_mode", NotCustom, "proxy_mode", ProxyModes \ {"redirect"})}
    BY Zenon DEF MainTable, ++, Each
  <1> QED
    BY <1>1, <1>2, <1>3, <1>4, <1>5, <1>6

LEMMA RoutingNodeEntries ==
  /\ {"node", "urltest_nodes"} \subseteq DOMAIN RoutingNodeTable
  /\ RoutingNodeTable["node"] = Always
  /\ RoutingNodeTable["urltest_nodes"] = {On("node", {"urltest"})}
  BY Zenon DEF RoutingNodeTable, ++, Each

LEMMA ControlEntries ==
  /\ {"routing_mode", "ipv6_support", "lan_proxy_mode", "lan_direct_ipv6_ips", "lan_proxy_ipv6_ips", "lan_global_proxy_ipv6_ips",
      "lan_direct_mac_addrs", "lan_proxy_mac_addrs", "lan_global_proxy_mac_addrs"} \subseteq DOMAIN ControlTable
  /\ ControlTable["routing_mode"] = Always /\ ControlTable["ipv6_support"] = Always /\ ControlTable["lan_proxy_mode"] = Always
  /\ ControlTable["lan_direct_ipv6_ips"] = Ipv6With("lan_proxy_mode", {"except_listed"})
  /\ ControlTable["lan_proxy_ipv6_ips"] = Ipv6With("lan_proxy_mode", {"listed_only"})
  /\ ControlTable["lan_global_proxy_ipv6_ips"] = Ipv6With("routing_mode", NotCustom)
  /\ ControlTable["lan_direct_mac_addrs"] = {On("lan_proxy_mode", {"except_listed"})}
  /\ ControlTable["lan_proxy_mac_addrs"] = {On("lan_proxy_mode", {"listed_only"})}
  /\ ControlTable["lan_global_proxy_mac_addrs"] = {On("routing_mode", NotCustom)}
  <1>1. {"routing_mode", "ipv6_support", "lan_proxy_mode", "lan_direct_ipv6_ips", "lan_proxy_ipv6_ips", "lan_global_proxy_ipv6_ips"}
          \subseteq DOMAIN ControlTable
    BY Zenon DEF ControlTable, ++, Each
  <1>2. {"lan_direct_mac_addrs", "lan_proxy_mac_addrs", "lan_global_proxy_mac_addrs"} \subseteq DOMAIN ControlTable
    BY Zenon DEF ControlTable, ++, Each
  <1>3. ControlTable["routing_mode"] = Always /\ ControlTable["ipv6_support"] = Always
    BY Zenon DEF ControlTable, ++, Each
  <1>10. ControlTable["lan_proxy_mode"] = Always
    BY Zenon DEF ControlTable, ++, Each
  <1>4. ControlTable["lan_direct_ipv6_ips"] = Ipv6With("lan_proxy_mode", {"except_listed"})
    BY Zenon DEF ControlTable, ++, Each
  <1>5. ControlTable["lan_proxy_ipv6_ips"] = Ipv6With("lan_proxy_mode", {"listed_only"})
    BY Zenon DEF ControlTable, ++, Each
  <1>6. ControlTable["lan_global_proxy_ipv6_ips"] = Ipv6With("routing_mode", NotCustom)
    BY Zenon DEF ControlTable, ++, Each
  <1>7. ControlTable["lan_direct_mac_addrs"] = {On("lan_proxy_mode", {"except_listed"})}
    BY Zenon DEF ControlTable, ++, Each
  <1>8. ControlTable["lan_proxy_mac_addrs"] = {On("lan_proxy_mode", {"listed_only"})}
    BY Zenon DEF ControlTable, ++, Each
  <1>9. ControlTable["lan_global_proxy_mac_addrs"] = {On("routing_mode", NotCustom)}
    BY Zenon DEF ControlTable, ++, Each
  <1> QED
    BY <1>1, <1>2, <1>3, <1>4, <1>5, <1>6, <1>7, <1>8, <1>9, <1>10
\* An option that is asked for with the values of one or two that are always there, and one
\* that is asked for with a value of such an option: active exactly if the values are these.
LEMMA ActiveAlways ==
  ASSUME NEW table, NEW v, NEW k \in DOMAIN table, table[k] = Always
  PROVE  k \in Active(table, v)
  BY Looks, LookAlways

LEMMA ActiveOn ==
  ASSUME NEW table, NEW v, NEW k \in DOMAIN table, table[k] = Always,
         NEW o \in DOMAIN table, NEW V, table[o] = {On(k, V)}, Null \notin V
  PROVE  /\ o \in Active(table, v) <=> v[k] \in V
         /\ \A p \in DOMAIN table : \A W : table[p] = {On(o, W)} /\ Null \notin W =>
              (p \in Active(table, v) <=> v[k] \in V /\ v[o] \in W)
  <1>1. PICK A, B, C, D, E : /\ Active(table, v) = Look(table, v, A)
                             /\ A = Look(table, v, B) /\ B = Look(table, v, C)
    BY Looks
  <1>2. k \in A /\ k \in B
    BY <1>1, LookAlways
  <1>3. (o \in Look(table, v, A) <=> v[k] \in V) /\ (o \in A <=> v[k] \in V)
    BY <1>1, <1>2, LookOn
  <1> QED
    BY <1>1, <1>3, LookOn

LEMMA ActiveOn2 ==
  ASSUME NEW table, NEW v, NEW k \in DOMAIN table, table[k] = Always, NEW l \in DOMAIN table, table[l] = Always, k # l,
         NEW o \in DOMAIN table, NEW V, NEW W, table[o] = {On2(k, V, l, W)}, Null \notin V, Null \notin W
  PROVE  /\ o \in Active(table, v) <=> v[k] \in V /\ v[l] \in W
         /\ \A p \in DOMAIN table : \A U : table[p] = {On(o, U)} /\ Null \notin U =>
              (p \in Active(table, v) <=> v[k] \in V /\ v[l] \in W /\ v[o] \in U)
  <1>1. PICK A, B, C, D, E : /\ Active(table, v) = Look(table, v, A)
                             /\ A = Look(table, v, B) /\ B = Look(table, v, C)
    BY Looks
  <1>2. k \in A /\ k \in B /\ l \in A /\ l \in B
    BY <1>1, LookAlways
  <1>3. (o \in Look(table, v, A) <=> v[k] \in V /\ v[l] \in W) /\ (o \in A <=> v[k] \in V /\ v[l] \in W)
    BY <1>1, <1>2, LookOn2
  <1> QED
    BY <1>1, <1>3, LookOn

ClientInv == SavedMeansChosen

LEMMA ClientInitInv == ClientInit => ClientInv
  BY DEF ClientInit, ClientInv, SavedMeansChosen, RuleIsOfItsAction, GroupHasNodes, OneLanPolicy

\* A form that was saved, with its table and the values it held.
Sends(f, table, v) ==
  /\ f \in DOMAIN ClientTables /\ table = ClientTables[f] /\ v \in ClientValues[f]
  /\ \A o \in Needed(f) \cap Active(table, v) : v[o] # ""
  /\ section' = f /\ saved' = Saved(table, v)

LEMMA WhatIsKept ==
  ASSUME NEW f, NEW table, NEW v, Sends(f, table, v)
  PROVE  /\ \A o : Kept(o)' <=> o \in DOMAIN table /\ o \in Active(table, v) /\ v[o] \notin {"", "0"}
         /\ \A o \in DOMAIN table : saved'[o] = IF o \in Active(table, v) THEN v[o] ELSE ""
         /\ \A o \in Nodes \cap DOMAIN table : Kept(o)' <=> o \in Active(table, v)
  <1>1. /\ \A o : Kept(o)' <=> o \in DOMAIN table /\ o \in Active(table, v) /\ v[o] \notin {"", "0"}
        /\ \A o \in DOMAIN table : saved'[o] = IF o \in Active(table, v) THEN v[o] ELSE ""
    <2>1. PICK s : s = Saved(table, v)
      OBVIOUS
    <2>2. DOMAIN s = DOMAIN table /\ \A o \in DOMAIN table : s[o] = IF o \in Active(table, v) THEN v[o] ELSE ""
      BY <2>1, SavedIs
    <2>3. saved' = s
      BY <2>1 DEF Sends
    <2>4. \A o : Kept(o)' <=> o \in DOMAIN s /\ s[o] \notin {"", "0"}
      BY <2>3 DEF Kept
    <2> QED
      BY <2>2, <2>3, <2>4
  <1>2. ASSUME NEW o \in Nodes \cap DOMAIN table, o \in Active(table, v) PROVE v[o] \notin {"", "0"}
    <2>1. v[o] \in {"", "set"}
      BY ClientAssumption DEF Sends
    <2>2. o \in Needed(f)
      BY DEF Needed
    <2> QED
      BY <1>2, <2>1, <2>2 DEF Sends
  <1> QED
    BY <1>1, <1>2

LEMMA RuleSaved ==
  ASSUME NEW v, Sends("rule", RuleTable, v)
  PROVE  RuleIsOfItsAction'
  <1>1. Null \notin {"route"} /\ Null \notin {"reject"} /\ Null \notin {"default"} /\ Null \notin {"1"}
        /\ Null \notin {"route", "route-options"} /\ Null \notin {"resolve"}
    BY DEF Null
  <1> DEFINE M == Active(RuleTable, v)
  <1>2. /\ "outbound" \in M <=> v["action"] \in {"route"}
        /\ "resolve_server" \in M <=> v["action"] \in {"resolve"}
    BY <1>1, RuleEntries, ActiveOn DEF Action
  <1>3. /\ "reject_method" \in M <=> v["action"] \in {"reject"}
        /\ "reject_no_drop" \in M <=> v["action"] \in {"reject"} /\ v["reject_method"] \in {"default"}
    BY <1>1, RuleEntries, ActiveOn DEF Action
  <1>4. /\ "tls_fragment" \in M <=> v["action"] \in {"route", "route-options"}
        /\ "tls_fragment_fallback_delay" \in M <=> v["action"] \in {"route", "route-options"} /\ v["tls_fragment"] \in {"1"}
    BY <1>1, RuleEntries, ActiveOn DEF Action
  <1>13. "action" \in M
    BY RuleEntries, ActiveAlways
  <1>6. ~Kept("server")' /\ ~Kept("predefined_rcode")'
    BY RuleEntries, WhatIsKept
  <1> HIDE DEF M
  <1>7. \A o \in DOMAIN RuleTable : /\ Kept(o)' <=> o \in M /\ v[o] \notin {"", "0"}
                                   /\ saved'[o] = IF o \in M THEN v[o] ELSE ""
    BY WhatIsKept DEF M
  <1>5. saved'["action"] = v["action"]
    BY <1>7, <1>13, RuleEntries
  <1>8. section' = "rule"
    BY DEF Sends
  <1>9. /\ "outbound" \in DOMAIN RuleTable /\ "reject_no_drop" \in DOMAIN RuleTable /\ "reject_method" \in DOMAIN RuleTable
        /\ "resolve_server" \in DOMAIN RuleTable /\ "tls_fragment" \in DOMAIN RuleTable
        /\ "tls_fragment_fallback_delay" \in DOMAIN RuleTable
    BY RuleEntries
  <1>10. Kept("reject_no_drop")' => saved'["reject_method"] = "default" /\ saved'["action"] = "reject"
    BY <1>3, <1>5, <1>7, <1>9
  <1>11. Kept("tls_fragment_fallback_delay")' => Kept("tls_fragment")' /\ saved'["action"] \in {"route", "route-options"}
    BY <1>4, <1>5, <1>7, <1>9
  <1>12. /\ Kept("outbound")' => saved'["action"] = "route"
         /\ Kept("resolve_server")' => saved'["action"] = "resolve"
    BY <1>2, <1>5, <1>7, <1>9
  <1> QED
    BY <1>6, <1>8, <1>10, <1>11, <1>12 DEF RuleIsOfItsAction

LEMMA DnsRuleSaved ==
  ASSUME NEW v, Sends("dns_rule", DnsRuleTable, v)
  PROVE  RuleIsOfItsAction'
  <1>1. Null \notin {"route"} /\ Null \notin {"reject"} /\ Null \notin {"default"} /\ Null \notin {"predefined"}
    BY DEF Null
  <1> DEFINE M == Active(DnsRuleTable, v)
  <1>2. /\ "server" \in M <=> v["action"] \in {"route"}
        /\ "predefined_rcode" \in M <=> v["action"] \in {"predefined"}
    BY <1>1, DnsRuleEntries, ActiveOn DEF Action
  <1>3. /\ "reject_method" \in M <=> v["action"] \in {"reject"}
        /\ "reject_no_drop" \in M <=> v["action"] \in {"reject"} /\ v["reject_method"] \in {"default"}
    BY <1>1, DnsRuleEntries, ActiveOn DEF Action
  <1>4. "action" \in M
    BY DnsRuleEntries, ActiveAlways
  <1>5. ~Kept("outbound")' /\ ~Kept("resolve_server")' /\ ~Kept("tls_fragment_fallback_delay")'
    BY DnsRuleEntries, WhatIsKept
  <1> HIDE DEF M
  <1>6. \A o \in DOMAIN DnsRuleTable : /\ Kept(o)' <=> o \in M /\ v[o] \notin {"", "0"}
                                      /\ saved'[o] = IF o \in M THEN v[o] ELSE ""
    BY WhatIsKept DEF M
  <1>7. {"action", "server", "reject_method", "reject_no_drop", "predefined_rcode"} \subseteq DOMAIN DnsRuleTable
    BY DnsRuleEntries
  <1>8. saved'["action"] = v["action"]
    BY <1>4, <1>6, <1>7
  <1>9. Kept("reject_no_drop")' => saved'["reject_method"] = "default" /\ saved'["action"] = "reject"
    BY <1>3, <1>6, <1>7, <1>8
  <1>10. /\ Kept("server")' => saved'["action"] = "route"
         /\ Kept("predefined_rcode")' => saved'["action"] = "predefined"
    BY <1>2, <1>6, <1>7, <1>8
  <1> QED
    BY <1>5, <1>9, <1>10 DEF RuleIsOfItsAction

LEMMA MainSaved ==
  ASSUME NEW v, Sends("main", MainTable, v)
  PROVE  /\ saved'["main_node"] = "urltest" <=> Kept("main_urltest_nodes")'
         /\ saved'["main_udp_node"] = "urltest" <=> Kept("main_udp_urltest_nodes")'
  <1>1. Null \notin {"urltest"} /\ Null \notin NotCustom /\ Null \notin ProxyModes \ {"redirect"}
    BY DEF Null, NotCustom, RoutingModes, ProxyModes
  <1> DEFINE M == Active(MainTable, v)
  <1>2. /\ "main_node" \in M <=> v["routing_mode"] \in NotCustom
        /\ "main_urltest_nodes" \in M <=> v["routing_mode"] \in NotCustom /\ v["main_node"] \in {"urltest"}
    BY <1>1, MainEntries, ActiveOn
  <1>3. /\ "main_udp_node" \in M <=> v["routing_mode"] \in NotCustom /\ v["proxy_mode"] \in ProxyModes \ {"redirect"}
        /\ "main_udp_urltest_nodes" \in M <=>
             /\ v["routing_mode"] \in NotCustom /\ v["proxy_mode"] \in ProxyModes \ {"redirect"}
             /\ v["main_udp_node"] \in {"urltest"}
    <2>1. "routing_mode" # "proxy_mode"
      OBVIOUS
    <2> QED
      BY <1>1, <2>1, MainEntries, ActiveOn2
  <1> HIDE DEF M
  <1>4. /\ \A o \in DOMAIN MainTable : saved'[o] = IF o \in M THEN v[o] ELSE ""
        /\ \A o \in Nodes \cap DOMAIN MainTable : Kept(o)' <=> o \in M
    BY WhatIsKept DEF M
  <1>5. /\ {"main_node", "main_udp_node"} \subseteq DOMAIN MainTable
        /\ {"main_urltest_nodes", "main_udp_urltest_nodes"} \subseteq Nodes \cap DOMAIN MainTable
    BY MainEntries DEF Nodes
  <1> QED
    BY <1>2, <1>3, <1>4, <1>5

LEMMA RoutingNodeSaved ==
  ASSUME NEW v, Sends("routing_node", RoutingNodeTable, v)
  PROVE  saved'["node"] = "urltest" <=> Kept("urltest_nodes")'
  <1> DEFINE M == Active(RoutingNodeTable, v)
  <1>1. "node" \in M
    BY RoutingNodeEntries, ActiveAlways
  <1>2. "urltest_nodes" \in M <=> v["node"] \in {"urltest"}
    <2>1. Null \notin {"urltest"}
      BY DEF Null
    <2> QED
      BY <2>1, RoutingNodeEntries, ActiveOn
  <1> HIDE DEF M
  <1>3. /\ \A o \in DOMAIN RoutingNodeTable : saved'[o] = IF o \in M THEN v[o] ELSE ""
        /\ \A o \in Nodes \cap DOMAIN RoutingNodeTable : Kept(o)' <=> o \in M
    BY WhatIsKept DEF M
  <1>4. "node" \in DOMAIN RoutingNodeTable /\ "urltest_nodes" \in Nodes \cap DOMAIN RoutingNodeTable
    BY RoutingNodeEntries DEF Nodes
  <1> QED
    BY <1>1, <1>2, <1>3, <1>4

LEMMA ControlSaved ==
  ASSUME NEW v, Sends("control", ControlTable, v)
  PROVE  OneLanPolicy'
  <1>1. Null \notin {"except_listed"} /\ Null \notin {"listed_only"} /\ Null \notin {"1"} /\ Null \notin NotCustom
    BY DEF Null, NotCustom, RoutingModes
  <1>2. "lan_proxy_mode" # "ipv6_support" /\ "routing_mode" # "ipv6_support"
    OBVIOUS
  <1> DEFINE M == Active(ControlTable, v)
  <1>3. "routing_mode" \in M /\ "ipv6_support" \in M
    BY ControlEntries, ActiveAlways
  <1>4. /\ "lan_direct_mac_addrs" \in M <=> v["lan_proxy_mode"] \in {"except_listed"}
        /\ "lan_proxy_mac_addrs" \in M <=> v["lan_proxy_mode"] \in {"listed_only"}
    BY <1>1, ControlEntries, ActiveOn
  <1>5. "lan_global_proxy_mac_addrs" \in M <=> v["routing_mode"] \in NotCustom
    BY <1>1, ControlEntries, ActiveOn
  <1>6. ASSUME NEW o \in DOMAIN ControlTable, NEW k \in {"lan_proxy_mode", "routing_mode"}, NEW V, Null \notin V,
               ControlTable[k] = Always, ControlTable[o] = Ipv6With(k, V), o \in M
        PROVE  v["ipv6_support"] = "1"
    <2>1. ControlTable[o] = {On2(k, V, "ipv6_support", {"1"})} /\ k # "ipv6_support" /\ k \in DOMAIN ControlTable
      BY <1>6, ControlEntries DEF Ipv6With
    <2>3. "ipv6_support" \in DOMAIN ControlTable /\ ControlTable["ipv6_support"] = Always
      BY ControlEntries
    <2>4. PICK l, W : l = "ipv6_support" /\ W = {"1"}
      OBVIOUS
    <2>5. ControlTable[o] = {On2(k, V, l, W)} /\ Null \notin W /\ k # l /\ l \in DOMAIN ControlTable /\ ControlTable[l] = Always
      BY <2>1, <2>3, <2>4, <1>1
    <2>2. o \in M <=> v[k] \in V /\ v[l] \in W
      BY <2>1, <2>5, <1>6, ActiveOn2
    <2> QED
      BY <2>2, <2>4, <1>6
  <1>7. ControlTable["lan_proxy_mode"] = Always
    BY ControlEntries
  <1>8. \A o \in {"lan_direct_ipv6_ips", "lan_proxy_ipv6_ips", "lan_global_proxy_ipv6_ips"} : o \in M => v["ipv6_support"] = "1"
    BY <1>1, <1>6, <1>7, ControlEntries
  <1> HIDE DEF M
  <1>9. /\ \A o \in DOMAIN ControlTable : saved'[o] = IF o \in M THEN v[o] ELSE ""
        /\ \A o : Kept(o)' => o \in M
    BY WhatIsKept DEF M
  <1>10. saved'["routing_mode"] = v["routing_mode"] /\ saved'["ipv6_support"] = v["ipv6_support"]
    BY <1>3, <1>9, ControlEntries
  <1>11. ~(Kept("lan_direct_mac_addrs")' /\ Kept("lan_proxy_mac_addrs")')
    BY <1>4, <1>9
  <1>12. \A o \in {"lan_direct_ipv6_ips", "lan_proxy_ipv6_ips", "lan_global_proxy_ipv6_ips"} : Kept(o)' => saved'["ipv6_support"] = "1"
    BY <1>8, <1>9, <1>10
  <1>13. Kept("lan_global_proxy_mac_addrs")' => saved'["routing_mode"] # "custom"
    BY <1>5, <1>9, <1>10 DEF NotCustom
  <1> QED
    BY <1>11, <1>12, <1>13 DEF OneLanPolicy

LEMMA ClientNextInv == ClientInv /\ [ClientNext]_clientVars => ClientInv'
  <1>7. ASSUME ClientInv, UNCHANGED clientVars PROVE ClientInv'
    <2>1. RuleIsOfItsAction'
      BY <1>7 DEF clientVars, ClientInv, SavedMeansChosen, RuleIsOfItsAction, Kept
    <2>2. GroupHasNodes'
      BY <1>7 DEF clientVars, ClientInv, SavedMeansChosen, GroupHasNodes, Kept
    <2>3. OneLanPolicy'
      BY <1>7 DEF clientVars, ClientInv, SavedMeansChosen, OneLanPolicy, Kept
    <2> QED
      BY <2>1, <2>2, <2>3 DEF ClientInv, SavedMeansChosen
  <1> SUFFICES ASSUME ClientInv, ClientNext PROVE ClientInv'
    BY <1>7
  <1>1. PICK f, table, v : Sends(f, table, v)
    BY DEF ClientNext, SaveClient, Sends
  <1>2. /\ ClientTables["rule"] = RuleTable /\ ClientTables["dns_rule"] = DnsRuleTable
        /\ ClientTables["main"] = MainTable /\ ClientTables["routing_node"] = RoutingNodeTable
        /\ ClientTables["control"] = ControlTable
    BY DEF ClientTables
  <1>3. f = section' /\ table = ClientTables[f]
    BY <1>1 DEF Sends
  <1>4. RuleIsOfItsAction'
    <2>1. CASE f = "rule"
      BY <1>1, <1>2, <1>3, <2>1, RuleSaved
    <2>2. CASE f = "dns_rule"
      BY <1>1, <1>2, <1>3, <2>2, DnsRuleSaved
    <2>3. CASE f \notin {"rule", "dns_rule"}
      BY <1>3, <2>3 DEF RuleIsOfItsAction
    <2> QED
      BY <2>1, <2>2, <2>3
  <1>5. GroupHasNodes'
    <2>1. CASE f = "main"
      BY <1>1, <1>2, <1>3, <2>1, MainSaved DEF GroupHasNodes
    <2>2. CASE f = "routing_node"
      BY <1>1, <1>2, <1>3, <2>2, RoutingNodeSaved DEF GroupHasNodes
    <2>3. CASE f \notin {"main", "routing_node"}
      BY <1>3, <2>3 DEF GroupHasNodes
    <2> QED
      BY <2>1, <2>2, <2>3
  <1>6. OneLanPolicy'
    <2>1. CASE f = "control"
      BY <1>1, <1>2, <1>3, <2>1, ControlSaved
    <2>2. CASE f # "control"
      BY <1>3, <2>2 DEF OneLanPolicy
    <2> QED
      BY <2>1, <2>2
  <1> QED
    BY <1>4, <1>5, <1>6 DEF ClientInv, SavedMeansChosen

-----------------------------------------------------------------------------
(* Share links.                                                            *)

\* The options of the Hysteria protocols and what they depend on, from the parts of their table.
LEMMA HysteriaEntries ==
  /\ DOMAIN HysteriaTable =
       {"hysteria_auth_payload", "hysteria_obfs_type", "hysteria_obfs_password", "hysteria_hop_interval",
        "hysteria_hopping_port", "hysteria_down_mbps", "hysteria_up_mbps", "hysteria_protocol", "hysteria_auth_type",
        "hysteria_recv_window_conn", "hysteria_revc_window", "hysteria_disable_mtu_discovery"}
  /\ HysteriaTable["hysteria_auth_payload"] = {On2("type", {"hysteria"}, "hysteria_auth_type", {"base64", "string"})}
  /\ HysteriaTable["hysteria_obfs_type"] = Of({"hysteria2"})
  /\ HysteriaTable["hysteria_obfs_password"] = {On("type", {"hysteria"}), On2("type", {"hysteria2"}, "hysteria_obfs_type", {"salamander"})}
  /\ \A o \in {"hysteria_down_mbps", "hysteria_up_mbps"} : HysteriaTable[o] = Of({"hysteria", "hysteria2"})
  /\ \A o \in {"hysteria_protocol", "hysteria_auth_type"} : HysteriaTable[o] = Of({"hysteria"})
  <1>1. PICK r : r = [hysteria_auth_payload |-> {On2("type", {"hysteria"}, "hysteria_auth_type", {"base64", "string"})},
                      hysteria_obfs_type |-> Of({"hysteria2"}),
                      hysteria_obfs_password |-> {On("type", {"hysteria"}), On2("type", {"hysteria2"}, "hysteria_obfs_type", {"salamander"})},
                      hysteria_hop_interval |-> {On2("type", {"hysteria", "hysteria2"}, "hysteria_hopping_port", {"set"})}]
    OBVIOUS
  <1>2. DOMAIN r = {"hysteria_auth_payload", "hysteria_obfs_type", "hysteria_obfs_password", "hysteria_hop_interval"}
    BY Zenon, <1>1
  <1>3. /\ r["hysteria_auth_payload"] = {On2("type", {"hysteria"}, "hysteria_auth_type", {"base64", "string"})}
        /\ r["hysteria_obfs_type"] = Of({"hysteria2"})
        /\ r["hysteria_obfs_password"] = {On("type", {"hysteria"}), On2("type", {"hysteria2"}, "hysteria_obfs_type", {"salamander"})}
    BY Zenon, <1>1
  <1>4. PICK x, y : /\ x = Each({"hysteria_hopping_port", "hysteria_down_mbps", "hysteria_up_mbps"}, Of({"hysteria", "hysteria2"}))
                    /\ y = Each({"hysteria_protocol", "hysteria_auth_type", "hysteria_recv_window_conn", "hysteria_revc_window",
                                 "hysteria_disable_mtu_discovery"}, Of({"hysteria"}))
    OBVIOUS
  <1>5. HysteriaTable = (r ++ x) ++ y
    BY Zenon, <1>1, <1>4 DEF HysteriaTable
  <1>6. /\ DOMAIN x = {"hysteria_hopping_port", "hysteria_down_mbps", "hysteria_up_mbps"}
        /\ \A o \in DOMAIN x : x[o] = Of({"hysteria", "hysteria2"})
    BY <1>4 DEF Each
  <1>7. /\ DOMAIN y = {"hysteria_protocol", "hysteria_auth_type", "hysteria_recv_window_conn", "hysteria_revc_window",
                      "hysteria_disable_mtu_discovery"}
        /\ \A o \in DOMAIN y : y[o] = Of({"hysteria"})
    BY <1>4 DEF Each
  <1>8. \A o \in DOMAIN r : HysteriaTable[o] = r[o]
    BY <1>5, Joined
  <1>9. \A o \in DOMAIN x \ DOMAIN r : HysteriaTable[o] = x[o]
    BY <1>5, Joined
  <1>10. \A o \in DOMAIN y \ (DOMAIN x \cup DOMAIN r) : HysteriaTable[o] = y[o]
    BY <1>5, Joined
  <1>11. \A o \in {"hysteria_down_mbps", "hysteria_up_mbps"} : HysteriaTable[o] = Of({"hysteria", "hysteria2"})
    BY <1>2, <1>6, <1>9
  <1>12. \A o \in {"hysteria_protocol", "hysteria_auth_type"} : HysteriaTable[o] = Of({"hysteria"})
    BY <1>2, <1>6, <1>7, <1>10
  <1>13. \A o \in {"hysteria_auth_payload", "hysteria_obfs_type", "hysteria_obfs_password"} : HysteriaTable[o] = r[o]
    BY <1>2, <1>8
  <1>14. DOMAIN HysteriaTable =
           {"hysteria_auth_payload", "hysteria_obfs_type", "hysteria_obfs_password", "hysteria_hop_interval",
            "hysteria_hopping_port", "hysteria_down_mbps", "hysteria_up_mbps", "hysteria_protocol", "hysteria_auth_type",
            "hysteria_recv_window_conn", "hysteria_revc_window", "hysteria_disable_mtu_discovery"}
    <2>1. DOMAIN HysteriaTable = DOMAIN r \cup DOMAIN x \cup DOMAIN y
      BY <1>5 DEF ++
    <2> QED
      BY <1>2, <1>6, <1>7, <2>1
  <1> QED
    BY <1>3, <1>11, <1>12, <1>13, <1>14

\* The options of the tables the dialog of a node is joined from: no option is in two.
LEMMA NodeDomains ==
  /\ DOMAIN AuthTable = {"type", "username", "password", "address", "port"}
  /\ DOMAIN HysteriaTable =
       {"hysteria_auth_payload", "hysteria_obfs_type", "hysteria_obfs_password", "hysteria_hop_interval",
        "hysteria_hopping_port", "hysteria_down_mbps", "hysteria_up_mbps", "hysteria_protocol", "hysteria_auth_type",
        "hysteria_recv_window_conn", "hysteria_revc_window", "hysteria_disable_mtu_discovery"}
  /\ DOMAIN ShadowTable =
       {"shadowtls_version", "socks_version", "shadowsocks_plugin_opts", "shadowsocks_encrypt_method", "shadowsocks_plugin",
        "ssh_client_version", "ssh_host_key", "ssh_host_key_algo", "ssh_priv_key", "ssh_priv_key_pp"}
  /\ DOMAIN V2rayTable =
       {"uuid", "vless_flow", "tuic_udp_over_stream", "tuic_congestion_control", "tuic_udp_relay_mode",
        "tuic_enable_zero_rtt", "tuic_heartbeat", "vmess_alterid", "vmess_encrypt", "vmess_global_padding",
        "vmess_authenticated_length"}
  /\ DOMAIN TransportTable =
       {"transport", "packet_encoding", "httpupgrade_host", "http_path", "grpc_servicename", "grpc_permit_without_stream",
        "http_host", "http_method", "http_idle_timeout", "http_ping_timeout", "ws_host", "ws_path",
        "websocket_early_data", "websocket_early_data_header"}
  /\ DOMAIN WireguardTable =
       {"wireguard_local_address", "wireguard_private_key", "wireguard_peer_public_key",
        "wireguard_pre_shared_key", "wireguard_reserved", "wireguard_mtu"}
  /\ DOMAIN MuxTable =
       {"multiplex", "udp_over_tcp", "udp_over_tcp_version", "multiplex_protocol", "multiplex_max_connections",
        "multiplex_padding", "multiplex_brutal", "multiplex_brutal_down", "multiplex_brutal_up"}
  /\ DOMAIN TlsTable =
       {"tls", "tls_self_sign", "tls_cert_path", "tls_ech_config_path", "tls_utls", "tls_reality", "tls_sni", "tls_alpn",
        "tls_insecure", "tls_min_version", "tls_max_version", "tls_cipher_suites", "tls_ech",
        "tls_reality_public_key", "tls_reality_short_id"}
  <1>1. DOMAIN AuthTable = {"type", "username", "password", "address", "port"}
    BY Zenon DEF AuthTable, ++, Each
  <1>2. DOMAIN HysteriaTable =
       {"hysteria_auth_payload", "hysteria_obfs_type", "hysteria_obfs_password", "hysteria_hop_interval",
        "hysteria_hopping_port", "hysteria_down_mbps", "hysteria_up_mbps", "hysteria_protocol", "hysteria_auth_type",
        "hysteria_recv_window_conn", "hysteria_revc_window", "hysteria_disable_mtu_discovery"}
    BY HysteriaEntries
  <1>3. DOMAIN ShadowTable =
       {"shadowtls_version", "socks_version", "shadowsocks_plugin_opts", "shadowsocks_encrypt_method", "shadowsocks_plugin",
        "ssh_client_version", "ssh_host_key", "ssh_host_key_algo", "ssh_priv_key", "ssh_priv_key_pp"}
    BY Zenon DEF ShadowTable, ++, Each
  <1>4. DOMAIN V2rayTable =
       {"uuid", "vless_flow", "tuic_udp_over_stream", "tuic_congestion_control", "tuic_udp_relay_mode",
        "tuic_enable_zero_rtt", "tuic_heartbeat", "vmess_alterid", "vmess_encrypt", "vmess_global_padding",
        "vmess_authenticated_length"}
    BY Zenon DEF V2rayTable, ++, Each
  <1>5. DOMAIN TransportTable =
       {"transport", "packet_encoding", "httpupgrade_host", "http_path", "grpc_servicename", "grpc_permit_without_stream",
        "http_host", "http_method", "http_idle_timeout", "http_ping_timeout", "ws_host", "ws_path",
        "websocket_early_data", "websocket_early_data_header"}
    <2>1. PICK r : r = [transport |-> Of(Streamed), packet_encoding |-> Of({"vless", "vmess"}),
                        httpupgrade_host |-> Transport({"httpupgrade"}),
                        http_path |-> Transport({"http", "httpupgrade"})]
      OBVIOUS
    <2>2. DOMAIN r = {"transport", "packet_encoding", "httpupgrade_host", "http_path"}
      BY Zenon, <2>1
    <2>3. DOMAIN TransportTable =
            DOMAIN r \cup {"grpc_servicename", "grpc_permit_without_stream"} \cup {"http_host", "http_method"}
            \cup {"http_idle_timeout", "http_ping_timeout"}
            \cup {"ws_host", "ws_path", "websocket_early_data", "websocket_early_data_header"}
      BY Zenon, <2>1 DEF TransportTable, ++, Each
    <2> QED
      BY <2>2, <2>3
  <1>6. DOMAIN WireguardTable =
       {"wireguard_local_address", "wireguard_private_key", "wireguard_peer_public_key",
        "wireguard_pre_shared_key", "wireguard_reserved", "wireguard_mtu"}
    BY Zenon DEF WireguardTable, ++, Each
  <1>7. DOMAIN MuxTable =
       {"multiplex", "udp_over_tcp", "udp_over_tcp_version", "multiplex_protocol", "multiplex_max_connections",
        "multiplex_padding", "multiplex_brutal", "multiplex_brutal_down", "multiplex_brutal_up"}
    BY Zenon DEF MuxTable, ++, Each
  <1>8. DOMAIN TlsTable =
       {"tls", "tls_self_sign", "tls_cert_path", "tls_ech_config_path", "tls_utls", "tls_reality", "tls_sni", "tls_alpn",
        "tls_insecure", "tls_min_version", "tls_max_version", "tls_cipher_suites", "tls_ech",
        "tls_reality_public_key", "tls_reality_short_id"}
    BY Zenon DEF TlsTable, ++, Each
  <1> QED
    BY <1>1, <1>2, <1>3, <1>4, <1>5, <1>6, <1>7, <1>8

\* Every option of a table is in the dialog as the table says.
LEMMA NodeEntry ==
  ASSUME NEW o
  PROVE  /\ o \in DOMAIN AuthTable => o \in DOMAIN NodeTable /\ NodeTable[o] = AuthTable[o]
         /\ o \in DOMAIN HysteriaTable => o \in DOMAIN NodeTable /\ NodeTable[o] = HysteriaTable[o]
         /\ o \in DOMAIN ShadowTable => o \in DOMAIN NodeTable /\ NodeTable[o] = ShadowTable[o]
         /\ o \in DOMAIN V2rayTable => o \in DOMAIN NodeTable /\ NodeTable[o] = V2rayTable[o]
         /\ o \in DOMAIN TransportTable => o \in DOMAIN NodeTable /\ NodeTable[o] = TransportTable[o]
         /\ o \in DOMAIN TlsTable => o \in DOMAIN NodeTable /\ NodeTable[o] = TlsTable[o]
  <1>1. PICK t, u, w, x, y, z :
          /\ t = AuthTable ++ HysteriaTable /\ u = t ++ ShadowTable /\ w = u ++ V2rayTable
          /\ x = w ++ TransportTable /\ y = x ++ WireguardTable /\ z = y ++ MuxTable
    OBVIOUS
  <1>2. NodeTable = z ++ TlsTable
    BY <1>1 DEF NodeTable
  <1>t. /\ o \in DOMAIN t <=> o \in DOMAIN AuthTable \/ o \in DOMAIN HysteriaTable
        /\ o \in DOMAIN AuthTable => t[o] = AuthTable[o]
        /\ o \in DOMAIN HysteriaTable /\ o \notin DOMAIN AuthTable => t[o] = HysteriaTable[o]
    BY <1>1, Joined
  <1>u. /\ o \in DOMAIN u <=> o \in DOMAIN t \/ o \in DOMAIN ShadowTable
        /\ o \in DOMAIN t => u[o] = t[o]
        /\ o \in DOMAIN ShadowTable /\ o \notin DOMAIN t => u[o] = ShadowTable[o]
    BY <1>1, Joined
  <1>w. /\ o \in DOMAIN w <=> o \in DOMAIN u \/ o \in DOMAIN V2rayTable
        /\ o \in DOMAIN u => w[o] = u[o]
        /\ o \in DOMAIN V2rayTable /\ o \notin DOMAIN u => w[o] = V2rayTable[o]
    BY <1>1, Joined
  <1>x. /\ o \in DOMAIN x <=> o \in DOMAIN w \/ o \in DOMAIN TransportTable
        /\ o \in DOMAIN w => x[o] = w[o]
        /\ o \in DOMAIN TransportTable /\ o \notin DOMAIN w => x[o] = TransportTable[o]
    BY <1>1, Joined
  <1>y. /\ o \in DOMAIN y <=> o \in DOMAIN x \/ o \in DOMAIN WireguardTable
        /\ o \in DOMAIN x => y[o] = x[o]
    BY <1>1, Joined
  <1>z. /\ o \in DOMAIN z <=> o \in DOMAIN y \/ o \in DOMAIN MuxTable
        /\ o \in DOMAIN y => z[o] = y[o]
    BY <1>1, Joined
  <1>n. /\ o \in DOMAIN NodeTable <=> o \in DOMAIN z \/ o \in DOMAIN TlsTable
        /\ o \in DOMAIN z => NodeTable[o] = z[o]
        /\ o \in DOMAIN TlsTable /\ o \notin DOMAIN z => NodeTable[o] = TlsTable[o]
    BY <1>2, Joined
  <1>3. /\ o \in DOMAIN HysteriaTable => o \notin DOMAIN AuthTable
        /\ o \in DOMAIN ShadowTable => o \notin DOMAIN AuthTable /\ o \notin DOMAIN HysteriaTable
    BY NodeDomains
  <1>4. o \in DOMAIN V2rayTable =>
          o \notin DOMAIN AuthTable /\ o \notin DOMAIN HysteriaTable /\ o \notin DOMAIN ShadowTable
    BY NodeDomains
  <1>5. o \in DOMAIN TransportTable =>
          /\ o \notin DOMAIN AuthTable /\ o \notin DOMAIN HysteriaTable /\ o \notin DOMAIN ShadowTable
          /\ o \notin DOMAIN V2rayTable
    BY NodeDomains
  <1>6. o \in DOMAIN TlsTable =>
          /\ o \notin DOMAIN AuthTable /\ o \notin DOMAIN HysteriaTable /\ o \notin DOMAIN ShadowTable
          /\ o \notin DOMAIN V2rayTable /\ o \notin DOMAIN TransportTable /\ o \notin DOMAIN WireguardTable
          /\ o \notin DOMAIN MuxTable
    BY NodeDomains
  <1> QED
    BY Zenon, <1>t, <1>u, <1>w, <1>x, <1>y, <1>z, <1>n, <1>3, <1>4, <1>5, <1>6
\* What the dependencies of the options are that a share link sets.
LEMMA AuthEntries ==
  /\ AuthTable["type"] = Always
  /\ AuthTable["username"] = Of({"http", "socks", "ssh"})
  /\ AuthTable["password"] = {On("type", {"anytls", "http", "hysteria2", "shadowsocks", "ssh", "trojan", "tuic"}),
                             On2("type", {"shadowtls"}, "shadowtls_version", {"2", "3"}),
                             On2("type", {"socks"}, "socks_version", {"5"})}
  <1>1. AuthTable["type"] = Always
    BY Zenon DEF AuthTable, ++, Each
  <1>2. AuthTable["username"] = Of({"http", "socks", "ssh"})
    BY Zenon DEF AuthTable, ++, Each
  <1>3. AuthTable["password"] = {On("type", {"anytls", "http", "hysteria2", "shadowsocks", "ssh", "trojan", "tuic"}),
                             On2("type", {"shadowtls"}, "shadowtls_version", {"2", "3"}),
                             On2("type", {"socks"}, "socks_version", {"5"})}
    BY Zenon DEF AuthTable, ++, Each
  <1> QED
    BY <1>1, <1>2, <1>3

LEMMA ShadowEntries ==
  /\ ShadowTable["socks_version"] = Of({"socks"})
  /\ ShadowTable["shadowsocks_plugin_opts"] = {On("shadowsocks_plugin", {"obfs-local", "v2ray-plugin"})}
  /\ \A o \in {"shadowsocks_encrypt_method", "shadowsocks_plugin"} : ShadowTable[o] = Of({"shadowsocks"})
  <1>1. ShadowTable["socks_version"] = Of({"socks"})
    BY Zenon DEF ShadowTable, ++, Each
  <1>2. ShadowTable["shadowsocks_plugin_opts"] = {On("shadowsocks_plugin", {"obfs-local", "v2ray-plugin"})}
    BY Zenon DEF ShadowTable, ++, Each
  <1>3. \A o \in {"shadowsocks_encrypt_method", "shadowsocks_plugin"} : ShadowTable[o] = Of({"shadowsocks"})
    BY Zenon DEF ShadowTable, ++, Each
  <1> QED
    BY <1>1, <1>2, <1>3

LEMMA V2rayEntries ==
  /\ V2rayTable["uuid"] = Of({"tuic", "vless", "vmess"})
  /\ V2rayTable["vless_flow"] = Of({"vless"})
  /\ \A o \in {"tuic_congestion_control", "tuic_udp_relay_mode"} : V2rayTable[o] = Of({"tuic"})
  /\ \A o \in {"vmess_alterid", "vmess_encrypt"} : V2rayTable[o] = Of({"vmess"})
  <1>1. V2rayTable["uuid"] = Of({"tuic", "vless", "vmess"})
    BY Zenon DEF V2rayTable, ++, Each
  <1>2. V2rayTable["vless_flow"] = Of({"vless"})
    BY Zenon DEF V2rayTable, ++, Each
  <1>3. \A o \in {"tuic_congestion_control", "tuic_udp_relay_mode"} : V2rayTable[o] = Of({"tuic"})
    BY Zenon DEF V2rayTable, ++, Each
  <1>4. \A o \in {"vmess_alterid", "vmess_encrypt"} : V2rayTable[o] = Of({"vmess"})
    BY Zenon DEF V2rayTable, ++, Each
  <1> QED
    BY <1>1, <1>2, <1>3, <1>4

LEMMA TransportEntries ==
  /\ TransportTable["transport"] = Of(Streamed)
  /\ TransportTable["packet_encoding"] = Of({"vless", "vmess"})
  /\ TransportTable["httpupgrade_host"] = Transport({"httpupgrade"})
  /\ TransportTable["http_path"] = Transport({"http", "httpupgrade"})
  /\ TransportTable["grpc_servicename"] = Transport({"grpc"})
  /\ TransportTable["http_host"] = Transport({"http"})
  /\ \A o \in {"ws_host", "ws_path", "websocket_early_data", "websocket_early_data_header"} : TransportTable[o] = Transport({"ws"})
  <1>1. TransportTable["transport"] = Of(Streamed)
    BY Zenon DEF TransportTable, ++, Each
  <1>2. TransportTable["packet_encoding"] = Of({"vless", "vmess"})
    BY Zenon DEF TransportTable, ++, Each
  <1>3. TransportTable["httpupgrade_host"] = Transport({"httpupgrade"})
    BY Zenon DEF TransportTable, ++, Each
  <1>4. TransportTable["http_path"] = Transport({"http", "httpupgrade"})
    BY Zenon DEF TransportTable, ++, Each
  <1>5. TransportTable["grpc_servicename"] = Transport({"grpc"})
    BY Zenon DEF TransportTable, ++, Each
  <1>6. TransportTable["http_host"] = Transport({"http"})
    BY Zenon DEF TransportTable, ++, Each
  <1>7. \A o \in {"ws_host", "ws_path", "websocket_early_data", "websocket_early_data_header"} : TransportTable[o] = Transport({"ws"})
    BY Zenon DEF TransportTable, ++, Each
  <1> QED
    BY <1>1, <1>2, <1>3, <1>4, <1>5, <1>6, <1>7

LEMMA NodeTlsEntries ==
  /\ TlsTable["tls"] = Of(Forced \cup Streamed \cup {"http"})
  /\ TlsTable["tls_utls"] = {On2("tls", {"1"}, "type", NodeTypes \ {"hysteria", "hysteria2", "tuic"})}
  /\ TlsTable["tls_reality"] = {On2("tls", {"1"}, "type", {"anytls", "vless"})}
  /\ \A o \in {"tls_sni", "tls_alpn", "tls_insecure"} : TlsTable[o] = {On("tls", {"1"})}
  /\ \A o \in {"tls_reality_public_key", "tls_reality_short_id"} : TlsTable[o] = {On("tls_reality", {"1"})}
  <1>1. TlsTable["tls"] = Of(Forced \cup Streamed \cup {"http"})
    BY Zenon DEF TlsTable, ++, Each
  <1>2. TlsTable["tls_utls"] = {On2("tls", {"1"}, "type", NodeTypes \ {"hysteria", "hysteria2", "tuic"})}
    BY Zenon DEF TlsTable, ++, Each
  <1>3. TlsTable["tls_reality"] = {On2("tls", {"1"}, "type", {"anytls", "vless"})}
    BY Zenon DEF TlsTable, ++, Each
  <1>4. \A o \in {"tls_sni", "tls_alpn", "tls_insecure"} : TlsTable[o] = {On("tls", {"1"})}
    BY Zenon DEF TlsTable, ++, Each
  <1>5. \A o \in {"tls_reality_public_key", "tls_reality_short_id"} : TlsTable[o] = {On("tls_reality", {"1"})}
    BY Zenon DEF TlsTable, ++, Each
  <1> QED
    BY <1>1, <1>2, <1>3, <1>4, <1>5

\* An option is one of a type if the type alone is enough for it to be there.
Belongs(o, t) == o \in DOMAIN NodeTable /\ \E S : On("type", S) \in NodeTable[o] /\ t \in S

\* The options that belong to the types a share link can be of.
LEMMA TypesHave ==
  /\ \A o \in {"password", "tls"} : Belongs(o, "anytls")
  /\ \A o \in {"username", "password", "tls"} : Belongs(o, "http")
  /\ \A o \in {"hysteria_protocol", "hysteria_auth_type", "hysteria_obfs_password", "hysteria_down_mbps", "hysteria_up_mbps", "tls"} : Belongs(o, "hysteria")
  /\ \A o \in {"password", "hysteria_obfs_type", "tls"} : Belongs(o, "hysteria2")
  /\ \A o \in {"username", "socks_version"} : Belongs(o, "socks")
  /\ \A o \in {"shadowsocks_encrypt_method", "password", "shadowsocks_plugin"} : Belongs(o, "shadowsocks")
  /\ \A o \in {"password", "transport", "tls"} : Belongs(o, "trojan")
  /\ \A o \in {"uuid", "password", "tuic_congestion_control", "tuic_udp_relay_mode", "tls"} : Belongs(o, "tuic")
  /\ \A o \in {"uuid", "transport", "tls", "vless_flow", "packet_encoding"} : Belongs(o, "vless")
  /\ \A o \in {"uuid", "vmess_alterid", "vmess_encrypt", "transport", "tls", "packet_encoding"} : Belongs(o, "vmess")
  <1>1. \A o \in DOMAIN AuthTable : o \in DOMAIN NodeTable /\ NodeTable[o] = AuthTable[o]
    BY NodeEntry
  <1>2. \A o \in DOMAIN HysteriaTable : o \in DOMAIN NodeTable /\ NodeTable[o] = HysteriaTable[o]
    BY NodeEntry
  <1>3. \A o \in DOMAIN ShadowTable : o \in DOMAIN NodeTable /\ NodeTable[o] = ShadowTable[o]
    BY NodeEntry
  <1>4. \A o \in DOMAIN V2rayTable : o \in DOMAIN NodeTable /\ NodeTable[o] = V2rayTable[o]
    BY NodeEntry
  <1>5. \A o \in DOMAIN TransportTable : o \in DOMAIN NodeTable /\ NodeTable[o] = TransportTable[o]
    BY NodeEntry
  <1>6. \A o \in DOMAIN TlsTable : o \in DOMAIN NodeTable /\ NodeTable[o] = TlsTable[o]
    BY NodeEntry
  <1>7. \A o \in {"password", "tls"} : Belongs(o, "anytls")
    <2>1. \A o \in {"password"} : Belongs(o, "anytls")
      BY <1>1, NodeDomains, AuthEntries DEF Belongs, Of
    <2>2. \A o \in {"tls"} : Belongs(o, "anytls")
      BY <1>6, NodeDomains, NodeTlsEntries DEF Belongs, Of, Streamed, Forced
    <2> QED
      BY <2>1, <2>2
  <1>8. \A o \in {"username", "password", "tls"} : Belongs(o, "http")
    <2>1. \A o \in {"username", "password"} : Belongs(o, "http")
      BY <1>1, NodeDomains, AuthEntries DEF Belongs, Of
    <2>2. \A o \in {"tls"} : Belongs(o, "http")
      BY <1>6, NodeDomains, NodeTlsEntries DEF Belongs, Of, Streamed, Forced
    <2> QED
      BY <2>1, <2>2
  <1>9. \A o \in {"hysteria_protocol", "hysteria_auth_type", "hysteria_obfs_password", "hysteria_down_mbps", "hysteria_up_mbps", "tls"} : Belongs(o, "hysteria")
    <2>1. \A o \in {"hysteria_protocol", "hysteria_auth_type", "hysteria_obfs_password", "hysteria_down_mbps", "hysteria_up_mbps"} : Belongs(o, "hysteria")
      BY <1>2, NodeDomains, HysteriaEntries DEF Belongs, Of
    <2>2. \A o \in {"tls"} : Belongs(o, "hysteria")
      BY <1>6, NodeDomains, NodeTlsEntries DEF Belongs, Of, Streamed, Forced
    <2> QED
      BY <2>1, <2>2
  <1>10. \A o \in {"password", "hysteria_obfs_type", "tls"} : Belongs(o, "hysteria2")
    <2>1. \A o \in {"password"} : Belongs(o, "hysteria2")
      BY <1>1, NodeDomains, AuthEntries DEF Belongs, Of
    <2>2. \A o \in {"hysteria_obfs_type"} : Belongs(o, "hysteria2")
      BY <1>2, NodeDomains, HysteriaEntries DEF Belongs, Of
    <2>3. \A o \in {"tls"} : Belongs(o, "hysteria2")
      BY <1>6, NodeDomains, NodeTlsEntries DEF Belongs, Of, Streamed, Forced
    <2> QED
      BY <2>1, <2>2, <2>3
  <1>11. \A o \in {"username", "socks_version"} : Belongs(o, "socks")
    <2>1. \A o \in {"username"} : Belongs(o, "socks")
      BY <1>1, NodeDomains, AuthEntries DEF Belongs, Of
    <2>2. \A o \in {"socks_version"} : Belongs(o, "socks")
      BY <1>3, NodeDomains, ShadowEntries DEF Belongs, Of
    <2> QED
      BY <2>1, <2>2
  <1>12. \A o \in {"shadowsocks_encrypt_method", "password", "shadowsocks_plugin"} : Belongs(o, "shadowsocks")
    <2>1. \A o \in {"shadowsocks_encrypt_method", "shadowsocks_plugin"} : Belongs(o, "shadowsocks")
      BY <1>3, NodeDomains, ShadowEntries DEF Belongs, Of
    <2>2. \A o \in {"password"} : Belongs(o, "shadowsocks")
      BY <1>1, NodeDomains, AuthEntries DEF Belongs, Of
    <2> QED
      BY <2>1, <2>2
  <1>13. \A o \in {"password", "transport", "tls"} : Belongs(o, "trojan")
    <2>1. \A o \in {"password"} : Belongs(o, "trojan")
      BY <1>1, NodeDomains, AuthEntries DEF Belongs, Of
    <2>2. \A o \in {"transport"} : Belongs(o, "trojan")
      BY <1>5, NodeDomains, TransportEntries DEF Belongs, Of, Streamed
    <2>3. \A o \in {"tls"} : Belongs(o, "trojan")
      BY <1>6, NodeDomains, NodeTlsEntries DEF Belongs, Of, Streamed, Forced
    <2> QED
      BY <2>1, <2>2, <2>3
  <1>14. \A o \in {"uuid", "password", "tuic_congestion_control", "tuic_udp_relay_mode", "tls"} : Belongs(o, "tuic")
    <2>1. \A o \in {"uuid", "tuic_congestion_control", "tuic_udp_relay_mode"} : Belongs(o, "tuic")
      BY <1>4, NodeDomains, V2rayEntries DEF Belongs, Of
    <2>2. \A o \in {"password"} : Belongs(o, "tuic")
      BY <1>1, NodeDomains, AuthEntries DEF Belongs, Of
    <2>3. \A o \in {"tls"} : Belongs(o, "tuic")
      BY <1>6, NodeDomains, NodeTlsEntries DEF Belongs, Of, Streamed, Forced
    <2> QED
      BY <2>1, <2>2, <2>3
  <1>15. \A o \in {"uuid", "transport", "tls", "vless_flow", "packet_encoding"} : Belongs(o, "vless")
    <2>1. \A o \in {"uuid", "vless_flow"} : Belongs(o, "vless")
      BY <1>4, NodeDomains, V2rayEntries DEF Belongs, Of
    <2>2. \A o \in {"transport", "packet_encoding"} : Belongs(o, "vless")
      BY <1>5, NodeDomains, TransportEntries DEF Belongs, Of, Streamed
    <2>3. \A o \in {"tls"} : Belongs(o, "vless")
      BY <1>6, NodeDomains, NodeTlsEntries DEF Belongs, Of, Streamed, Forced
    <2> QED
      BY <2>1, <2>2, <2>3
  <1>16. \A o \in {"uuid", "vmess_alterid", "vmess_encrypt", "transport", "tls", "packet_encoding"} : Belongs(o, "vmess")
    <2>1. \A o \in {"uuid", "vmess_alterid", "vmess_encrypt"} : Belongs(o, "vmess")
      BY <1>4, NodeDomains, V2rayEntries DEF Belongs, Of
    <2>2. \A o \in {"transport", "packet_encoding"} : Belongs(o, "vmess")
      BY <1>5, NodeDomains, TransportEntries DEF Belongs, Of, Streamed
    <2>3. \A o \in {"tls"} : Belongs(o, "vmess")
      BY <1>6, NodeDomains, NodeTlsEntries DEF Belongs, Of, Streamed, Forced
    <2> QED
      BY <2>1, <2>2, <2>3
  <1> QED
    BY <1>7, <1>8, <1>9, <1>10, <1>11, <1>12, <1>13, <1>14, <1>15, <1>16
\* A look finds an option one alternative of which holds of what is there.
LEMMA LookHolds ==
  ASSUME NEW table, NEW v, NEW A, NEW o \in DOMAIN table, NEW d \in table[o],
         \A k \in DOMAIN d : k \in A /\ v[k] \in d[k]
  PROVE  o \in Look(table, v, A)
  BY DEF Look

LEMMA LookOnHolds ==
  ASSUME NEW table, NEW v, NEW A, NEW o \in DOMAIN table, NEW k \in A, NEW V, On(k, V) \in table[o], v[k] \in V
  PROVE  o \in Look(table, v, A)
  <1>1. PICK d \in table[o] : d = On(k, V)
    OBVIOUS
  <1>2. DOMAIN d = {k} /\ d[k] = V
    BY <1>1 DEF On
  <1> QED
    BY <1>2, LookHolds

LEMMA LookOn2Holds ==
  ASSUME NEW table, NEW v, NEW A, NEW o \in DOMAIN table, NEW k \in A, NEW V, NEW l \in A, NEW W, k # l,
         On2(k, V, l, W) \in table[o], v[k] \in V, v[l] \in W
  PROVE  o \in Look(table, v, A)
  <1>1. PICK d \in table[o] : d = On2(k, V, l, W)
    OBVIOUS
  <1>2. DOMAIN d = {k, l} /\ d[k] = V /\ d[l] = W
    BY <1>1 DEF On2
  <1> QED
    BY <1>2, LookHolds

\* What the dialog of a node shows, group by group: what its type has, what hangs on the
\* version, the authentication, the plugin or TLS, and the options of its transport.
Early == {"websocket_early_data", "websocket_early_data_header"}
Plugins == {"obfs-local", "v2ray-plugin"}
TlsPlain == {"tls_sni", "tls_alpn", "tls_insecure"}
RealityKeys == {"tls_reality_public_key", "tls_reality_short_id"}

LEMMA NodeShows ==
  ASSUME NEW v, NEW M, M = Active(NodeTable, v)
  PROVE  /\ "type" \in M
         /\ \A o : Belongs(o, v["type"]) => o \in M
         /\ v["type"] = "socks" /\ v["socks_version"] = "5" => "password" \in M
         /\ v["type"] = "hysteria" /\ v["hysteria_auth_type"] = "string" => "hysteria_auth_payload" \in M
         /\ v["type"] = "hysteria2" /\ v["hysteria_obfs_type"] = "salamander" => "hysteria_obfs_password" \in M
         /\ v["type"] = "shadowsocks" /\ v["shadowsocks_plugin"] \in Plugins => "shadowsocks_plugin_opts" \in M
         /\ Belongs("tls", v["type"]) /\ v["tls"] = "1" =>
              /\ TlsPlain \subseteq M
              /\ v["type"] \in {"vless", "vmess"} => "tls_utls" \in M
              /\ v["type"] = "vless" => "tls_reality" \in M /\ (v["tls_reality"] = "1" => RealityKeys \subseteq M)
         /\ Belongs("transport", v["type"]) =>
              /\ v["transport"] = "grpc" => "grpc_servicename" \in M
              /\ v["transport"] = "http" => {"http_host", "http_path"} \subseteq M
              /\ v["transport"] = "httpupgrade" => {"httpupgrade_host", "http_path"} \subseteq M
              /\ v["transport"] = "ws" => {"ws_host", "ws_path"} \cup Early \subseteq M
  <1>1. PICK A, B, C, D, E : /\ M = Look(NodeTable, v, A)
                             /\ A = Look(NodeTable, v, B) /\ B = Look(NodeTable, v, C)
                             /\ C = Look(NodeTable, v, D) /\ D = Look(NodeTable, v, E)
    BY Looks
  <1>2. ASSUME NEW L PROVE "type" \in Look(NodeTable, v, L)
    BY NodeDomains, NodeEntry, AuthEntries, LookAlways
  <1>3. "type" \in M /\ "type" \in A /\ "type" \in B /\ "type" \in C
    BY <1>1, <1>2
  <1>4. ASSUME NEW L, "type" \in L, NEW o, Belongs(o, v["type"]) PROVE o \in Look(NodeTable, v, L)
    BY <1>4, LookOnHolds DEF Belongs
  <1>5. ASSUME NEW o, Belongs(o, v["type"]) PROVE o \in M /\ o \in A /\ o \in B
    BY <1>1, <1>3, <1>4, <1>5
  <1>6. ASSUME v["type"] = "socks", v["socks_version"] = "5" PROVE "password" \in M
    <2>1. "socks_version" \in A
      BY <1>5, <1>6, TypesHave
    <2>2. "password" \in DOMAIN NodeTable /\ On2("type", {"socks"}, "socks_version", {"5"}) \in NodeTable["password"]
      BY NodeDomains, NodeEntry, AuthEntries
    <2> QED
      BY <1>1, <1>3, <1>6, <2>1, <2>2, LookOn2Holds
  <1>7. ASSUME v["type"] = "hysteria", v["hysteria_auth_type"] = "string" PROVE "hysteria_auth_payload" \in M
    <2>1. "hysteria_auth_type" \in A
      BY <1>5, <1>7, TypesHave
    <2>2. /\ "hysteria_auth_payload" \in DOMAIN NodeTable
          /\ On2("type", {"hysteria"}, "hysteria_auth_type", {"base64", "string"}) \in NodeTable["hysteria_auth_payload"]
      BY NodeDomains, NodeEntry, HysteriaEntries
    <2> QED
      BY <1>1, <1>3, <1>7, <2>1, <2>2, LookOn2Holds
  <1>8. ASSUME v["type"] = "hysteria2", v["hysteria_obfs_type"] = "salamander" PROVE "hysteria_obfs_password" \in M
    <2>1. "hysteria_obfs_type" \in A
      BY <1>5, <1>8, TypesHave
    <2>2. /\ "hysteria_obfs_password" \in DOMAIN NodeTable
          /\ On2("type", {"hysteria2"}, "hysteria_obfs_type", {"salamander"}) \in NodeTable["hysteria_obfs_password"]
      BY NodeDomains, NodeEntry, HysteriaEntries
    <2> QED
      BY <1>1, <1>3, <1>8, <2>1, <2>2, LookOn2Holds
  <1>9. ASSUME v["type"] = "shadowsocks", v["shadowsocks_plugin"] \in Plugins PROVE "shadowsocks_plugin_opts" \in M
    <2>1. "shadowsocks_plugin" \in A
      BY <1>5, <1>9, TypesHave
    <2>2. /\ "shadowsocks_plugin_opts" \in DOMAIN NodeTable
          /\ On("shadowsocks_plugin", Plugins) \in NodeTable["shadowsocks_plugin_opts"]
      BY NodeDomains, NodeEntry, ShadowEntries DEF Plugins
    <2> QED
      BY <1>1, <1>9, <2>1, <2>2, LookOnHolds
  <1>10. ASSUME Belongs("tls", v["type"]), v["tls"] = "1"
         PROVE  /\ TlsPlain \subseteq M
                /\ v["type"] \in {"vless", "vmess"} => "tls_utls" \in M
                /\ v["type"] = "vless" => "tls_reality" \in M /\ (v["tls_reality"] = "1" => RealityKeys \subseteq M)
    <2>1. "tls" \in A /\ "tls" \in B
      BY <1>5, <1>10
    <2>2. TlsPlain \subseteq M
      <3>1. \A o \in TlsPlain : o \in DOMAIN NodeTable /\ On("tls", {"1"}) \in NodeTable[o]
        BY NodeDomains, NodeEntry, NodeTlsEntries DEF TlsPlain
      <3> QED
        BY <1>1, <1>10, <2>1, <3>1, LookOnHolds
    <2>3. ASSUME v["type"] \in {"vless", "vmess"} PROVE "tls_utls" \in M
      <3>1. /\ "tls_utls" \in DOMAIN NodeTable
            /\ On2("tls", {"1"}, "type", NodeTypes \ {"hysteria", "hysteria2", "tuic"}) \in NodeTable["tls_utls"]
        BY NodeDomains, NodeEntry, NodeTlsEntries
      <3>2. v["type"] \in NodeTypes \ {"hysteria", "hysteria2", "tuic"}
        BY <2>3 DEF NodeTypes, Streamed
      <3> QED
        BY <1>1, <1>3, <1>10, <2>1, <3>1, <3>2, LookOn2Holds
    <2>4. ASSUME v["type"] = "vless" PROVE "tls_reality" \in M /\ "tls_reality" \in A
      <3>1. /\ "tls_reality" \in DOMAIN NodeTable
            /\ On2("tls", {"1"}, "type", {"anytls", "vless"}) \in NodeTable["tls_reality"]
        BY NodeDomains, NodeEntry, NodeTlsEntries
      <3> QED
        BY <1>1, <1>3, <1>10, <2>1, <2>4, <3>1, LookOn2Holds
    <2>5. ASSUME v["type"] = "vless", v["tls_reality"] = "1" PROVE RealityKeys \subseteq M
      <3>1. \A o \in RealityKeys : o \in DOMAIN NodeTable /\ On("tls_reality", {"1"}) \in NodeTable[o]
        BY NodeDomains, NodeEntry, NodeTlsEntries DEF RealityKeys
      <3> QED
        BY <1>1, <2>4, <2>5, <3>1, LookOnHolds
    <2> QED
      BY <2>2, <2>3, <2>4, <2>5
  <1>11. ASSUME Belongs("transport", v["type"])
         PROVE  /\ v["transport"] = "grpc" => "grpc_servicename" \in M
                /\ v["transport"] = "http" => {"http_host", "http_path"} \subseteq M
                /\ v["transport"] = "httpupgrade" => {"httpupgrade_host", "http_path"} \subseteq M
                /\ v["transport"] = "ws" => {"ws_host", "ws_path"} \cup Early \subseteq M
    <2>1. "transport" \in A
      BY <1>5, <1>11
    <2>2. ASSUME NEW o \in DOMAIN NodeTable, NEW T, On("transport", T) \in NodeTable[o], v["transport"] \in T
          PROVE  o \in M
      BY <1>1, <2>1, <2>2, LookOnHolds
    <2>3. \A o \in DOMAIN TransportTable : o \in DOMAIN NodeTable /\ NodeTable[o] = TransportTable[o]
      BY NodeEntry
    <2>4. /\ "grpc_servicename" \in DOMAIN NodeTable /\ On("transport", {"grpc"}) \in NodeTable["grpc_servicename"]
          /\ "http_host" \in DOMAIN NodeTable /\ On("transport", {"http"}) \in NodeTable["http_host"]
          /\ "httpupgrade_host" \in DOMAIN NodeTable /\ On("transport", {"httpupgrade"}) \in NodeTable["httpupgrade_host"]
          /\ "http_path" \in DOMAIN NodeTable /\ On("transport", {"http", "httpupgrade"}) \in NodeTable["http_path"]
      BY <2>3, NodeDomains, TransportEntries DEF Transport
    <2>5. \A o \in {"ws_host", "ws_path"} \cup Early : o \in DOMAIN NodeTable /\ On("transport", {"ws"}) \in NodeTable[o]
      BY <2>3, NodeDomains, TransportEntries DEF Transport, Early
    <2> QED
      BY <2>2, <2>4, <2>5
  <1> QED
    BY <1>3, <1>5, <1>6, <1>7, <1>8, <1>9, <1>10, <1>11

\* The dialog opens with what the node has: a list only with what it knows, a flag that is
\* set as set.
LEMMA OpenedIs ==
  ASSUME NEW c, "type" \in DOMAIN c, NEW o \in DOMAIN c, o \in DOMAIN NodeTable
  PROVE  /\ o \notin DOMAIN ListChoices /\ o \notin Flags => Opened(c)[o] = c[o]
         /\ o \in DOMAIN ListChoices /\ c[o] \in ListChoices[o] => Opened(c)[o] = c[o]
         /\ o \in Flags /\ c[o] = "1" => Opened(c)[o] = c[o]
  <1>1. DOMAIN ListChoices = {"transport", "shadowsocks_plugin", "hysteria_obfs_type"}
    BY DEF ListChoices
  <1>2. \A p \in DOMAIN ListChoices : p # "tls" /\ p \notin Flags
    BY <1>1 DEF Flags
  <1>3. o = "tls" => o \in Flags
    BY DEF Flags
  <1>4. Part(c, o) = c[o]
    BY Zenon DEF Part
  <1> QED
    BY Zenon, <1>2, <1>3, <1>4 DEF Opened

\* What an imported node is sure of, option by option: that its type has it, or that the
\* options the dialog wants to see next to it are there with it.
TlsThere(n) == "tls" \in DOMAIN n /\ Belongs("tls", n["type"])
TransportOf(n, T) == "transport" \in DOMAIN n /\ Belongs("transport", n["type"]) /\ n["transport"] \in T
Beside(n, o) ==
  \/ o = "password" /\ n["type"] = "socks" /\ "socks_version" \in DOMAIN n /\ n["socks_version"] \in {"4", "5"}
  \/ /\ o = "hysteria_auth_payload" /\ n["type"] = "hysteria" /\ "hysteria_auth_type" \in DOMAIN n
     /\ n[o] = "" \/ n["hysteria_auth_type"] = "string"
  \/ o = "hysteria_obfs_password" /\ n["type"] = "hysteria2" /\ "hysteria_obfs_type" \in DOMAIN n
  \/ o = "shadowsocks_plugin_opts" /\ n["type"] = "shadowsocks" /\ "shadowsocks_plugin" \in DOMAIN n
UnderTls(n, o) ==
  /\ TlsThere(n)
  /\ \/ o \in TlsPlain
     \/ o = "tls_utls" /\ n["type"] \in {"vless", "vmess"}
     \/ o = "tls_reality" /\ n["type"] = "vless"
     \/ o \in RealityKeys /\ n["type"] = "vless" /\ "tls_reality" \in DOMAIN n
UnderTransport(n, o) ==
  \/ o = "grpc_servicename" /\ TransportOf(n, {"grpc"})
  \/ o \in {"http_host", "http_path"} /\ (TransportOf(n, {"http"}) \/ (n["type"] = "vless" /\ TransportOf(n, {""})))
  \/ o \in {"httpupgrade_host", "http_path"} /\ TransportOf(n, {"httpupgrade"})
  \/ o \in {"ws_host", "ws_path"} \cup Early /\ TransportOf(n, {"ws"})
Fits(n, o) == o = "type" \/ Belongs(o, n["type"]) \/ Beside(n, o) \/ UnderTls(n, o) \/ UnderTransport(n, o)
Sound(n) ==
  /\ "type" \in DOMAIN n
  /\ \A o \in DOMAIN n : Fits(n, o) /\ (o \in Flags => n[o] \in {"0", "1"})

\* What fits is in the dialog.
LEMMA FitsIn ==
  ASSUME NEW n, NEW o, Fits(n, o)
  PROVE  o \in DOMAIN NodeTable
  <1>1. {"type", "password", "hysteria_auth_payload", "hysteria_obfs_password", "shadowsocks_plugin_opts"} \subseteq DOMAIN NodeTable
    BY NodeDomains, NodeEntry
  <1>2. TlsPlain \cup {"tls_utls", "tls_reality"} \cup RealityKeys \subseteq DOMAIN NodeTable
    BY NodeDomains, NodeEntry DEF TlsPlain, RealityKeys
  <1>3. {"grpc_servicename", "http_host", "http_path", "httpupgrade_host", "ws_host", "ws_path"} \cup Early \subseteq DOMAIN NodeTable
    BY NodeDomains, NodeEntry DEF Early
  <1>4. Belongs(o, n["type"]) => o \in DOMAIN NodeTable
    BY DEF Belongs
  <1> QED
    BY Zenon, <1>1, <1>2, <1>3, <1>4 DEF Fits, Beside, UnderTls, UnderTransport

\* Of a sound node the dialog loses what is known to be lost and nothing else.
LEMMA FormKeeps ==
  ASSUME Sound(node), NEW o \in DOMAIN node, node[o] \notin {"", "0"}, ~Lost(o)
  PROVE  /\ o \in DOMAIN NodeTable /\ o \in Active(NodeTable, Opened(node))
         /\ Opened(node)[o] = node[o]
  <1> PICK v, M : v = Opened(node) /\ M = Active(NodeTable, v)
    BY Zenon
  <1>1. /\ "type" \in DOMAIN node /\ \A p \in DOMAIN node : p \in DOMAIN NodeTable
        /\ Fits(node, o) /\ (o \in Flags => node[o] \in {"0", "1"})
        /\ \A p \in DOMAIN node : p \in Flags => node[p] \in {"0", "1"}
    BY Zenon, FitsIn DEF Sound
  <1>2. /\ DOMAIN ListChoices = {"transport", "shadowsocks_plugin", "hysteria_obfs_type"}
        /\ ListChoices["transport"] = {"grpc", "http", "httpupgrade", "quic", "ws"}
        /\ ListChoices["shadowsocks_plugin"] = Plugins /\ ListChoices["hysteria_obfs_type"] = {"salamander"}
    BY Zenon DEF ListChoices, Plugins
  <1>3. Flags \cap DOMAIN ListChoices = {} /\ {"tls", "tls_reality", "tls_insecure"} \subseteq Flags
    BY Zenon, <1>2 DEF Flags
  <1>4. /\ \A p \in DOMAIN node : p \notin DOMAIN ListChoices /\ p \notin Flags => v[p] = node[p]
        /\ \A p \in DOMAIN node : p \in DOMAIN ListChoices /\ node[p] \in ListChoices[p] => v[p] = node[p]
        /\ \A p \in DOMAIN node : p \in Flags /\ node[p] = "1" => v[p] = "1"
    BY Zenon, <1>1, OpenedIs
  <1>5. v["type"] = node["type"]
    BY Zenon, <1>1, <1>2, <1>4 DEF Flags
  <1>6. /\ o \in DOMAIN TlsTable => node["tls"] = "1"
        /\ o \in DOMAIN ListChoices => node[o] \in ListChoices[o]
        /\ o = "password" => Part(node, "socks_version") # "4"
        /\ o = "hysteria_obfs_password" /\ node["type"] = "hysteria2" => node["hysteria_obfs_type"] \in ListChoices["hysteria_obfs_type"]
        /\ o \in RealityKeys => node["tls_reality"] = "1"
        /\ o \in {"http_host", "http_path"} /\ node["type"] = "vless" => node["transport"] # ""
        /\ o = "shadowsocks_plugin_opts" => node["shadowsocks_plugin"] \in ListChoices["shadowsocks_plugin"]
    BY Zenon DEF Lost, RealityKeys
  <1>7. v[o] = node[o]
    <2>1. CASE o \in Flags
      <3>1. node[o] = "1"
        BY Zenon, <1>1, <2>1
      <3> QED
        BY <1>4, <2>1, <3>1
    <2> QED
      BY Zenon, <1>4, <1>6, <2>1
  <1>8. /\ \A p : Belongs(p, node["type"]) => p \in M
        /\ node["type"] = "socks" /\ v["socks_version"] = "5" => "password" \in M
        /\ node["type"] = "hysteria" /\ v["hysteria_auth_type"] = "string" => "hysteria_auth_payload" \in M
        /\ node["type"] = "hysteria2" /\ v["hysteria_obfs_type"] = "salamander" => "hysteria_obfs_password" \in M
        /\ node["type"] = "shadowsocks" /\ v["shadowsocks_plugin"] \in Plugins => "shadowsocks_plugin_opts" \in M
    BY Zenon, <1>5, NodeShows
  <1>9. Belongs("tls", node["type"]) /\ v["tls"] = "1" =>
          /\ TlsPlain \subseteq M
          /\ node["type"] \in {"vless", "vmess"} => "tls_utls" \in M
          /\ node["type"] = "vless" => "tls_reality" \in M /\ (v["tls_reality"] = "1" => RealityKeys \subseteq M)
    BY Zenon, <1>5, NodeShows
  <1>10. Belongs("transport", node["type"]) =>
           /\ v["transport"] = "grpc" => "grpc_servicename" \in M
           /\ v["transport"] = "http" => {"http_host", "http_path"} \subseteq M
           /\ v["transport"] = "httpupgrade" => {"httpupgrade_host", "http_path"} \subseteq M
           /\ v["transport"] = "ws" => {"ws_host", "ws_path"} \cup Early \subseteq M
    BY Zenon, <1>5, NodeShows
  <1>11. ASSUME o = "type" \/ Belongs(o, node["type"]) PROVE o \in M
    BY Zenon, <1>8, <1>11, NodeShows
  <1>12. ASSUME o = "password", node["type"] = "socks", "socks_version" \in DOMAIN node,
                node["socks_version"] \in {"4", "5"}
         PROVE  o \in M
    <2>1. node["socks_version"] = "5"
      BY Zenon, <1>6, <1>12 DEF Part
    <2>2. "socks_version" \notin Flags /\ "socks_version" \notin DOMAIN ListChoices
      BY Zenon, <1>2 DEF Flags
    <2> QED
      BY Zenon, <1>4, <1>8, <1>12, <2>1, <2>2
  <1>13. ASSUME o = "hysteria_auth_payload", node["type"] = "hysteria", "hysteria_auth_type" \in DOMAIN node,
                node["hysteria_auth_type"] = "string"
         PROVE  o \in M
    <2>1. "hysteria_auth_type" \notin Flags /\ "hysteria_auth_type" \notin DOMAIN ListChoices
      BY Zenon, <1>2 DEF Flags
    <2> QED
      BY Zenon, <1>4, <1>8, <1>13, <2>1
  <1>14. ASSUME o = "hysteria_obfs_password", node["type"] = "hysteria2", "hysteria_obfs_type" \in DOMAIN node
         PROVE  o \in M
    BY Zenon, <1>2, <1>4, <1>6, <1>8, <1>14
  <1>15. ASSUME o = "shadowsocks_plugin_opts", node["type"] = "shadowsocks", "shadowsocks_plugin" \in DOMAIN node
         PROVE  o \in M
    BY Zenon, <1>2, <1>4, <1>6, <1>8, <1>15
  <1>16. ASSUME TlsThere(node), o \in DOMAIN TlsTable PROVE Belongs("tls", node["type"]) /\ v["tls"] = "1"
    BY Zenon, <1>3, <1>4, <1>6, <1>16 DEF TlsThere
  <1>17. TlsPlain \cup RealityKeys \cup {"tls_utls", "tls_reality"} \subseteq DOMAIN TlsTable
    BY Zenon, NodeDomains DEF TlsPlain, RealityKeys
  <1>18. ASSUME o \in TlsPlain, TlsThere(node) PROVE o \in M
    BY Zenon, <1>9, <1>16, <1>17, <1>18
  <1>19. ASSUME o = "tls_utls", TlsThere(node), node["type"] \in {"vless", "vmess"} PROVE o \in M
    BY Zenon, <1>9, <1>16, <1>17, <1>19
  <1>20. ASSUME o = "tls_reality", TlsThere(node), node["type"] = "vless" PROVE o \in M
    BY Zenon, <1>9, <1>16, <1>17, <1>20
  <1>21. ASSUME o \in RealityKeys, TlsThere(node), node["type"] = "vless", "tls_reality" \in DOMAIN node PROVE o \in M
    <2>1. v["tls_reality"] = "1"
      BY Zenon, <1>3, <1>4, <1>6, <1>21
    <2> QED
      BY Zenon, <1>9, <1>16, <1>17, <1>21, <2>1
  <1>22. ASSUME NEW t \in ListChoices["transport"], TransportOf(node, {t})
         PROVE  Belongs("transport", node["type"]) /\ v["transport"] = t
    BY Zenon, <1>2, <1>4, <1>22 DEF TransportOf
  <1>t. {"grpc", "http", "httpupgrade", "ws"} \subseteq ListChoices["transport"]
    BY Zenon, <1>2
  <1>23. ASSUME o = "grpc_servicename", TransportOf(node, {"grpc"}) PROVE o \in M
    BY Zenon, <1>t, <1>10, <1>22, <1>23
  <1>24. ASSUME o \in {"http_host", "http_path"}, TransportOf(node, {"http"}) PROVE o \in M
    BY Zenon, <1>t, <1>10, <1>22, <1>24
  <1>25. ASSUME o \in {"httpupgrade_host", "http_path"}, TransportOf(node, {"httpupgrade"}) PROVE o \in M
    BY Zenon, <1>t, <1>10, <1>22, <1>25
  <1>26. ASSUME o \in {"ws_host", "ws_path"} \cup Early, TransportOf(node, {"ws"}) PROVE o \in M
    BY Zenon, <1>t, <1>10, <1>22, <1>26
  <1>27. ~(o \in {"http_host", "http_path"} /\ node["type"] = "vless" /\ TransportOf(node, {""}))
    BY Zenon, <1>6 DEF TransportOf
  <1>28. o \in M
    BY Zenon, <1>1, <1>11, <1>12, <1>13, <1>14, <1>15, <1>18, <1>19, <1>20, <1>21, <1>23, <1>24, <1>25, <1>26, <1>27 DEF Fits, Beside, UnderTls, UnderTransport
  <1> QED
    BY Zenon, <1>1, <1>7, <1>28

\* A node all other options of which fit is sound.
LEMMA SoundIf ==
  ASSUME NEW c, "type" \in DOMAIN c, \A o \in DOMAIN c \ {"type"} : Fits(c, o),
         \A o \in DOMAIN c : o \in Flags => c[o] \in {"0", "1"}
  PROVE  Sound(c)
  BY Zenon DEF Sound, Fits

\* The protocols whose parser sets the same options for every link: what it makes of one
\* is sound.
LEMMA AnyTlsSound ==
  ASSUME NEW l, AnyTls(l) # Rejected
  PROVE  Sound(AnyTls(l))
  <1> PICK c : c = AnyTls(l)
    OBVIOUS
  <1>1. /\ DOMAIN c = {"type", "password", "tls", "tls_sni", "tls_insecure"}
        /\ c["type"] = "anytls" /\ c["tls"] = "1" /\ c["tls_insecure"] \in {"0", "1"}
    BY Zenon DEF AnyTls, Unless, Bit
  <1>2. \A o \in DOMAIN c : o \in Flags => c[o] \in {"0", "1"}
    BY <1>1 DEF Flags
  <1>3. \A o \in {"password", "tls"} : Fits(c, o)
    BY Zenon, <1>1, TypesHave DEF Fits
  <1>4. \A o \in TlsPlain : Fits(c, o)
    BY Zenon, <1>1, TypesHave DEF Fits, UnderTls, TlsThere
  <1>f. \A o \in DOMAIN c \ {"type"} : Fits(c, o)
    BY <1>1, <1>3, <1>4 DEF TlsPlain
  <1> QED
    BY <1>1, <1>2, <1>f, SoundIf

LEMMA HttpSound ==
  ASSUME NEW l
  PROVE  Sound(Http(l))
  <1> PICK c : c = Http(l)
    OBVIOUS
  <1>1. DOMAIN c = {"type", "username", "password", "tls"} /\ c["type"] = "http" /\ c["tls"] \in {"0", "1"}
    BY Zenon DEF Http, Bit
  <1>2. \A o \in DOMAIN c : o \in Flags => c[o] \in {"0", "1"}
    BY <1>1 DEF Flags
  <1>3. \A o \in {"username", "password", "tls"} : Fits(c, o)
    BY Zenon, <1>1, TypesHave DEF Fits
  <1>f. \A o \in DOMAIN c \ {"type"} : Fits(c, o)
    BY <1>1, <1>3
  <1> QED
    BY <1>1, <1>2, <1>f, SoundIf

LEMMA HysteriaSound ==
  ASSUME NEW l, Hysteria(l) # Rejected
  PROVE  Sound(Hysteria(l))
  <1> PICK c : c = Hysteria(l)
    OBVIOUS
  <1>1. /\ DOMAIN c = {"type", "hysteria_protocol", "hysteria_auth_type", "hysteria_auth_payload", "hysteria_obfs_password",
                       "hysteria_down_mbps", "hysteria_up_mbps", "tls", "tls_sni", "tls_insecure"}
        /\ c["type"] = "hysteria" /\ c["tls"] = "1"
    BY Zenon DEF Hysteria, Unless
  <1>2. c["tls_insecure"] \in {"0", "1"} /\ (c["hysteria_auth_payload"] = "" \/ c["hysteria_auth_type"] = "string")
    BY Zenon DEF Hysteria, Unless, Bit
  <1>3. \A o \in DOMAIN c : o \in Flags => c[o] \in {"0", "1"}
    BY Zenon, <1>1, <1>2 DEF Flags
  <1>4. \A o \in {"hysteria_protocol", "hysteria_auth_type", "hysteria_obfs_password", "hysteria_down_mbps",
                  "hysteria_up_mbps", "tls"} : Fits(c, o)
    BY Zenon, <1>1, TypesHave DEF Fits
  <1>5. \A o \in TlsPlain : Fits(c, o)
    BY Zenon, <1>1, TypesHave DEF Fits, UnderTls, TlsThere
  <1>6. Fits(c, "hysteria_auth_payload")
    BY Zenon, <1>1, <1>2 DEF Fits, Beside
  <1>f. \A o \in DOMAIN c \ {"type"} : Fits(c, o)
    BY <1>1, <1>4, <1>5, <1>6 DEF TlsPlain
  <1> QED
    BY <1>1, <1>3, <1>f, SoundIf

LEMMA Hysteria2Sound ==
  ASSUME NEW l
  PROVE  Sound(Hysteria2(l))
  <1> PICK c : c = Hysteria2(l)
    OBVIOUS
  <1>1. /\ DOMAIN c = {"type", "password", "hysteria_obfs_type", "hysteria_obfs_password", "tls", "tls_sni", "tls_insecure"}
        /\ c["type"] = "hysteria2" /\ c["tls"] = "1" /\ c["tls_insecure"] \in {"0", "1"}
    BY Zenon DEF Hysteria2, Bit
  <1>2. \A o \in DOMAIN c : o \in Flags => c[o] \in {"0", "1"}
    BY <1>1 DEF Flags
  <1>3. \A o \in {"password", "hysteria_obfs_type", "tls"} : Fits(c, o)
    BY Zenon, <1>1, TypesHave DEF Fits
  <1>4. \A o \in TlsPlain : Fits(c, o)
    BY Zenon, <1>1, TypesHave DEF Fits, UnderTls, TlsThere
  <1>5. Fits(c, "hysteria_obfs_password")
    BY Zenon, <1>1 DEF Fits, Beside
  <1>f. \A o \in DOMAIN c \ {"type"} : Fits(c, o)
    BY <1>1, <1>3, <1>4, <1>5 DEF TlsPlain
  <1> QED
    BY <1>1, <1>2, <1>f, SoundIf

LEMMA SocksSound ==
  ASSUME NEW l
  PROVE  Sound(Socks(l))
  <1> PICK c : c = Socks(l)
    OBVIOUS
  <1>1. DOMAIN c = {"type", "username", "password", "socks_version"} /\ c["type"] = "socks" /\ c["socks_version"] \in {"4", "5"}
    BY Zenon DEF Socks
  <1>2. \A o \in DOMAIN c : o \notin Flags
    BY <1>1 DEF Flags
  <1>3. \A o \in {"username", "socks_version"} : Fits(c, o)
    BY Zenon, <1>1, TypesHave DEF Fits
  <1>4. Fits(c, "password")
    BY Zenon, <1>1 DEF Fits, Beside
  <1>f. \A o \in DOMAIN c \ {"type"} : Fits(c, o)
    BY <1>1, <1>3, <1>4
  <1> QED
    BY <1>1, <1>2, <1>f, SoundIf

LEMMA ShadowsocksSound ==
  ASSUME NEW l, Shadowsocks(l) # Rejected
  PROVE  Sound(Shadowsocks(l))
  <1> PICK c : c = Shadowsocks(l)
    OBVIOUS
  <1> DEFINE Old == {"type", "shadowsocks_encrypt_method", "password"}
             New == Old \cup {"shadowsocks_plugin", "shadowsocks_plugin_opts"}
  <1>1. DOMAIN c \in {Old, New} /\ c["type"] = "shadowsocks"
    BY Zenon DEF Shadowsocks, Unless
  <1>2. \A o \in New : o \notin Flags
    BY DEF Flags
  <1>3. \A o \in {"shadowsocks_encrypt_method", "password", "shadowsocks_plugin"} : Fits(c, o)
    BY Zenon, <1>1, TypesHave DEF Fits
  <1>4. "shadowsocks_plugin" \in DOMAIN c => Fits(c, "shadowsocks_plugin_opts")
    BY Zenon, <1>1 DEF Fits, Beside
  <1>5. "shadowsocks_plugin_opts" \in DOMAIN c => "shadowsocks_plugin" \in DOMAIN c
    BY <1>1
  <1>f. \A o \in DOMAIN c \ {"type"} : Fits(c, o)
    BY <1>1, <1>3, <1>4, <1>5
  <1> QED
    BY <1>1, <1>2, <1>f, SoundIf

LEMMA TuicSound ==
  ASSUME NEW l, Tuic(l) # Rejected
  PROVE  Sound(Tuic(l))
  <1> PICK c : c = Tuic(l)
    OBVIOUS
  <1>1. /\ DOMAIN c = {"type", "uuid", "password", "tuic_congestion_control", "tuic_udp_relay_mode", "tls", "tls_sni", "tls_alpn"}
        /\ c["type"] = "tuic" /\ c["tls"] = "1"
    BY Zenon DEF Tuic, Unless
  <1>2. \A o \in DOMAIN c : o \in Flags => c[o] \in {"0", "1"}
    BY <1>1 DEF Flags
  <1>3. \A o \in {"uuid", "password", "tuic_congestion_control", "tuic_udp_relay_mode", "tls"} : Fits(c, o)
    BY Zenon, <1>1, TypesHave DEF Fits
  <1>4. \A o \in TlsPlain : Fits(c, o)
    BY Zenon, <1>1, TypesHave DEF Fits, UnderTls, TlsThere
  <1>f. \A o \in DOMAIN c \ {"type"} : Fits(c, o)
    BY <1>1, <1>3, <1>4 DEF TlsPlain
  <1> QED
    BY <1>1, <1>2, <1>f, SoundIf

\* The transports.  A WebSocket has its host and its path, and the early data or not; what
\* a link sets of a transport is what the dialog shows next to it.
WsOptions == {"ws_host", "ws_path"} \cup Early

LEMMA WebSocketSets ==
  ASSUME NEW host, NEW path
  PROVE  DOMAIN WebSocket(host, path) \subseteq WsOptions
  <1> DEFINE r == [ws_host |-> host, ws_path |-> IF path = "early" THEN "set" ELSE path]
             x == IF path = "early" THEN Each(Early, "set") ELSE <<>>
  <1>1. WebSocket(host, path) = r ++ x /\ DOMAIN r = {"ws_host", "ws_path"}
    BY Zenon DEF WebSocket, Early
  <1>2. DOMAIN Each(Early, "set") = Early /\ DOMAIN <<>> = {}
    BY DEF Each
  <1>3. DOMAIN x \subseteq Early
    BY <1>1, <1>2
  <1> QED
    BY <1>1, <1>3, Joined DEF WsOptions

LEMMA WsFits ==
  ASSUME NEW c, TransportOf(c, {"ws"}), NEW o \in WsOptions
  PROVE  Fits(c, o) /\ o \notin Flags
  <1>1. o \notin Flags
    BY DEF WsOptions, Early, Flags
  <1> QED
    BY Zenon, <1>1 DEF Fits, UnderTransport, WsOptions

LEMMA TrojanSound ==
  ASSUME NEW l, Trojan(l) # Rejected
  PROVE  Sound(Trojan(l))
  <1> PICK c, t : c = Trojan(l) /\ t = Part(l, "type")
    OBVIOUS
  <1> PICK r : r = [type |-> "trojan", password |-> Part(l, "user"), transport |-> NoTcp(t), tls |-> "1", tls_sni |-> Part(l, "sni")]
    OBVIOUS
  <1> PICK w : w = CASE t = "grpc" -> [grpc_servicename |-> Part(l, "serviceName")]
                     [] t = "ws"   -> WebSocket(Part(l, "host"), Part(l, "path"))
                     [] OTHER      -> <<>>
    OBVIOUS
  <1>1. /\ c = r ++ w /\ DOMAIN r = {"type", "password", "transport", "tls", "tls_sni"}
        /\ r["type"] = "trojan" /\ r["tls"] = "1" /\ r["transport"] = NoTcp(t)
    BY Zenon DEF Trojan, Unless
  <1>2. \A o \in DOMAIN r : o \in DOMAIN c /\ c[o] = r[o]
    BY <1>1, Joined
  <1>3. \A o \in DOMAIN c : o \in DOMAIN r \/ o \in DOMAIN w
    BY <1>1, Joined
  <1>4. "type" \in DOMAIN c /\ c["type"] = "trojan" /\ "tls" \in DOMAIN c /\ c["tls"] = "1" /\ "transport" \in DOMAIN c
    BY <1>1, <1>2
  <1>5. c["transport"] = NoTcp(t)
    BY <1>1, <1>2
  <1>6. \A o \in {"password", "transport", "tls"} : Fits(c, o)
    BY Zenon, <1>4, TypesHave DEF Fits
  <1>7. Fits(c, "tls_sni")
    BY Zenon, <1>4, TypesHave DEF Fits, UnderTls, TlsThere, TlsPlain
  <1>8. \A o \in DOMAIN w : Fits(c, o) /\ o \notin Flags
    <2>0. ASSUME t \in {"grpc", "ws"} PROVE c["transport"] = t /\ TransportOf(c, {t})
      BY Zenon, <1>4, <1>5, <2>0, TypesHave DEF NoTcp, TransportOf
    <2>1. CASE t = "grpc"
      <3>1. DOMAIN w = {"grpc_servicename"}
        BY <1>1, <2>1
      <3>2. Fits(c, "grpc_servicename")
        BY Zenon, <2>0, <2>1 DEF Fits, UnderTransport
      <3> QED
        BY <3>1, <3>2 DEF Flags
    <2>2. CASE t = "ws"
      <3>1. DOMAIN w \subseteq WsOptions
        BY <1>1, <2>2, WebSocketSets
      <3> QED
        BY <2>0, <2>2, <3>1, WsFits
    <2>3. CASE t \notin {"grpc", "ws"}
      <3>1. w = <<>>
        BY <1>1, <2>3
      <3> QED
        BY <3>1
    <2> QED
      BY <2>1, <2>2, <2>3
  <1>9. \A o \in DOMAIN c : o \in Flags => c[o] \in {"0", "1"}
    BY <1>1, <1>2, <1>3, <1>8 DEF Flags
  <1>f. \A o \in DOMAIN c \ {"type"} : Fits(c, o)
    BY <1>1, <1>3, <1>6, <1>7, <1>8
  <1> QED
    BY <1>4, <1>9, <1>f, SoundIf

LEMMA VlessSound ==
  ASSUME NEW l, Vless(l) # Rejected
  PROVE  Sound(Vless(l))
  <1> PICK c, t : c = Vless(l) /\ t = Part(l, "type")
    OBVIOUS
  <1> PICK sec, w : sec = Part(l, "security") /\ w = VlessTransport(l, t)
    OBVIOUS
  <1>a. PICK r : r = [type |-> "vless", uuid |-> Part(l, "user"), transport |-> NoTcp(t), tls |-> Bit(sec \in {"tls", "xtls", "reality"}),
                    tls_sni |-> Part(l, "sni"), tls_alpn |-> Part(l, "alpn"), tls_reality |-> Bit(sec = "reality"),
                    tls_reality_public_key |-> Part(l, "pbk"), tls_reality_short_id |-> Part(l, "sid"),
                    tls_utls |-> Part(l, "fp"), vless_flow |-> IF sec \in {"tls", "reality"} THEN Part(l, "flow") ELSE ""]
    BY Zenon
  <1>0. c = r ++ w
    BY Zenon, <1>a DEF Vless, Unless
  <1>r. /\ DOMAIN r = {"type", "uuid", "transport", "tls", "tls_sni", "tls_alpn", "tls_reality",
                       "tls_reality_public_key", "tls_reality_short_id", "tls_utls", "vless_flow"}
        /\ r["type"] = "vless" /\ r["transport"] = NoTcp(t)
        /\ r["tls"] \in {"0", "1"} /\ r["tls_reality"] \in {"0", "1"}
    BY Zenon, <1>a DEF Bit
  <1>1. /\ c = r ++ w /\ w = VlessTransport(l, t)
        /\ DOMAIN r = {"type", "uuid", "transport", "tls", "tls_sni", "tls_alpn", "tls_reality",
                       "tls_reality_public_key", "tls_reality_short_id", "tls_utls", "vless_flow"}
        /\ r["type"] = "vless" /\ r["transport"] = NoTcp(t)
        /\ r["tls"] \in {"0", "1"} /\ r["tls_reality"] \in {"0", "1"}
    BY Zenon, <1>0, <1>r
  <1>2. \A o \in DOMAIN r : o \in DOMAIN c /\ c[o] = r[o]
    BY <1>1, Joined
  <1>3. \A o \in DOMAIN c : o \in DOMAIN r \/ o \in DOMAIN w
    BY <1>1, Joined
  <1>4. /\ {"type", "tls", "tls_reality", "transport"} \subseteq DOMAIN c
        /\ c["type"] = "vless" /\ c["transport"] = NoTcp(t)
    BY <1>1, <1>2
  <1>5. \A o \in {"uuid", "transport", "tls", "vless_flow"} : Fits(c, o)
    BY Zenon, <1>4, TypesHave DEF Fits
  <1>6. \A o \in {"tls_sni", "tls_alpn", "tls_utls", "tls_reality"} \cup RealityKeys : Fits(c, o)
    BY Zenon, <1>4, TypesHave DEF Fits, UnderTls, TlsThere, TlsPlain
  <1>7. \A o \in DOMAIN w : Fits(c, o) /\ o \notin Flags
    <2>0. ASSUME t \in {"grpc", "http", "httpupgrade", "ws"} PROVE TransportOf(c, {t})
      BY Zenon, <1>4, <2>0, TypesHave DEF NoTcp, TransportOf
    <2>1. CASE t = "grpc"
      <3>1. DOMAIN w = {"grpc_servicename"}
        BY <1>1, <2>1 DEF VlessTransport
      <3>2. Fits(c, "grpc_servicename")
        BY Zenon, <2>0, <2>1 DEF Fits, UnderTransport
      <3> QED
        BY <3>1, <3>2 DEF Flags
    <2>2. CASE t = "http" \/ (t = "tcp" /\ Part(l, "headerType") = "http")
      <3>1. DOMAIN w = {"http_host", "http_path"}
        BY <1>1, <2>2 DEF VlessTransport
      <3>2. t = "tcp" => TransportOf(c, {""})
        BY Zenon, <1>4, TypesHave DEF NoTcp, TransportOf
      <3>3. \A o \in DOMAIN w : Fits(c, o)
        BY Zenon, <1>4, <2>0, <2>2, <3>1, <3>2 DEF Fits, UnderTransport
      <3> QED
        BY <3>1, <3>3 DEF Flags
    <2>3. CASE t = "httpupgrade"
      <3>1. DOMAIN w = {"httpupgrade_host", "http_path"}
        BY <1>1, <2>3 DEF VlessTransport
      <3>2. \A o \in DOMAIN w : Fits(c, o)
        BY Zenon, <2>0, <2>3, <3>1 DEF Fits, UnderTransport
      <3> QED
        BY <3>1, <3>2 DEF Flags
    <2>4. CASE t = "ws"
      <3>1. DOMAIN w \subseteq WsOptions
        BY <1>1, <2>4, WebSocketSets DEF VlessTransport
      <3> QED
        BY <2>0, <2>4, <3>1, WsFits
    <2>5. CASE t \notin {"grpc", "http", "httpupgrade", "ws"} /\ ~(t = "tcp" /\ Part(l, "headerType") = "http")
      <3>1. w = <<>>
        BY <1>1, <2>5 DEF VlessTransport
      <3> QED
        BY <3>1
    <2> QED
      BY <2>1, <2>2, <2>3, <2>4, <2>5
  <1>8. \A o \in DOMAIN c : o \in Flags => c[o] \in {"0", "1"}
    BY <1>1, <1>2, <1>3, <1>7 DEF Flags
  <1>f. \A o \in DOMAIN c \ {"type"} : Fits(c, o)
    BY <1>1, <1>3, <1>5, <1>6, <1>7 DEF RealityKeys
  <1> QED
    BY <1>4, <1>8, <1>f, SoundIf

LEMMA VmessSound ==
  ASSUME NEW l, Vmess(l) # Rejected
  PROVE  Sound(Vmess(l))
  <1> PICK c, net : c = Vmess(l) /\ net = Part(l, "net")
    OBVIOUS
  <1> PICK w : w = VmessTransport(l, net)
    OBVIOUS
  <1>a. PICK r : r = [type |-> "vmess", uuid |-> Part(l, "id"), vmess_alterid |-> Part(l, "aid"),
                      vmess_encrypt |-> IF Part(l, "scy") = "" THEN "auto" ELSE l["scy"],
                      transport |-> NoTcp(net), tls |-> Bit(Part(l, "tls") = "tls"),
                      tls_sni |-> IF Part(l, "sni") # "" THEN l["sni"] ELSE Part(l, "host"),
                      tls_alpn |-> Part(l, "alpn"), tls_utls |-> Part(l, "fp")]
    BY Zenon
  <1>0. c = w ++ r
    BY Zenon, <1>a DEF Vmess, Unless
  <1>r. /\ DOMAIN r = {"type", "uuid", "vmess_alterid", "vmess_encrypt", "transport", "tls", "tls_sni", "tls_alpn", "tls_utls"}
        /\ r["type"] = "vmess" /\ r["transport"] = NoTcp(net) /\ r["tls"] \in {"0", "1"}
    BY Zenon, <1>a DEF Bit
  <1>2. \A o \in DOMAIN w : o \in DOMAIN c /\ c[o] = w[o]
    BY <1>0, Joined
  <1>3. /\ \A o \in DOMAIN c : o \in DOMAIN r \/ o \in DOMAIN w
        /\ \A o \in DOMAIN r : o \in DOMAIN c /\ (o \notin DOMAIN w => c[o] = r[o])
    BY <1>0, Joined
  <1>w. CASE \/ DOMAIN w \subseteq {"grpc_servicename"} /\ (w = <<>> \/ net = "grpc")
             \/ DOMAIN w = {"transport", "http_host", "http_path"} /\ w["transport"] = "http"
             \/ DOMAIN w = {"httpupgrade_host", "http_path"} /\ net = "httpupgrade"
             \/ DOMAIN w \subseteq WsOptions /\ net = "ws"
    <2>1. "type" \notin DOMAIN w /\ "tls" \notin DOMAIN w /\ \A o \in DOMAIN w : o \notin Flags
      BY <1>w DEF WsOptions, Early, Flags
    <2>2. {"type", "tls", "transport"} \subseteq DOMAIN c /\ c["type"] = "vmess" /\ c["tls"] \in {"0", "1"}
      BY <2>1, <1>3, <1>r
    <2>3. \A o \in {"uuid", "vmess_alterid", "vmess_encrypt", "transport", "tls"} : Fits(c, o)
      BY Zenon, <2>2, TypesHave DEF Fits
    <2>4. \A o \in {"tls_sni", "tls_alpn", "tls_utls"} : Fits(c, o)
      BY Zenon, <2>2, TypesHave DEF Fits, UnderTls, TlsThere, TlsPlain
    <2>5. Belongs("transport", c["type"])
      BY <2>2, TypesHave
    <2>6. "transport" \notin DOMAIN w => c["transport"] = NoTcp(net)
      BY <1>3, <1>r
    <2>7. ASSUME "transport" \notin DOMAIN w, net \in {"grpc", "httpupgrade", "ws"} PROVE TransportOf(c, {net})
      BY Zenon, <2>2, <2>5, <2>6, <2>7 DEF NoTcp, TransportOf
    <2>8. \A o \in DOMAIN w : Fits(c, o)
      <3>1. CASE DOMAIN w \subseteq {"grpc_servicename"} /\ (w = <<>> \/ net = "grpc")
        <4>1. DOMAIN <<>> = {}
          OBVIOUS
        <4>2. "grpc_servicename" \in DOMAIN w => net = "grpc"
          BY <3>1, <4>1
        <4>3. net = "grpc" => TransportOf(c, {"grpc"})
          BY <2>7, <3>1
        <4> QED
          BY Zenon, <3>1, <4>2, <4>3 DEF Fits, UnderTransport
      <3>2. CASE DOMAIN w = {"transport", "http_host", "http_path"} /\ w["transport"] = "http"
        <4>1. TransportOf(c, {"http"})
          BY <1>2, <2>5, <3>2 DEF TransportOf
        <4> QED
          BY Zenon, <2>3, <3>2, <4>1 DEF Fits, UnderTransport
      <3>3. CASE DOMAIN w = {"httpupgrade_host", "http_path"} /\ net = "httpupgrade"
        <4>1. TransportOf(c, {"httpupgrade"})
          BY <2>7, <3>3
        <4> QED
          BY Zenon, <3>3, <4>1 DEF Fits, UnderTransport
      <3>4. CASE DOMAIN w \subseteq WsOptions /\ net = "ws"
        <4>1. TransportOf(c, {"ws"})
          BY <2>7, <3>4 DEF WsOptions, Early
        <4> QED
          BY <3>4, <4>1, WsFits
      <3> QED
        BY <1>w, <3>1, <3>2, <3>3, <3>4
    <2>9. \A o \in DOMAIN c : o \in Flags => c[o] \in {"0", "1"}
      BY <1>r, <1>3, <2>1, <2>2 DEF Flags
    <2>f. \A o \in DOMAIN c \ {"type"} : Fits(c, o)
      BY <1>r, <1>3, <2>3, <2>4, <2>8
    <2> QED
      BY <2>2, <2>9, <2>f, SoundIf
  <1>4. CASE net = "grpc"
    <2>1. DOMAIN w = {"grpc_servicename"}
      BY <1>4 DEF VmessTransport
    <2> QED
      BY <1>w, <1>4, <2>1
  <1>5. CASE net = "h2" \/ (net = "tcp" /\ Part(l, "type") = "http")
    <2>1. DOMAIN w = {"transport", "http_host", "http_path"} /\ w["transport"] = "http"
      BY <1>5 DEF VmessTransport
    <2> QED
      BY <1>w, <2>1
  <1>6. CASE net = "httpupgrade"
    <2>1. DOMAIN w = {"httpupgrade_host", "http_path"}
      BY <1>6 DEF VmessTransport
    <2> QED
      BY <1>w, <1>6, <2>1
  <1>7. CASE net = "ws"
    <2>1. DOMAIN w \subseteq WsOptions
      BY <1>7, WebSocketSets DEF VmessTransport
    <2> QED
      BY <1>w, <1>7, <2>1
  <1>8. CASE net \notin {"grpc", "h2", "httpupgrade", "ws"} /\ ~(net = "tcp" /\ Part(l, "type") = "http")
    <2>1. w = <<>> /\ DOMAIN <<>> = {}
      BY <1>8 DEF VmessTransport
    <2> QED
      BY <1>w, <2>1
  <1> QED
    BY <1>4, <1>5, <1>6, <1>7, <1>8

\* What is imported is sound, whatever the scheme and the settings of the subscriptions.
LEMMA ParsedSound ==
  ASSUME NEW l, ParseShareLink(l) # Rejected
  PROVE  Sound(ParseShareLink(l))
  <1> PICK c, s : c = ParseShareLink(l) /\ s = l["scheme"]
    OBVIOUS
  <1>1. c = CASE s = "anytls" -> AnyTls(l)
              [] s \in {"http", "https"} -> Http(l)
              [] s = "hysteria" -> Hysteria(l)
              [] s \in {"hysteria2", "hy2"} -> Hysteria2(l)
              [] s \in SocksSchemes -> Socks(l)
              [] s = "ss" -> Shadowsocks(l)
              [] s = "trojan" -> Trojan(l)
              [] s = "tuic" -> Tuic(l)
              [] s = "vless" -> Vless(l)
              [] s = "vmess" -> Vmess(l)
              [] OTHER -> Rejected
    BY Zenon DEF ParseShareLink, Unless
  <1>2. c \in {AnyTls(l), Http(l), Hysteria(l), Hysteria2(l), Socks(l), Shadowsocks(l), Trojan(l), Tuic(l), Vless(l), Vmess(l)}
    BY <1>1 DEF SocksSchemes
  <1>3. c # Rejected
    OBVIOUS
  <1>4. c = AnyTls(l) => Sound(c)
    BY Zenon, <1>3, AnyTlsSound
  <1>5. c = Http(l) => Sound(c)
    BY Zenon, <1>3, HttpSound
  <1>6. c = Hysteria(l) => Sound(c)
    BY Zenon, <1>3, HysteriaSound
  <1>7. c = Hysteria2(l) => Sound(c)
    BY Zenon, <1>3, Hysteria2Sound
  <1>8. c = Socks(l) => Sound(c)
    BY Zenon, <1>3, SocksSound
  <1>9. c = Shadowsocks(l) => Sound(c)
    BY Zenon, <1>3, ShadowsocksSound
  <1>10. c = Trojan(l) => Sound(c)
    BY Zenon, <1>3, TrojanSound
  <1>11. c = Tuic(l) => Sound(c)
    BY Zenon, <1>3, TuicSound
  <1>12. c = Vless(l) => Sound(c)
    BY Zenon, <1>3, VlessSound
  <1>13. c = Vmess(l) => Sound(c)
    BY Zenon, <1>3, VmessSound
  <1> QED
    BY Zenon, <1>2, <1>4, <1>5, <1>6, <1>7, <1>8, <1>9, <1>10, <1>11, <1>12, <1>13

LEMMA ImportedSound ==
  ASSUME NEW l, NEW insecure \in BOOLEAN, Imported(l, insecure) # Rejected
  PROVE  Sound(Imported(l, insecure))
  <1> PICK c, n : c = ParseShareLink(l) /\ n = Imported(l, insecure)
    OBVIOUS
  <1> PICK x, y : /\ x = IF Part(c, "tls") = "1" /\ insecure THEN [tls_insecure |-> "1"] ELSE <<>>
                  /\ y = IF c["type"] \in {"vless", "vmess"} THEN [packet_encoding |-> "xudp"] ELSE <<>>
    OBVIOUS
  <1>1. c # Rejected /\ n = (x ++ y) ++ c
    BY Zenon DEF Imported
  <1>2. Sound(c)
    BY <1>1, ParsedSound
  <1>3. DOMAIN <<>> = {}
    OBVIOUS
  <1>4. /\ DOMAIN x \subseteq {"tls_insecure"} /\ \A o \in DOMAIN x : x[o] = "1"
        /\ DOMAIN y \subseteq {"packet_encoding"}
        /\ DOMAIN x # {} => Part(c, "tls") = "1"
        /\ DOMAIN y # {} => c["type"] \in {"vless", "vmess"}
    BY <1>3
  <1>5. /\ \A o \in DOMAIN c : o \in DOMAIN n
        /\ \A o \in DOMAIN n : o \in DOMAIN x \/ o \in DOMAIN y \/ o \in DOMAIN c
        /\ \A o \in DOMAIN x : n[o] = x[o]
        /\ \A o \in DOMAIN c : o \notin DOMAIN x /\ o \notin DOMAIN y => n[o] = c[o]
    BY <1>1, Joined
  <1>6. "type" \in DOMAIN n /\ n["type"] = c["type"]
    BY <1>2, <1>4, <1>5 DEF Sound
  <1>7. \A o \in DOMAIN c : o \notin {"tls_insecure", "packet_encoding"} => n[o] = c[o]
    BY <1>4, <1>5
  <1>8. ASSUME NEW o \in DOMAIN c, o # "packet_encoding" PROVE Fits(n, o)
    <2>1. Fits(c, o)
      BY <1>2, <1>8 DEF Sound
    <2>2. \A p \in {"socks_version", "hysteria_auth_type", "hysteria_obfs_type", "shadowsocks_plugin", "tls", "tls_reality",
                    "transport", "hysteria_auth_payload"} :
            p \in DOMAIN c => p \in DOMAIN n /\ n[p] = c[p]
      BY <1>5, <1>7
    <2>3. TlsThere(c) => TlsThere(n)
      BY <1>6, <2>2 DEF TlsThere
    <2>4. ASSUME NEW T, TransportOf(c, T) PROVE TransportOf(n, T)
      BY <1>6, <2>2, <2>4 DEF TransportOf
    <2>5. Beside(c, o) => Beside(n, o)
      BY Zenon, <1>6, <2>2 DEF Beside
    <2>6. UnderTls(c, o) => UnderTls(n, o)
      BY Zenon, <1>6, <2>2, <2>3 DEF UnderTls
    <2>7. UnderTransport(c, o) => UnderTransport(n, o)
      BY Zenon, <1>6, <2>4 DEF UnderTransport
    <2> QED
      BY Zenon, <1>6, <1>8, <2>1, <2>2, <2>5, <2>6, <2>7 DEF Fits
  <1>9. ASSUME "packet_encoding" \in DOMAIN n PROVE Fits(n, "packet_encoding")
    <2>1. CASE "packet_encoding" \in DOMAIN y
      BY Zenon, <1>4, <1>6, <2>1, TypesHave DEF Fits
    <2>2. CASE "packet_encoding" \in DOMAIN c
      <3>1. Fits(c, "packet_encoding")
        BY <1>2, <2>2 DEF Sound
      <3>2. Belongs("packet_encoding", c["type"])
        BY Zenon, <3>1 DEF Fits, Beside, UnderTls, UnderTransport, TlsPlain, RealityKeys, Early
      <3> QED
        BY Zenon, <1>6, <3>2 DEF Fits
    <2> QED
      BY <1>4, <1>5, <1>9, <2>1, <2>2
  <1>10. ASSUME NEW o \in DOMAIN x PROVE Fits(n, o)
    <2>1. Part(c, "tls") = "1" /\ o = "tls_insecure"
      BY <1>4, <1>10
    <2>2. "tls" \in DOMAIN c
      BY Zenon, <2>1 DEF Part
    <2>3. Fits(c, "tls")
      BY <1>2, <2>2 DEF Sound
    <2>4. Belongs("tls", c["type"])
      BY Zenon, <2>3 DEF Fits, Beside, UnderTls, UnderTransport, TlsPlain, RealityKeys, Early
    <2> QED
      BY Zenon, <1>5, <1>6, <2>1, <2>2, <2>4 DEF Fits, UnderTls, TlsThere, TlsPlain
  <1>f. \A o \in DOMAIN n \ {"type"} : Fits(n, o)
    BY <1>4, <1>5, <1>8, <1>9, <1>10
  <1>11. \A o \in DOMAIN n : o \in Flags => n[o] \in {"0", "1"}
    <2>1. "packet_encoding" \notin Flags
      BY DEF Flags
    <2>2. \A o \in DOMAIN c : o \in Flags => c[o] \in {"0", "1"}
      BY <1>2 DEF Sound
    <2> QED
      BY <1>4, <1>5, <2>1, <2>2
  <1> QED
    BY <1>6, <1>f, <1>11, SoundIf

LinkInv ==
  /\ node # Rejected => Sound(node)
  /\ left # Rejected => node # Rejected /\ left = Saved(NodeTable, Opened(node))

LEMMA LinkInitInv == LinkInit => LinkInv
  BY DEF LinkInit, LinkInv

LEMMA LinkNextInv == LinkInv /\ [LinkNext]_linkVars => LinkInv'
  <1> SUFFICES ASSUME LinkInv, [LinkNext]_linkVars PROVE LinkInv'
    OBVIOUS
  <1>1. ASSUME NEW l \in ShareLinks, NEW i \in BOOLEAN, ImportLink(l, i) PROVE LinkInv'
    <2>1. node' = Imported(l, i) /\ left' = left /\ node = Rejected
      BY <1>1 DEF ImportLink
    <2>2. node' # Rejected => Sound(node')
      BY <2>1, ImportedSound
    <2>3. Sound(node)' <=> Sound(node')
      BY DEF Sound, Fits, Beside, UnderTls, UnderTransport, TlsThere, TransportOf, Belongs
    <2>4. left' = Rejected
      BY <2>1 DEF LinkInv
    <2> QED
      BY <2>2, <2>3, <2>4 DEF LinkInv
  <1>2. CASE SaveNode
    BY <1>2 DEF SaveNode, LinkInv
  <1>3. CASE UNCHANGED linkVars
    BY <1>3 DEF linkVars, LinkInv
  <1> QED
    BY <1>1, <1>2, <1>3 DEF LinkNext

LEMMA LinkTells == LinkInv => SaveKeepsImport
  <1> SUFFICES ASSUME LinkInv, left # Rejected, NEW o \in DOMAIN node, node[o] \notin {"", "0"}, ~Lost(o)
               PROVE  left[o] = node[o]
    BY Zenon DEF SaveKeepsImport
  <1>1. Sound(node) /\ left = Saved(NodeTable, Opened(node))
    BY Zenon DEF LinkInv
  <1>2. /\ o \in DOMAIN NodeTable /\ o \in Active(NodeTable, Opened(node))
        /\ Opened(node)[o] = node[o]
    BY Zenon, <1>1, FormKeeps
  <1> QED
    BY Zenon, <1>1, <1>2, SavedIs

-----------------------------------------------------------------------------
(* The composition: a behaviour of it is, for each page, one of that page.  *)

pageVars == <<page, modemApp, themeApp, proxyForms, proxyLists>>

LEMMA InitProjects ==
  Init => /\ FormatInit /\ DetInit /\ DbgInit /\ MenuInit /\ TabInit /\ CfgInit
          /\ ListInit /\ RouteInit /\ NodeListInit /\ StatusInit
          /\ ServerInit /\ KeyInit /\ ClientInit /\ LinkInit
  BY DEF Init

LEMMA ModemAppProjects == [Next]_pageVars => [DetNext]_detVars /\ [DbgNext]_dbgVars
  <1> SUFFICES ASSUME [Next]_pageVars PROVE [DetNext]_detVars /\ [DbgNext]_dbgVars
    OBVIOUS
  <1>1. CASE UNCHANGED modemApp
    BY <1>1 DEF modemApp
  <1>2. CASE \/ page = "detail" /\ DetNext /\ UNCHANGED <<formatVars, dbgVars>>
             \/ page = "debug" /\ DbgNext /\ UNCHANGED <<formatVars, detVars>>
    BY <1>2
  <1> QED
    BY <1>1, <1>2 DEF Next, pageVars

LEMMA FormatStays == [Next]_pageVars => UNCHANGED formatVars
  BY DEF Next, pageVars, modemApp

LEMMA ThemeProjects == [Next]_pageVars => [MenuNext]_menuVars /\ [TabNext]_tabVars /\ [CfgNext]_cfgVars
  <1> SUFFICES ASSUME [Next]_pageVars PROVE [MenuNext]_menuVars /\ [TabNext]_tabVars /\ [CfgNext]_cfgVars
    OBVIOUS
  <1>1. CASE UNCHANGED themeApp
    BY <1>1 DEF themeApp
  <1>2. CASE \/ page = "menu" /\ MenuNext /\ UNCHANGED <<tabVars, cfgVars>>
             \/ page = "tabs" /\ TabNext /\ UNCHANGED <<menuVars, cfgVars>>
             \/ page = "pictures" /\ CfgNext /\ UNCHANGED <<menuVars, tabVars>>
    BY <1>2
  <1> QED
    BY <1>1, <1>2 DEF Next, pageVars

LEMMA FormsProject ==
  [Next]_pageVars => /\ [ServerNext]_serverVars /\ [KeyNext]_keyVars
                     /\ [ClientNext]_clientVars /\ [ListNext]_domainVars /\ [LinkNext]_linkVars
  <1> SUFFICES ASSUME [Next]_pageVars
               PROVE  /\ [ServerNext]_serverVars /\ [KeyNext]_keyVars
                      /\ [ClientNext]_clientVars /\ [ListNext]_domainVars /\ [LinkNext]_linkVars
    OBVIOUS
  <1>1. CASE UNCHANGED proxyForms
    BY <1>1 DEF proxyForms
  <1>2. CASE \/ page = "server" /\ ServerNext /\ UNCHANGED <<keyVars, clientVars, domainVars, linkVars>>
             \/ page = "key" /\ KeyNext /\ UNCHANGED <<serverVars, clientVars, domainVars, linkVars>>
             \/ page = "client" /\ ClientNext /\ UNCHANGED <<serverVars, keyVars, domainVars, linkVars>>
             \/ page = "lists" /\ ListNext /\ UNCHANGED <<serverVars, keyVars, clientVars, linkVars>>
             \/ page = "link" /\ LinkNext /\ UNCHANGED <<serverVars, keyVars, clientVars, domainVars>>
    BY <1>2
  <1> QED
    BY <1>1, <1>2 DEF Next, pageVars

LEMMA ListsProject ==
  [Next]_pageVars => [RouteNext \/ ResolverNext]_routeVars /\ [NodeListNext]_listVars /\ [StatusNext]_versionVars
  <1> SUFFICES ASSUME [Next]_pageVars
               PROVE  [RouteNext \/ ResolverNext]_routeVars /\ [NodeListNext]_listVars /\ [StatusNext]_versionVars
    OBVIOUS
  <1>1. CASE UNCHANGED proxyLists
    BY <1>1 DEF proxyLists
  <1>2. CASE \/ page = "routes" /\ RouteNext /\ UNCHANGED <<listVars, versionVars>>
             \/ page = "resolvers" /\ ResolverNext /\ UNCHANGED <<listVars, versionVars>>
             \/ page = "nodes" /\ NodeListNext /\ UNCHANGED <<routeVars, versionVars>>
             \/ page = "status" /\ StatusNext /\ UNCHANGED <<routeVars, listVars>>
    BY <1>2
  <1> QED
    BY <1>1, <1>2 DEF Next, pageVars

\* What is written or drawn means what was measured, for all readings, seconds, words and
\* digits: a stronger signal never looks weaker, a duration adds up to its seconds, a name
\* keeps every word once, and the number of a network keeps its value.
THEOREM FormatsKeepMeaningHolds == Spec => []FormatsKeepMeaning
  <1>1. Init => FormatInit
    BY InitProjects
  <1>2. FormatInit /\ [Next]_pageVars => FormatInit'
    BY FormatStays DEF FormatInit, formatVars
  <1>3. FormatInit => FormatsKeepMeaning
    BY FormatTells
  <1> QED
    BY <1>1, <1>2, <1>3, PTL DEF Spec, pageVars

\* The pages show what came last: the polls of the modem's page stop for a dialog alone, a
\* bar is seen with its value, Download gives the result that is shown, and the versions of
\* the lists are those on the router once no update or reset is under way.
THEOREM LastIsShownHolds == Spec => []LastIsShown
  <1>1. Init => DetInv /\ DbgInv /\ StatusInv
    BY InitProjects, DetInitInv, DbgInitInv, StatusInitInv
  <1>2. DetInv /\ DbgInv /\ StatusInv /\ [Next]_pageVars => (DetInv /\ DbgInv /\ StatusInv)'
    BY ModemAppProjects, ListsProject, DetNextInv, DbgNextInv, StatusNextInv
  <1>3. DetInv /\ DbgInv /\ StatusInv => LastIsShown
    BY DetailTells, StatusTells DEF LastIsShown
  <1> QED
    BY <1>1, <1>2, <1>3, PTL DEF Spec, pageVars

\* However fast clicks come and however uploads overlap, a submenu at rest shows exactly if
\* it is active, the tabs of two levels are in order, and no temporary picture is left.
THEOREM ThemeSettlesHolds == Spec => []ThemeSettles
  <1>1. Init => MenuInv /\ TabInv /\ CfgInv
    BY InitProjects, MenuInitInv, TabInitInv, CfgInitInv
  <1>2. MenuInv /\ TabInv /\ CfgInv /\ [Next]_pageVars => (MenuInv /\ TabInv /\ CfgInv)'
    BY ThemeProjects, MenuNextInv, TabNextInv, CfgNextInv
  <1>3. MenuInv /\ TabInv /\ CfgInv => ThemeSettles
    BY MenuTells, TabTells DEF CfgInv, ThemeSettles
  <1> QED
    BY <1>1, <1>2, <1>3, PTL DEF Spec, pageVars

\* Routing nodes, DNS servers and main nodes that name others name what exists or was put
\* right, in whatever order they are added, changed, removed, imported and updated.
THEOREM ReferencesHoldAlways == Spec => []ReferencesHold
  <1>1. Init => RoutingInv /\ NodeInv
    BY InitProjects, RoutingInitInv, NodeInitInv
  <1>2. RoutingInv /\ NodeInv /\ [Next]_pageVars => (RoutingInv /\ NodeInv)'
    BY ListsProject, RoutingNextInv, NodeNextInv
  <1>3. RoutingInv /\ NodeInv => ReferencesHold
    BY DEF RoutingInv, RouteInv, NodeInv, ReferencesHold
  <1> QED
    BY <1>1, <1>2, <1>3, PTL DEF Spec, pageVars

\* A save of the lists writes what the fields show, and an update of the subscriptions
\* leaves the user's nodes and those of an unreachable subscription as they were.
THEOREM OthersStay == Spec => OthersAreKept
  <1>1. Init => ListInv /\ NodeInv
    BY InitProjects, ListInitInv, NodeInitInv
  <1>2. ListInv /\ NodeInv /\ [Next]_pageVars => (ListInv /\ NodeInv)'
    BY FormsProject, ListsProject, ListNextInv, NodeNextInv
  <1>3. ListInv /\ [Next]_pageVars =>
          [mode = "global" /\ mode' = mode /\ lists' = lists => listFile' = box]_domainVars
    BY FormsProject, ListStepKeeps
  <1>4. NodeInv /\ [Next]_pageVars =>
          [updates' # updates =>
             \A n \in Labels :
               owner[n] \in {ByUser} \cup Silent(fetched') /\ (\A g \in Groups : ~Provides(fetched', g, n))
                 => owner'[n] = owner[n]]_listVars
    BY ListsProject, NodeStepKeeps DEF KeepsOthers
  <1>5. Spec => SaveKeepsList
    BY <1>1, <1>2, <1>3, PTL DEF Spec, SaveKeepsList, pageVars
  <1>6. Spec => UpdateKeepsOthers
    BY <1>1, <1>2, <1>4, PTL DEF Spec, UpdateKeepsOthers, pageVars
  <1> QED
    BY <1>5, <1>6 DEF OthersAreKept

\* A server that was saved with TLS has what identifies it, one over QUIC has TLS, and a
\* generated password is accepted, with and without ACME, for every value of the dialog.
THEOREM ServerIsUsableHolds == Spec => []ServerIsUsable
  <1>1. Init => ServerInv /\ KeyInv
    BY InitProjects, ServerInitInv, KeyInitInv
  <1>2. ServerInv /\ KeyInv /\ [Next]_pageVars => (ServerInv /\ KeyInv)'
    BY FormsProject, ServerNextInv, KeyNextInv
  <1>3. ServerInv /\ KeyInv => ServerIsUsable
    BY DEF ServerInv, KeyInv, ServerIsUsable
  <1> QED
    BY <1>1, <1>2, <1>3, PTL DEF Spec, pageVars

\* The client page saves the options of the choice that was made last and no others: of a
\* rule those of its action, a group with its nodes, one policy for the LAN.
THEOREM SavedMeansChosenHolds == Spec => []SavedMeansChosen
  <1>1. Init => ClientInv
    BY InitProjects, ClientInitInv
  <1>2. ClientInv /\ [Next]_pageVars => ClientInv'
    BY FormsProject, ClientNextInv
  <1> QED
    BY <1>1, <1>2, PTL DEF Spec, pageVars, ClientInv

\* An imported node that is opened and saved keeps all its link said but what is known to be
\* lost, for every link: parser and dialog agree on which options go together.
THEOREM SaveKeepsImportHolds == Spec => []SaveKeepsImport
  <1>1. Init => LinkInv
    BY InitProjects, LinkInitInv
  <1>2. LinkInv /\ [Next]_pageVars => LinkInv'
    BY FormsProject, LinkNextInv
  <1> QED
    BY <1>1, <1>2, LinkTells, PTL DEF Spec, pageVars
===============================================================================
