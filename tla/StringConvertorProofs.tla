----------------------- MODULE StringConvertorProofs -----------------------
(***************************************************************************)
(* Theorems about StringConvertor for every set of literals the scanner    *)
(* hands out: strings stay in their buffers, a literal with text before    *)
(* some escape gets its meaning, and the code denotes the string.          *)
(*                                                                         *)
(* Starts, the recursive function both meanings rest on, is met in one     *)
(* lemma only (StartsAre): the units of a text lie one behind the other.   *)
(***************************************************************************)
EXTENDS StringConvertor, SequenceTheorems, WellFoundedInduction, TLAPS

-----------------------------------------------------------------------------
(* Places *)

\* Least numbers.
LEMMA Least ==
  ASSUME NEW S, S \subseteq Nat, S # {}
  PROVE  \E n \in S : \A m \in S : n <= m
<1>1. \E n \in S : \A m \in S : ~(<<m, n>> \in OpToRel(<, Nat))
  BY NatLessThanWellFounded, WFMin, Zenon
<1>2. \A m, n \in S : ~(<<m, n>> \in OpToRel(<, Nat)) => n <= m
  BY DEF OpToRel
<1>3. QED
  BY <1>1, <1>2

\* Places one after another can be counted.
LEMMA StartExists ==
  ASSUME NEW last \in Nat, NEW size \in [1..last -> Nat \ {0}]
  PROVE  \E f \in [1..last + 1 -> Nat \ {0}] : \A n \in 1..last + 1 :
           f[n] = IF n = 1 THEN 1
                  ELSE IF f[n - 1] > last THEN f[n - 1] ELSE f[n - 1] + size[f[n - 1]]
<1> DEFINE Next1(k) == IF k > last THEN k ELSE k + size[k]
           Counts(f, N) == /\ f \in [1..N -> Nat \ {0}]
                           /\ \A n \in 1..N : f[n] = IF n = 1 THEN 1 ELSE Next1(f[n - 1])
           Wrong == {N \in 1..last + 1 : ~ \E f : Counts(f, N)}
<1>1. \A k \in Nat \ {0} : Next1(k) \in Nat \ {0}
  BY DEF Next1
<1>2. Wrong = {}
  <2>1. SUFFICES ASSUME Wrong # {} PROVE FALSE
    OBVIOUS
  <2>2. PICK N \in Wrong : \A M \in Wrong : N <= M
    <3>1. Wrong \subseteq Nat
      OBVIOUS
    <3> HIDE DEF Wrong
    <3>2. QED
      BY <2>1, <3>1, Least
  <2>3. N \in 1..last + 1 /\ ~ \E f : Counts(f, N)
    BY <2>2
  <2>4. CASE N = 1
    <3> DEFINE f == [n \in 1..1 |-> 1]
    <3>1. Counts(f, 1)
      BY DEF Counts
    <3>2. QED
      BY <2>3, <2>4, <3>1
  <2>5. CASE N > 1
    <3>1. N - 1 \in 1..last + 1 /\ N - 1 \notin Wrong
      <4>1. N \in Nat /\ N - 1 \in 1..last + 1 /\ N - 1 < N
        BY <2>3, <2>5
      <4> HIDE DEF Wrong
      <4>2. QED
        BY <2>2, <4>1
    <3>2. PICK g : Counts(g, N - 1)
      BY <3>1
    <3> DEFINE f == [n \in 1..N |-> IF n = N THEN Next1(g[N - 1]) ELSE g[n]]
    <3>3. /\ g \in [1..N - 1 -> Nat \ {0}]
          /\ \A n \in 1..N - 1 : g[n] = IF n = 1 THEN 1 ELSE Next1(g[n - 1])
      BY <3>2 DEF Counts
    <3> HIDE DEF Next1
    <3>4. g[N - 1] \in Nat \ {0} /\ Next1(g[N - 1]) \in Nat \ {0}
      BY <1>1, <2>3, <2>5, <3>3
    <3>5. f \in [1..N -> Nat \ {0}]
      BY <2>3, <2>5, <3>3, <3>4
    <3>6. \A n \in 1..N : f[n] = IF n = 1 THEN 1 ELSE Next1(f[n - 1])
      <4> TAKE n \in 1..N
      <4>1. CASE n = N
        <5>1. N - 1 \in 1..N /\ N - 1 # N
          BY <2>3, <2>5
        <5>2. f[N - 1] = g[N - 1] /\ f[N] = Next1(g[N - 1])
          BY <2>3, <5>1
        <5>3. QED
          BY <2>5, <4>1, <5>2
      <4>2. CASE n # N /\ n = 1
        BY <3>3, <4>2, <2>3, <2>5
      <4>3. CASE n # N /\ n # 1
        <5>1. n \in 1..N - 1 /\ n - 1 \in 1..N /\ n - 1 # N
          BY <2>3, <4>3
        <5>2. f[n] = g[n] /\ f[n - 1] = g[n - 1]
          BY <4>3, <5>1
        <5>3. QED
          BY <3>3, <4>3, <5>1, <5>2
      <4>4. QED
        BY <4>1, <4>2, <4>3
    <3> HIDE DEF f
    <3>7. Counts(f, N)
      BY <3>5, <3>6 DEF Counts
    <3>8. QED
      BY <2>3, <3>7
  <2>6. QED
    BY <2>3, <2>4, <2>5
<1>3. \E f : Counts(f, last + 1)
  <2>1. last + 1 \in 1..last + 1
    OBVIOUS
  <2>2. QED
    BY <1>2, <2>1
<1>4. QED
  BY <1>3

\* The units of a text lie one behind the other from its first character to its last.
LEMMA StartsAre ==
  ASSUME NEW size \in Seq(Nat \ {0})
  PROVE  LET s == Starts(size) last == Len(size)
         IN /\ DOMAIN s \subseteq 1..last
            /\ last >= 1 => 1 \in DOMAIN s /\ s[1] = 1
            /\ \A n \in DOMAIN s : s[n] \in 1..last
            /\ \A n \in DOMAIN s :
                 IF s[n] + size[s[n]] <= last
                 THEN n + 1 \in DOMAIN s /\ s[n + 1] = s[n] + size[s[n]]
                 ELSE n + 1 \notin DOMAIN s
            /\ \A n \in DOMAIN s : n > 1 => n - 1 \in DOMAIN s
<1> DEFINE last == Len(size)
           Round(f) == [n \in 1..last + 1 |->
             IF n = 1 THEN 1
             ELSE IF f[n - 1] > last THEN f[n - 1] ELSE f[n - 1] + size[f[n - 1]]]
           start == CHOOSE f : f = Round(f)
<1>1. last \in Nat /\ size \in [1..last -> Nat \ {0}]
  OBVIOUS
<1>2. Starts(size) = [n \in {m \in 1..last : start[m] <= last} |-> start[n]]
  BY DEF Starts
<1> HIDE DEF last
<1>3. \E f : f = Round(f)
  <2>1. PICK f \in [1..last + 1 -> Nat \ {0}] : \A n \in 1..last + 1 :
           f[n] = IF n = 1 THEN 1
                  ELSE IF f[n - 1] > last THEN f[n - 1] ELSE f[n - 1] + size[f[n - 1]]
    BY <1>1, StartExists
  <2>2. f = Round(f)
    BY <2>1
  <2>3. QED
    BY <2>2
<1>4. start = Round(start)
  BY <1>3
<1>5. \A n \in 1..last + 1 :
        start[n] = IF n = 1 THEN 1
                   ELSE IF start[n - 1] > last THEN start[n - 1]
                        ELSE start[n - 1] + size[start[n - 1]]
  BY <1>4
<1> HIDE DEF start
<1>6. \A n \in 1..last + 1 : start[n] \in Nat /\ (start[n] >= n \/ start[n] > last)
  <2> DEFINE Wrong == {n \in 1..last + 1 :
                        ~(start[n] \in Nat /\ (start[n] >= n \/ start[n] > last))}
  <2>1. SUFFICES ASSUME Wrong # {} PROVE FALSE
    OBVIOUS
  <2>2. PICK n \in Wrong : \A m \in Wrong : n <= m
    <3>1. Wrong \subseteq Nat
      BY <1>1
    <3> HIDE DEF Wrong
    <3>2. QED
      BY <2>1, <3>1, Least
  <2>3. n \in 1..last + 1 /\ ~(start[n] \in Nat /\ (start[n] >= n \/ start[n] > last))
    BY <2>2
  <2>4. CASE n = 1
    BY <1>1, <1>5, <2>3, <2>4
  <2>5. CASE n > 1
    <3>1. n - 1 \in 1..last + 1 /\ n - 1 \notin Wrong
      BY <1>1, <2>2, <2>3, <2>5
    <3>2. start[n - 1] \in Nat /\ (start[n - 1] >= n - 1 \/ start[n - 1] > last)
      BY <3>1
    <3>3. start[n] = IF start[n - 1] > last THEN start[n - 1]
                     ELSE start[n - 1] + size[start[n - 1]]
      BY <1>5, <2>3, <2>5
    <3>4. start[n - 1] <= last => size[start[n - 1]] \in Nat \ {0}
      <4>1. start[n - 1] >= 1
        BY <1>1, <2>3, <2>5, <3>2
      <4>2. QED
        BY <1>1, <3>2, <4>1
    <3>5. QED
      BY <1>1, <2>3, <2>5, <3>2, <3>3, <3>4
  <2>6. QED
    BY <1>1, <2>3, <2>4, <2>5
<1> DEFINE s == Starts(size)
<1>7. /\ DOMAIN s = {m \in 1..last : start[m] <= last}
      /\ \A n \in DOMAIN s : s[n] = start[n]
  BY <1>2
<1> HIDE DEF s
<1>8. \A n \in DOMAIN s : n \in 1..last /\ start[n] \in 1..last /\ size[start[n]] \in Nat \ {0}
  <2> TAKE n \in DOMAIN s
  <2>1. n \in 1..last /\ start[n] <= last /\ start[n] \in Nat
    BY <1>1, <1>6, <1>7
  <2>2. start[n] >= 1
    BY <1>1, <1>6, <2>1
  <2>3. QED
    BY <1>1, <2>1, <2>2
<1>9. last >= 1 => 1 \in DOMAIN s /\ s[1] = 1
  <2>1. 1 \in 1..last + 1 /\ start[1] = 1
    BY <1>1, <1>5
  <2>2. last >= 1 => 1 \in 1..last
    BY <1>1
  <2>3. QED
    BY <1>7, <2>1, <2>2
<1>10. ASSUME NEW n \in DOMAIN s
       PROVE  IF s[n] + size[s[n]] <= last
              THEN n + 1 \in DOMAIN s /\ s[n + 1] = s[n] + size[s[n]]
              ELSE n + 1 \notin DOMAIN s
  <2>1. n + 1 \in 1..last + 1 /\ n + 1 # 1 /\ (n + 1) - 1 = n
    BY <1>1, <1>8
  <2>2. start[n + 1] = start[n] + size[start[n]]
    BY <1>1, <1>5, <1>8, <2>1
  <2>3. start[n + 1] <= last => n + 1 <= last
    BY <1>1, <1>6, <1>8, <2>1
  <2>4. QED
    BY <1>1, <1>7, <1>8, <2>1, <2>2, <2>3
<1>11. ASSUME NEW n \in DOMAIN s, n > 1 PROVE n - 1 \in DOMAIN s
  <2>1. n - 1 \in 1..last /\ n \in 1..last + 1
    BY <1>1, <1>8, <1>11
  <2>2. start[n] = IF start[n - 1] > last THEN start[n - 1]
                   ELSE start[n - 1] + size[start[n - 1]]
    BY <1>5, <1>11, <2>1
  <2>3. start[n - 1] \in Nat /\ start[n] <= last
    BY <1>1, <1>6, <1>7, <2>1
  <2>4. start[n - 1] <= last
    BY <1>1, <2>2, <2>3
  <2>5. QED
    BY <1>7, <2>1, <2>4
<1>12. QED
  BY <1>7, <1>8, <1>9, <1>10, <1>11 DEF s, last

\* The first numbers, and no more.
LEMMA Initial ==
  ASSUME NEW D, D \subseteq Nat \ {0}, \A k \in D : k > 1 => k - 1 \in D,
         NEW n \in Nat, 1..n \subseteq D, n + 1 \notin D
  PROVE  D = 1..n
<1> DEFINE More == {k \in D : k > n}
<1>1. More = {}
  <2>1. SUFFICES ASSUME More # {} PROVE FALSE
    OBVIOUS
  <2>2. PICK k \in More : \A m \in More : k <= m
    <3>1. More \subseteq Nat
      OBVIOUS
    <3> HIDE DEF More
    <3>2. QED
      BY <2>1, <3>1, Least
  <2>3. k \in D /\ k > n /\ k \in Nat /\ k # n + 1
    BY <2>2
  <2>4. k > 1 /\ k - 1 > n /\ k - 1 < k
    BY <2>3
  <2>5. k - 1 \in More
    BY <2>3, <2>4
  <2> HIDE DEF More
  <2>6. QED
    BY <2>2, <2>3, <2>4, <2>5
<1>2. \A k \in D : k \in 1..n
  BY <1>1
<1>3. QED
  BY <1>2

-----------------------------------------------------------------------------
(* The escapes of a literal *)

LEMMA UnitSizeIs == \A w, k : UnitSize(w, k) \in {1, 2, 4}
BY DEF UnitSize

\* StartsAre of a literal.
LEMMA UnitsAre ==
  ASSUME NEW w \in Seq(Char)
  PROVE  LET s == UnitStarts(w)
         IN /\ DOMAIN s \subseteq 1..Len(w)
            /\ Len(w) >= 1 => 1 \in DOMAIN s /\ s[1] = 1
            /\ \A n \in DOMAIN s : s[n] \in 1..Len(w)
            /\ \A n \in DOMAIN s :
                 IF s[n] + UnitSize(w, s[n]) <= Len(w)
                 THEN n + 1 \in DOMAIN s /\ s[n + 1] = s[n] + UnitSize(w, s[n])
                 ELSE n + 1 \notin DOMAIN s
            /\ \A n \in DOMAIN s : n > 1 => n - 1 \in DOMAIN s
<1> DEFINE size == [k \in 1..Len(w) |-> UnitSize(w, k)]
           s == Starts(size)
<1>1. Len(w) \in Nat /\ size \in Seq(Nat \ {0}) /\ Len(size) = Len(w)
  BY UnitSizeIs
<1>2. \A k \in 1..Len(w) : size[k] = UnitSize(w, k)
  OBVIOUS
<1>3. UnitStarts(w) = s
  BY DEF UnitStarts
<1> HIDE DEF size
<1>4. /\ DOMAIN s \subseteq 1..Len(size)
      /\ Len(size) >= 1 => 1 \in DOMAIN s /\ s[1] = 1
      /\ \A n \in DOMAIN s : s[n] \in 1..Len(size)
      /\ \A n \in DOMAIN s :
           IF s[n] + size[s[n]] <= Len(size)
           THEN n + 1 \in DOMAIN s /\ s[n + 1] = s[n] + size[s[n]]
           ELSE n + 1 \notin DOMAIN s
      /\ \A n \in DOMAIN s : n > 1 => n - 1 \in DOMAIN s
  BY <1>1, StartsAre
<1> HIDE DEF s
<1>5. QED
  BY <1>1, <1>2, <1>3, <1>4

\* n units of a literal are its first a characters.
Reaches(w, n, a) ==
    IF a < Len(w) THEN n + 1 \in DOMAIN UnitStarts(w) /\ UnitStarts(w)[n + 1] = a + 1
    ELSE n + 1 \notin DOMAIN UnitStarts(w)

LEMMA ReachesFirst == ASSUME NEW w \in Seq(Char) PROVE Reaches(w, 0, 0)
<1>1. Len(w) \in Nat
  OBVIOUS
<1>2. CASE Len(w) = 0
  <2>1. DOMAIN UnitStarts(w) \subseteq 1..0
    BY <1>2, UnitsAre
  <2>2. 0 + 1 \notin DOMAIN UnitStarts(w)
    BY <2>1
  <2>3. QED
    BY <1>2, <2>2 DEF Reaches
<1>3. CASE Len(w) >= 1
  BY <1>3, UnitsAre DEF Reaches
<1>4. QED
  BY <1>1, <1>2, <1>3

LEMMA ReachesNext ==
  ASSUME NEW w \in Seq(Char), NEW n \in Nat, NEW a \in Nat, a < Len(w), Reaches(w, n, a),
         a + UnitSize(w, a + 1) <= Len(w)
  PROVE  Reaches(w, n + 1, a + UnitSize(w, a + 1))
<1> DEFINE s == UnitStarts(w)
           b == a + UnitSize(w, a + 1)
<1>1. n + 1 \in DOMAIN s /\ s[n + 1] = a + 1
  BY DEF Reaches
<1>2. b \in Nat /\ Len(w) \in Nat /\ s[n + 1] + UnitSize(w, s[n + 1]) = b + 1
  BY <1>1, UnitSizeIs
<1>3. IF b + 1 <= Len(w) THEN (n + 1) + 1 \in DOMAIN s /\ s[(n + 1) + 1] = b + 1
      ELSE (n + 1) + 1 \notin DOMAIN s
  BY <1>1, <1>2, UnitsAre
<1> HIDE DEF b
<1>4. Reaches(w, n + 1, b)
  BY <1>2, <1>3 DEF Reaches
<1>5. QED
  BY <1>4 DEF b

\* Characters written out are units.
LEMMA ReachesText ==
  ASSUME NEW w \in Seq(Char), NEW n \in Nat, NEW a \in Nat, NEW e \in Nat,
         a <= e, e <= Len(w), Reaches(w, n, a), \A k \in a + 1..e : w[k] # Backslash
  PROVE  \A b \in a..e : Reaches(w, n + (b - a), b)
<1> DEFINE Wrong == {b \in a..e : ~Reaches(w, n + (b - a), b)}
<1>1. SUFFICES ASSUME Wrong # {} PROVE FALSE
  OBVIOUS
<1>2. PICK b \in Wrong : \A m \in Wrong : b <= m
  <2>1. Wrong \subseteq Nat
    OBVIOUS
  <2> HIDE DEF Wrong
  <2>2. QED
    BY <1>1, <2>1, Least
<1>3. b \in a..e /\ ~Reaches(w, n + (b - a), b)
  BY <1>2
<1>4. b # a
  BY <1>3
<1>5. Reaches(w, n + ((b - 1) - a), b - 1)
  <2>1. b - 1 \in a..e /\ b - 1 < b /\ b \in Nat
    BY <1>3, <1>4
  <2>2. b - 1 \notin Wrong
    <3> HIDE DEF Wrong
    <3>1. QED
      BY <1>2, <2>1
  <2>3. QED
    BY <2>1, <2>2
<1>6. UnitSize(w, (b - 1) + 1) = 1
  <2>1. b \in a + 1..e /\ (b - 1) + 1 = b
    BY <1>3, <1>4
  <2>2. QED
    BY <2>1 DEF UnitSize
<1>7. Reaches(w, (n + ((b - 1) - a)) + 1, (b - 1) + 1)
  <2>1. /\ b - 1 \in Nat /\ n + ((b - 1) - a) \in Nat /\ Len(w) \in Nat
        /\ b - 1 < Len(w) /\ (b - 1) + 1 <= Len(w)
    BY <1>3, <1>4
  <2>2. QED
    BY <1>5, <1>6, <2>1, ReachesNext
<1>8. (n + ((b - 1) - a)) + 1 = n + (b - a) /\ (b - 1) + 1 = b
  BY <1>3
<1>9. QED
  BY <1>3, <1>7, <1>8

\* The units end with the literal.
LEMMA ReachesLast ==
  ASSUME NEW w \in Seq(Char), NEW n \in Nat, 1..n \subseteq DOMAIN UnitStarts(w),
         Reaches(w, n, Len(w))
  PROVE  DOMAIN UnitStarts(w) = 1..n
<1> DEFINE D == DOMAIN UnitStarts(w)
<1>1. Len(w) \in Nat /\ n + 1 \notin D
  BY DEF Reaches
<1>2. D \subseteq Nat \ {0} /\ \A k \in D : k > 1 => k - 1 \in D
  BY <1>1, UnitsAre
<1> HIDE DEF D
<1>3. 1..n \subseteq D => D = 1..n
  BY <1>1, <1>2, Initial
<1>4. QED
  BY <1>3 DEF D

-----------------------------------------------------------------------------
(* The text that was converted *)

\* The text t is the meaning of the first a characters of the literal w.
Means(w, t, a) ==
    /\ 1..Len(t) \subseteq DOMAIN UnitStarts(w)
    /\ Reaches(w, Len(t), a)
    /\ \A k \in 1..Len(t) : t[k] = UnitChar(w, UnitStarts(w)[k])

\* Text between escapes is taken as it is.
LEMMA TextMeans ==
  ASSUME NEW w \in Seq(Char), NEW t \in Seq(Char), NEW a \in Nat, NEW e \in Nat,
         a <= e, e <= Len(w), Means(w, t, a), \A k \in a + 1..e : w[k] # Backslash
  PROVE  LET u == t \o SubSeq(w, a + 1, e)
         IN /\ u \in Seq(Char) /\ Len(u) = Len(t) + (e - a)
            /\ Means(w, u, e)
            /\ \A k \in Len(t) + 1..Len(u) : w[UnitStarts(w)[k]] # Backslash
<1> DEFINE s == UnitStarts(w)
           v == SubSeq(w, a + 1, e)
           u == t \o v
           n == Len(t)
<1>1. Len(w) \in Nat /\ n \in Nat /\ \A k \in 1..Len(w) : w[k] \in Char
  OBVIOUS
<1>2. v \in Seq(Char) /\ Len(v) = e - a /\ \A k \in 1..(e - a) : v[k] = w[a + k]
  <2>1. a + 1 \in Int /\ e \in Int /\ \A k \in a + 1..e : w[k] \in Char
    BY <1>1
  <2>2. /\ v \in Seq(Char) /\ Len(v) = IF a + 1 <= e THEN e - (a + 1) + 1 ELSE 0
        /\ \A k \in 1..e - (a + 1) + 1 : v[k] = w[(a + 1) + k - 1]
    BY <2>1, SubSeqProperties
  <2>3. e - (a + 1) + 1 = e - a /\ \A k \in 1..(e - a) : (a + 1) + k - 1 = a + k
    OBVIOUS
  <2> HIDE DEF v
  <2>4. QED
    BY <2>2, <2>3
<1> HIDE DEF v
<1>3. /\ u \in Seq(Char) /\ Len(u) = n + (e - a)
      /\ \A k \in 1..n : u[k] = t[k]
      /\ \A k \in n + 1..n + (e - a) : u[k] = w[a + (k - n)]
  <2>1. /\ u \in Seq(Char) /\ Len(u) = n + (e - a)
        /\ \A k \in 1..n + (e - a) : u[k] = IF k <= n THEN t[k] ELSE v[k - n]
    <3>1. /\ t \o v \in Seq(Char) /\ Len(t \o v) = Len(t) + Len(v)
          /\ \A k \in 1..Len(t) + Len(v) : (t \o v)[k] = IF k <= Len(t) THEN t[k] ELSE v[k - Len(t)]
      BY <1>2, ConcatProperties
    <3>2. QED
      BY <1>2, <3>1
  <2> HIDE DEF u
  <2>2. ASSUME NEW k \in 1..n PROVE u[k] = t[k]
    BY <1>1, <2>1
  <2>3. ASSUME NEW k \in n + 1..n + (e - a) PROVE u[k] = w[a + (k - n)]
    <3>1. k \in 1..n + (e - a) /\ ~(k <= n) /\ k - n \in 1..(e - a)
      BY <1>1
    <3>2. QED
      BY <1>2, <2>1, <3>1
  <2>4. QED
    BY <2>1, <2>2, <2>3
<1> HIDE DEF u, n
<1>4. \A b \in a..e : Reaches(w, n + (b - a), b)
  BY <1>1, ReachesText DEF Means, n
<1>5. ASSUME NEW k \in n + 1..n + (e - a)
      PROVE  k \in DOMAIN s /\ s[k] = a + (k - n) /\ w[s[k]] # Backslash
  <2>1. PICK b \in Nat : b = a + (k - n) - 1
    BY <1>1
  <2>2. b \in a..e /\ b < e /\ b < Len(w) /\ n + (b - a) + 1 = k /\ b + 1 \in a + 1..e
        /\ b + 1 = a + (k - n)
    BY <1>1, <2>1
  <2>3. Reaches(w, n + (b - a), b)
    BY <1>4, <2>2
  <2>4. k \in DOMAIN s /\ s[k] = b + 1
    BY <2>2, <2>3 DEF Reaches
  <2>5. QED
    BY <2>2, <2>4
<1>6. 1..Len(u) \subseteq DOMAIN s
  <2>1. \A k \in 1..Len(u) : k \in 1..n \/ k \in n + 1..n + (e - a)
    BY <1>1, <1>3
  <2>2. 1..n \subseteq DOMAIN s
    BY DEF Means, n
  <2>3. QED
    BY <1>5, <2>1, <2>2
<1>7. Reaches(w, Len(u), e)
  BY <1>3, <1>4
<1>8. ASSUME NEW k \in 1..Len(u) PROVE u[k] = UnitChar(w, s[k])
  <2>1. CASE k \in 1..n
    BY <1>3, <2>1 DEF Means, n
  <2>2. CASE k \in n + 1..n + (e - a)
    BY <1>3, <1>5, <2>2 DEF UnitChar
  <2>3. QED
    BY <1>1, <1>3, <2>1, <2>2
<1>9. Means(w, u, e)
  BY <1>6, <1>7, <1>8 DEF Means
<1>10. QED
  BY <1>3, <1>5, <1>9 DEF u, v, n

\* An escape is its character.
LEMMA EscapeMeans ==
  ASSUME NEW w \in Seq(Char), NEW t \in Seq(Char), NEW e \in Nat, e < Len(w),
         Means(w, t, e), e + UnitSize(w, e + 1) <= Len(w), UnitChar(w, e + 1) \in Char
  PROVE  LET u == Append(t, UnitChar(w, e + 1))
         IN /\ u \in Seq(Char) /\ Len(u) = Len(t) + 1
            /\ Means(w, u, e + UnitSize(w, e + 1))
            /\ UnitStarts(w)[Len(u)] = e + 1
<1> DEFINE s == UnitStarts(w)
           u == Append(t, UnitChar(w, e + 1))
           n == Len(t)
<1>1. Len(w) \in Nat /\ n \in Nat
  OBVIOUS
<1>2. /\ u \in Seq(Char) /\ Len(u) = n + 1 /\ u[n + 1] = UnitChar(w, e + 1)
      /\ \A k \in 1..n : u[k] = t[k]
  BY AppendProperties
<1> HIDE DEF u
<1>3. n + 1 \in DOMAIN s /\ s[n + 1] = e + 1
  BY <1>1 DEF Means, Reaches
<1>4. Reaches(w, n + 1, e + UnitSize(w, e + 1))
  BY <1>1, ReachesNext DEF Means
<1>5. /\ 1..n \subseteq DOMAIN s
      /\ \A k \in 1..n : t[k] = UnitChar(w, s[k])
  BY DEF Means
<1> HIDE DEF n, s
<1>6. \A k \in 1..Len(u) : k \in DOMAIN s /\ u[k] = UnitChar(w, s[k])
  <2> TAKE k \in 1..Len(u)
  <2>1. k \in 1..n \/ k = n + 1
    BY <1>1, <1>2
  <2>2. QED
    BY <1>2, <1>3, <1>5, <2>1
<1>7. Means(w, u, e + UnitSize(w, e + 1))
  BY <1>2, <1>4, <1>6 DEF Means, s
<1>8. QED
  BY <1>2, <1>3, <1>7 DEF u, n, s

\* When all is read, all is converted.
LEMMA AllMeans ==
  ASSUME NEW w \in Seq(Char), NEW t \in Seq(Char), Means(w, t, Len(w))
  PROVE  DOMAIN UnitStarts(w) = 1..Len(t) /\ t = Meaning(w)
<1>1. Len(t) \in Nat /\ t = [k \in 1..Len(t) |-> t[k]]
  OBVIOUS
<1>2. DOMAIN UnitStarts(w) = 1..Len(t)
  BY <1>1, ReachesLast DEF Means
<1>3. Meaning(w) = [k \in 1..Len(t) |-> UnitChar(w, UnitStarts(w)[k])]
  BY <1>2 DEF Meaning
<1>4. \A k \in 1..Len(t) : t[k] = UnitChar(w, UnitStarts(w)[k])
  BY DEF Means
<1>5. QED
  BY <1>1, <1>2, <1>3, <1>4

-----------------------------------------------------------------------------
(* Strings *)

\* Appending and concatenation keep a string in its buffer.
LEMMA StringTypes ==
  /\ \A str \in PtrString, c \in Char :
       /\ ptr_string_append(str, c) \in PtrString
       /\ ptr_string_append(str, c).text = Append(str.text, c)
  /\ \A str \in PtrString : \A more : more.text \in Seq(Char) =>
       /\ ptr_string_concat(str, more) \in PtrString
       /\ ptr_string_concat(str, more).text = str.text \o more.text
  /\ \A text \in Seq(Char) : ptr_string(text) \in PtrString /\ ptr_string(text).text = text
  /\ ptr_string_new \in PtrString /\ ptr_string_new.text = <<>>
<1>1. ASSUME NEW str \in PtrString
      PROVE  str.text \in Seq(Char) /\ str.capacity \in Nat /\ Len(str.text) <= str.capacity
  BY DEF PtrString
<1>2. ASSUME NEW text \in Seq(Char), NEW capacity \in Nat, Len(text) <= capacity
      PROVE  [text |-> text, capacity |-> capacity] \in PtrString
  BY <1>2 DEF PtrString
<1>3. ASSUME NEW str \in PtrString, NEW n \in Nat
      PROVE  resize(str, n) \in Nat /\ Len(str.text) + n <= resize(str, n)
  <2>1. Len(str.text) \in Nat /\ PTR_STRING_CHUNK \in Nat
    BY <1>1, ChunkAssumption
  <2>2. QED
    BY <1>1, <2>1 DEF resize, should_resize, ptr_string_length
<1>4. ASSUME NEW str \in PtrString, NEW c \in Char
      PROVE  /\ ptr_string_append(str, c) \in PtrString
             /\ ptr_string_append(str, c).text = Append(str.text, c)
  <2>1. Append(str.text, c) \in Seq(Char) /\ Len(Append(str.text, c)) = Len(str.text) + 1
    BY <1>1, AppendProperties
  <2>2. resize(str, 1) \in Nat /\ Len(str.text) + 1 <= resize(str, 1)
    BY <1>3
  <2>3. QED
    BY <1>2, <2>1, <2>2 DEF ptr_string_append
<1>5. ASSUME NEW str \in PtrString, NEW more, more.text \in Seq(Char)
      PROVE  /\ ptr_string_concat(str, more) \in PtrString
             /\ ptr_string_concat(str, more).text = str.text \o more.text
  <2>1. /\ str.text \o more.text \in Seq(Char)
        /\ Len(str.text \o more.text) = Len(str.text) + Len(more.text)
    BY <1>1, <1>5, ConcatProperties
  <2>2. Len(more.text) \in Nat
    BY <1>5
  <2>3. /\ resize(str, Len(more.text)) \in Nat
        /\ Len(str.text) + Len(more.text) <= resize(str, Len(more.text))
    BY <1>3, <2>2
  <2>4. QED
    BY <1>2, <2>1, <2>3 DEF ptr_string_concat, ptr_string_length
<1>6. ASSUME NEW text \in Seq(Char)
      PROVE  ptr_string(text) \in PtrString /\ ptr_string(text).text = text
  <2>1. Len(text) \in Nat
    OBVIOUS
  <2>2. QED
    BY <1>2, <2>1 DEF ptr_string
<1>7. ptr_string_new \in PtrString /\ ptr_string_new.text = <<>>
  <2>1. <<>> \in Seq(Char) /\ Len(<<>>) <= PTR_STRING_CHUNK /\ PTR_STRING_CHUNK \in Nat
    BY ChunkAssumption
  <2>2. QED
    BY <1>2, <2>1 DEF ptr_string_new
<1>8. QED
  BY <1>4, <1>5, <1>6, <1>7

\* The search finds the first backslash that was not read yet.
LEMMA NextEscapeIs ==
  ASSUME NEW w \in Seq(Char), w = ifj_string.text, index_start \in 0..Len(w)
  PROVE  \/ NextEscape = -1 /\ \A k \in index_start + 1..Len(w) : w[k] # Backslash
         \/ /\ NextEscape \in Nat /\ index_start <= NextEscape /\ NextEscape < Len(w)
            /\ w[NextEscape + 1] = Backslash
            /\ \A k \in index_start + 1..NextEscape : w[k] # Backslash
<1> DEFINE found == {k \in index_start..Len(w) - 1 : w[k + 1] = Backslash}
<1>1. NextEscape = IF found = {} THEN -1 ELSE Min(found)
  BY DEF NextEscape, ptr_string_find_char_from_index, ptr_string_length, ptr_string_get_char
<1>2. Len(w) \in Nat /\ index_start \in Nat
  OBVIOUS
<1>3. CASE found = {}
  <2>1. ASSUME NEW k \in index_start + 1..Len(w) PROVE w[k] # Backslash
    <3>1. k - 1 \in index_start..Len(w) - 1 /\ (k - 1) + 1 = k
      BY <1>2
    <3>2. QED
      BY <1>3, <3>1
  <2> HIDE DEF found
  <2>2. QED
    BY <1>1, <1>3, <2>1
<1>4. CASE found # {}
  <2>1. found \subseteq Nat
    BY <1>2
  <2>2. \A k \in found : k \in index_start..Len(w) - 1 /\ w[k + 1] = Backslash
    OBVIOUS
  <2>3. \A k \in index_start..Len(w) - 1 : k \notin found => w[k + 1] # Backslash
    OBVIOUS
  <2> HIDE DEF found
  <2>4. \E n \in found : \A m \in found : n <= m
    BY <1>4, <2>1, Least
  <2>5. Min(found) \in found /\ \A m \in found : Min(found) <= m
    BY <2>4 DEF Min
  <2>6. NextEscape \in found /\ \A m \in found : NextEscape <= m
    BY <1>1, <1>4, <2>5
  <2>7. PICK e \in Nat : e = NextEscape
    BY <2>1, <2>6
  <2>8. e \in index_start..Len(w) - 1 /\ w[e + 1] = Backslash
    BY <2>2, <2>6, <2>7
  <2>9. ASSUME NEW k \in index_start + 1..e PROVE w[k] # Backslash
    <3>1. k - 1 \in index_start..Len(w) - 1 /\ (k - 1) + 1 = k /\ ~(e <= k - 1)
      BY <1>2, <2>8
    <3>2. k - 1 \notin found
      BY <2>6, <2>7, <3>1
    <3>3. QED
      BY <2>3, <3>1, <3>2
  <2>10. QED
    BY <1>2, <2>7, <2>8, <2>9
<1>5. QED
  BY <1>3, <1>4

LEMMA HexValue ==
  ASSUME NEW h \in Hex
  PROVE  Value(h) \in 0..15 /\ hex_to_decimal(h) = Value(h)
<1> DEFINE Is(n) == IF n < 10 THEN h = Zero + n ELSE h \in {55 + n, 87 + n}
           d == hex_to_decimal(h)
<1>1. d \in 0..15 /\ Is(d)
  BY DEF hex_to_decimal, Hex, Zero
<1>2. \A n \in 0..15 : Is(n) => n = d
  BY DEF hex_to_decimal, Hex, Zero
<1> HIDE DEF Is, d
<1>3. (CHOOSE n \in 0..15 : Is(n)) = d
  BY <1>1, <1>2
<1>4. Value(h) = d
  BY <1>3 DEF Value, Is
<1>5. QED
  BY <1>1, <1>4 DEF d

\* special_char of an escape the scanner has accepted.
LEMMA SpecialIs ==
  ASSUME NEW w \in Seq(Char), w = ifj_string.text, NEW e \in Nat, e + 1 < Len(w),
         w[e + 1] = Backslash,
         w[e + 2] = 120 => e + 4 <= Len(w) /\ w[e + 3] \in Hex /\ w[e + 4] \in Hex
  PROVE  /\ special_char(e).char = UnitChar(w, e + 1)
         /\ special_char(e).read = UnitSize(w, e + 1)
         /\ UnitChar(w, e + 1) \in Char
         /\ e + UnitSize(w, e + 1) <= Len(w)
         /\ Asserted(e) <=> UnitChar(w, e + 1) # 0
<1> DEFINE c == w[e + 2]
<1>1. Len(w) \in Nat /\ c \in Char
  OBVIOUS
<1>2. /\ At(e + 1) = c /\ At(e + 2) = w[e + 3] /\ At(e + 3) = w[e + 4]
      /\ w[(e + 1) + 1] = c /\ w[(e + 1) + 2] = w[e + 3] /\ w[(e + 1) + 3] = w[e + 4]
  <2>1. (e + 1) + 1 = e + 2 /\ (e + 1) + 2 = e + 3 /\ (e + 1) + 3 = e + 4
    OBVIOUS
  <2>2. QED
    BY <2>1 DEF At, ptr_string_get_char
<1>3. InRange(e + 1) /\ (InRange(e + 3) <=> e + 4 <= Len(w))
  BY <1>1 DEF InRange, ptr_string_length
<1>4. e + 1 # Len(w)
  BY <1>1
<1> HIDE DEF c
<1>5. CASE c \in {34, 39, 92, 110, 116}
  <2>1. c # 120
    BY <1>5
  <2>2. UnitSize(w, e + 1) = 2
    BY <1>2, <1>4, <1>5 DEF UnitSize
  <2>3. /\ special_char(e).read = 2 /\ special_char(e).char = UnitChar(w, e + 1)
        /\ UnitChar(w, e + 1) \in {34, 39, 92, 10, 9}
    <3>1. CASE c \in {34, 39, 92}
      BY <1>2, <3>1 DEF special_char, UnitChar
    <3>2. CASE c = 110
      BY <1>2, <3>2 DEF special_char, UnitChar
    <3>3. CASE c = 116
      BY <1>2, <3>3 DEF special_char, UnitChar
    <3>4. QED
      BY <1>5, <3>1, <3>2, <3>3
  <2>4. UnitChar(w, e + 1) \in Char
    BY <2>3 DEF Char
  <2>5. QED
    BY <1>1, <1>2, <1>3, <2>1, <2>2, <2>3, <2>4 DEF Asserted
<1>6. CASE c = 120
  <2>1. e + 4 <= Len(w) /\ w[e + 3] \in Hex /\ w[e + 4] \in Hex
    BY <1>6 DEF c
  <2>2. UnitSize(w, e + 1) = 4
    BY <1>2, <1>4, <1>6 DEF UnitSize
  <2> DEFINE a == Value(w[e + 3])
             b == Value(w[e + 4])
  <2>3. a \in 0..15 /\ b \in 0..15 /\ hex_to_decimal(w[e + 3]) = a /\ hex_to_decimal(w[e + 4]) = b
    BY <2>1, HexValue
  <2> HIDE DEF a, b
  <2>4. UnitChar(w, e + 1) = ToChar(16 * a + b)
    BY <1>2, <1>6 DEF UnitChar, a, b
  <2>5. special_char(e).read = 4 /\ special_char(e).char = ToChar(16 * a + b)
    BY <1>2, <1>6, <2>3 DEF special_char
  <2>6. ToChar(16 * a + b) \in Char
    BY <2>3 DEF ToChar, Char
  <2>7. QED
    BY <1>1, <1>2, <1>3, <2>1, <2>2, <2>4, <2>5, <2>6 DEF Asserted
<1>7. CASE c \notin {34, 39, 92, 110, 116, 120}
  <2>1. UnitSize(w, e + 1) = 1
    BY <1>2, <1>4, <1>7 DEF UnitSize
  <2>2. UnitChar(w, e + 1) = Backslash
    BY <1>2, <1>7 DEF UnitChar
  <2>3. special_char(e).read = 1 /\ special_char(e).char = Backslash
    BY <1>2, <1>7 DEF special_char
  <2>4. QED
    BY <1>1, <1>2, <1>3, <1>7, <2>1, <2>2, <2>3 DEF Asserted, Char, Backslash
<1>8. QED
  BY <1>5, <1>6, <1>7

-----------------------------------------------------------------------------
(* The code of a string *)

Special == {Hash, Backslash} \cup 0..32

\* The characters of u from a to b are the code of c.
CodeAt(u, a, b, c) ==
    IF c \in Special
    THEN /\ b = a + 4 /\ u[a + 1] = Backslash
         /\ 100 * (u[a + 2] - Zero) + 10 * (u[a + 3] - Zero) + (u[a + 4] - Zero) = c
    ELSE b = a + 1 /\ u[b] = c

\* u is the code of the first n characters of t.
Codes(u, t, n) ==
    \E p \in [0..n -> 0..Len(u)] :
      /\ p[0] = 0 /\ p[n] = Len(u)
      /\ \A j \in 1..n : CodeAt(u, p[j - 1], p[j], t[j])

LEMMA Joined3 == \A a, b, c, d \in Int : <<a, b, c>> \o <<d>> = <<a, b, c, d>>
<1>1. SUFFICES ASSUME NEW a \in Int, NEW b \in Int, NEW c \in Int, NEW d \in Int, NEW s, NEW t,
                      s = <<a, b, c>>, t = <<d>>
               PROVE  s \o t = <<a, b, c, d>>
  OBVIOUS
<1> DEFINE u == s \o t
           v == <<a, b, c, d>>
<1>2. s \in Seq(Int) /\ t \in Seq(Int) /\ Len(s) = 3 /\ Len(t) = 1
  BY <1>1
<1>3. /\ u \in Seq(Int) /\ Len(u) = 4
      /\ u[1] = a /\ u[2] = b /\ u[3] = c /\ u[4] = d
  BY <1>1, <1>2, ConcatProperties
<1>4. /\ v \in Seq(Int) /\ Len(v) = 4
      /\ v[1] = a /\ v[2] = b /\ v[3] = c /\ v[4] = d
  OBVIOUS
<1> HIDE DEF u, v
<1>5. \A k \in 1..4 : k = 1 \/ k = 2 \/ k = 3 \/ k = 4
  OBVIOUS
<1>6. u = v
  BY <1>3, <1>4, <1>5, SeqEqual
<1>7. QED
  BY <1>6 DEF u, v

LEMMA Joined2 == \A a, b, c, d \in Int : <<a, b>> \o <<c, d>> = <<a, b, c, d>>
<1>1. SUFFICES ASSUME NEW a \in Int, NEW b \in Int, NEW c \in Int, NEW d \in Int, NEW s, NEW t,
                      s = <<a, b>>, t = <<c, d>>
               PROVE  s \o t = <<a, b, c, d>>
  OBVIOUS
<1> DEFINE u == s \o t
           v == <<a, b, c, d>>
<1>2. s \in Seq(Int) /\ t \in Seq(Int) /\ Len(s) = 2 /\ Len(t) = 2
  BY <1>1
<1>3. /\ u \in Seq(Int) /\ Len(u) = 4
      /\ u[1] = a /\ u[2] = b /\ u[3] = c /\ u[4] = d
  BY <1>1, <1>2, ConcatProperties
<1>4. /\ v \in Seq(Int) /\ Len(v) = 4
      /\ v[1] = a /\ v[2] = b /\ v[3] = c /\ v[4] = d
  OBVIOUS
<1> HIDE DEF u, v
<1>5. \A k \in 1..4 : k = 1 \/ k = 2 \/ k = 3 \/ k = 4
  OBVIOUS
<1>6. u = v
  BY <1>3, <1>4, <1>5, SeqEqual
<1>7. QED
  BY <1>6 DEF u, v

LEMMA CharCodeIs ==
  ASSUME NEW c \in Special
  PROVE  LET v == char_code(c).text
         IN /\ v \in Seq(Char) /\ Len(v) = 4 /\ CodeAt(v, 0, 4, c)
            /\ \A k \in 1..4 : v[k] \notin {Hash} \cup 0..32
<1> DEFINE v == char_code(c).text
<1>1. SUFFICES \E x, y, z \in 48..57 :
                 v = <<Backslash, x, y, z>> /\ c = 100 * (x - 48) + 10 * (y - 48) + (z - 48)
  <2>1. PICK x \in 48..57, y \in 48..57, z \in 48..57 :
           v = <<Backslash, x, y, z>> /\ c = 100 * (x - 48) + 10 * (y - 48) + (z - 48)
    BY <1>1
  <2> HIDE DEF v
  <2>2. /\ v \in Seq(Char) /\ Len(v) = 4
        /\ v[1] = Backslash /\ v[2] = x /\ v[3] = y /\ v[4] = z
        /\ \A k \in 1..4 : v[k] \notin {Hash} \cup 0..32
    <3>1. x \in Char /\ y \in Char /\ z \in Char /\ Backslash \in Char
      BY DEF Backslash, Char
    <3>2. /\ v \in Seq(Char) /\ Len(v) = 4
          /\ v[1] = Backslash /\ v[2] = x /\ v[3] = y /\ v[4] = z
      BY <2>1, <3>1
    <3>3. \A k \in 1..4 : v[k] \in {Backslash, x, y, z}
      <4>1. \A k \in 1..4 : k = 1 \/ k = 2 \/ k = 3 \/ k = 4
        OBVIOUS
      <4>2. QED
        BY <3>2, <4>1
    <3>4. \A d \in {Backslash, x, y, z} : d \notin {Hash} \cup 0..32
      BY DEF Backslash, Hash
    <3>5. QED
      BY <3>2, <3>3, <3>4
  <2>3. v[0 + 1] = Backslash /\ v[0 + 2] = x /\ v[0 + 3] = y /\ v[0 + 4] = z /\ 4 = 0 + 4
    BY <2>2
  <2>4. CodeAt(v, 0, 4, c)
    BY <2>1, <2>3 DEF CodeAt, Zero
  <2>5. QED
    BY <2>2, <2>4 DEF v
<1>2. CASE c = Hash
  <2>1. v = <<Backslash, 48, 51, 53>>
    BY <1>2 DEF char_code, ptr_string, Zero
  <2>2. c = 100 * (48 - 48) + 10 * (51 - 48) + (53 - 48)
    BY <1>2 DEF Hash
  <2> HIDE DEF v
  <2>3. QED
    BY <2>1, <2>2
<1>3. CASE c = Backslash
  <2>1. v = <<Backslash, 48, 57, 50>>
    BY <1>3 DEF char_code, ptr_string, Hash, Backslash, Zero
  <2>2. c = 100 * (48 - 48) + 10 * (57 - 48) + (50 - 48)
    BY <1>3 DEF Backslash
  <2> HIDE DEF v
  <2>3. QED
    BY <2>1, <2>2
<1>4. CASE c \in 0..9
  <2>1. PICK z \in 48..57 : z = 48 + c
    BY <1>4
  <2>2. v = <<Backslash, 48, 48>> \o <<z>>
    BY <1>4, <2>1 DEF char_code, ptr_string, ptr_string_insert, Decimal, Hash, Backslash, Zero
  <2>3. <<Backslash, 48, 48>> \o <<z>> = <<Backslash, 48, 48, z>>
    BY Joined3 DEF Backslash
  <2>4. c = 100 * (48 - 48) + 10 * (48 - 48) + (z - 48)
    BY <1>4, <2>1
  <2> HIDE DEF v
  <2>5. 48 \in 48..57 /\ v = <<Backslash, 48, 48, z>>
    BY <2>2, <2>3
  <2>6. QED
    BY <2>4, <2>5
<1>5. CASE c \in 10..32
  <2>1. PICK a \in 1..3, b \in 0..9 : a = c \div 10 /\ b = c % 10 /\ c = 10 * a + b
    BY <1>5
  <2>2. PICK y \in 48..57, z \in 48..57 : y = 48 + a /\ z = 48 + b
    BY <2>1
  <2>3. v = <<Backslash, 48>> \o <<y, z>>
    BY <1>5, <2>1, <2>2
       DEF char_code, ptr_string, ptr_string_insert, Decimal, Hash, Backslash, Zero
  <2>4. <<Backslash, 48>> \o <<y, z>> = <<Backslash, 48, y, z>>
    BY Joined2 DEF Backslash
  <2>5. c = 100 * (48 - 48) + 10 * (y - 48) + (z - 48)
    BY <2>1, <2>2
  <2> HIDE DEF v
  <2>6. 48 \in 48..57 /\ v = <<Backslash, 48, y, z>>
    BY <2>3, <2>4
  <2>7. QED
    BY <2>5, <2>6
<1> HIDE DEF v
<1>6. c = Hash \/ c = Backslash \/ c \in 0..9 \/ c \in 10..32
  BY DEF Special
<1>7. QED
  BY <1>2, <1>3, <1>4, <1>5, <1>6

LEMMA CodesNone == ASSUME NEW t PROVE Codes(<<>>, t, 0)
<1> DEFINE u == <<>>
           p == [j \in 0..0 |-> 0]
<1>1. Len(u) = 0
  OBVIOUS
<1> HIDE DEF u
<1>2. p \in [0..0 -> 0..Len(u)] /\ p[0] = 0 /\ p[0] = Len(u)
  BY <1>1
<1> HIDE DEF p
<1>3. \A j \in 1..0 : CodeAt(u, p[j - 1], p[j], t[j])
  OBVIOUS
<1>4. Codes(u, t, 0)
  BY <1>2, <1>3 DEF Codes
<1>5. QED
  BY <1>4 DEF u

\* One more character is coded.
LEMMA CodesMore ==
  ASSUME NEW u \in Seq(Char), NEW v \in Seq(Char), NEW t, NEW n \in Nat,
         Codes(u, t, n), CodeAt(v, 0, Len(v), t[n + 1])
  PROVE  Codes(u \o v, t, n + 1)
<1> DEFINE x == u \o v
           l == Len(u)
           m == Len(v)
<1>1. PICK p \in [0..n -> 0..l] :
        /\ p[0] = 0 /\ p[n] = l
        /\ \A j \in 1..n : CodeAt(u, p[j - 1], p[j], t[j])
  BY DEF Codes
<1>2. /\ l \in Nat /\ m \in Nat /\ x \in Seq(Char) /\ Len(x) = l + m
      /\ \A k \in 1..l + m : x[k] = IF k <= l THEN u[k] ELSE v[k - l]
  BY ConcatProperties
<1> DEFINE q == [j \in 0..n + 1 |-> IF j = n + 1 THEN l + m ELSE p[j]]
<1>3. CodeAt(v, 0, m, t[n + 1])
  OBVIOUS
<1> HIDE DEF x, l, m
<1>4. \A j \in 0..n : p[j] \in 0..l
  BY <1>1
<1>5. /\ q \in [0..n + 1 -> 0..Len(x)] /\ q[0] = 0 /\ q[n + 1] = Len(x)
      /\ \A j \in 0..n : q[j] = p[j]
  <2>1. \A j \in 0..n + 1 : j # n + 1 => j \in 0..n
    OBVIOUS
  <2>2. \A j \in 0..n + 1 : q[j] \in 0..Len(x)
    BY <1>2, <1>4, <2>1
  <2>3. QED
    BY <1>1, <1>2, <2>2
<1> HIDE DEF q
<1>6. ASSUME NEW j \in 1..n + 1 PROVE CodeAt(x, q[j - 1], q[j], t[j])
  <2>1. CASE j = n + 1
    <3>1. q[j - 1] = l /\ q[j] = l + m
      BY <1>1, <1>2, <1>5, <2>1
    <3>2. CodeAt(v, 0, m, t[j])
      BY <1>3, <2>1
    <3>3. m >= 1 /\ \A k \in 1..m : x[l + k] = v[k]
      <4>1. m \in {1, 4}
        BY <1>2, <3>2 DEF CodeAt
      <4>2. ASSUME NEW k \in 1..m PROVE x[l + k] = v[k]
        <5>1. l + k \in 1..l + m /\ ~(l + k <= l) /\ (l + k) - l = k
          BY <1>2
        <5>2. QED
          BY <1>2, <5>1
      <4>3. QED
        BY <4>1, <4>2
    <3>4. CASE t[j] \in Special
      <4>1. /\ m = 4 /\ v[1] = Backslash
            /\ 100 * (v[2] - Zero) + 10 * (v[3] - Zero) + (v[4] - Zero) = t[j]
        BY <3>2, <3>4 DEF CodeAt
      <4>2. 1 \in 1..m /\ 2 \in 1..m /\ 3 \in 1..m /\ 4 \in 1..m
        BY <4>1
      <4>3. x[l + 1] = v[1] /\ x[l + 2] = v[2] /\ x[l + 3] = v[3] /\ x[l + 4] = v[4]
        BY <3>3, <4>2
      <4>4. QED
        BY <3>1, <3>4, <4>1, <4>3 DEF CodeAt
    <3>5. CASE t[j] \notin Special
      <4>1. m = 1 /\ v[1] = t[j]
        BY <3>2, <3>5 DEF CodeAt
      <4>2. x[l + 1] = v[1]
        BY <3>3, <4>1
      <4>3. QED
        BY <3>1, <3>5, <4>1, <4>2 DEF CodeAt
    <3>6. QED
      BY <3>4, <3>5
  <2>2. CASE j # n + 1
    <3>1. j \in 1..n /\ j - 1 \in 0..n /\ j \in 0..n
      BY <2>2
    <3>2. PICK a \in 0..l, b \in 0..l : a = p[j - 1] /\ b = p[j]
      BY <1>4, <3>1
    <3>3. q[j - 1] = a /\ q[j] = b /\ CodeAt(u, a, b, t[j])
      BY <1>1, <1>5, <3>1, <3>2
    <3>4. \A k \in 1..l : x[k] = u[k]
      BY <1>2
    <3>5. CASE t[j] \in Special
      <4>1. b = a + 4 /\ a + 1 \in 1..l /\ a + 2 \in 1..l /\ a + 3 \in 1..l /\ a + 4 \in 1..l
        BY <1>2, <3>3, <3>5 DEF CodeAt
      <4>2. x[a + 1] = u[a + 1] /\ x[a + 2] = u[a + 2] /\ x[a + 3] = u[a + 3] /\ x[a + 4] = u[a + 4]
        BY <3>4, <4>1
      <4>3. QED
        BY <3>3, <3>5, <4>2 DEF CodeAt
    <3>6. CASE t[j] \notin Special
      <4>1. b = a + 1 /\ b \in 1..l
        BY <1>2, <3>3, <3>6 DEF CodeAt
      <4>2. x[b] = u[b]
        BY <3>4, <4>1
      <4>3. QED
        BY <3>3, <3>6, <4>2 DEF CodeAt
    <3>7. QED
      BY <3>5, <3>6
  <2>3. QED
    BY <2>1, <2>2
<1>7. Codes(x, t, n + 1)
  BY <1>5, <1>6 DEF Codes
<1>8. QED
  BY <1>7 DEF x

\* A code is decoded to what was coded.
LEMMA CodesDecode ==
  ASSUME NEW u \in Seq(Char), NEW t \in Seq(Char), Codes(u, t, Len(t))
  PROVE  Decoded(u) = t
<1> DEFINE size == [k \in 1..Len(u) |-> IF u[k] = Backslash THEN 4 ELSE 1]
           s == Starts(size)
           l == Len(u)
           n == Len(t)
<1>1. l \in Nat /\ n \in Nat /\ size \in Seq(Nat \ {0}) /\ Len(size) = l
      /\ t = [j \in 1..n |-> t[j]]
  OBVIOUS
<1>2. \A k \in 1..l : size[k] = IF u[k] = Backslash THEN 4 ELSE 1
  OBVIOUS
<1>3. CodeStarts(u) = s
  BY DEF CodeStarts
<1>4. PICK p \in [0..n -> 0..l] :
        /\ p[0] = 0 /\ p[n] = l
        /\ \A j \in 1..n : CodeAt(u, p[j - 1], p[j], t[j])
  BY DEF Codes
<1> HIDE DEF size, l, n
<1>5. /\ DOMAIN s \subseteq 1..l
      /\ l >= 1 => 1 \in DOMAIN s /\ s[1] = 1
      /\ \A k \in DOMAIN s : s[k] \in 1..l
      /\ \A k \in DOMAIN s :
           IF s[k] + size[s[k]] <= l
           THEN k + 1 \in DOMAIN s /\ s[k + 1] = s[k] + size[s[k]]
           ELSE k + 1 \notin DOMAIN s
      /\ \A k \in DOMAIN s : k > 1 => k - 1 \in DOMAIN s
  BY <1>1, StartsAre
<1> HIDE DEF s
<1>6. \A j \in 0..n : p[j] \in 0..l
  BY <1>4
<1>7. ASSUME NEW j \in 1..n
      PROVE  /\ p[j - 1] \in Nat /\ p[j] \in Nat /\ p[j - 1] < p[j] /\ p[j] <= l
             /\ p[j] = p[j - 1] + size[p[j - 1] + 1]
             /\ CodeChar(u, p[j - 1] + 1) = t[j]
  <2>1. j - 1 \in 0..n /\ j \in 0..n
    BY <1>1
  <2>2. PICK a \in 0..l, b \in 0..l : a = p[j - 1] /\ b = p[j]
    BY <1>6, <2>1
  <2>3. CodeAt(u, a, b, t[j]) /\ a \in Nat /\ b \in Nat
    BY <1>4, <2>2
  <2>4. CASE t[j] \in Special
    <3>1. /\ b = a + 4 /\ u[a + 1] = Backslash
          /\ 100 * (u[a + 2] - Zero) + 10 * (u[a + 3] - Zero) + (u[a + 4] - Zero) = t[j]
      BY <2>3, <2>4 DEF CodeAt
    <3>2. CodeChar(u, a + 1) = t[j]
      <4>1. (a + 1) + 1 = a + 2 /\ (a + 1) + 2 = a + 3 /\ (a + 1) + 3 = a + 4
        OBVIOUS
      <4>2. QED
        BY <3>1, <4>1 DEF CodeChar
    <3>3. a + 1 \in 1..l /\ a < b /\ b <= l
      <4>1. b = a + 4
        BY <3>1
      <4>2. QED
        BY <1>1, <4>1
    <3>4. b = a + size[a + 1]
      BY <1>2, <3>1, <3>3
    <3>5. QED
      BY <2>2, <2>3, <3>2, <3>3, <3>4
  <2>5. CASE t[j] \notin Special
    <3>1. b = a + 1 /\ u[b] = t[j]
      BY <2>3, <2>5 DEF CodeAt
    <3>2. u[a + 1] = t[j] /\ u[a + 1] # Backslash
      BY <2>5, <3>1 DEF Special
    <3>3. CodeChar(u, a + 1) = t[j]
      BY <3>2 DEF CodeChar
    <3>4. a + 1 \in 1..l /\ a < b /\ b <= l
      BY <1>1, <2>3, <3>1
    <3>5. b = a + size[a + 1]
      BY <1>2, <3>1, <3>2, <3>4
    <3>6. QED
      BY <2>2, <2>3, <3>3, <3>4, <3>5
  <2>6. QED
    BY <2>4, <2>5
<1> DEFINE Found(j) == IF j < n THEN j + 1 \in DOMAIN s /\ s[j + 1] = p[j] + 1
                       ELSE j + 1 \notin DOMAIN s
           Wrong == {j \in 0..n : ~Found(j)}
<1>8. Wrong = {}
  <2>1. SUFFICES ASSUME Wrong # {} PROVE FALSE
    OBVIOUS
  <2>2. PICK j \in Wrong : \A m \in Wrong : j <= m
    <3>1. Wrong \subseteq Nat
      BY <1>1
    <3> HIDE DEF Wrong
    <3>2. QED
      BY <2>1, <3>1, Least
  <2>3. j \in 0..n /\ ~Found(j)
    BY <2>2
  <2>4. CASE j = 0
    <3>1. CASE n = 0
      <4>1. 1 \notin DOMAIN s
        BY <1>4, <1>5, <3>1
      <4>2. QED
        BY <2>3, <2>4, <3>1, <4>1
    <3>2. CASE n > 0
      <4>1. l >= 1
        <5>1. 1 \in 1..n
          BY <1>1, <3>2
        <5>2. p[1 - 1] \in Nat /\ p[1] \in Nat /\ p[1 - 1] < p[1] /\ p[1] <= l
          BY <1>7, <5>1
        <5>3. QED
          BY <1>1, <5>2
      <4>2. QED
        BY <1>4, <1>5, <2>3, <2>4, <3>2, <4>1
    <3>3. QED
      BY <1>1, <3>1, <3>2
  <2>5. CASE j > 0
    <3>1. j \in 1..n /\ j - 1 \in 0..n /\ j - 1 < j /\ j - 1 < n /\ (j - 1) + 1 = j
      BY <1>1, <2>3, <2>5
    <3>2. j - 1 \notin Wrong
      <4> HIDE DEF Wrong
      <4>1. QED
        BY <2>2, <3>1, <1>1
    <3>3. j \in DOMAIN s /\ s[j] = p[j - 1] + 1
      BY <3>1, <3>2
    <3>4. s[j] + size[s[j]] = p[j] + 1
      <4>1. size[s[j]] \in {1, 4}
        BY <1>2, <1>5, <3>3
      <4>2. QED
        BY <1>7, <3>1, <3>3, <4>1
    <3>5. IF p[j] + 1 <= l THEN j + 1 \in DOMAIN s /\ s[j + 1] = p[j] + 1
          ELSE j + 1 \notin DOMAIN s
      BY <1>5, <3>3, <3>4
    <3>6. CASE j = n
      BY <1>1, <1>4, <2>3, <3>5, <3>6
    <3>7. CASE j < n
      <4>1. j + 1 \in 1..n /\ (j + 1) - 1 = j
        BY <1>1, <3>1, <3>7
      <4>2. p[j] < p[j + 1] /\ p[j + 1] <= l /\ p[j] \in Nat /\ p[j + 1] \in Nat
        BY <1>7, <4>1
      <4>3. p[j] + 1 <= l
        BY <1>1, <4>2
      <4>4. QED
        BY <2>3, <3>5, <3>7, <4>3
    <3>8. QED
      BY <1>1, <3>1, <3>6, <3>7
  <2>6. QED
    BY <1>1, <2>3, <2>4, <2>5
<1>9. \A j \in 0..n : Found(j)
  BY <1>8
<1>10. \A j \in 1..n : j \in DOMAIN s /\ s[j] = p[j - 1] + 1
  <2> TAKE j \in 1..n
  <2>1. j - 1 \in 0..n /\ j - 1 < n /\ (j - 1) + 1 = j
    BY <1>1
  <2>2. QED
    BY <1>9, <2>1
<1>11. DOMAIN s = 1..n
  <2>1. n \in 0..n /\ ~(n < n)
    BY <1>1
  <2>2. n + 1 \notin DOMAIN s
    BY <1>9, <2>1
  <2>3. DOMAIN s \subseteq Nat \ {0} /\ 1..n \subseteq DOMAIN s
    BY <1>1, <1>5, <1>10
  <2>4. QED
    BY <1>1, <1>5, <2>2, <2>3, Initial
<1>12. Decoded(u) = [j \in 1..n |-> CodeChar(u, s[j])]
  BY <1>3, <1>11 DEF Decoded
<1>13. \A j \in 1..n : CodeChar(u, s[j]) = t[j]
  BY <1>7, <1>10
<1>14. QED
  BY <1>1, <1>12, <1>13

-----------------------------------------------------------------------------
(* The invariant *)

\* What was converted means what was read.  While no text was met, only escapes were.
EscapesInv ==
    pc = "escapes" =>
      /\ i = 0
      /\ Means(ifj_string.text, string.text, index_start)
      /\ tmp = NoString =>
           \A k \in 1..Len(string.text) :
             ifj_string.text[UnitStarts(ifj_string.text)[k]] = Backslash

\* What was coded is the code of the characters before i.
CodesInv ==
    pc \in {"codes", "done"} =>
      /\ Codes(code.text, string.text, i)
      /\ \A k \in 1..Len(code.text) : code.text[k] \notin {Hash} \cup 0..32
      /\ pc = "done" => i = Len(string.text)

Inv == TypeOK /\ ifj_string.text \in Literals /\ EscapesInv /\ CodesInv /\ ConvertsAfterText

LEMMA TypeFacts ==
  ASSUME TypeOK
  PROVE  /\ ifj_string.text \in Seq(Char) /\ string.text \in Seq(Char) /\ code.text \in Seq(Char)
         /\ index_start \in 0..Len(ifj_string.text) /\ i \in 0..Len(string.text)
BY DEF TypeOK, PtrString, ptr_string_length

LEMMA InitInv == Init => Inv
<1> SUFFICES ASSUME Init PROVE Inv
  OBVIOUS
<1>1. PICK literal \in Literals : ifj_string = ptr_string(literal)
  BY DEF Init
<1>2. literal \in Seq(Char)
  BY LiteralsAssumption
<1>3. /\ ifj_string \in PtrString /\ ifj_string.text = literal
      /\ string \in PtrString /\ string.text = <<>> /\ code \in PtrString
  BY <1>1, <1>2, StringTypes DEF Init
<1>4. pc = "escapes" /\ index_start = 0 /\ tmp = NoString /\ i = 0
  BY DEF Init
<1>5. Len(literal) \in Nat
  BY <1>2
<1>6. TypeOK
  BY <1>3, <1>4, <1>5 DEF TypeOK, ptr_string_length
<1>7. Means(literal, <<>>, 0)
  BY <1>2, ReachesFirst DEF Means
<1>8. EscapesInv
  BY <1>3, <1>4, <1>7 DEF EscapesInv
<1>9. QED
  BY <1>3, <1>4, <1>6, <1>8 DEF Inv, CodesInv, ConvertsAfterText, Converted

\* Where the next escape is, the scanner has accepted it.
LEMMA EscapeAccepted ==
  ASSUME Inv, pc = "escapes", NEW w, w = ifj_string.text, NEW e \in Nat, e = NextEscape,
         index_start <= e, e < Len(w), w[e + 1] = Backslash,
         \A k \in index_start + 1..e : w[k] # Backslash
  PROVE  /\ e + 1 < Len(w)
         /\ w[e + 2] = 120 => e + 4 <= Len(w) /\ w[e + 3] \in Hex /\ w[e + 4] \in Hex
<1> DEFINE t == string.text
           s == UnitStarts(w)
           u == t \o SubSeq(w, index_start + 1, e)
<1>1. w \in Seq(Char) /\ t \in Seq(Char) /\ index_start \in Nat /\ Scanned(w)
  BY TypeFacts, LiteralsAssumption DEF Inv
<1>2. Means(w, t, index_start)
  BY DEF Inv, EscapesInv
<1>3. e <= Len(w) /\ Len(w) \in Nat
  BY <1>1
<1>4. Means(w, u, e)
  BY <1>1, <1>2, <1>3, TextMeans
<1>5. Len(u) + 1 \in DOMAIN s /\ s[Len(u) + 1] = e + 1
  BY <1>4 DEF Means, Reaches
<1>6. e + 1 \in Range(s)
  BY <1>5 DEF Range
<1>7. /\ e + 1 < Len(w)
      /\ w[(e + 1) + 1] = 120 => /\ (e + 1) + 3 <= Len(w)
                                 /\ w[(e + 1) + 2] \in Hex /\ w[(e + 1) + 3] \in Hex
  BY <1>1, <1>6 DEF Scanned
<1>8. (e + 1) + 1 = e + 2 /\ (e + 1) + 2 = e + 3 /\ (e + 1) + 3 = e + 4
  OBVIOUS
<1>9. QED
  BY <1>7, <1>8

\* What Escape adds to the string: the text before the escape, and its character.
LEMMA EscapeStep ==
  ASSUME Inv, Escape
  PROVE  Inv'
<1> DEFINE w == ifj_string.text
           t == string.text
           s == UnitStarts(w)
<1>1. w \in Seq(Char) /\ t \in Seq(Char) /\ index_start \in 0..Len(w) /\ Len(w) \in Nat
      /\ string \in PtrString /\ pc = "escapes" /\ i = 0
  BY TypeFacts DEF Inv, TypeOK, Escape, EscapesInv
<1>2. PICK e \in Nat :
        /\ e = NextEscape /\ index_start <= e /\ e < Len(w) /\ w[e + 1] = Backslash
        /\ \A k \in index_start + 1..e : w[k] # Backslash
  BY <1>1, NextEscapeIs DEF Escape
<1>3. /\ e + 1 < Len(w)
      /\ w[e + 2] = 120 => e + 4 <= Len(w) /\ w[e + 3] \in Hex /\ w[e + 4] \in Hex
  BY <1>1, <1>2, EscapeAccepted
<1> DEFINE c == UnitChar(w, e + 1)
           b == e + UnitSize(w, e + 1)
<1>4. special_char(e).char = c /\ special_char(e).read = UnitSize(w, e + 1)
      /\ c \in Char /\ b <= Len(w)
  BY <1>1, <1>2, <1>3, SpecialIs
<1>5. b \in Nat
  BY UnitSizeIs
<1>6. Means(w, t, index_start)
  BY <1>1 DEF Inv, EscapesInv
<1>7. /\ index_start' = b
      /\ ifj_string' = ifj_string /\ pc' = pc /\ i' = i /\ code' = code
  BY <1>2, <1>4 DEF Escape
<1>8. /\ string' \in PtrString /\ string'.text \in Seq(Char)
      /\ Means(w, string'.text, b)
      /\ tmp' \in PtrString \cup {NoString}
      /\ tmp' = NoString => \A k \in 1..Len(string'.text) : w[s[k]] = Backslash
  <2>1. CASE index_start # e
    <3> DEFINE more == SubSeq(w, index_start + 1, e)
               u == t \o more
               text == ptr_string(more)
               middle == ptr_string_concat(string, text)
    <3>1. more \in Seq(Char)
      <4>1. index_start + 1 \in Int /\ e \in Int /\ \A k \in index_start + 1..e : w[k] \in Char
        BY <1>1, <1>2
      <4>2. QED
        BY <4>1, SubSeqProperties
    <3>2. u \in Seq(Char) /\ Means(w, u, e)
      <4>1. index_start \in Nat /\ e <= Len(w)
        BY <1>1, <1>2
      <4>2. QED
        BY <1>1, <1>2, <1>6, <4>1, TextMeans
    <3>3. string' = ptr_string_append(middle, c) /\ tmp' = text
      BY <1>2, <1>4, <2>1 DEF Escape, ptr_string_substring
    <3> HIDE DEF more
    <3>4. text \in PtrString /\ text.text = more /\ text # NoString
      <4>1. text \in PtrString /\ text.text = more
        BY <3>1, StringTypes
      <4>2. text.capacity \in Nat
        BY <4>1 DEF PtrString
      <4>3. NoString.capacity = -1
        BY DEF NoString
      <4>4. QED
        BY <4>1, <4>2, <4>3
    <3> HIDE DEF text
    <3>5. middle \in PtrString /\ middle.text = u
      BY <1>1, <3>1, <3>4, StringTypes
    <3> HIDE DEF middle, u
    <3>6. string' \in PtrString /\ string'.text = Append(u, c)
      BY <1>4, <3>3, <3>5, StringTypes
    <3>7. Append(u, c) \in Seq(Char) /\ Means(w, Append(u, c), b)
      BY <1>1, <1>2, <1>4, <3>2, EscapeMeans
    <3>8. QED
      BY <3>3, <3>4, <3>6, <3>7
  <2>2. CASE index_start = e
    <3>1. string' = ptr_string_append(string, c) /\ tmp' = tmp
      BY <1>2, <1>4, <2>2 DEF Escape
    <3> HIDE DEF c, b
    <3>2. string' \in PtrString /\ string'.text = Append(t, c)
      BY <1>1, <1>4, <3>1, StringTypes
    <3> DEFINE v == Append(t, c)
    <3>3. /\ v \in Seq(Char) /\ Len(v) = Len(t) + 1 /\ Means(w, v, b)
          /\ s[Len(v)] = e + 1
      BY <1>1, <1>2, <1>4, <1>6, <2>2, EscapeMeans DEF c, b
    <3> HIDE DEF v
    <3>4. tmp' \in PtrString \cup {NoString}
      BY <3>1 DEF Inv, TypeOK
    <3>5. ASSUME tmp' = NoString, NEW k \in 1..Len(v) PROVE w[s[k]] = Backslash
      <4>1. \A l \in 1..Len(t) : w[s[l]] = Backslash
        BY <1>1, <3>1, <3>5 DEF Inv, EscapesInv
      <4>2. k \in 1..Len(t) \/ k = Len(v)
        BY <1>1, <3>3
      <4>3. QED
        BY <1>2, <3>3, <4>1, <4>2
    <3>6. QED
      BY <3>2, <3>3, <3>4, <3>5 DEF v
  <2>3. QED
    BY <2>1, <2>2
<1>9. b \in 0..Len(w)
  BY <1>1, <1>4, <1>5
<1> HIDE DEF b, c
<1>10. TypeOK'
  <2>1. i' \in 0..Len(string'.text)
    BY <1>1, <1>7, <1>8
  <2>2. QED
    BY <1>1, <1>7, <1>8, <1>9, <2>1 DEF Inv, TypeOK, ptr_string_length
<1>11. EscapesInv'
  BY <1>1, <1>7, <1>8 DEF EscapesInv
<1>12. QED
  BY <1>1, <1>7, <1>10, <1>11 DEF Inv, CodesInv, ConvertsAfterText, Converted

\* Only the escape of the character 0 breaks an assertion.
LEMMA AbortStep ==
  ASSUME Inv, Abort
  PROVE  Inv'
<1> DEFINE w == ifj_string.text
           t == string.text
           s == UnitStarts(w)
<1>1. w \in Seq(Char) /\ t \in Seq(Char) /\ index_start \in 0..Len(w) /\ Len(w) \in Nat
      /\ pc = "escapes" /\ pc' = "aborted"
      /\ ifj_string' = ifj_string /\ string' = string /\ index_start' = index_start
      /\ tmp' = tmp /\ i' = i /\ code' = code
  BY TypeFacts DEF Inv, TypeOK, Abort
<1>2. PICK e \in Nat :
        /\ e = NextEscape /\ index_start <= e /\ e < Len(w) /\ w[e + 1] = Backslash
        /\ \A k \in index_start + 1..e : w[k] # Backslash
  BY <1>1, NextEscapeIs DEF Abort
<1>3. /\ e + 1 < Len(w)
      /\ w[e + 2] = 120 => e + 4 <= Len(w) /\ w[e + 3] \in Hex /\ w[e + 4] \in Hex
  BY <1>1, <1>2, EscapeAccepted
<1>4. UnitChar(w, e + 1) = 0
  BY <1>1, <1>2, <1>3, SpecialIs DEF Abort
<1> DEFINE u == t \o SubSeq(w, index_start + 1, e)
<1>5. u \in Seq(Char) /\ Means(w, u, e)
  <2>1. index_start \in Nat /\ e <= Len(w) /\ Means(w, t, index_start)
    BY <1>1, <1>2 DEF Inv, EscapesInv
  <2>2. QED
    BY <1>1, <1>2, <2>1, TextMeans
<1> HIDE DEF u
<1>6. PICK k \in DOMAIN s : s[k] = e + 1
  BY <1>2, <1>5 DEF Means, Reaches
<1>7. k \in Escapes(w) /\ Meaning(w)[k] = 0
  BY <1>2, <1>4, <1>6 DEF Escapes, Meaning
<1>8. TypeOK'
  BY <1>1 DEF Inv, TypeOK
<1>9. ConvertsAfterText'
  BY <1>1, <1>7 DEF ConvertsAfterText, Converted
<1>10. QED
  BY <1>1, <1>8, <1>9 DEF Inv, EscapesInv, CodesInv

\* Where no backslash follows and none was converted, the literal has its own meaning.
LEMMA NoEscape ==
  ASSUME NEW w \in Seq(Char), \A k \in 1..Len(w) : w[k] # Backslash
  PROVE  w = Meaning(w)
<1> DEFINE u == <<>> \o SubSeq(w, 0 + 1, Len(w))
<1>1. <<>> \in Seq(Char) /\ Len(<<>>) = 0 /\ Len(w) \in Nat
  OBVIOUS
<1>2. Means(w, <<>>, 0)
  BY <1>1, ReachesFirst DEF Means
<1>3. u = w
  <2>1. SubSeq(w, 0 + 1, Len(w)) = w
    OBVIOUS
  <2>2. QED
    BY <2>1, ConcatEmptySeq
<1>4. \A k \in 0 + 1..Len(w) : w[k] # Backslash
  OBVIOUS
<1>5. Means(w, u, Len(w))
  <2>1. PICK e \in Nat, a \in Nat, t \in Seq(Char) : e = Len(w) /\ a = 0 /\ t = <<>>
    BY <1>1
  <2>2. /\ a <= e /\ e <= Len(w) /\ Means(w, t, a)
        /\ \A k \in a + 1..e : w[k] # Backslash
    BY <1>2, <1>4, <2>1
  <2>3. Means(w, t \o SubSeq(w, a + 1, e), e)
    BY <2>2, TextMeans
  <2>4. QED
    BY <2>1, <2>3
<1> HIDE DEF u
<1>6. QED
  BY <1>3, <1>5, AllMeans

\* Rest adds the text after the last escape, or takes the literal as it is: correct
\* unless all its escapes come first.
LEMMA RestConverts ==
  ASSUME Inv, Rest
  PROVE  /\ string' \in PtrString
         /\ Escapes(ifj_string.text) = {} \/ TextBeforeEscape(ifj_string.text) =>
              string'.text = Meaning(ifj_string.text)
<1> DEFINE w == ifj_string.text
           t == string.text
           s == UnitStarts(w)
           a == index_start
           l == Len(w)
           more == SubSeq(w, a + 1, l)
           u == t \o more
<1>1. w \in Seq(Char) /\ t \in Seq(Char) /\ a \in Nat /\ a <= l /\ l \in Nat
      /\ string \in PtrString /\ pc = "escapes"
  BY TypeFacts DEF Inv, TypeOK, Rest
<1>2. \A k \in a + 1..l : w[k] # Backslash
  <2>1. a \in 0..Len(w)
    BY <1>1
  <2>2. QED
    BY <1>1, <2>1, NextEscapeIs DEF Rest
<1>3. Means(w, t, a)
  BY <1>1 DEF Inv, EscapesInv
<1>4. /\ u \in Seq(Char) /\ Len(u) = Len(t) + (l - a) /\ Means(w, u, l)
      /\ \A k \in Len(t) + 1..Len(u) : w[s[k]] # Backslash
  <2>1. PICK v \in Seq(Char), from \in Seq(Char), b \in Nat, e \in Nat :
          v = w /\ from = t /\ b = a /\ e = l
    BY <1>1
  <2>2. /\ b <= e /\ e <= Len(v) /\ \A k \in b + 1..e : v[k] # Backslash
        /\ Means(v, from, b)
    BY <1>1, <1>2, <1>3, <2>1
  <2> DEFINE x == from \o SubSeq(v, b + 1, e)
  <2>3. /\ x \in Seq(Char) /\ Len(x) = Len(from) + (e - b) /\ Means(v, x, e)
        /\ \A k \in Len(from) + 1..Len(x) : v[UnitStarts(v)[k]] # Backslash
    BY <2>2, TextMeans
  <2>4. x = u
    BY <2>1
  <2> HIDE DEF x, u
  <2>5. QED
    BY <2>1, <2>3, <2>4
<1>5. DOMAIN s = 1..Len(u) /\ u = Meaning(w)
  BY <1>1, <1>4, AllMeans
<1>6. more \in Seq(Char)
  <2>1. a + 1 \in Int /\ l \in Int /\ \A k \in a + 1..l : w[k] \in Char
    BY <1>1
  <2>2. QED
    BY <2>1, SubSeqProperties
<1>7. CASE tmp # NoString
  <2>1. CASE a # l
    <3> DEFINE text == ptr_string(more)
    <3>1. string' = ptr_string_concat(string, text)
      BY <1>7, <2>1 DEF Rest, ptr_string_substring, ptr_string_length
    <3> HIDE DEF more
    <3>2. text.text = more
      BY <1>6, StringTypes
    <3> HIDE DEF text
    <3>3. string' \in PtrString /\ string'.text = u
      BY <1>1, <1>6, <3>1, <3>2, StringTypes
    <3>4. QED
      BY <1>5, <3>3
  <2>2. CASE a = l
    <3>1. string' = string
      BY <1>7, <2>2 DEF Rest, ptr_string_length
    <3>2. t = Meaning(w)
      BY <1>1, <1>3, <2>2, AllMeans
    <3>3. QED
      BY <1>1, <3>1, <3>2
  <2>3. QED
    BY <2>1, <2>2
<1>8. CASE tmp = NoString
  <2>1. string' \in PtrString /\ string'.text = w
    <3>1. string' = ptr_string(w)
      BY <1>8 DEF Rest, ptr_string_clone
    <3>2. QED
      BY <1>1, <3>1, StringTypes
  <2>2. \A k \in 1..Len(t) : k \in Escapes(w)
    <3>1. \A k \in 1..Len(t) : w[s[k]] = Backslash
      BY <1>1, <1>8 DEF Inv, EscapesInv
    <3>2. \A k \in 1..Len(t) : k \in DOMAIN s
      BY <1>3 DEF Means
    <3>3. QED
      BY <3>1, <3>2 DEF Escapes
  <2>3. \A k \in Escapes(w) : k \in 1..Len(t)
    <3>1. \A k \in Escapes(w) : k \in 1..Len(u) /\ w[s[k]] = Backslash
      BY <1>5 DEF Escapes
    <3> HIDE DEF u
    <3>2. Len(t) \in Nat /\ Len(u) \in Nat
      <4>1. t \in Seq(Char) /\ u \in Seq(Char)
        BY <1>1, <1>4
      <4>2. QED
        BY <4>1
    <3>3. QED
      BY <1>4, <3>1, <3>2
  <2>4. ~TextBeforeEscape(w)
    <3>1. ASSUME NEW k \in Escapes(w), k > 1 PROVE k - 1 \in Escapes(w)
      <4>1. Len(t) \in Nat /\ k \in 1..Len(t)
        BY <1>1, <2>3
      <4>2. k - 1 \in 1..Len(t)
        BY <3>1, <4>1
      <4>3. QED
        BY <2>2, <4>2
    <3>2. QED
      BY <3>1 DEF TextBeforeEscape
  <2>5. CASE Escapes(w) = {}
    <3>1. Len(t) = 0
      <4>1. Len(t) \in Nat /\ (Len(t) >= 1 => 1 \in 1..Len(t))
        BY <1>1
      <4>2. QED
        BY <2>2, <2>5, <4>1
    <3>2. a = 0
      <4>1. CASE a < l
        <5>1. 0 + 1 \in DOMAIN s /\ s[0 + 1] = a + 1
          BY <1>3, <3>1, <4>1 DEF Means, Reaches
        <5>2. s[1] = 1
          BY <1>1, <4>1, UnitsAre
        <5>3. QED
          BY <1>1, <5>1, <5>2
      <4>2. CASE a = l
        <5>1. 0 + 1 \notin DOMAIN s
          BY <1>1, <1>3, <3>1, <4>2 DEF Means, Reaches
        <5>2. ~(l >= 1)
          BY <1>1, <5>1, UnitsAre
        <5>3. QED
          BY <1>1, <4>2, <5>2
      <4>3. QED
        BY <1>1, <4>1, <4>2
    <3>3. \A k \in 1..Len(w) : w[k] # Backslash
      BY <1>1, <1>2, <3>2
    <3>4. w = Meaning(w)
      BY <1>1, <3>3, NoEscape
    <3>5. QED
      BY <2>1, <3>4
  <2>6. QED
    BY <2>1, <2>4, <2>5
<1>9. QED
  BY <1>7, <1>8

LEMMA RestStep ==
  ASSUME Inv, Rest
  PROVE  Inv'
<1>1. /\ string' \in PtrString
      /\ Escapes(ifj_string.text) = {} \/ TextBeforeEscape(ifj_string.text) =>
           string'.text = Meaning(ifj_string.text)
  BY RestConverts
<1>2. /\ pc' = "codes" /\ code' = ptr_string_new /\ i' = 0
      /\ ifj_string' = ifj_string /\ index_start' = index_start /\ tmp' = tmp
  BY DEF Rest, Inv, EscapesInv
<1>3. code' \in PtrString /\ code'.text = <<>>
  BY <1>2, StringTypes
<1>4. TypeOK'
  <2>1. string'.text \in Seq(Char)
    BY <1>1 DEF PtrString
  <2>2. i' \in 0..Len(string'.text)
    BY <1>2, <2>1
  <2>3. QED
    BY <1>1, <1>2, <1>3, <2>2 DEF Inv, TypeOK, ptr_string_length
<1>5. Codes(<<>>, string'.text, 0)
  BY CodesNone
<1>6. CodesInv'
  BY <1>2, <1>3, <1>5 DEF CodesInv
<1>7. ConvertsAfterText'
  BY <1>1, <1>2 DEF ConvertsAfterText
<1>8. QED
  BY <1>2, <1>4, <1>6, <1>7 DEF Inv, EscapesInv

LEMMA EncodeStep ==
  ASSUME Inv, Encode
  PROVE  Inv'
<1> DEFINE u == code.text
           t == string.text
           c == t[i + 1]
<1>1. /\ u \in Seq(Char) /\ t \in Seq(Char) /\ code \in PtrString
      /\ i \in Nat /\ i + 1 \in 1..Len(t) /\ Len(t) \in Nat /\ c \in Char
      /\ Codes(u, t, i) /\ \A k \in 1..Len(u) : u[k] \notin {Hash} \cup 0..32
  <2>1. u \in Seq(Char) /\ t \in Seq(Char) /\ i \in 0..Len(t) /\ code \in PtrString
        /\ Codes(u, t, i) /\ \A k \in 1..Len(u) : u[k] \notin {Hash} \cup 0..32
    BY TypeFacts DEF Inv, TypeOK, CodesInv, Encode
  <2>2. i < Len(t)
    BY DEF Encode, ptr_string_length
  <2>3. QED
    BY <2>1, <2>2
<1>2. /\ code' = IF c \in Special THEN ptr_string_concat(code, char_code(c))
                 ELSE ptr_string_append(code, c)
      /\ pc = "codes" /\ pc' = pc /\ i' = i + 1
      /\ ifj_string' = ifj_string /\ string' = string /\ index_start' = index_start /\ tmp' = tmp
  BY DEF Encode, ptr_string_get_char, Special
<1> HIDE DEF c
<1>3. PICK v \in Seq(Char) :
        /\ code' \in PtrString /\ code'.text = u \o v /\ CodeAt(v, 0, Len(v), c)
        /\ \A k \in 1..Len(v) : v[k] \notin {Hash} \cup 0..32
  <2>1. CASE c \in Special
    <3> DEFINE v == char_code(c).text
    <3>1. /\ v \in Seq(Char) /\ Len(v) = 4 /\ CodeAt(v, 0, 4, c)
          /\ \A k \in 1..4 : v[k] \notin {Hash} \cup 0..32
      BY <2>1, CharCodeIs
    <3>2. ptr_string_concat(code, char_code(c)) \in PtrString
          /\ ptr_string_concat(code, char_code(c)).text = u \o v
      BY <1>1, <3>1, StringTypes
    <3> HIDE DEF v
    <3>3. code' \in PtrString /\ code'.text = u \o v
      BY <1>2, <2>1, <3>2
    <3>4. QED
      BY <3>1, <3>3
  <2>2. CASE c \notin Special
    <3>1. code' \in PtrString /\ code'.text = Append(u, c)
      BY <1>1, <1>2, <2>2, StringTypes
    <3> DEFINE v == <<c>>
    <3>2. Append(u, c) = u \o v
      BY <1>1, AppendIsConcat
    <3>3. v \in Seq(Char) /\ Len(v) = 1 /\ v[1] = c /\ v[0 + 1] = c
      BY <1>1
    <3> HIDE DEF v
    <3>4. CodeAt(v, 0, Len(v), c)
      BY <2>2, <3>3 DEF CodeAt
    <3>5. \A k \in 1..Len(v) : v[k] \notin {Hash} \cup 0..32
      BY <2>2, <3>3 DEF Special
    <3>6. QED
      BY <3>1, <3>2, <3>3, <3>4, <3>5
  <2>3. QED
    BY <2>1, <2>2
<1>4. Codes(u \o v, t, i + 1)
  BY <1>1, <1>3, CodesMore DEF c
<1>5. \A k \in 1..Len(u \o v) : (u \o v)[k] \notin {Hash} \cup 0..32
  <2> DEFINE x == u \o v
  <2>1. /\ Len(x) = Len(u) + Len(v) /\ Len(u) \in Nat /\ Len(v) \in Nat
        /\ \A k \in 1..Len(u) + Len(v) : x[k] = IF k <= Len(u) THEN u[k] ELSE v[k - Len(u)]
    BY <1>1, <1>3, ConcatProperties
  <2> HIDE DEF x
  <2>2. ASSUME NEW k \in 1..Len(x) PROVE x[k] \notin {Hash} \cup 0..32
    <3>1. CASE k <= Len(u)
      <4>1. k \in 1..Len(u) /\ x[k] = u[k]
        BY <2>1, <3>1
      <4>2. QED
        BY <1>1, <4>1
    <3>2. CASE ~(k <= Len(u))
      <4>1. k \in 1..Len(u) + Len(v) /\ k - Len(u) \in 1..Len(v)
        BY <2>1, <3>2
      <4>2. x[k] = v[k - Len(u)]
        BY <2>1, <3>2, <4>1
      <4>3. QED
        BY <1>3, <4>1, <4>2
    <3>3. QED
      BY <3>1, <3>2
  <2>3. QED
    BY <2>2 DEF x
<1>6. TypeOK'
  <2>1. i' \in 0..Len(t)
    BY <1>1, <1>2
  <2>2. QED
    BY <1>2, <1>3, <2>1 DEF Inv, TypeOK, ptr_string_length
<1>7. CodesInv'
  BY <1>2, <1>3, <1>4, <1>5 DEF CodesInv
<1>8. ConvertsAfterText'
  BY <1>2 DEF Inv, ConvertsAfterText, Converted
<1>9. QED
  BY <1>2, <1>6, <1>7, <1>8 DEF Inv, EscapesInv

LEMMA ReturnStep ==
  ASSUME Inv, Return
  PROVE  Inv'
<1>1. /\ pc = "codes" /\ pc' = "done" /\ i = Len(string.text)
      /\ ifj_string' = ifj_string /\ string' = string /\ index_start' = index_start
      /\ tmp' = tmp /\ i' = i /\ code' = code
  BY DEF Return, ptr_string_length
<1>2. TypeOK'
  BY <1>1 DEF Inv, TypeOK
<1>3. CodesInv'
  BY <1>1 DEF Inv, CodesInv
<1>4. ConvertsAfterText'
  BY <1>1 DEF Inv, ConvertsAfterText, Converted
<1>5. QED
  BY <1>1, <1>2, <1>3, <1>4 DEF Inv, EscapesInv

LEMMA NextInv == Inv /\ [Next]_vars => Inv'
<1> SUFFICES ASSUME Inv, [Next]_vars PROVE Inv'
  OBVIOUS
<1>1. CASE UNCHANGED vars
  BY <1>1 DEF vars, Inv, TypeOK, EscapesInv, CodesInv, ConvertsAfterText, Converted
<1>2. QED
  BY <1>1, EscapeStep, AbortStep, RestStep, EncodeStep, ReturnStep DEF Next

-----------------------------------------------------------------------------
(* Theorems *)

\* What the conversion has read means what it has written, and the code written is that
\* of the characters before i (the loops of ifj_string_to_string and
\* ifj_string_to_code_string).
THEOREM Invariance == Spec => []Inv
<1>1. QED
  BY InitInv, NextInv, PTL DEF Spec

\* Every string lies in its buffer, whatever the size of the chunks it grows by
\* (ptr_string.c:should_resize).
THEOREM TypeCorrect == Spec => []TypeOK
<1>1. Inv => TypeOK
  BY DEF Inv
<1>2. QED
  BY <1>1, Invariance, PTL

\* A literal with text before some escape, or with no escape, gets its meaning, and only
\* the escape of the character 0 aborts (ifj_string_to_string).
THEOREM AlwaysConvertsAfterText == Spec => []ConvertsAfterText
<1>1. Inv => ConvertsAfterText
  BY DEF Inv
<1>2. QED
  BY <1>1, Invariance, PTL

\* The code denotes the string and has no character that IFJcode19 does not allow
\* (ifj_string_to_code_string).
THEOREM CodeAlwaysDenotesString == Spec => []CodeDenotesString
<1>1. Inv => CodeDenotesString
  <2> SUFFICES ASSUME Inv, pc = "done"
               PROVE  /\ Decoded(code.text) = string.text
                      /\ Range(code.text) \cap ({Hash} \cup 0..32) = {}
    BY DEF CodeDenotesString
  <2>1. /\ code.text \in Seq(Char) /\ string.text \in Seq(Char)
        /\ Codes(code.text, string.text, Len(string.text))
        /\ \A k \in 1..Len(code.text) : code.text[k] \notin {Hash} \cup 0..32
    BY TypeFacts DEF Inv, CodesInv
  <2>2. DOMAIN code.text = 1..Len(code.text)
    BY <2>1
  <2>3. QED
    BY <2>1, <2>2, CodesDecode DEF Range
<1>2. QED
  BY <1>1, Invariance, PTL
=============================================================================
