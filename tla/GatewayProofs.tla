---------------------------- MODULE GatewayProofs ----------------------------
(***************************************************************************)
(* Theorems about the gateway, for any store, any number of requests and   *)
(* of changes of the store.  First its router: SetRoutes leaves a sorted   *)
(* table whatever the list it is given, and on a sorted table the first    *)
(* match is the most specific one.                                         *)
(*                                                                         *)
(* The provers take no induction rule with an operator for its parameter.  *)
(* Induction on the length of a list is done here with the least element   *)
(* of the set of counterexamples (LeastElement).                           *)
(*                                                                         *)
(* The invariants are added one on top of the other.  TypeInv: the types,  *)
(* the list and the table being lists of routes, and a table sorted.  Flow *)
(* says what is true of a request at each point of ServeHTTP.  On them     *)
(* rest, each by itself, AuditInv (the records of a request), BarredInv    *)
(* (what has kept a partner out since it came) and HistoryInv (the moments *)
(* at which the store had what the table, the list and the requests hold). *)
(***************************************************************************)
EXTENDS Gateway, StoreProofs, FiniteSetTheorems, SequenceTheorems, TLAPS

-----------------------------------------------------------------------------
(* Numbers *)

(* Every non-empty set of natural numbers has a least element: the intervals *)
(* that end at its members are finite, and inclusion is well-founded on them. *)
LEMMA LeastElement ==
    ASSUME NEW T \in SUBSET Nat, T # {}
    PROVE  \E m \in T : \A k \in T : m <= k
<1> DEFINE I == {0 .. k : k \in T}
<1>1. I \subseteq FiniteSubsetsOf(Nat) /\ I # {}
  <2>1. I # {}
    OBVIOUS
  <2>2. ASSUME NEW k \in T PROVE IsFiniteSet(0 .. k) /\ 0 .. k \in SUBSET Nat
    BY FS_Interval
  <2>3. ASSUME NEW i \in I PROVE i \in FiniteSubsetsOf(Nat)
    BY <2>2 DEF FiniteSubsetsOf
  <2>4. QED
    BY <2>1, <2>3
<1>2. PICK x \in I : \A y \in I : ~ (<<y, x>> \in StrictSubsetOrdering(Nat))
  <2>1. IsWellFoundedOn(StrictSubsetOrdering(Nat), FiniteSubsetsOf(Nat))
    BY FS_StrictSubsetOrderingWellFounded
  <2> HIDE DEF I
  <2>2. QED
    BY <1>1, <2>1, WFMin
<1>3. PICK m \in T : x = 0 .. m
  OBVIOUS
<1>4. ASSUME NEW k \in T, k < m PROVE FALSE
  <2>1. 0 .. k \in I
    OBVIOUS
  <2>2. 0 .. k \subseteq 0 .. m /\ 0 .. k # 0 .. m
    BY <1>4
  <2>3. <<0 .. k, 0 .. m>> \in StrictSubsetOrdering(Nat)
    BY <2>2 DEF StrictSubsetOrdering
  <2>4. QED
    BY <2>1, <2>3, <1>2, <1>3
<1>5. QED
  BY <1>4

(* Every non-empty set of numbers up to n has a largest element. *)
LEMMA GreatestElement ==
    ASSUME NEW n \in Nat, NEW T \in SUBSET (0 .. n), T # {}
    PROVE  \E m \in T : \A k \in T : k <= m
<1> DEFINE Gaps == {n - k : k \in T}
<1>1. Gaps \in SUBSET Nat /\ Gaps # {}
  <2>1. \A k \in T : k \in 0 .. n
    OBVIOUS
  <2>2. \A k \in T : n - k \in Nat
    BY <2>1
  <2>3. QED
    BY <2>2
<1>2. PICK g \in Gaps : \A h \in Gaps : g <= h
  <2> HIDE DEF Gaps
  <2> QED
    BY <1>1, LeastElement
<1>3. PICK m \in T : g = n - m
  OBVIOUS
<1>4. ASSUME NEW k \in T PROVE k <= m
  <2>1. n - k \in Gaps
    OBVIOUS
  <2>2. n - m <= n - k
    BY <2>1, <1>2, <1>3
  <2>3. m \in 0 .. n /\ k \in 0 .. n
    OBVIOUS
  <2>4. QED
    BY <2>2, <2>3
<1>5. QED
  BY <1>4

(* So Max and Min choose what their names say. *)
LEMMA MaxIsGreatest ==
    ASSUME NEW n \in Nat, NEW T \in SUBSET (0 .. n), T # {}
    PROVE  Max(T) \in T /\ \A k \in T : k <= Max(T)
<1>1. \E m \in T : \A k \in T : m >= k
  BY GreatestElement
<1>2. QED
  BY <1>1 DEF Max

\* Min of the community modules is the least element.
LEMMA MinIsLeast ==
    ASSUME NEW T \in SUBSET Nat, T # {}
    PROVE  Min(T) \in T /\ \A k \in T : Min(T) <= k
<1>1. \E m \in T : \A k \in T : m <= k
  BY LeastElement
<1>2. QED
  BY <1>1 DEF Min

-----------------------------------------------------------------------------
(* The insertion sort *)

(* The routes of R have prefixes of some length. *)
Prefixed(R) == \A r \in R : Len(r.prefix) \in Nat

(* No route comes after one with a strictly shorter prefix. *)
Sorted(list) == \A i, j \in DOMAIN list : i < j => ~Longer(list[j], list[i])

(* t is s with r put in after k elements. *)
Inserted(t, s, k, r) ==
    /\ Len(t) = Len(s) + 1
    /\ \A i \in 1 .. k : t[i] = s[i]
    /\ t[k + 1] = r
    /\ \A i \in k + 2 .. Len(s) + 1 : t[i] = s[i - 1]

(* This is what InsertAt returns. *)
LEMMA InsertAtMeans ==
    ASSUME NEW R, NEW s \in Seq(R), NEW r \in R, NEW k \in 0 .. Len(s)
    PROVE  /\ InsertAt(s, k + 1, r) \in Seq(R)
           /\ Inserted(InsertAt(s, k + 1, r), s, k, r)
<1> DEFINE left == SubSeq(s, 1, k)
           right == SubSeq(s, k + 1, Len(s))
<1>1. left \in Seq(R) /\ Len(left) = k /\ \A i \in 1 .. k : left[i] = s[i]
  OBVIOUS
<1>2. /\ right \in Seq(R) /\ Len(right) = Len(s) - k
      /\ \A i \in 1 .. Len(s) - k : right[i] = s[k + i]
  OBVIOUS
<1>3. InsertAt(s, k + 1, r) = left \o <<r>> \o right
  <2>1. (k + 1) - 1 = k
    OBVIOUS
  <2>2. QED
    BY <2>1 DEF InsertAt
<1> HIDE DEF left, right
<1> DEFINE t == left \o <<r>>
<1>4. /\ t \in Seq(R) /\ Len(t) = k + 1 /\ t[k + 1] = r
      /\ \A i \in 1 .. k : t[i] = left[i]
  BY <1>1
<1> HIDE DEF t
<1>5. /\ t \o right \in Seq(R) /\ Len(t \o right) = Len(s) + 1
      /\ \A i \in 1 .. k + 1 : (t \o right)[i] = t[i]
      /\ \A i \in k + 2 .. Len(s) + 1 : (t \o right)[i] = right[i - (k + 1)]
  <2>1. /\ t \o right \in Seq(R) /\ Len(t \o right) = Len(t) + Len(right)
        /\ \A i \in 1 .. Len(t) + Len(right) :
              (t \o right)[i] = IF i <= Len(t) THEN t[i] ELSE right[i - Len(t)]
    BY <1>2, <1>4, ConcatProperties
  <2>2. PICK l \in Nat : l = Len(s) /\ k <= l /\ Len(t) = k + 1 /\ Len(right) = l - k
    BY <1>2, <1>4
  <2>3. \A i \in 1 .. l + 1 :
            (t \o right)[i] = IF i <= k + 1 THEN t[i] ELSE right[i - (k + 1)]
    <3>1. (k + 1) + (l - k) = l + 1
      BY <2>2
    <3>2. QED
      BY <2>1, <2>2, <3>1
  <2>4. Len(t \o right) = l + 1
    BY <2>1, <2>2
  <2>5. \A i \in 1 .. k + 1 : (t \o right)[i] = t[i]
    BY <2>2, <2>3
  <2>6. \A i \in k + 2 .. l + 1 : (t \o right)[i] = right[i - (k + 1)]
    BY <2>2, <2>3
  <2>7. QED
    BY <2>1, <2>2, <2>4, <2>5, <2>6
<1>6. InsertAt(s, k + 1, r) = t \o right
  BY <1>3 DEF t
<1>7. \A i \in k + 2 .. Len(s) + 1 : right[i - (k + 1)] = s[i - 1]
  <2> SUFFICES ASSUME NEW i \in k + 2 .. Len(s) + 1 PROVE right[i - (k + 1)] = s[i - 1]
    OBVIOUS
  <2>1. i - (k + 1) \in 1 .. Len(s) - k /\ k + (i - (k + 1)) = i - 1
    OBVIOUS
  <2>2. QED
    BY <2>1, <1>2
<1>8. \A i \in 1 .. k : (t \o right)[i] = s[i]
  BY <1>1, <1>4, <1>5
<1>9. (t \o right)[k + 1] = r
  BY <1>4, <1>5
<1>10. QED
  BY <1>5, <1>6, <1>7, <1>8, <1>9 DEF Inserted

(* t has the routes of s, and r. *)
Adds(t, s, r) == ToSet(t) = ToSet(s) \cup {r}

(* A round keeps the list sorted and adds the route to it. *)
LEMMA InsertRouteSorts ==
    ASSUME NEW R, Prefixed(R),
           NEW s \in Seq(R), Sorted(s), NEW r \in R
    PROVE  /\ InsertRoute(s, r) \in Seq(R)
           /\ Sorted(InsertRoute(s, r))
           /\ Adds(InsertRoute(s, r), s, r)
<1> DEFINE stops == {0} \cup {i \in DOMAIN s : ~Longer(r, s[i])}
           k == Max(stops)
           t == InsertRoute(s, r)
<1>1. k \in stops /\ \A i \in stops : i <= k
  <2>1. stops \in SUBSET (0 .. Len(s)) /\ stops # {} /\ Len(s) \in Nat
    OBVIOUS
  <2> HIDE DEF stops
  <2>2. QED
    BY <2>1, MaxIsGreatest
<1>2. k \in 0 .. Len(s)
  BY <1>1
<1>3. t = InsertAt(s, k + 1, r)
  BY DEF InsertRoute
<1>4. /\ t \in Seq(R) /\ Len(t) = Len(s) + 1
      /\ \A i \in 1 .. k : t[i] = s[i]
      /\ t[k + 1] = r
      /\ \A i \in k + 2 .. Len(s) + 1 : t[i] = s[i - 1]
  <2> HIDE DEF k, t
  <2>1. t \in Seq(R) /\ Inserted(t, s, k, r)
    BY <1>2, <1>3, InsertAtMeans
  <2>2. QED
    BY <2>1 DEF Inserted
<1>5. k = 0 \/ (k \in DOMAIN s /\ ~Longer(r, s[k]))
  BY <1>1
<1>6. \A i \in DOMAIN s : k < i => Longer(r, s[i])
  BY <1>1, <1>2
<1> HIDE DEF k, t
<1>7. Sorted(t)
  <2> SUFFICES ASSUME NEW i \in DOMAIN t, NEW j \in DOMAIN t, i < j
               PROVE  ~Longer(t[j], t[i])
    BY DEF Sorted
  <2>1. \A a \in DOMAIN s : s[a] \in R
    OBVIOUS
  <2>2. CASE j <= k
    <3>1. i \in DOMAIN s /\ j \in DOMAIN s /\ t[i] = s[i] /\ t[j] = s[j]
      BY <2>2, <1>4, <1>2
    <3>2. QED
      BY <3>1 DEF Sorted
  <2>3. CASE j = k + 1
    <3>1. i \in DOMAIN s /\ k \in DOMAIN s /\ t[i] = s[i] /\ t[j] = r /\ i <= k
      BY <2>3, <1>4, <1>2
    <3>2. ~Longer(r, s[k])
      BY <3>1, <1>5, <1>2
    <3>3. i = k \/ ~Longer(s[k], s[i])
      BY <3>1 DEF Sorted
    <3>4. QED
      BY <3>1, <3>2, <3>3, <2>1 DEF Longer, Prefixed
  <2>4. CASE k + 1 < j
    <3>1. j - 1 \in DOMAIN s /\ k < j - 1 /\ t[j] = s[j - 1]
      BY <2>4, <1>4, <1>2
    <3>2. Longer(r, s[j - 1])
      BY <3>1, <1>6
    <3>3. CASE i <= k
      <4>1. i \in DOMAIN s /\ t[i] = s[i] /\ i < j - 1
        BY <3>1, <3>3, <1>2, <1>4
      <4>2. QED
        BY <3>1, <4>1 DEF Sorted
    <3>4. CASE i = k + 1
      BY <3>1, <3>2, <3>4, <1>4, <2>1 DEF Longer, Prefixed
    <3>5. CASE k + 1 < i
      <4>1. i - 1 \in DOMAIN s /\ t[i] = s[i - 1] /\ i - 1 < j - 1
        BY <3>5, <1>2, <1>4
      <4>2. QED
        BY <3>1, <4>1 DEF Sorted
    <3>6. QED
      BY <3>3, <3>4, <3>5, <1>2, <1>4
  <2>5. QED
    BY <2>2, <2>3, <2>4, <1>2, <1>4
<1>8. ToSet(t) = ToSet(s) \cup {r}
  <2>1. ASSUME NEW i \in DOMAIN t PROVE t[i] \in ToSet(s) \cup {r}
    <3>1. i \in 1 .. k \/ i = k + 1 \/ i \in k + 2 .. Len(s) + 1
      BY <1>2, <1>4
    <3>2. CASE i \in 1 .. k
      BY <3>2, <1>2, <1>4 DEF ToSet
    <3>3. CASE i = k + 1
      BY <3>3, <1>4
    <3>4. CASE i \in k + 2 .. Len(s) + 1
      <4>1. i - 1 \in DOMAIN s /\ t[i] = s[i - 1]
        BY <3>4, <1>2, <1>4
      <4>2. QED
        BY <4>1 DEF ToSet
    <3>5. QED
      BY <3>1, <3>2, <3>3, <3>4
  <2>2. ASSUME NEW i \in DOMAIN s PROVE s[i] \in ToSet(t)
    <3>1. CASE i <= k
      <4>1. i \in DOMAIN t /\ t[i] = s[i]
        BY <3>1, <1>2, <1>4
      <4>2. QED
        BY <4>1 DEF ToSet
    <3>2. CASE k < i
      <4>1. i + 1 \in DOMAIN t /\ t[i + 1] = s[i]
        BY <3>2, <1>2, <1>4
      <4>2. QED
        BY <4>1 DEF ToSet
    <3>3. QED
      BY <3>1, <3>2, <1>2
  <2>3. r \in ToSet(t)
    <3>1. k + 1 \in DOMAIN t
      BY <1>2, <1>4
    <3>2. QED
      BY <3>1, <1>4 DEF ToSet
  <2>4. QED
    BY <2>1, <2>2, <2>3 DEF ToSet
<1>9. QED
  BY <1>4, <1>7, <1>8 DEF t, Adds

(* The rounds of the sort exist: the function that SortRoutes defines by       *)
(* recursion is there for lists of any length.                                *)
Rounds(f, list) ==
    f = [n \in 0 .. Len(list) |->
            IF n = 0 THEN <<>> ELSE InsertRoute(f[n - 1], list[n])]

\* The insertion sort begins with a sorted list.
LEMMA EmptyIsSorted == ASSUME NEW R PROVE <<>> \in {s \in Seq(R) : Sorted(s)}
BY DEF Sorted

\* There is a function of the lists after each round of the sort.
LEMMA RoundsExist ==
    ASSUME NEW R, Prefixed(R), NEW list \in Seq(R)
    PROVE  \E f : Rounds(f, list)
<1> DEFINE S == {s \in Seq(R) : Sorted(s)}
           UpTo(f, n) == \A m \in 0 .. n :
               f[m] = IF m = 0 THEN <<>> ELSE InsertRoute(f[m - 1], list[m])
           Bad == {n \in 0 .. Len(list) : ~\E f \in [0 .. n -> S] : UpTo(f, n)}
<1>1. \A s \in S, r \in R : InsertRoute(s, r) \in S
  BY InsertRouteSorts
<1>2. <<>> \in S
  BY EmptyIsSorted
<1>3. \A n \in 1 .. Len(list) : list[n] \in R
  OBVIOUS
<1> HIDE DEF S
<1>4. Bad = {}
  <2> SUFFICES ASSUME Bad # {} PROVE FALSE
    OBVIOUS
  <2>1. PICK n \in Bad : \A k \in Bad : n <= k
    <3>1. Bad \in SUBSET Nat
      OBVIOUS
    <3> HIDE DEF Bad
    <3>2. QED
      BY <3>1, LeastElement
  <2>2. n \in 0 .. Len(list) /\ ~\E f \in [0 .. n -> S] : UpTo(f, n)
    OBVIOUS
  <2>3. CASE n = 0
    <3> DEFINE g == [m \in 0 .. 0 |-> <<>>]
    <3>1. g \in [0 .. 0 -> S] /\ UpTo(g, 0)
      BY <1>2
    <3> HIDE DEF g, UpTo
    <3>2. QED
      BY <3>1, <2>2, <2>3
  <2>4. CASE n # 0
    <3>1. n - 1 \in 0 .. Len(list) /\ n - 1 \notin Bad
      <4>1. n \in Nat /\ n - 1 \in 0 .. Len(list)
        BY <2>2, <2>4
      <4> HIDE DEF Bad
      <4>2. QED
        BY <2>1, <4>1
    <3>2. PICK f \in [0 .. n - 1 -> S] : UpTo(f, n - 1)
      BY <3>1
    <3> DEFINE last == InsertRoute(f[n - 1], list[n])
               g == [m \in 0 .. n |-> IF m < n THEN f[m] ELSE last]
    <3>3. last \in S
      BY <1>1, <1>3, <2>2, <2>4
    <3> HIDE DEF last
    <3>4. g \in [0 .. n -> S]
      BY <3>3, <2>2
    <3>5. ASSUME NEW m \in 0 .. n
          PROVE  g[m] = IF m = 0 THEN <<>> ELSE InsertRoute(g[m - 1], list[m])
      <4>1. CASE m < n
        <5>1. m \in 0 .. n - 1 /\ g[m] = f[m] /\ (m # 0 => m - 1 \in 0 .. n /\ m - 1 < n /\ g[m - 1] = f[m - 1])
          BY <4>1, <2>2
        <5>2. f[m] = IF m = 0 THEN <<>> ELSE InsertRoute(f[m - 1], list[m])
          BY <5>1, <3>2
        <5> HIDE DEF g
        <5>3. QED
          BY <5>1, <5>2
      <4>2. CASE m = n
        <5>1. g[m] = last /\ g[m - 1] = f[n - 1]
          BY <4>2, <2>2, <2>4
        <5> HIDE DEF g
        <5>2. QED
          BY <5>1, <4>2, <2>4 DEF last
      <4>3. QED
        BY <4>1, <4>2, <2>2
    <3>6. UpTo(g, n)
      BY <3>5
    <3> HIDE DEF g, UpTo
    <3>7. QED
      BY <3>4, <3>6, <2>2
  <2>5. QED
    BY <2>3, <2>4
<1>5. PICK f \in [0 .. Len(list) -> S] : UpTo(f, Len(list))
  <2>1. Len(list) \in 0 .. Len(list) /\ Len(list) \notin Bad
    BY <1>4
  <2>2. QED
    BY <2>1
<1>6. Rounds(f, list)
  BY <1>5 DEF Rounds
<1>7. QED
  BY <1>6

(* After n rounds the first n routes are there, sorted. *)
LEMMA RoundsSort ==
    ASSUME NEW R, Prefixed(R), NEW list \in Seq(R),
           NEW f, Rounds(f, list)
    PROVE  \A n \in 0 .. Len(list) :
               /\ f[n] \in Seq(R) /\ Sorted(f[n])
               /\ ToSet(f[n]) = {list[i] : i \in 1 .. n}
<1> DEFINE Right(n) == /\ f[n] \in Seq(R) /\ Sorted(f[n])
                       /\ ToSet(f[n]) = {list[i] : i \in 1 .. n}
           Bad == {n \in 0 .. Len(list) : ~Right(n)}
<1>1. \A n \in 0 .. Len(list) :
         f[n] = IF n = 0 THEN <<>> ELSE InsertRoute(f[n - 1], list[n])
  BY DEF Rounds
<1>2. Bad = {}
  <2> SUFFICES ASSUME Bad # {} PROVE FALSE
    OBVIOUS
  <2>1. PICK n \in Bad : \A k \in Bad : n <= k
    <3>1. Bad \in SUBSET Nat
      OBVIOUS
    <3> HIDE DEF Bad
    <3>2. QED
      BY <3>1, LeastElement
  <2>2. n \in 0 .. Len(list) /\ ~Right(n)
    OBVIOUS
  <2>3. CASE n = 0
    <3>1. f[0] = <<>>
      BY <1>1
    <3>2. ToSet(<<>>) = {} /\ {list[i] : i \in 1 .. 0} = {}
      BY DEF ToSet
    <3>3. <<>> \in Seq(R) /\ Sorted(<<>>)
      BY EmptyIsSorted
    <3>4. QED
      BY <3>1, <3>2, <3>3, <2>2, <2>3
  <2>4. CASE n # 0
    <3>1. n - 1 \in 0 .. Len(list) /\ n - 1 \notin Bad
      <4>1. n \in Nat /\ n - 1 \in 0 .. Len(list)
        BY <2>2, <2>4
      <4> HIDE DEF Bad
      <4>2. QED
        BY <2>1, <4>1
    <3>2. Right(n - 1)
      BY <3>1
    <3>3. f[n] = InsertRoute(f[n - 1], list[n]) /\ list[n] \in R
      BY <1>1, <2>2, <2>4
    <3>4. /\ f[n] \in Seq(R) /\ Sorted(f[n])
          /\ ToSet(f[n]) = ToSet(f[n - 1]) \cup {list[n]}
      <4>1. PICK before \in Seq(R), r \in R :
               before = f[n - 1] /\ Sorted(before) /\ r = list[n]
        BY <3>2, <3>3
      <4>2. /\ InsertRoute(before, r) \in Seq(R)
            /\ Sorted(InsertRoute(before, r))
            /\ Adds(InsertRoute(before, r), before, r)
        BY <4>1, InsertRouteSorts
      <4>3. QED
        BY <3>3, <4>1, <4>2 DEF Adds
    <3>5. {list[i] : i \in 1 .. n - 1} \cup {list[n]} = {list[i] : i \in 1 .. n}
      BY <2>2, <2>4
    <3>6. QED
      BY <3>2, <3>4, <3>5, <2>2
  <2>5. QED
    BY <2>3, <2>4
<1>3. QED
  BY <1>2

(* The sort of SetRoutes: whatever the order of the list, the table has the   *)
(* same routes, the longest prefixes first.                                   *)
THEOREM SortRoutesSorts ==
    ASSUME NEW R, Prefixed(R), NEW list \in Seq(R)
    PROVE  /\ SortRoutes(list) \in Seq(R)
           /\ Sorted(SortRoutes(list))
           /\ ToSet(SortRoutes(list)) = ToSet(list)
<1> DEFINE f == CHOOSE f : Rounds(f, list)
<1>1. Rounds(f, list)
  BY RoundsExist
<1>2. SortRoutes(list) = f[Len(list)]
  BY DEF SortRoutes, Rounds
<1> HIDE DEF f
<1>3. /\ f[Len(list)] \in Seq(R) /\ Sorted(f[Len(list)])
      /\ ToSet(f[Len(list)]) = {list[i] : i \in 1 .. Len(list)}
  <2>1. \A n \in 0 .. Len(list) :
           /\ f[n] \in Seq(R) /\ Sorted(f[n])
           /\ ToSet(f[n]) = {list[i] : i \in 1 .. n}
    BY <1>1, RoundsSort
  <2>2. Len(list) \in 0 .. Len(list)
    OBVIOUS
  <2>3. QED
    BY <2>1, <2>2, Zenon
<1>4. ToSet(list) = {list[i] : i \in 1 .. Len(list)}
  BY DEF ToSet
<1>5. QED
  BY <1>2, <1>3, <1>4

-----------------------------------------------------------------------------
(* Match *)

(* On a sorted table the first route that starts the path has the longest     *)
(* prefix that does.                                                          *)
LEMMA FirstIsMostSpecific ==
    ASSUME NEW R, Prefixed(R), NoRoute \notin R, table \in Seq(R), Sorted(table)
    PROVE  MostSpecificAlwaysWins
<1> SUFFICES ASSUME NEW url \in Paths
             PROVE  LET starting == {r \in ToSet(table) : IsPrefix(r.prefix, url)}
                        chosen == Match(url)
                    IN  /\ chosen = NoRoute <=> starting = {}
                        /\ starting # {} =>
                            /\ chosen \in starting
                            /\ \A r \in starting : Len(r.prefix) <= Len(chosen.prefix)
  BY DEF MostSpecificAlwaysWins
<1> DEFINE starting == {r \in ToSet(table) : IsPrefix(r.prefix, url)}
<1>1. \A i \in DOMAIN table : table[i] \in R /\ i \in Nat
  OBVIOUS
<1>2. \A r \in ToSet(table) : \E i \in DOMAIN table : r = table[i]
  BY DEF ToSet
<1>3. \A i \in DOMAIN table : table[i] \in ToSet(table)
  BY DEF ToSet
<1>4. \A r \in starting : \E i \in Hits(url) : r = table[i]
  BY <1>2 DEF Hits
<1>5. \A i \in Hits(url) : table[i] \in starting
  BY <1>3 DEF Hits
<1>6. CASE Hits(url) = {}
  BY <1>4, <1>6 DEF Match
<1>7. CASE Hits(url) # {}
  <2> DEFINE m == Min(Hits(url))
  <2>1. Hits(url) \in SUBSET Nat
    BY <1>1 DEF Hits
  <2>2. m \in Hits(url) /\ \A k \in Hits(url) : m <= k
    BY <2>1, <1>7, MinIsLeast
  <2>3. Match(url) = table[m] /\ table[m] \in starting
    BY <2>2, <1>5, <1>7 DEF Match
  <2>4. table[m] # NoRoute
    BY <2>2, <1>1 DEF Hits
  <2>5. ASSUME NEW r \in starting PROVE Len(r.prefix) <= Len(table[m].prefix)
    <3>1. PICK i \in Hits(url) : r = table[i]
      BY <1>4
    <3> HIDE DEF m
    <3>2. i \in DOMAIN table /\ m \in DOMAIN table /\ m <= i
      BY <2>2, <3>1 DEF Hits
    <3> m \in Nat /\ i \in Nat
      BY <1>1, <3>2
    <3>3. Len(table[i].prefix) \in Nat /\ Len(table[m].prefix) \in Nat
      BY <3>2, <1>1 DEF Prefixed
    <3>4. m = i \/ ~(Len(table[i].prefix) > Len(table[m].prefix))
      BY <3>2 DEF Sorted, Longer
    <3>5. QED
      BY <3>1, <3>2, <3>3, <3>4
  <2>6. QED
    BY <2>3, <2>4, <2>5
<1>8. QED
  BY <1>6, <1>7

(* SetRoutes keeps the routes of its list, sorted. *)
LEMMA SetRoutesSorts ==
    ASSUME NEW R, Prefixed(R), NEW list \in Seq(R), SetRoutes(list)
    PROVE  /\ table' \in Seq(R) /\ Sorted(table')
           /\ ToSet(table') = ToSet(list)
           /\ proxies' = ProxiesOf(table')
<1>1. table' = SortRoutes(list) /\ proxies' = ProxiesOf(SortRoutes(list))
  BY DEF SetRoutes
<1>2. QED
  BY <1>1, SortRoutesSorts

(* The most specific route wins in every table that calls of SetRoutes, with  *)
(* any lists one after the other, may leave.                                  *)
THEOREM MostSpecificWins ==
    ASSUME NEW R, Prefixed(R), NoRoute \notin R
    PROVE  InitRouter /\ [][\E list \in Seq(R) : SetRoutes(list)]_routerVars
               => []MostSpecificAlwaysWins
<1> DEFINE Inv == table \in Seq(R) /\ Sorted(table)
           Sets == \E list \in Seq(R) : SetRoutes(list)
<1>1. InitRouter => Inv
  BY DEF InitRouter, Sorted
<1>2. Inv /\ [Sets]_routerVars => Inv'
  <2> SUFFICES ASSUME Inv, [Sets]_routerVars PROVE Inv'
    OBVIOUS
  <2>1. ASSUME NEW list \in Seq(R), SetRoutes(list) PROVE Inv'
    BY <2>1, SetRoutesSorts
  <2>2. CASE UNCHANGED routerVars
    BY <2>2 DEF routerVars
  <2>3. QED
    BY <2>1, <2>2
<1>3. Inv => MostSpecificAlwaysWins
  BY FirstIsMostSpecific
<1> HIDE DEF Inv, Sets
<1>4. InitRouter /\ [][Sets]_routerVars => []MostSpecificAlwaysWins
  BY <1>1, <1>2, <1>3, PTL
<1>5. QED
  BY <1>4 DEF Sets

-----------------------------------------------------------------------------
(* The Director *)

(* An element by element account of suffixes. *)
Ends(s, t) ==
    /\ Len(s) <= Len(t)
    /\ \A i \in 1 .. Len(s) : s[i] = t[Len(t) - Len(s) + i]

\* Ends is what IsSuffix means, said by positions.
LEMMA SuffixMeans ==
    ASSUME NEW C, NEW s \in Seq(C), NEW t \in Seq(C), Ends(s, t)
    PROVE  IsSuffix(s, t)
<1> DEFINE rs == Reverse(s)
           rt == Reverse(t)
<1>1. rs \in Seq(C) /\ Len(rs) = Len(s) /\ \A i \in 1 .. Len(s) : rs[i] = s[(Len(s) - i) + 1]
  BY DEF Reverse
<1>2. rt \in Seq(C) /\ Len(rt) = Len(t) /\ \A i \in 1 .. Len(t) : rt[i] = t[(Len(t) - i) + 1]
  BY DEF Reverse
<1>3. \A i \in 1 .. Len(s) : rs[i] = rt[i]
  <2> SUFFICES ASSUME NEW i \in 1 .. Len(s) PROVE rs[i] = rt[i]
    OBVIOUS
  <2>1. /\ (Len(s) - i) + 1 \in 1 .. Len(s) /\ i \in 1 .. Len(t)
        /\ Len(t) - Len(s) + ((Len(s) - i) + 1) = (Len(t) - i) + 1
    BY DEF Ends
  <2>2. s[(Len(s) - i) + 1] = t[(Len(t) - i) + 1]
    BY <2>1 DEF Ends
  <2>3. QED
    BY <1>1, <1>2, <2>1, <2>2
<1> HIDE DEF rs, rt
<1>4. SubSeq(rs, 1, Len(rs)) = SubSeq(rt, 1, Len(rs))
  BY <1>1, <1>2, <1>3 DEF Ends
<1>5. QED
  BY <1>1, <1>2, <1>4 DEF Ends, IsSuffix, IsPrefix, rs, rt

(* The path of the upstream URL ends up in front of the path of the request,  *)
(* without the slash it may end with.                                         *)
LEMMA JoinedMeans ==
    ASSUME NEW C, NEW base \in Seq(C), base # <<>> => base[1] = "/",
           NEW url \in Seq(C)
    PROVE  \E b \in Seq(C) :
               /\ Joined(base, url) = b \o url
               /\ b # <<>> => b[1] = "/"
               /\ base \in {<<>>, <<"/">>} => b = <<>>
<1>1. CASE base # <<>> /\ Last(base) = "/"
  <2> DEFINE b == Front(base)
  <2>1. Joined(base, url) = b \o url
    BY <1>1 DEF Joined
  <2>2. /\ b \in Seq(C) /\ Len(b) = Len(base) - 1
        /\ \A i \in 1 .. Len(base) - 1 : b[i] = base[i]
    <3>1. PICK n \in Nat : Len(base) = n + 1
      <4>1. Len(base) \in Nat /\ Len(base) # 0
        BY <1>1
      <4>2. Len(base) - 1 \in Nat /\ Len(base) = (Len(base) - 1) + 1
        BY <4>1
      <4>3. QED
        BY <4>2
    <3>2. b = SubSeq(base, 1, n)
      BY <3>1 DEF Front
    <3>3. QED
      BY <3>1, <3>2
  <2>3. b # <<>> => b[1] = "/"
    BY <2>2
  <2>4. base \in {<<>>, <<"/">>} => b = <<>>
    BY <1>1, <2>2
  <2>5. QED
    BY <2>1, <2>2, <2>3, <2>4
<1>2. CASE ~(base # <<>> /\ Last(base) = "/")
  <2>1. Joined(base, url) = base \o url
    BY <1>2 DEF Joined
  <2>2. base # <<"/">>
    <3>1. <<"/">> # <<>> /\ Last(<<"/">>) = "/"
      BY DEF Last
    <3>2. QED
      BY <1>2, <3>1
  <2>3. QED
    BY <2>1, <2>2
<1>3. QED
  BY <1>1, <1>2

(* What the upstream is asked for is a path that ends in rest, or just that. *)
KeepsRest(asked, rest) == asked[1] = "/" /\ IsSuffix(rest, asked)
IsRest(asked, rest) == asked = IF IsPrefix(<<"/">>, rest) THEN rest ELSE <<"/">> \o rest

(* Whatever prefix of the path is trimmed, from whatever precedes the path:   *)
(* what follows the prefix is kept.                                           *)
LEMMA TrimmedMeans ==
    ASSUME NEW C, "/" \in C,
           NEW url \in Seq(C), url # <<>>, url[1] = "/",
           NEW prefix \in Seq(C), IsPrefix(prefix, url),
           NEW b \in Seq(C), b # <<>> => b[1] = "/"
    PROVE  LET rest == SubSeq(url, Len(prefix) + 1, Len(url))
               asked == Trimmed(prefix, b \o url)
           IN  /\ KeepsRest(asked, rest)
               /\ b = <<>> => IsRest(asked, rest)
               /\ ~IsPrefix(prefix, b \o url) => asked = b \o url
<1> DEFINE joined == b \o url
           rest == SubSeq(url, Len(prefix) + 1, Len(url))
           trimmed == IF IsPrefix(prefix, joined)
                      THEN SubSeq(joined, Len(prefix) + 1, Len(joined))
                      ELSE joined
           asked == IF IsPrefix(<<"/">>, trimmed) THEN trimmed ELSE <<"/">> \o trimmed
<1>1. Trimmed(prefix, b \o url) = asked
  BY DEF Trimmed
<1>2. Len(prefix) <= Len(url)
  BY DEF IsPrefix
<1>3. /\ rest \in Seq(C) /\ Len(rest) = Len(url) - Len(prefix)
      /\ \A i \in 1 .. Len(url) - Len(prefix) : rest[i] = url[Len(prefix) + i]
  BY <1>2
<1>4. /\ joined \in Seq(C) /\ Len(joined) = Len(b) + Len(url)
      /\ \A i \in 1 .. Len(url) : joined[Len(b) + i] = url[i]
  OBVIOUS
<1>5. joined # <<>> /\ joined[1] = "/"
  OBVIOUS
<1> HIDE DEF joined, rest
<1>6. trimmed \in Seq(C) /\ Ends(rest, trimmed)
  <2>1. CASE IsPrefix(prefix, joined)
    <3>1. /\ trimmed \in Seq(C)
          /\ Len(trimmed) = Len(joined) - Len(prefix)
          /\ \A i \in 1 .. Len(joined) - Len(prefix) : trimmed[i] = joined[Len(prefix) + i]
      <4>1. PICK p \in Nat, l \in Nat : p = Len(prefix) /\ l = Len(joined) /\ p <= l
        BY <1>2, <1>4
      <4> DEFINE cut == SubSeq(joined, p + 1, l)
      <4>2. cut \in Seq(C) /\ Len(cut) = l - p /\ \A i \in 1 .. l - p : cut[i] = joined[p + i]
        <5>1. joined \in Seq(C) /\ p + 1 \in 1 .. l + 1 /\ l \in 0 .. Len(joined)
          BY <1>4, <4>1
        <5>2. QED
          BY <4>1, <5>1
      <4>3. trimmed = cut
        BY <2>1, <4>1
      <4> HIDE DEF cut, trimmed
      <4>4. QED
        BY <4>1, <4>2, <4>3
    <3> HIDE DEF trimmed
    <3>2. ASSUME NEW i \in 1 .. Len(rest)
          PROVE  rest[i] = trimmed[Len(trimmed) - Len(rest) + i]
      <4>1. /\ Len(trimmed) - Len(rest) + i \in 1 .. Len(joined) - Len(prefix)
            /\ Len(prefix) + (Len(trimmed) - Len(rest) + i) = Len(b) + (Len(prefix) + i)
            /\ Len(prefix) + i \in 1 .. Len(url)
        <5>1. PICK m \in Nat, p \in Nat, l \in Nat :
                 m = Len(b) /\ p = Len(prefix) /\ l = Len(url)
          OBVIOUS
        <5>2. p <= l /\ Len(rest) = l - p /\ Len(trimmed) = (m + l) - p
          BY <5>1, <1>2, <1>3, <1>4, <3>1
        <5>3. i \in 1 .. l - p
          BY <5>2
        <5>4. Len(trimmed) - Len(rest) + i = m + i
          BY <5>2, <5>3
        <5>5. m + i \in 1 .. (m + l) - p /\ p + (m + i) = m + (p + i) /\ p + i \in 1 .. l
          BY <5>2, <5>3
        <5>6. QED
          BY <5>1, <5>4, <5>5, <1>4
      <4>2. QED
        BY <4>1, <1>3, <1>4, <3>1
    <3>3. QED
      BY <1>2, <1>3, <1>4, <3>1, <3>2 DEF Ends
  <2>2. CASE ~IsPrefix(prefix, joined)
    <3>1. ASSUME NEW i \in 1 .. Len(rest)
          PROVE  rest[i] = joined[Len(joined) - Len(rest) + i]
      <4>1. /\ Len(joined) - Len(rest) + i = Len(b) + (Len(prefix) + i)
            /\ Len(prefix) + i \in 1 .. Len(url)
        BY <1>2, <1>3, <1>4
      <4>2. QED
        BY <4>1, <1>3, <1>4
    <3>2. Ends(rest, joined)
      BY <1>2, <1>3, <1>4, <3>1 DEF Ends
    <3>3. QED
      BY <2>2, <3>2, <1>4
  <2>3. QED
    BY <2>1, <2>2
<1>7. b = <<>> => trimmed = rest
  BY DEF joined, rest
<1>8. ~IsPrefix(prefix, joined) => trimmed = joined
  OBVIOUS
<1>9. IsPrefix(<<"/">>, joined)
  BY <1>4, <1>5 DEF IsPrefix
<1> HIDE DEF trimmed
<1>10. asked \in Seq(C) /\ asked[1] = "/" /\ Ends(rest, asked)
  <2>1. CASE IsPrefix(<<"/">>, trimmed)
    <3>1. asked = trimmed
      BY <2>1
    <3>2. trimmed[1] = "/"
      BY <1>6, <2>1 DEF IsPrefix
    <3>3. QED
      BY <1>6, <3>1, <3>2
  <2>2. CASE ~IsPrefix(<<"/">>, trimmed)
    <3> DEFINE u == <<"/">> \o trimmed
    <3>1. asked = u
      BY <2>2
    <3>2. /\ u \in Seq(C) /\ u[1] = "/" /\ Len(u) = Len(trimmed) + 1
          /\ \A i \in 1 .. Len(trimmed) : u[i + 1] = trimmed[i]
      <4>1. trimmed \in Seq(C) /\ "/" \in C
        BY <1>6
      <4>2. QED
        BY <4>1
    <3> HIDE DEF u
    <3>3. ASSUME NEW i \in 1 .. Len(rest) PROVE rest[i] = u[Len(u) - Len(rest) + i]
      <4>1. PICK j \in 1 .. Len(trimmed) : j = Len(trimmed) - Len(rest) + i
        <5>1. PICK n \in Nat, l \in Nat : n = Len(trimmed) /\ l = Len(rest) /\ l <= n
          <6>1. Len(trimmed) \in Nat /\ Len(rest) \in Nat
            BY <1>3, <1>6
          <6>2. Len(rest) <= Len(trimmed)
            BY <1>6 DEF Ends
          <6>3. QED
            BY <6>1, <6>2
        <5>2. i \in 1 .. l
          BY <5>1
        <5>3. n - l + i \in 1 .. n
          BY <5>1, <5>2
        <5>4. QED
          BY <5>1, <5>3
      <4>2. Len(u) - Len(rest) + i = j + 1
        BY <1>3, <1>6, <3>2, <4>1
      <4>3. rest[i] = trimmed[j]
        BY <4>1, <1>6 DEF Ends
      <4>4. QED
        BY <3>2, <4>2, <4>3
    <3>4. Len(rest) <= Len(u)
      BY <1>3, <1>6, <3>2 DEF Ends
    <3>5. QED
      BY <3>1, <3>2, <3>3, <3>4 DEF Ends
  <2>3. QED
    BY <2>1, <2>2
<1>11. IsSuffix(rest, asked)
  BY <1>3, <1>10, SuffixMeans
<1>12. b = <<>> => asked = IF IsPrefix(<<"/">>, rest) THEN rest ELSE <<"/">> \o rest
  BY <1>7
<1>13. ~IsPrefix(prefix, joined) => asked = joined
  BY <1>8, <1>9
<1> HIDE DEF asked
<1>14. QED
  BY <1>1, <1>10, <1>11, <1>12, <1>13 DEF joined, rest, KeepsRest, IsRest

(* What is put in front of a path leaves the path at the end.                 *)
LEMMA EndsWithPath ==
    ASSUME NEW C, NEW url \in Seq(C), NEW b \in Seq(C)
    PROVE  IsSuffix(url, b \o url) /\ (b = <<>> => b \o url = url)
<1> DEFINE joined == b \o url
<1>1. /\ joined \in Seq(C) /\ Len(joined) = Len(b) + Len(url)
      /\ \A i \in 1 .. Len(url) : joined[Len(b) + i] = url[i]
  OBVIOUS
<1>2. b = <<>> => joined = url
  OBVIOUS
<1> HIDE DEF joined
<1>3. PICK m \in Nat, n \in Nat : m = Len(b) /\ n = Len(url)
  OBVIOUS
<1>4. n <= m + n /\ (m + n) - n = m
  BY <1>3
<1>5. Ends(url, joined)
  BY <1>1, <1>3, <1>4 DEF Ends
<1>6. IsSuffix(url, joined)
  BY <1>1, <1>5, SuffixMeans
<1>7. QED
  BY <1>2, <1>6 DEF joined

(* In any table, for any paths: the Director takes away no more than the      *)
(* prefix of the route that was matched, and nothing if the route keeps it.   *)
THEOREM DirectorStripsPrefix ==
    ASSUME NEW C, "/" \in C,
           \A p \in Paths : p \in Seq(C) /\ p # <<>> /\ p[1] = "/",
           NEW R, \A r \in R : r.prefix \in Seq(C), table \in Seq(R)
    PROVE  StripsPrefix
<1> SUFFICES ASSUME NEW url \in Paths, NEW base \in {<<>>} \cup Paths,
                    Match(url) # NoRoute
             PROVE  LET prefix == Match(url).prefix
                        strip == Match(url).strip
                        kept == IF strip THEN SubSeq(url, Len(prefix) + 1, Len(url))
                                         ELSE url
                        asked == Asked(base, Match(url), url)
                    IN  /\ IsSuffix(kept, asked)
                        /\ strip => asked[1] = "/"
                        /\ base \in {<<>>, <<"/">>} =>
                            asked = IF strip /\ ~IsPrefix(<<"/">>, kept)
                                    THEN <<"/">> \o kept ELSE kept
                        /\ ~IsPrefix(prefix, Joined(base, url)) =>
                            asked = Joined(base, url)
  BY DEF StripsPrefix
<1>1. url \in Seq(C) /\ url # <<>> /\ url[1] = "/"
  OBVIOUS
<1>2. base \in Seq(C) /\ (base # <<>> => base[1] = "/")
  <2>1. CASE base = <<>>
    BY <2>1
  <2>2. CASE base \in Paths
    BY <2>2
  <2>3. QED
    BY <2>1, <2>2
<1>3. PICK prefix \in Seq(C) : prefix = Match(url).prefix /\ IsPrefix(prefix, url)
  <2>1. Hits(url) # {} /\ Match(url) = table[Min(Hits(url))]
    BY DEF Match
  <2>2. Hits(url) \in SUBSET Nat
    BY DEF Hits
  <2>3. Min(Hits(url)) \in Hits(url)
    BY <2>1, <2>2, MinIsLeast
  <2>4. PICK i \in Hits(url) : Match(url) = table[i]
    BY <2>1, <2>3
  <2>5. i \in DOMAIN table /\ IsPrefix(table[i].prefix, url) /\ table[i] \in R
    BY <2>4 DEF Hits
  <2>6. QED
    BY <2>4, <2>5
<1>4. PICK b \in Seq(C) :
         /\ Joined(base, url) = b \o url
         /\ b # <<>> => b[1] = "/"
         /\ base \in {<<>>, <<"/">>} => b = <<>>
  BY <1>1, <1>2, JoinedMeans
<1>5. CASE Match(url).strip
  <2> DEFINE rest == SubSeq(url, Len(prefix) + 1, Len(url))
             asked == Trimmed(prefix, b \o url)
  <2>1. /\ KeepsRest(asked, rest)
        /\ b = <<>> => IsRest(asked, rest)
        /\ ~IsPrefix(prefix, b \o url) => asked = b \o url
    BY <1>1, <1>3, <1>4, TrimmedMeans
  <2>2. Asked(base, Match(url), url) = asked
    BY <1>3, <1>4, <1>5 DEF Asked
  <2> HIDE DEF rest, asked
  <2>3. QED
    BY <1>3, <1>4, <1>5, <2>1, <2>2 DEF rest, KeepsRest, IsRest
<1>6. CASE ~Match(url).strip
  <2>1. Asked(base, Match(url), url) = b \o url
    BY <1>4, <1>6 DEF Asked
  <2>2. IsSuffix(url, b \o url) /\ (b = <<>> => b \o url = url)
    BY <1>1, EndsWithPath
  <2>3. QED
    BY <1>4, <1>6, <2>1, <2>2
<1>7. QED
  BY <1>5, <1>6

-----------------------------------------------------------------------------
(* The gateway *)

\* A route as the store lists it.
RouteRecs ==
    [id : RouteId, prefix : PathPrefixes, upstream : Upstreams, strip : StripFlags]

-----------------------------------------------------------------------------
(* The invariants *)

TypeInv ==
    /\ TypeOK
    /\ table \in Seq(RouteRecs) /\ Sorted(table) /\ proxies = ProxiesOf(table)
    /\ loaded \in Seq(Seq(RouteRecs))
    /\ path \in [Request -> Paths \cup {<<>>}]
    /\ route \in [Request -> RouteRecs \cup {NoRoute}]
    /\ proxy \in [Request -> RouteRecs \cup {NoRoute}]
    /\ sent \in [Request -> {NoStatus, 200, 204, 401, 403, 404, 429, 500, 502, 503}]

\* Before a proxy is picked; before the final response.
Routed == {"authenticating", "authorizing", "limiting", "picking"}
Before == {"idle", "matching"} \cup Routed
Unsent == Before \cup {"upstream"}

Flow(q) ==
    /\ pc[q] \in Routed => route[q] \in RouteRecs
    /\ pc[q] \in Before => proxy[q] = NoRoute
    /\ pc[q] \in Unsent => sent[q] = NoStatus
    /\ pc[q] \in {"picking", "upstream"} \/ pc[q] \in {"copying", "recording", "done"} =>
            status[q] # NoStatus
    /\ pc[q] \in {"copying", "recording", "done", "aborted"} => sent[q] \in {200, 502, 503}
    /\ q \in counted <=> pc[q] = "done"
    /\ ~EarlyHints =>
        /\ pc[q] \in Unsent => ~wrote[q]
        /\ pc[q] \in {"copying", "recording", "done"} => status[q] = sent[q]

FlowInv == \A q \in Request : Flow(q)

\* What a record may say.
Rejected(q) == pc[q] = "answered" /\ sent[q] = 429
Records == pending \cup log \cup failed
TrueRecord(rec) ==
    \/ pc[rec.request] = "done" /\ rec.status = status[rec.request]
    \/ Rejected(rec.request) /\ rec.status = 429

AuditInv ==
    /\ \A rec \in Records : TrueRecord(rec)
    /\ pending \cap log = {} /\ (pending \cup log) \cap failed = {}
    /\ \A q \in Request :
        pc[q] = "done" \/ Rejected(q) => \E rec \in Records : rec.request = q

\* Where a request may still be that something has kept out since it came.
BarredAt(q, cause) ==
    \/ pc[q] \in {"matching", "authenticating"}
    \/ pc[q] = "authorizing" /\ cause = "policy"
    \/ pc[q] = "answered" /\ sent[q] \in {401, 403, 404}

BarredInv ==
    \A o \in Request, cause \in Causes :
        <<o, cause>> \in barred => KeptOut(key[o], cause) /\ BarredAt(o, cause)

\* The table is of moment w, or of none, the list read of a later one, and every
\* request that has its route but not its proxy has it from an earlier one.
AtMoment(w) ==
    /\ IF refreshed THEN ToSet(table) = actives[w] ELSE table = <<>>
    /\ loaded # <<>> => \E x \in w .. Len(actives) : ToSet(loaded[1]) = actives[x]
    /\ \A q \in Request : pc[q] \in Routed => \E v \in 1 .. w : route[q] \in actives[v]

HistoryInv ==
    /\ actives \in Seq(SUBSET RouteRecs) /\ actives # <<>>
    /\ actives[Len(actives)] = ActiveRoutes
    /\ \E w \in DOMAIN actives : AtMoment(w)
    /\ ForwardedAsAuthorised

-----------------------------------------------------------------------------
(* The store *)

(* The active routes are finitely many. *)
LEMMA ActiveRoutesTypes ==
    ASSUME StoreTypeOK
    PROVE  ActiveRoutes \in SUBSET RouteRecs /\ IsFiniteSet(ActiveRoutes)
<1> DEFINE ids == {r \in RouteId : routes[r].state = "active"}
           rec == [r \in ids |-> Listed(r)]
<1>1. ActiveRoutes \in SUBSET RouteRecs
  BY DEF ActiveRoutes, Listed, RouteRecs, StoreTypeOK, RouteRows
<1>2. IsFiniteSet(ids)
  BY FS_Subset, StoreAssumption
<1>3. ActiveRoutes = {rec[r] : r \in ids}
  BY DEF ActiveRoutes
<1> HIDE DEF ids
<1>4. rec \in Surjection(ids, ActiveRoutes)
  BY <1>3 DEF Surjection
<1>5. IsFiniteSet(ActiveRoutes)
  BY <1>2, <1>4, FS_Surjection
<1>6. QED
  BY <1>1, <1>5

(* A list of the store has its active routes and no other. *)
LEMMA ListingMeans ==
    ASSUME StoreTypeOK, NEW list \in Listings
    PROVE  list \in Seq(RouteRecs) /\ ToSet(list) = ActiveRoutes
<1> DEFINE n == Cardinality(ActiveRoutes)
<1>1. ActiveRoutes \in SUBSET RouteRecs /\ IsFiniteSet(ActiveRoutes)
  BY ActiveRoutesTypes
<1>2. n \in Nat
  BY <1>1, FS_CardinalityType
<1>3. /\ list \in [1 .. n -> ActiveRoutes]
      /\ \A i, j \in 1 .. n : i # j => list[i] # list[j]
  BY DEF Listings, SetToSeqs
<1> HIDE DEF n
<1>4. list \in Injection(1 .. n, ActiveRoutes)
  BY <1>3 DEF Injection, IsInjective
<1>5. Cardinality(1 .. n) = n
  BY <1>2, FS_Interval
<1>6. list \in Surjection(1 .. n, ActiveRoutes)
  BY <1>1, <1>4, <1>5, FS_Injection DEF n
<1>7. ToSet(list) = ActiveRoutes
  <2>1. DOMAIN list = 1 .. n
    BY <1>3
  <2>2. \A r \in ActiveRoutes : \E i \in 1 .. n : list[i] = r
    BY <1>6 DEF Surjection
  <2>3. QED
    BY <1>3, <2>1, <2>2 DEF ToSet
<1>8. list \in Seq(RouteRecs)
  BY <1>1, <1>2, <1>3
<1>9. QED
  BY <1>7, <1>8

-----------------------------------------------------------------------------
(* The route table *)

\* What the store lists are routes, and the absence of a route is none.
LEMMA RouteRecsAreRoutes == Prefixed(RouteRecs) /\ NoRoute \notin RouteRecs
BY StoreAssumption, GatewayAssumption DEF Prefixed, RouteRecs, NoRoute

(* Match returns a route of the table. *)
LEMMA MatchInTable ==
    ASSUME table \in Seq(RouteRecs), NEW p, Match(p) # NoRoute
    PROVE  Match(p) \in ToSet(table) /\ Match(p) \in RouteRecs
<1>1. Hits(p) # {} /\ Match(p) = table[Min(Hits(p))]
  BY DEF Match
<1>2. Hits(p) \in SUBSET Nat
  BY DEF Hits
<1>3. PICK i \in Hits(p) : Match(p) = table[i]
  BY <1>1, <1>2, MinIsLeast
<1>4. i \in DOMAIN table
  BY DEF Hits
<1>5. QED
  BY <1>3, <1>4 DEF ToSet

(* A proxy was built from the route of the table that has its id. *)
LEMMA ProxyInTable ==
    ASSUME table \in Seq(RouteRecs), proxies = ProxiesOf(table), NEW id \in DOMAIN proxies
    PROVE  proxies[id] \in ToSet(table) /\ proxies[id] \in RouteRecs /\ proxies[id].id = id
<1> DEFINE built == {r \in ToSet(table) : r.upstream # Unparsable}
<1>1. DOMAIN proxies = {r.id : r \in built} /\ proxies[id] = CHOOSE r \in built : r.id = id
  BY DEF ProxiesOf
<1>2. \E r \in built : r.id = id
  BY <1>1
<1> HIDE DEF built
<1>3. proxies[id] \in built /\ proxies[id].id = id
  BY <1>1, <1>2
<1>4. ToSet(table) \subseteq RouteRecs
  BY DEF ToSet
<1>5. QED
  BY <1>3, <1>4 DEF built

-----------------------------------------------------------------------------
(* Types *)

\* The types, in the first states.
LEMMA TypeInit == Init => TypeInv
<1> SUFFICES ASSUME Init PROVE TypeInv
  OBVIOUS
<1>1. StoreTypeOK
  BY FirstRowsAssumption DEF Init, InitStore, StoreTypeOK
<1>2. TypeOK
  <2>1. refreshed \in BOOLEAN
    BY DEF Init
  <2>2. Len(loaded) <= 1
    BY DEF Init
  <2>3. QED
    BY <1>1, <2>1, <2>2 DEF Init, TypeOK, Running, Ended, NoStatus
<1>3. table \in Seq(RouteRecs) /\ Sorted(table) /\ proxies = ProxiesOf(table)
  <2>1. CASE InitRouter
    BY <2>1, EmptyIsSorted DEF InitRouter
  <2>2. ASSUME NEW list \in Listings,
               table = SortRoutes(list), proxies = ProxiesOf(SortRoutes(list))
        PROVE  table \in Seq(RouteRecs) /\ Sorted(table) /\ proxies = ProxiesOf(table)
    <3>1. list \in Seq(RouteRecs)
      BY <1>1, ListingMeans
    <3>2. QED
      BY <2>2, <3>1, RouteRecsAreRoutes, SortRoutesSorts
  <2>3. QED
    BY <2>1, <2>2 DEF Init
<1>4. QED
  BY <1>2, <1>3 DEF Init, TypeInv, NoStatus

(* What an action of a request leaves as it is. *)
LEMMA RequestTypeStep ==
    ASSUME TypeInv, FlowInv, NEW q \in Request,
           Arrive(q) \/ Preflight(q) \/ Step(q) \/ Informational(q)
    PROVE  TypeInv'
<1> USE DEF TypeInv, TypeOK, StoreTypeOK, Running, Ended, NoStatus,
            reqVars, auditVars, adminVars, storeVars, routerVars
<1>1. CASE Arrive(q)
  BY <1>1 DEF Arrive, Causes
<1>2. CASE Preflight(q)
  BY <1>2 DEF Preflight, Goto
<1>3. CASE MatchRoute(q)
  <2>1. Match(path[q]) \in RouteRecs
    BY <1>3, MatchInTable DEF MatchRoute
  <2>2. QED
    BY <1>3, <2>1 DEF MatchRoute, Goto
<1>4. CASE NotFound(q)
  BY <1>4 DEF NotFound, Reject, Goto
<1>5. CASE MissingKey(q)
  BY <1>5 DEF MissingKey, Reject, Goto
<1>6. CASE Authenticate(q)
  BY <1>6 DEF Authenticate, Goto
<1>7. CASE Unauthenticated(q)
  BY <1>7 DEF Unauthenticated, Reject, Goto
<1>8. CASE Authorize(q)
  BY <1>8 DEF Authorize, Goto
<1>9. CASE Forbidden(q)
  BY <1>9 DEF Forbidden, Reject, Goto
<1>10. CASE Allowed(q)
  BY <1>10 DEF Allowed, Goto
<1>11. CASE LimiterFails(q)
  BY <1>11 DEF LimiterFails, Reject, Goto
<1>12. CASE TooMany(q)
  BY <1>12 DEF TooMany, Goto, Audit
<1>13. CASE PickProxy(q)
  <2>1. ProxyFor(q) \in RouteRecs
    BY <1>13, ProxyInTable DEF PickProxy, ProxyFor
  <2>2. QED
    BY <1>13, <2>1 DEF PickProxy, Goto
<1>14. CASE NoProxy(q)
  BY <1>14 DEF NoProxy, Goto, WriteHeader, Recorded
<1>15. CASE Informational(q)
  BY <1>15 DEF Informational, Goto, WriteHeader, Recorded
<1>16. CASE Respond(q)
  BY <1>16 DEF Respond, Goto, WriteHeader, Recorded
<1>17. CASE Unreachable(q)
  BY <1>17 DEF Unreachable, Goto, WriteHeader, Recorded
<1>18. CASE Copied(q)
  BY <1>18 DEF Copied, Goto
<1>19. CASE Abort(q)
  BY <1>19 DEF Abort, Goto
<1>20. CASE Record(q)
  <2>1. status[q] \in {103, 200, 502, 503}
    BY <1>20 DEF Record, Goto, FlowInv, Flow
  <2>2. QED
    BY <1>20, <2>1 DEF Record, Goto, Audit
<1> HIDE DEF TypeInv, TypeOK, StoreTypeOK, Running, Ended, NoStatus,
             reqVars, auditVars, adminVars, storeVars, routerVars
<1>21. QED
  BY <1>1, <1>2, <1>3, <1>4, <1>5, <1>6, <1>7, <1>8, <1>9, <1>10, <1>11, <1>12, <1>13, <1>14, <1>15, <1>16, <1>17, <1>18, <1>19, <1>20, Zenon DEF Step

(* At most one list has been read. *)
LEMMA OneElement ==
    ASSUME NEW S, NEW s \in Seq(S), s # <<>>, Len(s) <= 1
    PROVE  Head(s) \in S /\ Head(s) = s[1] /\ Tail(s) = <<>>
<1>1. Len(s) = 1
  <2>1. Len(s) \in Nat \ {0}
    BY EmptySeq
  <2>2. Len(s) \in Nat /\ Len(s) # 0
    BY <2>1
  <2>3. QED
    BY <2>2
<1>2. Head(s) \in S /\ Head(s) = s[1]
  BY <1>1
<1>3. Tail(s) \in Seq(S) /\ Len(Tail(s)) = 0
  BY <1>1, HeadTailProperties
<1>4. Tail(s) = <<>>
  BY <1>3, EmptySeq
<1>5. QED
  BY <1>2, <1>4

\* The one list that was read and not yet set.
LEMMA HeadOfLoaded ==
    ASSUME TypeInv, loaded # <<>>
    PROVE  Head(loaded) \in Seq(RouteRecs) /\ Head(loaded) = loaded[1] /\ Tail(loaded) = <<>>
<1> DEFINE Lists == Seq(RouteRecs)
<1>1. loaded \in Seq(Lists) /\ Len(loaded) <= 1
  BY DEF TypeInv, TypeOK
<1> HIDE DEF Lists
<1>2. Head(loaded) \in Lists /\ Head(loaded) = loaded[1] /\ Tail(loaded) = <<>>
  BY <1>1, OneElement
<1>3. QED
  BY <1>2 DEF Lists

(* A read of the store has a list of routes for its result, SetRoutes leaves  *)
(* them sorted.                                                               *)
LEMMA TypeStep ==
    ASSUME TypeInv, FlowInv, [Next]_vars
    PROVE  TypeInv'
<1>0. loaded # <<>> => Head(loaded) \in Seq(RouteRecs) /\ Tail(loaded) = <<>>
  BY HeadOfLoaded
<1> USE DEF TypeInv
<1>1. CASE RefreshRead
  <2>1. PICK list \in Seq(RouteRecs) : loaded' = <<list>>
    BY <1>1, ListingMeans DEF RefreshRead, TypeOK
  <2>2. loaded' \in Seq(Seq(RouteRecs)) /\ Len(loaded') <= 1
    BY <2>1
  <2>3. TypeOK'
    BY <1>1, <2>2 DEF RefreshRead, TypeOK, StoreTypeOK, reqVars, auditVars, adminVars, storeVars
  <2>4. QED
    BY <1>1, <2>2, <2>3 DEF RefreshRead, reqVars, routerVars
<1>2. CASE RefreshSet
  <2>1. Head(loaded) \in Seq(RouteRecs) /\ Tail(loaded) = <<>>
    <3>1. loaded # <<>>
      BY <1>2 DEF RefreshSet
    <3>2. QED
      BY <3>1, <1>0, Zenon
  <2>2. loaded' \in Seq(Seq(RouteRecs)) /\ Len(loaded') <= 1
    <3>1. loaded' = <<>>
      BY <1>2, <2>1 DEF RefreshSet
    <3>2. <<>> \in Seq(Seq(RouteRecs)) /\ Len(<<>>) = 0
      BY EmptySeq, Zenon
    <3>3. QED
      BY <3>1, <3>2
  <2>3. table' \in Seq(RouteRecs) /\ Sorted(table') /\ proxies' = ProxiesOf(table')
    BY <1>2, <2>1, SetRoutesSorts, RouteRecsAreRoutes DEF RefreshSet
  <2>4. TypeOK'
    BY <1>2, <2>2 DEF RefreshSet, TypeOK, StoreTypeOK, reqVars, auditVars, adminVars, storeVars
  <2>5. QED
    BY <1>2, <2>2, <2>3, <2>4 DEF RefreshSet, reqVars
<1>3. CASE Signal
  BY <1>3 DEF Signal, TypeOK, StoreTypeOK, reqVars, auditVars, adminVars, storeVars, routerVars
<1>4. CASE Exit
  BY <1>4 DEF Exit, TypeOK, StoreTypeOK, reqVars, auditVars, adminVars, storeVars, routerVars
<1>5. CASE Admin
  <2>1. StoreTypeOK'
    BY <1>5, EditKeepsTypes DEF Admin, TypeOK
  <2>2. barred' \subseteq barred
    BY <1>5 DEF Admin
  <2>3. TypeOK'
    BY <1>5, <2>1, <2>2 DEF Admin, TypeOK, reqVars, auditVars
  <2>4. QED
    BY <1>5, <2>3 DEF Admin, reqVars, routerVars
<1>6. ASSUME NEW q \in Request, Arrive(q) \/ Preflight(q) \/ Step(q) \/ Informational(q)
      PROVE  TypeInv'
  BY <1>6, RequestTypeStep
<1>7. ASSUME NEW rec \in pending, Insert(rec) \/ InsertFails(rec) PROVE TypeInv'
  BY <1>7 DEF Insert, InsertFails, AuditStep, TypeOK, StoreTypeOK, reqVars, adminVars,
              storeVars, routerVars
<1>8. CASE UNCHANGED vars
  BY <1>8 DEF vars, TypeOK, StoreTypeOK, reqVars, auditVars, storeVars, routerVars
<1> HIDE DEF TypeInv
<1>9. QED
  BY <1>1, <1>2, <1>3, <1>4, <1>5, <1>6, <1>7, <1>8 DEF Next, RefreshFails

-----------------------------------------------------------------------------
(* The flow of a request *)

\* No request has begun.
LEMMA FlowInit == Init => FlowInv
BY DEF Init, FlowInv, Flow, Routed, Before, Unsent, NoStatus

(* A request at one point of ServeHTTP gets to the next one with what is true *)
(* there; the others stay where they are.                                     *)
LEMMA FlowOfOne ==
    ASSUME TypeInv, FlowInv, NEW q \in Request,
           Arrive(q) \/ Preflight(q) \/ Step(q) \/ Informational(q)
    PROVE  /\ Flow(q)'
           /\ \A o \in Request \ {q} :
                /\ pc'[o] = pc[o] /\ key'[o] = key[o] /\ route'[o] = route[o]
                /\ proxy'[o] = proxy[o] /\ status'[o] = status[o]
                /\ wrote'[o] = wrote[o] /\ sent'[o] = sent[o]
                /\ o \in counted' <=> o \in counted
           /\ pc[q] \notin Ended
           /\ UNCHANGED <<adminVars, routerVars, proc, loaded, log, failed, refreshed>>
           /\ \/ pc'[q] = "done" /\ pending' = Audit(q, status'[q])
              \/ pc'[q] = "answered" /\ sent'[q] = 429 /\ pending' = Audit(q, 429)
              \/ pc'[q] # "done" /\ sent'[q] # 429 /\ pending' = pending
<1> USE DEF TypeInv, TypeOK, Flow, Routed, Before, Unsent, Ended, NoStatus,
            reqVars, auditVars, FlowInv
<1>1. CASE Arrive(q)
  BY <1>1 DEF Arrive
<1>2. CASE Preflight(q)
  BY <1>2 DEF Preflight, Goto
<1>3. CASE MatchRoute(q)
  <2>1. Match(path[q]) \in RouteRecs
    BY <1>3, MatchInTable DEF MatchRoute
  <2>2. QED
    BY <1>3, <2>1 DEF MatchRoute, Goto
<1>4. CASE NotFound(q)
  BY <1>4 DEF NotFound, Reject, Goto
<1>5. CASE MissingKey(q)
  BY <1>5 DEF MissingKey, Reject, Goto
<1>6. CASE Authenticate(q)
  BY <1>6 DEF Authenticate, Goto
<1>7. CASE Unauthenticated(q)
  BY <1>7 DEF Unauthenticated, Reject, Goto
<1>8. CASE Authorize(q)
  BY <1>8 DEF Authorize, Goto
<1>9. CASE Forbidden(q)
  BY <1>9 DEF Forbidden, Reject, Goto
<1>10. CASE Allowed(q)
  BY <1>10 DEF Allowed, Goto
<1>11. CASE LimiterFails(q)
  BY <1>11 DEF LimiterFails, Reject, Goto
<1>12. CASE TooMany(q)
  BY <1>12 DEF TooMany, Goto
<1>13. CASE PickProxy(q)
  BY <1>13 DEF PickProxy, Goto
<1>14. CASE NoProxy(q)
  BY <1>14 DEF NoProxy, Goto, WriteHeader, Recorded
<1>15. CASE Informational(q)
  BY <1>15 DEF Informational, Goto, WriteHeader, Recorded
<1>16. CASE Respond(q)
  BY <1>16 DEF Respond, Goto, WriteHeader, Recorded
<1>17. CASE Unreachable(q)
  BY <1>17 DEF Unreachable, Goto, WriteHeader, Recorded
<1>18. CASE Copied(q)
  BY <1>18 DEF Copied, Goto
<1>19. CASE Abort(q)
  BY <1>19 DEF Abort, Goto
<1>20. CASE Record(q)
  BY <1>20 DEF Record, Goto
<1> HIDE DEF TypeInv, TypeOK, Flow, Routed, Before, Unsent, Ended, NoStatus,
             reqVars, auditVars, FlowInv
<1>21. QED
  BY <1>1, <1>2, <1>3, <1>4, <1>5, <1>6, <1>7, <1>8, <1>9, <1>10, <1>11, <1>12, <1>13, <1>14, <1>15, <1>16, <1>17, <1>18, <1>19, <1>20, Zenon DEF Step

(* The refresh loop, the audit goroutines, the signal and the admin handlers  *)
(* do not touch what a request holds.                                         *)
LEMMA OthersKeepRequests ==
    ASSUME [Next]_vars,
           ~\E q \in Request : Arrive(q) \/ Preflight(q) \/ Step(q) \/ Informational(q)
    PROVE  UNCHANGED <<pc, reqVars, counted>>
<1>1. CASE RefreshRead
  BY <1>1 DEF RefreshRead
<1>2. CASE RefreshSet
  BY <1>2 DEF RefreshSet
<1>3. CASE Signal
  BY <1>3 DEF Signal
<1>4. CASE Exit
  BY <1>4 DEF Exit
<1>5. CASE Admin
  BY <1>5 DEF Admin
<1>6. ASSUME NEW rec \in pending, Insert(rec) \/ InsertFails(rec)
      PROVE  UNCHANGED <<pc, reqVars, counted>>
  BY <1>6 DEF Insert, InsertFails, AuditStep
<1>7. CASE UNCHANGED vars
  BY <1>7 DEF vars
<1>8. QED
  BY <1>1, <1>2, <1>3, <1>4, <1>5, <1>6, <1>7 DEF Next, RefreshFails

\* A step of one request keeps what is true at each point of it, and of the others.
LEMMA FlowStep ==
    ASSUME TypeInv, FlowInv, [Next]_vars
    PROVE  FlowInv'
<1>1. ASSUME NEW q \in Request, Arrive(q) \/ Preflight(q) \/ Step(q) \/ Informational(q)
      PROVE  FlowInv'
  <2>1. /\ Flow(q)'
        /\ \A o \in Request \ {q} :
             /\ pc'[o] = pc[o] /\ key'[o] = key[o] /\ route'[o] = route[o]
             /\ proxy'[o] = proxy[o] /\ status'[o] = status[o]
             /\ wrote'[o] = wrote[o] /\ sent'[o] = sent[o]
             /\ o \in counted' <=> o \in counted
    BY <1>1, FlowOfOne
  <2>2. ASSUME NEW o \in Request \ {q} PROVE Flow(o)'
    BY <2>1 DEF FlowInv, Flow
  <2>3. QED
    BY <2>1, <2>2 DEF FlowInv
<1>2. CASE UNCHANGED <<pc, reqVars, counted>>
  BY <1>2 DEF FlowInv, Flow, reqVars
<1>3. QED
  BY <1>1, <1>2, OthersKeepRequests

\* The two hold always.
LEMMA TypeAndFlow == Spec => [](TypeInv /\ FlowInv)
<1>1. Init => TypeInv /\ FlowInv
  BY TypeInit, FlowInit
<1>2. TypeInv /\ FlowInv /\ [Next]_vars => (TypeInv /\ FlowInv)'
  BY TypeStep, FlowStep
<1>3. QED
  BY <1>1, <1>2, PTL DEF Spec

(* TypeOK of the gateway: the refresh loop has never read more than one list  *)
(* it has not set, and the audit log has only statuses a writer passed on.    *)
THEOREM GatewayTypeCorrect == Spec => []TypeOK
<1>1. TypeInv => TypeOK
  BY DEF TypeInv
<1>2. QED
  BY <1>1, TypeAndFlow, PTL

(* Whatever the order of a listing, and however refreshes, changes and        *)
(* requests interleave, the gateway's table gives every path its most         *)
(* specific route.                                                            *)
THEOREM GatewayMostSpecific == Spec => []MostSpecificAlwaysWins
<1>1. TypeInv => MostSpecificAlwaysWins
  BY RouteRecsAreRoutes, FirstIsMostSpecific DEF TypeInv
<1>2. QED
  BY <1>1, TypeAndFlow, PTL

-----------------------------------------------------------------------------
(* The audit trail *)

\* There are no records yet.
LEMMA AuditInit == Init => AuditInv
BY DEF Init, AuditInv, Records, Rejected

(* The records of a request are made where it ends, of the status it has      *)
(* there, and no step makes a second one.                                     *)
LEMMA AuditStepOfOne ==
    ASSUME TypeInv, FlowInv, AuditInv, NEW q \in Request,
           Arrive(q) \/ Preflight(q) \/ Step(q) \/ Informational(q)
    PROVE  AuditInv'
<1>1. /\ \A o \in Request \ {q} :
           pc'[o] = pc[o] /\ status'[o] = status[o] /\ sent'[o] = sent[o]
      /\ pc[q] \notin Ended /\ UNCHANGED <<log, failed>>
      /\ \/ pc'[q] = "done" /\ pending' = Audit(q, status'[q])
         \/ pc'[q] = "answered" /\ sent'[q] = 429 /\ pending' = Audit(q, 429)
         \/ pc'[q] # "done" /\ sent'[q] # 429 /\ pending' = pending
  BY FlowOfOne
<1>2. \A rec \in Records : rec.request \in Request
  BY DEF TypeInv, TypeOK, Records
<1>3. \A rec \in Records : rec.request # q
  BY <1>1 DEF AuditInv, TrueRecord, Rejected, Ended
<1>4. \A rec \in Records : TrueRecord(rec)'
  BY <1>1, <1>2, <1>3 DEF AuditInv, TrueRecord, Rejected
<1>5. \A o \in Request \ {q} :
         (pc[o] = "done" \/ Rejected(o))' => \E rec \in Records : rec.request = o
  BY <1>1 DEF AuditInv, Rejected
<1>6. ASSUME NEW rec, rec.request = q, TrueRecord(rec)', pending' = pending \cup {rec}
      PROVE  AuditInv'
  <2>1. Records' = Records \cup {rec}
    BY <1>1, <1>6 DEF Records
  <2>2. rec \notin log /\ rec \notin failed
    BY <1>3, <1>6 DEF Records
  <2>3. pending' \cap log' = {} /\ (pending' \cup log') \cap failed' = {}
    BY <1>1, <1>6, <2>2 DEF AuditInv
  <2>4. \A o \in Request :
           (pc[o] = "done" \/ Rejected(o))' => \E r \in Records' : r.request = o
    BY <1>5, <1>6, <2>1
  <2>5. QED
    BY <1>4, <1>6, <2>1, <2>3, <2>4 DEF AuditInv
<1>7. CASE pc'[q] = "done" /\ pending' = Audit(q, status'[q])
  <2>0. PICK code : code = status'[q]
    OBVIOUS
  <2> DEFINE rec == [request |-> q, status |-> code]
  <2>1. rec.request = q /\ pending' = pending \cup {rec} /\ TrueRecord(rec)'
    BY <1>7, <2>0 DEF Audit, TrueRecord
  <2>2. QED
    BY <2>1, <1>6
<1>8. CASE pc'[q] = "answered" /\ sent'[q] = 429 /\ pending' = Audit(q, 429)
  <2> DEFINE rec == [request |-> q, status |-> 429]
  <2>1. rec.request = q /\ pending' = pending \cup {rec} /\ TrueRecord(rec)'
    BY <1>8 DEF Audit, TrueRecord, Rejected
  <2>2. QED
    BY <2>1, <1>6
<1>9. CASE pc'[q] # "done" /\ sent'[q] # 429 /\ pending' = pending
  <2>1. Records' = Records
    BY <1>1, <1>9 DEF Records
  <2>2. \A o \in Request :
           (pc[o] = "done" \/ Rejected(o))' => \E rec \in Records' : rec.request = o
    BY <1>5, <1>9, <2>1 DEF Rejected
  <2>3. QED
    BY <1>1, <1>4, <1>9, <2>1, <2>2 DEF AuditInv
<1>10. QED
  BY <1>1, <1>7, <1>8, <1>9

(* An audit goroutine moves its record to the log, or to the failures.        *)
LEMMA AuditInvStep ==
    ASSUME TypeInv, FlowInv, AuditInv, [Next]_vars
    PROVE  AuditInv'
<1>1. ASSUME NEW q \in Request, Arrive(q) \/ Preflight(q) \/ Step(q) \/ Informational(q)
      PROVE  AuditInv'
  BY <1>1, AuditStepOfOne
<1>2. ASSUME NEW rec \in pending, Insert(rec) \/ InsertFails(rec) PROVE AuditInv'
  <2>1. /\ UNCHANGED <<pc, status, sent>>
        /\ pending' = pending \ {rec}
        /\ \/ log' = log \cup {rec} /\ failed' = failed
           \/ failed' = failed \cup {rec} /\ log' = log
    BY <1>2 DEF Insert, InsertFails, AuditStep, reqVars
  <2>2. Records' = Records
    BY <2>1 DEF Records
  <2>3. pending' \cap log' = {} /\ (pending' \cup log') \cap failed' = {}
    BY <2>1 DEF AuditInv
  <2>4. QED
    BY <2>1, <2>2, <2>3 DEF AuditInv, TrueRecord, Rejected
<1>3. CASE UNCHANGED <<pc, reqVars, auditVars>>
  BY <1>3 DEF AuditInv, Records, TrueRecord, Rejected, reqVars, auditVars
<1>4. CASE RefreshRead \/ RefreshSet \/ Signal \/ Exit \/ Admin \/ UNCHANGED vars
  BY <1>3, <1>4 DEF RefreshRead, RefreshSet, Signal, Exit, Admin, vars
<1>5. QED
  BY <1>1, <1>2, <1>4 DEF Next, RefreshFails

\* A record says what its request was answered, and no request is without one.
LEMMA AuditInvariant == Spec => []AuditInv
<1>1. TypeInv /\ FlowInv /\ AuditInv /\ [Next]_vars => AuditInv'
  BY AuditInvStep
<1>2. QED
  BY <1>1, AuditInit, TypeAndFlow, PTL DEF Spec

(* If upstreams send no 1xx responses, the audit trail is faithful: there is  *)
(* one record at most of a request, of one that was counted or rejected by    *)
(* the limiter, with the status its client was sent.                          *)
THEOREM AuditIsFaithful ==
    ASSUME ~EarlyHints
    PROVE  Spec => []AuditTrailFaithful
<1>1. TypeInv /\ FlowInv /\ AuditInv => AuditTrailFaithful
  <2> SUFFICES ASSUME TypeInv, FlowInv, AuditInv, NEW rec \in Records
               PROVE  /\ rec.request \in counted \/ sent[rec.request] = 429
                      /\ rec.status = sent[rec.request]
    BY DEF AuditTrailFaithful, AuditInv, Records
  <2>1. rec.request \in Request /\ Flow(rec.request) /\ TrueRecord(rec)
    BY DEF TypeInv, TypeOK, FlowInv, AuditInv, Records
  <2>2. QED
    BY <2>1 DEF TrueRecord, Rejected, Flow
<1>2. QED
  BY <1>1, AuditInvariant, TypeAndFlow, PTL

(* No record is lost while the process lives: what was counted or rejected is *)
(* being written, written, or known to have failed.                           *)
THEOREM NoRecordForgotten == Spec => []AuditNotForgotten
<1>1. TypeInv /\ FlowInv /\ AuditInv => AuditNotForgotten
  <2> SUFFICES ASSUME TypeInv, FlowInv, AuditInv, NEW q \in Request,
                      q \in counted \/ sent[q] = 429
               PROVE  \E rec \in Records : rec.request = q
    BY DEF AuditNotForgotten, Records
  <2>1. Flow(q) /\ pc[q] \in {"idle"} \cup Running \cup Ended
    BY DEF TypeInv, TypeOK, FlowInv
  <2>2. pc[q] = "done" \/ Rejected(q)
    BY <2>1 DEF Flow, Rejected, Running, Ended, Unsent, Before, Routed, NoStatus
  <2>3. QED
    BY <2>2 DEF AuditInv
<1>2. QED
  BY <1>1, AuditInvariant, TypeAndFlow, PTL

(* The divergence between recorder.go's comment and its code is due to 1xx    *)
(* responses alone: without them the recorder has the final status.           *)
THEOREM OnlyHintsDiverge ==
    ASSUME ~EarlyHints
    PROVE  Spec => []RecorderHasFinalStatus
<1>1. FlowInv => RecorderHasFinalStatus
  BY DEF FlowInv, Flow, RecorderHasFinalStatus
<1>2. QED
  BY <1>1, TypeAndFlow, PTL

-----------------------------------------------------------------------------
(* Access that was revoked *)

\* What keeps a partner out is the store's alone.
LEMMA KeptOutStays ==
    ASSUME UNCHANGED storeVars, NEW p, NEW cause
    PROVE  KeptOut(p, cause)' <=> KeptOut(p, cause)
BY DEF storeVars, KeptOut, KnownPartner, PoliciesOf

(* Only an arrival gives a request its key.                                   *)
LEMMA KeepsKey ==
    ASSUME NEW q \in Request, Preflight(q) \/ Step(q) \/ Informational(q)
    PROVE  UNCHANGED <<key, path, barred>>
BY DEF Step, Preflight, Informational, Goto, Reject, MatchRoute, NotFound, MissingKey,
       Authenticate, Unauthenticated, Authorize, Forbidden, Allowed, LimiterFails, TooMany,
       PickProxy, NoProxy, Respond, Unreachable, Copied, Abort, Record, reqVars

(* A step of the request itself takes it where it may be.                     *)
LEMMA BarredMoves ==
    ASSUME TypeInv, FlowInv, NEW q \in Request, NEW cause \in Causes,
           KeptOut(key[q], cause), BarredAt(q, cause),
           Preflight(q) \/ Step(q) \/ Informational(q)
    PROVE  BarredAt(q, cause)'
<1>0. TypeOK /\ sent \in [Request -> {NoStatus, 200, 204, 401, 403, 404, 429, 500, 502, 503}]
  BY DEF TypeInv
<1>1. pc \in [Request -> {"idle"} \cup Running \cup Ended] /\ sent \in [Request -> Int]
  <2>1. sent \in [Request -> Int]
    BY <1>0 DEF NoStatus
  <2>2. pc \in [Request -> {"idle"} \cup Running \cup Ended]
    BY <1>0 DEF TypeOK
  <2>3. QED
    BY <2>1, <2>2
<1>2. CASE pc[q] = "matching"
  <2>1. MatchRoute(q) \/ NotFound(q) \/ MissingKey(q)
    BY <1>2 DEF Step, Preflight, Informational, Goto, Reject, Authenticate, Unauthenticated,
                Authorize, Forbidden, Allowed, LimiterFails, TooMany, PickProxy, NoProxy,
                Respond, Unreachable, Copied, Abort, Record
  <2>2. QED
    BY <1>1, <2>1 DEF MatchRoute, NotFound, MissingKey, Goto, Reject, BarredAt
<1>3. CASE pc[q] = "authenticating"
  <2>1. Authenticate(q) \/ Unauthenticated(q)
    BY <1>3 DEF Step, Preflight, Informational, Goto, Reject, MatchRoute, NotFound, MissingKey,
                Authorize, Forbidden, Allowed, LimiterFails, TooMany, PickProxy, NoProxy,
                Respond, Unreachable, Copied, Abort, Record
  <2>2. CASE Unauthenticated(q)
    BY <1>1, <2>2 DEF Unauthenticated, Goto, Reject, BarredAt
  <2>3. CASE Authenticate(q)
    <3>1. cause = "policy"
      BY <2>3 DEF Authenticate, Authenticated, KeptOut, Causes
    <3>2. QED
      BY <1>1, <2>3, <3>1 DEF Authenticate, Goto, BarredAt
  <2>4. QED
    BY <2>1, <2>2, <2>3
<1>4. CASE pc[q] = "authorizing" /\ cause = "policy"
  <2>1. Authorize(q) \/ Forbidden(q)
    BY <1>4 DEF Step, Preflight, Informational, Goto, Reject, MatchRoute, NotFound, MissingKey,
                Authenticate, Unauthenticated, Allowed, LimiterFails, TooMany, PickProxy,
                NoProxy, Respond, Unreachable, Copied, Abort, Record
  <2>2. ~Authorize(q)
    <3>1. route[q].id \in RouteId
      BY <1>4 DEF FlowInv, Flow, Routed, RouteRecs
    <3>2. FindEffective(key[q], route[q].id) = {}
      BY <1>4, <3>1 DEF KeptOut, FindEffective
    <3>3. QED
      BY <3>2 DEF Authorize
  <2>3. QED
    BY <1>1, <2>1, <2>2 DEF Forbidden, Goto, Reject, BarredAt
<1>5. CASE pc[q] = "answered"
  BY <1>5, FlowOfOne DEF Ended
<1>6. QED
  BY <1>2, <1>3, <1>4, <1>5 DEF BarredAt

\* A cause stays with a request as long as the store has it, and bars it.
LEMMA BarredStep ==
    ASSUME TypeInv, FlowInv, BarredInv, [Next]_vars
    PROVE  BarredInv'
<1>1. ASSUME NEW q \in Request, Arrive(q) PROVE BarredInv'
  <2>1. PICK k \in PartnerId \cup {NoKey, WrongKey} :
           /\ key' = [key EXCEPT ![q] = k]
           /\ barred' = barred \cup {<<q, cause>> : cause \in {c \in Causes : KeptOut(k, c)}}
    BY <1>1 DEF Arrive
  <2>2. /\ pc[q] = "idle" /\ pc' = [pc EXCEPT ![q] = "matching"]
        /\ UNCHANGED sent /\ UNCHANGED storeVars
    BY <1>1 DEF Arrive, adminVars
  <2>3. /\ key'[q] = k /\ pc'[q] = "matching"
        /\ \A o \in Request \ {q} : pc'[o] = pc[o] /\ key'[o] = key[o]
    BY <2>1, <2>2 DEF TypeInv, TypeOK
  <2> SUFFICES ASSUME NEW o \in Request, NEW cause \in Causes, <<o, cause>> \in barred'
               PROVE  KeptOut(key[o], cause)' /\ BarredAt(o, cause)'
    BY DEF BarredInv
  <2>4. CASE o = q
    <3>1. <<q, cause>> \notin barred
      BY <2>2 DEF BarredInv, BarredAt
    <3>2. KeptOut(k, cause)
      BY <2>1, <2>4, <3>1
    <3>3. KeptOut(k, cause)'
      BY <2>2, <3>2, KeptOutStays
    <3>4. QED
      BY <2>3, <2>4, <3>3 DEF BarredAt
  <2>5. CASE o # q
    <3>1. KeptOut(key[o], cause) /\ BarredAt(o, cause)
      BY <2>1, <2>5 DEF BarredInv
    <3>2. key'[o] = key[o]
      BY <2>3, <2>5
    <3>3. QED
      BY <2>2, <2>3, <2>5, <3>1, <3>2, KeptOutStays DEF BarredAt
  <2>6. QED
    BY <2>4, <2>5
<1>2. ASSUME NEW q \in Request, Preflight(q) \/ Step(q) \/ Informational(q), ~Arrive(q)
      PROVE  BarredInv'
  <2>1. /\ \A o \in Request \ {q} : pc'[o] = pc[o] /\ sent'[o] = sent[o]
        /\ UNCHANGED storeVars
    BY <1>2, FlowOfOne DEF adminVars
  <2>2. key' = key /\ barred' = barred
    BY <1>2, KeepsKey
  <2> SUFFICES ASSUME NEW o \in Request, NEW cause \in Causes, <<o, cause>> \in barred
               PROVE  KeptOut(key[o], cause)' /\ BarredAt(o, cause)'
    BY <2>2 DEF BarredInv
  <2>3. KeptOut(key[o], cause) /\ BarredAt(o, cause)
    BY DEF BarredInv
  <2>4. key'[o] = key[o]
    BY <2>2
  <2>5. KeptOut(key[o], cause)'
    BY <2>1, <2>3, <2>4, KeptOutStays
  <2>6. CASE o = q
    <3>1. KeptOut(key[q], cause) /\ BarredAt(q, cause)
      BY <2>3, <2>6
    <3>2. BarredAt(q, cause)'
      BY <1>2, <3>1, BarredMoves
    <3>3. QED
      BY <2>5, <2>6, <3>2
  <2>7. CASE o # q
    BY <2>1, <2>3, <2>5, <2>7 DEF BarredAt
  <2>8. QED
    BY <2>6, <2>7
<1>3. CASE Admin
  <2>1. UNCHANGED <<pc, reqVars>> /\ barred' = {b \in barred : KeptOut(key[b[1]], b[2])'}
    BY <1>3 DEF Admin
  <2> SUFFICES ASSUME NEW o \in Request, NEW cause \in Causes, <<o, cause>> \in barred'
               PROVE  KeptOut(key[o], cause)' /\ BarredAt(o, cause)'
    BY DEF BarredInv
  <2>2. <<o, cause>> \in barred /\ KeptOut(key[o], cause)'
    BY <2>1
  <2>3. BarredAt(o, cause)
    BY <2>2 DEF BarredInv
  <2>4. QED
    BY <2>1, <2>2, <2>3 DEF BarredAt, reqVars
<1>4. CASE UNCHANGED <<storeVars, pc, reqVars, barred>>
  <2>1. UNCHANGED storeVars /\ pc' = pc /\ key' = key /\ sent' = sent /\ barred' = barred
    BY <1>4 DEF reqVars
  <2>2. QED
    BY <2>1, KeptOutStays DEF BarredInv, BarredAt
<1>5. CASE RefreshRead \/ RefreshSet \/ Signal \/ Exit \/ UNCHANGED vars
  BY <1>4, <1>5 DEF RefreshRead, RefreshSet, Signal, Exit, vars, adminVars
<1>6. ASSUME NEW rec \in pending, Insert(rec) \/ InsertFails(rec) PROVE BarredInv'
  BY <1>4, <1>6 DEF Insert, InsertFails, AuditStep, adminVars
<1>7. QED
  BY <1>1, <1>2, <1>3, <1>5, <1>6 DEF Next, RefreshFails

(* Revocation works at once: a request whose partner is unknown, inactive or  *)
(* without a policy from its arrival on never gets to the limiter.            *)
THEOREM RevocationWorks == Spec => []NoEntryOnceBarred
<1>1. Init => BarredInv
  BY DEF Init, BarredInv
<1>2. TypeInv /\ FlowInv /\ BarredInv /\ [Next]_vars => BarredInv'
  BY BarredStep
<1>3. TypeInv /\ BarredInv => NoEntryOnceBarred
  <2> SUFFICES ASSUME TypeInv, BarredInv, NEW b \in barred
               PROVE  \/ pc[b[1]] \in {"matching", "authenticating", "authorizing"}
                      \/ sent[b[1]] \in {401, 403, 404}
    BY DEF NoEntryOnceBarred
  <2>1. PICK o \in Request, cause \in Causes : b = <<o, cause>>
    BY DEF TypeInv, TypeOK
  <2>2. BarredAt(o, cause)
    BY <2>1 DEF BarredInv
  <2>3. QED
    BY <2>1, <2>2 DEF BarredAt
<1>4. QED
  BY <1>1, <1>2, <1>3, TypeAndFlow, PTL DEF Spec

-----------------------------------------------------------------------------
(* The moments of the store *)

(* The sets of routes in the history; the nth of them and the last one.       *)
LEMMA Moments ==
    ASSUME HistoryInv
    PROVE  /\ Len(actives) \in Nat /\ DOMAIN actives = 1 .. Len(actives)
           /\ Len(actives) \in DOMAIN actives
<1> DEFINE Sets == SUBSET RouteRecs
<1>1. actives \in Seq(Sets) /\ actives # <<>>
  BY DEF HistoryInv
<1> HIDE DEF Sets
<1>2. Len(actives) \in Nat \ {0} /\ DOMAIN actives = 1 .. Len(actives)
  BY <1>1, EmptySeq, LenProperties
<1>3. QED
  BY <1>2

(* A change of the store adds at most one moment, the present one.            *)
LEMMA AdminAddsMoment ==
    ASSUME TypeInv, HistoryInv, Admin
    PROVE  /\ actives' \in Seq(SUBSET RouteRecs) /\ actives' # <<>>
           /\ actives'[Len(actives')] = ActiveRoutes'
           /\ Len(actives) <= Len(actives') /\ DOMAIN actives' = 1 .. Len(actives')
           /\ \A v \in DOMAIN actives : v \in DOMAIN actives' /\ actives'[v] = actives[v]
<1> DEFINE Sets == SUBSET RouteRecs
<1>1. /\ Len(actives) \in Nat /\ DOMAIN actives = 1 .. Len(actives)
      /\ Len(actives) \in DOMAIN actives
  BY Moments
<1>2. actives \in Seq(Sets) /\ actives # <<>> /\ actives[Len(actives)] = ActiveRoutes
  BY DEF HistoryInv
<1>3. actives' = IF ActiveRoutes' = ActiveRoutes THEN actives
                                                 ELSE Append(actives, ActiveRoutes')
  BY DEF Admin
<1>4. ActiveRoutes' \in Sets
  <2>1. StoreTypeOK'
    BY EditKeepsTypes DEF Admin, TypeInv, TypeOK
  <2>2. (StoreTypeOK => ActiveRoutes \in SUBSET RouteRecs)'
    BY ActiveRoutesTypes, PTL
  <2>3. QED
    BY <2>1, <2>2
<1> HIDE DEF Sets
<1>5. CASE ActiveRoutes' = ActiveRoutes
  BY <1>1, <1>2, <1>3, <1>5 DEF Sets
<1>6. CASE ActiveRoutes' # ActiveRoutes
  <2>1. PICK new \in Sets : new = ActiveRoutes'
    BY <1>4
  <2>2. actives' = Append(actives, new)
    BY <1>3, <1>6, <2>1
  <2>3. /\ Append(actives, new) \in Seq(Sets)
        /\ Len(Append(actives, new)) = Len(actives) + 1
        /\ Append(actives, new)[Len(actives) + 1] = new
        /\ \A v \in 1 .. Len(actives) : Append(actives, new)[v] = actives[v]
    BY <1>2
  <2>4. actives' # <<>> /\ DOMAIN actives' = 1 .. Len(actives')
    BY <1>1, <2>2, <2>3
  <2>5. QED
    BY <1>1, <2>1, <2>2, <2>3, <2>4 DEF Sets
<1>7. QED
  BY <1>5, <1>6

(* Only MatchRoute gives a request its route, only PickProxy its proxy.       *)
LEMMA KeepsRoute ==
    ASSUME TypeInv, NEW q \in Request,
           Arrive(q) \/ Preflight(q) \/ Step(q) \/ Informational(q)
    PROVE  \/ MatchRoute(q)
           \/ PickProxy(q)
           \/ UNCHANGED <<route, proxy>> /\ (pc'[q] \in Routed => pc[q] \in Routed)
<1>1. pc \in [Request -> {"idle"} \cup Running \cup Ended]
  BY DEF TypeInv, TypeOK
<1>2. ASSUME ~MatchRoute(q), ~PickProxy(q)
      PROVE  UNCHANGED <<route, proxy>> /\ (pc'[q] \in Routed => pc[q] \in Routed)
  BY <1>1, <1>2 DEF Step, Arrive, Preflight, Informational, Goto, Reject, NotFound, MissingKey,
       Authenticate, Unauthenticated, Authorize, Forbidden, Allowed, LimiterFails, TooMany,
       NoProxy, Respond, Unreachable, Copied, Abort, Record, reqVars, Routed
<1>3. QED
  BY <1>2

(* The history with the table, the lists and the routes left as they are.     *)
LEMMA HistoryOfOthers ==
    ASSUME HistoryInv, UNCHANGED <<pc, route, proxy, table, loaded, actives, refreshed, storeVars>>
    PROVE  HistoryInv'
<1>1. \A w \in DOMAIN actives : AtMoment(w) => AtMoment(w)'
  BY DEF AtMoment
<1>2. ForwardedAsAuthorised'
  BY DEF HistoryInv, ForwardedAsAuthorised
<1>3. ActiveRoutes' = ActiveRoutes
  BY DEF ActiveRoutes, Listed, storeVars
<1>4. QED
  BY <1>1, <1>2, <1>3 DEF HistoryInv

\* The table that is set was the store's routes when it was read.
LEMMA HistoryOfRefresh ==
    ASSUME TypeInv, HistoryInv, RefreshRead \/ RefreshSet
    PROVE  HistoryInv'
<1>1. /\ Len(actives) \in Nat /\ DOMAIN actives = 1 .. Len(actives)
      /\ Len(actives) \in DOMAIN actives
  BY Moments
<1>2. UNCHANGED <<pc, route, proxy, actives, storeVars>>
  BY DEF RefreshRead, RefreshSet, adminVars, reqVars
<1>3. ForwardedAsAuthorised' /\ ActiveRoutes' = ActiveRoutes
  BY <1>2 DEF HistoryInv, ForwardedAsAuthorised, ActiveRoutes, Listed, storeVars
<1>4. PICK w \in DOMAIN actives : AtMoment(w)
  BY DEF HistoryInv
<1>5. w \in Nat /\ 1 <= w /\ w <= Len(actives)
  BY <1>1
<1>6. \E x \in DOMAIN actives : AtMoment(x)'
  <2>1. CASE RefreshRead
    <3>1. PICK list \in Listings :
             loaded' = <<list>> /\ table' = table /\ refreshed' = refreshed
      BY <2>1 DEF RefreshRead, routerVars
    <3>2. ToSet(list) = actives[Len(actives)]
      BY ListingMeans DEF HistoryInv, TypeInv, TypeOK
    <3>3. loaded'[1] = list
      BY <3>1
    <3>4. Len(actives) \in w .. Len(actives)
      BY <1>1, <1>5
    <3>5. AtMoment(w)'
      BY <1>2, <1>4, <3>1, <3>2, <3>3, <3>4 DEF AtMoment
    <3>6. QED
      BY <3>5
  <2>2. CASE RefreshSet
    <3>1. loaded # <<>> /\ loaded' = Tail(loaded) /\ SetRoutes(Head(loaded)) /\ refreshed'
      BY <2>2 DEF RefreshSet
    <3>2. Head(loaded) \in Seq(RouteRecs) /\ Head(loaded) = loaded[1] /\ loaded' = <<>>
      BY <3>1, HeadOfLoaded
    <3>3. ToSet(table') = ToSet(loaded[1])
      BY <3>1, <3>2, SetRoutesSorts, RouteRecsAreRoutes
    <3>4. PICK x \in w .. Len(actives) : ToSet(loaded[1]) = actives[x]
      BY <1>4, <3>1 DEF AtMoment
    <3>5. x \in DOMAIN actives /\ 1 .. w \subseteq 1 .. x
      BY <1>1, <1>5
    <3>6. \A q \in Request : pc[q] \in Routed => \E v \in 1 .. x : route[q] \in actives[v]
      BY <1>4, <3>5 DEF AtMoment
    <3>7. AtMoment(x)'
      BY <1>2, <3>1, <3>2, <3>3, <3>4, <3>6 DEF AtMoment
    <3>8. QED
      BY <3>5, <3>7
  <2>3. QED
    BY <2>1, <2>2
<1>7. QED
  BY <1>2, <1>3, <1>6 DEF HistoryInv

(* The route of a request is of the moment of the table, or of an earlier one, *)
(* and its proxy of the moment of the table it was picked from.               *)
LEMMA HistoryOfRequest ==
    ASSUME TypeInv, FlowInv, HistoryInv, NEW q \in Request,
           Arrive(q) \/ Preflight(q) \/ Step(q) \/ Informational(q)
    PROVE  HistoryInv'
<1>1. /\ Len(actives) \in Nat /\ DOMAIN actives = 1 .. Len(actives)
      /\ Len(actives) \in DOMAIN actives
  BY Moments
<1>2. /\ \A o \in Request \ {q} :
           pc'[o] = pc[o] /\ route'[o] = route[o] /\ proxy'[o] = proxy[o]
      /\ UNCHANGED <<adminVars, routerVars, loaded, refreshed>>
  BY FlowOfOne
<1>3. /\ UNCHANGED <<actives, table, proxies, loaded, refreshed, storeVars>>
      /\ ActiveRoutes' = ActiveRoutes
  BY <1>2 DEF adminVars, routerVars, storeVars, ActiveRoutes, Listed
<1>4. PICK w \in DOMAIN actives : AtMoment(w)
  BY DEF HistoryInv
<1>5. w \in Nat /\ w \in 1 .. w /\ w \in w .. Len(actives)
  BY <1>1
<1>6. CASE MatchRoute(q)
  <2>1. route'[q] = Match(path[q]) /\ Match(path[q]) # NoRoute /\ proxy' = proxy /\ pc[q] = "matching"
    BY <1>6 DEF MatchRoute, Goto, TypeInv
  <2>2. route'[q] \in actives[w]
    <3>1. route'[q] \in ToSet(table)
      BY <2>1, MatchInTable DEF TypeInv
    <3>2. table # <<>>
      BY <3>1 DEF ToSet
    <3>3. QED
      BY <1>4, <3>1, <3>2 DEF AtMoment
  <2>3. AtMoment(w)'
    <3>1. \A o \in Request : pc'[o] \in Routed => \E v \in 1 .. w : route'[o] \in actives[v]
      <4>1. \A o \in Request \ {q} :
               pc'[o] \in Routed => \E v \in 1 .. w : route'[o] \in actives[v]
        BY <1>2, <1>4 DEF AtMoment
      <4>2. QED
        BY <1>5, <2>2, <4>1
    <3>2. QED
      BY <1>3, <1>4, <3>1 DEF AtMoment
  <2>4. ForwardedAsAuthorised'
    <3>1. proxy'[q] = NoRoute
      BY <2>1 DEF FlowInv, Flow, Before
    <3>2. \A o \in Request \ {q} : proxy'[o] = proxy[o] /\ route'[o] = route[o]
      BY <1>2
    <3>3. QED
      BY <1>3, <3>1, <3>2 DEF HistoryInv, ForwardedAsAuthorised
  <2>5. QED
    BY <1>3, <2>3, <2>4 DEF HistoryInv
<1>7. CASE PickProxy(q)
  <2>1. /\ pc[q] = "picking" /\ pc'[q] = "upstream" /\ route' = route
        /\ route[q].id \in DOMAIN proxies /\ proxy'[q] = proxies[route[q].id]
    BY <1>7 DEF PickProxy, ProxyFor, Goto, TypeInv, TypeOK
  <2>2. /\ proxy'[q] \in ToSet(table) /\ proxy'[q].id = route[q].id
    BY <2>1, ProxyInTable DEF TypeInv
  <2>3. proxy'[q] \in actives[w]
    <3>1. table # <<>>
      BY <2>2 DEF ToSet
    <3>2. QED
      BY <1>4, <2>2, <3>1 DEF AtMoment
  <2>4. PICK v \in 1 .. w : route[q] \in actives[v]
    BY <1>4, <2>1 DEF AtMoment, Routed
  <2>5. v \in DOMAIN actives /\ w \in v .. Len(actives)
    BY <1>1, <1>5
  <2>6. ForwardedAsAuthorised'
    <3>1. \A o \in Request \ {q} : proxy'[o] = proxy[o] /\ route'[o] = route[o]
      BY <1>2
    <3>2. /\ proxy'[q].id = route'[q].id
          /\ \E i \in DOMAIN actives' : \E j \in i .. Len(actives') :
                route'[q] \in actives'[i] /\ proxy'[q] \in actives'[j]
      BY <1>3, <2>1, <2>2, <2>3, <2>4, <2>5
    <3>3. QED
      BY <1>3, <3>1, <3>2 DEF HistoryInv, ForwardedAsAuthorised
  <2>7. AtMoment(w)'
    <3>1. \A o \in Request : pc'[o] \in Routed => pc[o] \in Routed
      BY <1>2, <2>1 DEF Routed
    <3>2. QED
      BY <1>3, <1>4, <2>1, <3>1 DEF AtMoment
  <2>8. QED
    BY <1>3, <2>6, <2>7 DEF HistoryInv
<1>8. CASE UNCHANGED <<route, proxy>> /\ (pc'[q] \in Routed => pc[q] \in Routed)
  <2>1. \A o \in Request : pc'[o] \in Routed => pc[o] \in Routed
    BY <1>2, <1>8
  <2>2. AtMoment(w)'
    BY <1>3, <1>4, <1>8, <2>1 DEF AtMoment
  <2>3. ForwardedAsAuthorised'
    BY <1>3, <1>8 DEF HistoryInv, ForwardedAsAuthorised
  <2>4. QED
    BY <1>3, <2>2, <2>3 DEF HistoryInv
<1>9. QED
  BY <1>6, <1>7, <1>8, KeepsRoute

\* A change of the store adds a moment and leaves those before.
LEMMA HistoryOfAdmin ==
    ASSUME TypeInv, HistoryInv, Admin
    PROVE  HistoryInv'
<1>1. /\ actives' \in Seq(SUBSET RouteRecs) /\ actives' # <<>>
      /\ actives'[Len(actives')] = ActiveRoutes'
      /\ Len(actives) <= Len(actives') /\ DOMAIN actives' = 1 .. Len(actives')
      /\ \A v \in DOMAIN actives : v \in DOMAIN actives' /\ actives'[v] = actives[v]
  BY AdminAddsMoment
<1>2. /\ Len(actives) \in Nat /\ DOMAIN actives = 1 .. Len(actives)
      /\ Len(actives) \in DOMAIN actives
  BY Moments
<1>3. UNCHANGED <<pc, route, proxy, table, loaded, refreshed>>
  BY DEF Admin, reqVars, routerVars
<1>4. PICK w \in DOMAIN actives : AtMoment(w)
  BY DEF HistoryInv
<1>5. w \in DOMAIN actives' /\ actives'[w] = actives[w] /\ 1 .. w \subseteq DOMAIN actives
  BY <1>1, <1>2
<1>6. Len(actives') \in Nat
  BY <1>1, <1>2
<1>7. \A v \in DOMAIN actives : v .. Len(actives) \subseteq v .. Len(actives')
  BY <1>1, <1>2, <1>6
<1>8. AtMoment(w)'
  <2>1. IF refreshed' THEN ToSet(table') = actives'[w] ELSE table' = <<>>
    BY <1>3, <1>4, <1>5 DEF AtMoment
  <2>2. loaded' # <<>> => \E x \in w .. Len(actives') : ToSet(loaded'[1]) = actives'[x]
    <3> SUFFICES ASSUME loaded # <<>>
                 PROVE  \E x \in w .. Len(actives') : ToSet(loaded[1]) = actives'[x]
      BY <1>3
    <3>1. PICK x \in w .. Len(actives) : ToSet(loaded[1]) = actives[x]
      BY <1>4 DEF AtMoment
    <3>2. x \in w .. Len(actives') /\ x \in DOMAIN actives
      BY <1>2, <1>7
    <3>3. QED
      BY <1>1, <3>1, <3>2
  <2>3. \A q \in Request : pc'[q] \in Routed => \E v \in 1 .. w : route'[q] \in actives'[v]
    BY <1>1, <1>3, <1>4, <1>5 DEF AtMoment
  <2>4. QED
    BY <2>1, <2>2, <2>3 DEF AtMoment
<1>9. ForwardedAsAuthorised'
  <2> SUFFICES ASSUME NEW q \in Request, proxy[q] # NoRoute
               PROVE  /\ proxy[q].id = route[q].id
                      /\ \E i \in DOMAIN actives' : \E j \in i .. Len(actives') :
                            route[q] \in actives'[i] /\ proxy[q] \in actives'[j]
    BY <1>3 DEF ForwardedAsAuthorised
  <2>1. PICK i \in DOMAIN actives : \E j \in i .. Len(actives) :
           route[q] \in actives[i] /\ proxy[q] \in actives[j]
    BY DEF HistoryInv, ForwardedAsAuthorised
  <2>2. PICK j \in i .. Len(actives) : route[q] \in actives[i] /\ proxy[q] \in actives[j]
    BY <2>1
  <2>3. j \in DOMAIN actives /\ j \in i .. Len(actives')
    BY <1>2, <1>7
  <2>4. proxy[q].id = route[q].id
    BY DEF HistoryInv, ForwardedAsAuthorised
  <2>5. QED
    BY <1>1, <2>2, <2>3, <2>4
<1>10. QED
  BY <1>1, <1>5, <1>8, <1>9 DEF HistoryInv

(* The first table has the routes the store starts with, or none.             *)
LEMMA HistoryInit == Init => HistoryInv
<1> SUFFICES ASSUME Init PROVE HistoryInv
  OBVIOUS
<1>1. StoreTypeOK
  BY TypeInit DEF TypeInv, TypeOK
<1>2. ActiveRoutes \in SUBSET RouteRecs /\ actives = <<ActiveRoutes>>
  BY <1>1, ActiveRoutesTypes DEF Init
<1>3. actives \in Seq(SUBSET RouteRecs) /\ Len(actives) = 1 /\ actives[1] = ActiveRoutes
  BY <1>2
<1>4. DOMAIN actives = {1} /\ actives # <<>>
  BY <1>2
<1>5. IF refreshed THEN ToSet(table) = ActiveRoutes ELSE table = <<>>
  <2>1. CASE ~refreshed
    BY <2>1 DEF Init, InitRouter
  <2>2. CASE refreshed
    <3>1. PICK list \in Listings : table = SortRoutes(list)
      BY <2>2 DEF Init
    <3>2. list \in Seq(RouteRecs) /\ ToSet(list) = ActiveRoutes
      BY <1>1, ListingMeans
    <3>3. ToSet(table) = ToSet(list)
      BY <3>1, <3>2, RouteRecsAreRoutes, SortRoutesSorts
    <3>4. QED
      BY <2>2, <3>2, <3>3
  <2>3. QED
    BY <2>1, <2>2
<1>6. AtMoment(1)
  BY <1>3, <1>5 DEF Init, AtMoment, Routed
<1>7. ForwardedAsAuthorised
  BY DEF Init, ForwardedAsAuthorised
<1>8. QED
  BY <1>3, <1>4, <1>6, <1>7 DEF HistoryInv

\* Every step keeps the moments of the table, the lists and the requests.
LEMMA HistoryStep ==
    ASSUME TypeInv, FlowInv, HistoryInv, [Next]_vars
    PROVE  HistoryInv'
<1>1. CASE RefreshRead \/ RefreshSet
  BY <1>1, HistoryOfRefresh
<1>2. CASE Admin
  BY <1>2, HistoryOfAdmin
<1>3. ASSUME NEW q \in Request, Arrive(q) \/ Preflight(q) \/ Step(q) \/ Informational(q)
      PROVE  HistoryInv'
  BY <1>3, HistoryOfRequest
<1>4. CASE Signal \/ Exit \/ RefreshFails \/ UNCHANGED vars
  <2>1. UNCHANGED <<pc, route, proxy, table, loaded, actives, refreshed, storeVars>>
    BY <1>4 DEF Signal, Exit, RefreshFails, vars, adminVars, reqVars, routerVars
  <2>2. QED
    BY <2>1, HistoryOfOthers
<1>5. ASSUME NEW rec \in pending, Insert(rec) \/ InsertFails(rec) PROVE HistoryInv'
  <2>1. UNCHANGED <<pc, route, proxy, table, loaded, actives, refreshed, storeVars>>
    BY <1>5 DEF Insert, InsertFails, AuditStep, adminVars, reqVars, routerVars
  <2>2. QED
    BY <2>1, HistoryOfOthers
<1>6. QED
  BY <1>1, <1>2, <1>3, <1>4, <1>5 DEF Next

\* So they are known always.
LEMMA History == Spec => [](TypeInv /\ FlowInv /\ HistoryInv)
<1>1. Init => HistoryInv
  BY HistoryInit
<1>2. TypeInv /\ FlowInv /\ HistoryInv /\ [Next]_vars => HistoryInv'
  BY HistoryStep
<1>3. QED
  BY <1>1, <1>2, TypeAndFlow, PTL DEF Spec

(* The table is never a mixture of two states of the store, nor emptied by a  *)
(* refresh that fails: it is of one moment since the first that succeeded.    *)
THEOREM TableOfOneMoment == Spec => []TableIsOneMoment
<1>1. HistoryInv => TableIsOneMoment
  BY DEF HistoryInv, AtMoment, TableIsOneMoment
<1>2. QED
  BY <1>1, History, PTL

(* A request is forwarded where the route it was authorised for points, then  *)
(* or later, however many refreshes come between Match and the proxy.         *)
THEOREM NeverMisforwarded == Spec => []ForwardedAsAuthorised
<1>1. HistoryInv => ForwardedAsAuthorised
  BY DEF HistoryInv
<1>2. QED
  BY <1>1, History, PTL

(* A refresh never puts an older table in the place of a newer one: what it   *)
(* sets it has read after the table before was read.                          *)
THEOREM RefreshesGoForward == Spec => TableNeverGoesBack
<1> DEFINE Forward ==
        \E v \in DOMAIN actives : \E w \in v .. Len(actives) :
            ToSet(table) = actives[v] /\ ToSet(table') = actives[w]
<1>1. TypeInv /\ FlowInv /\ HistoryInv /\ [Next]_vars
        => [table' # table /\ refreshed => Forward]_vars
  <2> SUFFICES ASSUME TypeInv, FlowInv, HistoryInv, Next, table' # table, refreshed
               PROVE  Forward
    OBVIOUS
  <2>1. RefreshSet
    <3>1. ASSUME NEW q \in Request, Arrive(q) \/ Preflight(q) \/ Step(q) \/ Informational(q)
          PROVE  FALSE
      BY <3>1, FlowOfOne DEF routerVars
    <3>2. ASSUME NEW rec \in pending, Insert(rec) \/ InsertFails(rec) PROVE FALSE
      BY <3>2 DEF Insert, InsertFails, AuditStep, routerVars
    <3>3. ~(RefreshRead \/ RefreshFails \/ Signal \/ Exit \/ Admin)
      BY DEF RefreshRead, RefreshFails, Signal, Exit, Admin, routerVars, vars
    <3>4. QED
      BY <3>1, <3>2, <3>3 DEF Next
  <2>2. loaded # <<>> /\ SetRoutes(Head(loaded))
    BY <2>1 DEF RefreshSet
  <2>3. Head(loaded) \in Seq(RouteRecs) /\ Head(loaded) = loaded[1]
    BY <2>2, HeadOfLoaded
  <2>4. ToSet(table') = ToSet(loaded[1])
    BY <2>2, <2>3, SetRoutesSorts, RouteRecsAreRoutes
  <2>5. PICK w \in DOMAIN actives : AtMoment(w)
    BY DEF HistoryInv
  <2>6. QED
    BY <2>2, <2>4, <2>5 DEF AtMoment
<1>2. QED
  BY <1>1, History, PTL DEF Spec, TableNeverGoesBack
=============================================================================
