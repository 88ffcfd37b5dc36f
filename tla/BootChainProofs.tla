-------------------------- MODULE BootChainProofs --------------------------
(***************************************************************************)
(* Theorems about the boot list and its writers, for every set of numbers  *)
(* and every bound: all the safety properties of BootChain.                *)
(*                                                                         *)
(* The first part is about lists: what Kept leaves of one, and that the    *)
(* lists the writers build hold every entry they have read.                *)
(***************************************************************************)
EXTENDS BootChain, FiniteSetTheorems, SequenceTheorems, TLAPS

LEMMA Least ==
    ASSUME NEW S \in SUBSET Nat, S # {}
    PROVE  \E m \in S : \A k \in S : m <= k
<1> DEFINE R == {p \in Nat \X Nat : p[1] < p[2]}
<1>1. IsWellFoundedOn(OpToRel(<, Nat), Nat)
  BY NatLessThanWellFounded
<1>2. OpToRel(<, Nat) = R
  BY DEF OpToRel
<1>3. IsWellFoundedOn(R, Nat)
  BY <1>1, <1>2
<1>4. PICK m \in S : \A k \in S : <<k, m>> \notin R
  <2> HIDE DEF R
  <2> QED
    BY <1>3, WFMin
<1>5. ASSUME NEW k \in S PROVE m <= k
  <2>1. k \in Nat /\ m \in Nat /\ <<k, m>> \notin R
    BY <1>4
  <2>2. ~(k < m)
    BY <2>1
  <2> QED
    BY <2>1, <2>2
<1> QED
  BY <1>5

\* Counting the kept places from 0 to the end of the list.
LEMMA RankSteps ==
    ASSUME NEW l \in Nat, NEW K \in SUBSET (1..l)
    PROVE  /\ Cardinality(K) \in Nat
           /\ \A n \in Nat : Rank(K, n) \in Nat
           /\ \A n \in Nat : Rank(K, n + 1) = IF n + 1 \in K THEN Rank(K, n) + 1
                                              ELSE Rank(K, n)
           /\ Rank(K, 0) = 0
           /\ Rank(K, l) = Cardinality(K)
<1> DEFINE B(n) == {k \in K : k <= n}
<1>0. K \subseteq Nat /\ \A k \in K : k <= l /\ k # 0
  OBVIOUS
<1>1. IsFiniteSet(K) /\ Cardinality(K) \in Nat
  <2>1. IsFiniteSet(1..l)
    BY FS_Interval
  <2> QED
    BY <2>1, FS_Subset, FS_CardinalityType
<1>2. ASSUME NEW n \in Nat
      PROVE  IsFiniteSet(B(n)) /\ Cardinality(B(n)) \in Nat
  <2>1. B(n) \in SUBSET K
    OBVIOUS
  <2> HIDE DEF B
  <2> QED
    BY <1>1, <2>1, FS_Subset, FS_CardinalityType
<1>3. ASSUME NEW n \in Nat
      PROVE  Cardinality(B(n + 1)) =
                 IF n + 1 \in K THEN Cardinality(B(n)) + 1 ELSE Cardinality(B(n))
  <2>1. \A k \in K : k <= n + 1 <=> k <= n \/ k = n + 1
    BY <1>0
  <2>2. B(n + 1) = IF n + 1 \in K THEN B(n) \cup {n + 1} ELSE B(n)
    BY <2>1
  <2>3. n + 1 \notin B(n)
    OBVIOUS
  <2> HIDE DEF B
  <2> QED
    BY <1>2, <2>2, <2>3, FS_AddElement
<1>4. B(0) = {}
  <2>1. \A k \in K : ~(k <= 0)
    BY <1>0
  <2> QED
    BY <2>1
<1>5. B(l) = K
  BY <1>0
<1>6. Cardinality(B(0)) = 0 /\ Cardinality(B(l)) = Cardinality(K)
  BY <1>4, <1>5, FS_EmptySet
<1> QED
  BY <1>1, <1>2, <1>3, <1>6 DEF Rank

\* There is a place of every rank.
LEMMA RankOnto ==
    ASSUME NEW l \in Nat, NEW K \in SUBSET (1..l), NEW m \in 1..Cardinality(K)
    PROVE  \E n \in K : Rank(K, n) = m
<1> DEFINE S == {n \in Nat : Rank(K, n) >= m}
<1>1. /\ Cardinality(K) \in Nat /\ Rank(K, 0) = 0 /\ Rank(K, l) = Cardinality(K)
      /\ \A n \in Nat : Rank(K, n) \in Nat
      /\ \A n \in Nat : Rank(K, n + 1) = IF n + 1 \in K THEN Rank(K, n) + 1
                                         ELSE Rank(K, n)
  BY RankSteps
<1>2. m \in Nat /\ m >= 1 /\ m <= Cardinality(K)
  BY <1>1
<1>3. l \in S
  BY <1>1, <1>2
<1>4. PICK n \in S : \A k \in S : n <= k
  BY <1>3, Least
<1>5. n \in Nat /\ Rank(K, n) >= m
  OBVIOUS
<1>6. n # 0
  BY <1>1, <1>2, <1>5
<1> DEFINE p == n - 1
<1>7. p \in Nat /\ p + 1 = n /\ ~(n <= p)
  BY <1>5, <1>6
<1>8. ~(Rank(K, p) >= m)
  BY <1>4, <1>7
<1>9. Rank(K, p) \in Nat
      /\ Rank(K, n) = IF n \in K THEN Rank(K, p) + 1 ELSE Rank(K, p)
  BY <1>1, <1>7
<1> HIDE DEF p
<1>10. n \in K /\ Rank(K, n) = m
  BY <1>2, <1>5, <1>8, <1>9
<1> QED
  BY <1>10

LEMMA RankFirst ==
    ASSUME NEW l \in Nat, NEW K \in SUBSET (1..l), 1 \in K, 2 \in K
    PROVE  Rank(K, 1) = 1 /\ Rank(K, 2) = 2
<1>1. Rank(K, 0) = 0 /\ \A n \in Nat : n + 1 \in K => Rank(K, n + 1) = Rank(K, n) + 1
  BY RankSteps
<1>2. Rank(K, 1) = 1
  BY <1>1, 0 + 1 = 1
<1> QED
  BY <1>1, <1>2, 1 + 1 = 2

\* A later kept place has a higher rank.
LEMMA RankGrows ==
    ASSUME NEW l \in Nat, NEW K \in SUBSET (1..l), NEW i \in K, NEW n \in K, i < n
    PROVE  Rank(K, i) < Rank(K, n)
<1> DEFINE B(x) == {k \in K : k <= x}
<1>1. IsFiniteSet(B(n)) /\ IsFiniteSet(B(i))
      /\ Cardinality(B(n)) \in Nat /\ Cardinality(B(i)) \in Nat
  <2>1. IsFiniteSet(1..l)
    BY FS_Interval
  <2>2. B(n) \in SUBSET (1..l) /\ B(i) \in SUBSET (1..l)
    OBVIOUS
  <2> HIDE DEF B
  <2> QED
    BY <2>1, <2>2, FS_Subset, FS_CardinalityType
<1>2. B(i) \in SUBSET B(n) /\ n \in B(n) /\ n \notin B(i)
  <2>1. i \in Nat /\ n \in Nat /\ \A k \in K : k \in Nat
    OBVIOUS
  <2>2. n <= n /\ ~(n <= i) /\ \A k \in K : k <= i => k <= n
    BY <2>1
  <2> QED
    BY <2>2
<1>3. Cardinality(B(i)) < Cardinality(B(n))
  <2> HIDE DEF B
  <2> QED
    BY <1>1, <1>2, FS_Subset
<1> QED
  BY <1>3 DEF Rank

LEMMA RankBounds ==
    ASSUME NEW l \in Nat, NEW K \in SUBSET (1..l), NEW n \in K
    PROVE  Rank(K, n) \in 1..Cardinality(K)
<1>1. IsFiniteSet(K)
  BY FS_Interval, FS_Subset, IsFiniteSet(1..l)
<1> DEFINE B == {k \in K : k <= n}
<1>2. B \in SUBSET K /\ n \in B
  OBVIOUS
<1> HIDE DEF B
<1>3. IsFiniteSet(B) /\ Cardinality(B) <= Cardinality(K)
  BY <1>1, <1>2, FS_Subset
<1>4. Cardinality(B) \in Nat /\ Cardinality(K) \in Nat /\ Cardinality(B) # 0
  BY <1>1, <1>2, <1>3, FS_CardinalityType, FS_EmptySet
<1> QED
  BY <1>3, <1>4 DEF Rank, B

\* What Kept leaves of a list is a list of the elements at the kept places.
LEMMA KeptIsList ==
    ASSUME NEW T, NEW s \in Seq(T), NEW K \in SUBSET (1..Len(s))
    PROVE  /\ Kept(s, K) \in Seq(T)
           /\ Len(Kept(s, K)) = Cardinality(K) /\ Cardinality(K) \in Nat
           /\ \A m \in 1..Cardinality(K) :
                 \E n \in K : Rank(K, n) = m /\ Kept(s, K)[m] = s[n]
           /\ \A n \in K : /\ Rank(K, n) \in 1..Cardinality(K)
                          /\ Kept(s, K)[Rank(K, n)] = s[n]
<1>1. Len(s) \in Nat /\ \A n \in 1..Len(s) : s[n] \in T
  BY LenProperties, ElementOfSeq
<1>2. Cardinality(K) \in Nat
  BY <1>1, RankSteps
<1> DEFINE At(m) == CHOOSE n \in K : Rank(K, n) = m
<1>3. ASSUME NEW m \in 1..Cardinality(K)
      PROVE  At(m) \in K /\ Rank(K, At(m)) = m
  BY <1>1, RankOnto
<1>4. Kept(s, K) = [m \in 1..Cardinality(K) |-> s[At(m)]]
  BY DEF Kept
<1>5. ASSUME NEW n \in K
      PROVE  Rank(K, n) \in 1..Cardinality(K) /\ At(Rank(K, n)) = n
  <2>1. Rank(K, n) \in 1..Cardinality(K)
    BY <1>1, RankBounds
  <2> DEFINE k == At(Rank(K, n))
  <2>2. k \in K /\ Rank(K, k) = Rank(K, n)
    BY <1>3, <2>1
  <2> HIDE DEF k
  <2>3. k \in Nat /\ n \in Nat
    BY <1>1, <2>2
  <2>4. ~(k < n) /\ ~(n < k)
    <3>1. K \in SUBSET (1..Len(s)) /\ Len(s) \in Nat
      BY <1>1
    <3>2. Rank(K, n) \in Nat /\ ~(Rank(K, n) < Rank(K, n))
      BY <1>2, <2>1
    <3>3. k < n => Rank(K, k) < Rank(K, n)
      BY <2>2, <3>1, RankGrows
    <3>4. n < k => Rank(K, n) < Rank(K, k)
      BY <2>2, <3>1, RankGrows
    <3> QED
      BY <2>2, <3>2, <3>3, <3>4
  <2>5. k = n
    BY <2>3, <2>4
  <2> QED
    BY <2>1, <2>5 DEF k
<1>6. Kept(s, K) \in [1..Cardinality(K) -> T]
  <2> HIDE DEF At
  <2> QED
    BY <1>1, <1>3, <1>4
<1> HIDE DEF At
<1>7. Kept(s, K) \in Seq(T)
  BY <1>2, <1>6, SeqDef
<1>8. Len(Kept(s, K)) = Cardinality(K)
  BY <1>2, <1>6, <1>7, LenProperties
<1> QED
  BY <1>2, <1>3, <1>4, <1>5, <1>7, <1>8

LEMMA KeptElements ==
    ASSUME NEW T, NEW s \in Seq(T), NEW K \in SUBSET (1..Len(s))
    PROVE  ToSet(Kept(s, K)) = {s[n] : n \in K}
<1>1. DOMAIN Kept(s, K) = 1..Cardinality(K)
  BY DEF Kept
<1> QED
  BY <1>1, KeptIsList DEF ToSet

\* If the first two places are kept they stay the first two.
LEMMA KeptHead ==
    ASSUME NEW T, NEW s \in Seq(T), NEW K \in SUBSET (1..Len(s)),
           1 \in K, 2 \in K
    PROVE  Len(Kept(s, K)) >= 2 /\ Kept(s, K)[1] = s[1] /\ Kept(s, K)[2] = s[2]
<1>1. Len(s) \in Nat
  BY LenProperties
<1>2. Rank(K, 1) = 1 /\ Rank(K, 2) = 2
  BY <1>1, RankFirst
<1> QED
  BY <1>2, KeptIsList

LEMMA WithoutIsList ==
    ASSUME NEW T, NEW s \in Seq(T), NEW gone
    PROVE  /\ Without(s, gone) \in Seq(T)
           /\ ToSet(Without(s, gone)) = ToSet(s) \ gone
<1> DEFINE K == {n \in 1..Len(s) : s[n] \notin gone}
<1>1. K \in SUBSET (1..Len(s)) /\ Without(s, gone) = Kept(s, K)
  BY DEF Without
<1>2. DOMAIN s = 1..Len(s)
  BY LenProperties
<1>3. {s[n] : n \in K} = ToSet(s) \ gone
  BY <1>2 DEF ToSet
<1> HIDE DEF K
<1> QED
  BY <1>1, <1>3, KeptIsList, KeptElements

\* The elements of a list built from two.
LEMMA JoinedElements ==
    ASSUME NEW T, NEW s \in Seq(T), NEW t \in Seq(T)
    PROVE  s \o t \in Seq(T) /\ ToSet(s \o t) = ToSet(s) \cup ToSet(t)
<1>1. /\ s \o t \in Seq(T) /\ DOMAIN (s \o t) = 1..(Len(s) + Len(t))
      /\ DOMAIN s = 1..Len(s) /\ DOMAIN t = 1..Len(t)
      /\ Len(s) \in Nat /\ Len(t) \in Nat
      /\ \A n \in 1..(Len(s) + Len(t)) :
            (s \o t)[n] = IF n <= Len(s) THEN s[n] ELSE t[n - Len(s)]
  BY ConcatProperties, LenProperties
<1>2. ASSUME NEW n \in 1..Len(t) PROVE t[n] \in ToSet(s \o t)
  <2>1. /\ n + Len(s) \in 1..(Len(s) + Len(t)) /\ ~(n + Len(s) <= Len(s))
        /\ (n + Len(s)) - Len(s) = n
    BY <1>1
  <2> QED
    BY <1>1, <2>1 DEF ToSet
<1>3. ASSUME NEW n \in 1..Len(s) PROVE s[n] \in ToSet(s \o t)
  <2>1. n \in 1..(Len(s) + Len(t)) /\ n <= Len(s)
    BY <1>1
  <2> QED
    BY <1>1, <2>1 DEF ToSet
<1>4. ASSUME NEW n \in 1..(Len(s) + Len(t))
      PROVE  (s \o t)[n] \in ToSet(s) \cup ToSet(t)
  <2>1. n <= Len(s) => n \in 1..Len(s)
    BY <1>1
  <2>2. ~(n <= Len(s)) => n - Len(s) \in 1..Len(t)
    BY <1>1
  <2> QED
    BY <1>1, <2>1, <2>2 DEF ToSet
<1> QED
  BY <1>1, <1>2, <1>3, <1>4 DEF ToSet

LEMMA JoinedHead ==
    ASSUME NEW T, NEW s \in Seq(T), NEW t \in Seq(T), Len(s) >= 2
    PROVE  /\ Len(s \o t) \in Nat /\ Len(s \o t) >= 2
           /\ (s \o t)[1] = s[1] /\ (s \o t)[2] = s[2]
<1>1. Len(s \o t) = Len(s) + Len(t) /\ Len(s) \in Nat /\ Len(t) \in Nat
  BY ConcatProperties, LenProperties
<1>2. \A n \in 1..(Len(s) + Len(t)) :
          (s \o t)[n] = IF n <= Len(s) THEN s[n] ELSE t[n - Len(s)]
  BY ConcatProperties
<1>3. 1 \in 1..(Len(s) + Len(t)) /\ 2 \in 1..(Len(s) + Len(t))
      /\ 1 <= Len(s) /\ 2 <= Len(s)
  BY <1>1
<1> QED
  BY <1>1, <1>2, <1>3

-----------------------------------------------------------------------------
(***************************************************************************)
(* The invariant.                                                          *)
(***************************************************************************)
\* What a run of a program may rely on.  It runs under Windows, and says
\* something only when it ends.  A plan that will be written was not made with
\* BitLocker seen on, names a Windows entry, which nobody removes, and numbers
\* of the machine in front of and behind it.  If nobody raced the run, it still
\* has the hot key entry it found or created and, once it wrote, its list.
GoodRun(r) ==
    /\ r.pc # "idle" => os = "windows" /\ r.said = "none"
    /\ r.bl = "ON" => r.pc \in {"idle", "probed"}
    /\ r.pc \in {"bcdedit"} \cup Writing => r.win \in Entries("windows")
    /\ r.pc \in {"bcdedit", "w_dir", "w_order"} => r.rec \in Ids
    /\ r.pc = "w_order" => r.dir \in Ids
    /\ r.pc \in {"bcdedit"} \cup Writing /\ r.rec # NoId /\ ~r.raced
          => nv[r.rec] = "recovery"
    /\ r.pc = "w_next" /\ ~r.raced => InTargetOrder(order)

GoodRuns == \A a \in Actors : GoodRun(job[a])

\* What the recovery system promised stands until the firmware has started
\* something.
PromiseStands ==
    promised => os \in {"off", "recovery"} /\ bootNext \in Entries("windows")

\* While no two writers overlap, the one there is finds what exists and
\* creates only what does not.
Single ==
    ~overlapped =>
        /\ \A i, j \in Entries("recovery") : i = j
        /\ \A i, j \in Entries("direct") : i = j
        /\ \A a, b \in Actors :
              job[a].pc \in Writing /\ job[b].pc \in Writing => a = b
        /\ \A a \in Actors :
              /\ job[a].pc = "w_rec" /\ job[a].rec = NoId => Entries("recovery") = {}
              /\ job[a].pc \in {"w_rec", "w_dir"} /\ job[a].dir = NoId
                    => Entries("direct") = {}

BootInv == TypeOK /\ WindowsStaysListed /\ GoodRuns /\ PromiseStands /\ Single

-----------------------------------------------------------------------------
(***************************************************************************)
(* What the operators of the programs give.                                *)
(***************************************************************************)
LEMMA WindowsListed ==
    ASSUME order \in Seq(Ids)
    PROVE  WindowsStaysListed <=> \E i \in ToSet(order) : nv[i] = "windows"
<1>1. DOMAIN order = 1..Len(order)
  BY LenProperties
<1> QED
  BY <1>1 DEF WindowsStaysListed, ToSet

LEMMA ListedKind ==
    ASSUME NEW kind, NEW i \in Listed(kind)
    PROVE  i = NoId \/ i \in Entries(kind)
  BY DEF Listed

\* The writer finds an entry of the kind, or there is none.
LEMMA FoundKind ==
    ASSUME TypeOK, NEW kind, NEW i \in Found(kind)
    PROVE  i \in Entries(kind) \/ (i = NoId /\ Entries(kind) = {})
<1> DEFINE listed == {n \in 1..Len(order) : nv[order[n]] = kind}
           rest   == Entries(kind) \ {order[n] : n \in 1..Len(order)}
<1>1. /\ Len(order) \in Nat /\ \A n \in 1..Len(order) : order[n] \in Ids
      /\ Ids \subseteq Nat
  BY IdsAssumption, LenProperties, ElementOfSeq DEF TypeOK
<1>2. listed \in SUBSET Nat /\ rest \in SUBSET Nat
  <2>1. listed \subseteq Nat
    BY <1>1
  <2>2. rest \subseteq Ids
    BY DEF Entries
  <2> QED
    BY <1>1, <2>1, <2>2
<1>3. Found(kind) =
        IF listed # {} THEN {order[CHOOSE n \in listed : \A m \in listed : n <= m]}
        ELSE IF rest # {} THEN {CHOOSE i_1 \in rest : \A j \in rest : i_1 <= j}
        ELSE {NoId}
  BY DEF Found
<1>4. listed # {} => (CHOOSE n \in listed : \A m \in listed : n <= m) \in listed
  <2> HIDE DEF listed
  <2> QED
    BY <1>2, Least
<1>5. rest # {} => (CHOOSE i_1 \in rest : \A j \in rest : i_1 <= j) \in rest
  <2> HIDE DEF rest
  <2> QED
    BY <1>2, Least
<1>6. listed = {} /\ rest = {} => Entries(kind) = {}
  BY DEF Entries
<1>7. \A n \in listed : order[n] \in Entries(kind)
  BY <1>1 DEF Entries
<1>8. rest \subseteq Entries(kind)
  OBVIOUS
<1> HIDE DEF listed, rest
<1> QED
  BY <1>3, <1>4, <1>5, <1>6, <1>7, <1>8

LEMMA FreeIdIsFree ==
    ASSUME NEW reserved, FreeId(reserved) # NoId
    PROVE  FreeId(reserved) \in Ids /\ nv[FreeId(reserved)] = "free"
<1> DEFINE free == {i \in Ids : nv[i] = "free" /\ i \notin reserved}
<1>1. free \in SUBSET Nat
  BY IdsAssumption
<1>2. FreeId(reserved) = IF free = {} THEN NoId
                         ELSE CHOOSE i \in free : \A j \in free : i <= j
  BY DEF FreeId
<1>3. free # {} => (CHOOSE i \in free : \A j \in free : i <= j) \in free
  <2> HIDE DEF free
  <2> QED
    BY <1>1, Least
<1> QED
  BY <1>2, <1>3

\* A list of two or three new heads and the rest of what was read: nothing
\* that was read is lost, and the heads are where they belong.
LEMMA TargetOrderIsList ==
    ASSUME NEW rec \in Ids, NEW win \in Ids, NEW read \in Seq(Ids)
    PROVE  /\ TargetOrder(rec, win, read) \in Seq(Ids) /\ win \in ToSet(TargetOrder(rec, win, read))
           /\ ToSet(read) \subseteq ToSet(TargetOrder(rec, win, read))
           /\ nv[rec] = "recovery" /\ nv[win] = "windows" => InTargetOrder(TargetOrder(rec, win, read))
<1> DEFINE head == <<rec, win>>
           rest == Without(read, {rec, win})
<1>1. head \in Seq(Ids) /\ Len(head) = 2 /\ ToSet(head) = {rec, win}
      /\ head[1] = rec /\ head[2] = win
  <2>1. head \in Seq(Ids) /\ Len(head) = 2 /\ DOMAIN head = 1..2
        /\ head[1] = rec /\ head[2] = win
    OBVIOUS
  <2> QED
    BY <2>1 DEF ToSet
<1>2. rest \in Seq(Ids) /\ ToSet(rest) = ToSet(read) \ {rec, win}
      /\ Len(rest) \in Nat
  BY WithoutIsList, LenProperties
<1>3. TargetOrder(rec, win, read) = head \o rest
  BY DEF TargetOrder
<1> HIDE DEF head, rest
<1>4. /\ head \o rest \in Seq(Ids)
      /\ ToSet(head \o rest) = ToSet(head) \cup ToSet(rest)
  BY <1>1, <1>2, JoinedElements
<1>5. /\ Len(head \o rest) \in Nat /\ Len(head \o rest) >= 2
      /\ (head \o rest)[1] = head[1] /\ (head \o rest)[2] = head[2]
  <2>1. head \in Seq(Ids) /\ rest \in Seq(Ids) /\ Len(head) >= 2
    BY <1>1, <1>2
  <2> QED
    BY ONLY <2>1, JoinedHead
<1>6. nv[rec] = "recovery" /\ nv[win] = "windows" => InTargetOrder(head \o rest)
  BY <1>1, <1>5 DEF InTargetOrder
<1> QED
  BY <1>1, <1>2, <1>3, <1>4, <1>6

LEMMA WriterOrderIsList ==
    ASSUME NEW rec \in Ids, NEW win \in Ids, NEW dir \in Ids, NEW read \in Seq(Ids)
    PROVE  /\ WriterOrder(rec, win, dir, read) \in Seq(Ids) /\ win \in ToSet(WriterOrder(rec, win, dir, read))
           /\ ToSet(read) \subseteq ToSet(WriterOrder(rec, win, dir, read))
           /\ nv[rec] = "recovery" /\ nv[win] = "windows" => InTargetOrder(WriterOrder(rec, win, dir, read))
<1> DEFINE head == <<rec, win, dir>>
           rest == Without(read, {rec, win, dir})
<1>1. head \in Seq(Ids) /\ Len(head) = 3 /\ ToSet(head) = {rec, win, dir}
      /\ head[1] = rec /\ head[2] = win
  <2>1. head \in Seq(Ids) /\ Len(head) = 3 /\ DOMAIN head = 1..3
        /\ head[1] = rec /\ head[2] = win /\ head[3] = dir
    OBVIOUS
  <2> QED
    BY <2>1 DEF ToSet
<1>2. rest \in Seq(Ids) /\ ToSet(rest) = ToSet(read) \ {rec, win, dir}
      /\ Len(rest) \in Nat
  BY WithoutIsList, LenProperties
<1>3. WriterOrder(rec, win, dir, read) = head \o rest
  BY DEF WriterOrder
<1> HIDE DEF head, rest
<1>4. /\ head \o rest \in Seq(Ids)
      /\ ToSet(head \o rest) = ToSet(head) \cup ToSet(rest)
  BY <1>1, <1>2, JoinedElements
<1>5. /\ Len(head \o rest) \in Nat /\ Len(head \o rest) >= 2
      /\ (head \o rest)[1] = head[1] /\ (head \o rest)[2] = head[2]
  <2>1. head \in Seq(Ids) /\ rest \in Seq(Ids) /\ Len(head) >= 2
    BY <1>1, <1>2
  <2> QED
    BY ONLY <2>1, JoinedHead
<1>6. nv[rec] = "recovery" /\ nv[win] = "windows" => InTargetOrder(head \o rest)
  BY <1>1, <1>5 DEF InTargetOrder
<1> QED
  BY <1>1, <1>2, <1>3, <1>4, <1>6

\* If the first two entries are there, they are the first two present ones.
LEMMA PresentHead ==
    TypeOK /\ InTargetOrder(order) => InTargetOrder(Present)
<1> SUFFICES ASSUME TypeOK, InTargetOrder(order) PROVE InTargetOrder(Present)
  OBVIOUS
<1> DEFINE K == {n \in 1..Len(order) : nv[order[n]] # "free"}
<1>1. order \in Seq(Ids) /\ Len(order) \in Nat
  BY LenProperties DEF TypeOK
<1>2. K \in SUBSET (1..Len(order)) /\ 1 \in K /\ 2 \in K
  BY <1>1 DEF InTargetOrder
<1>3. Present = Kept(order, K)
  BY DEF Present
<1> HIDE DEF K
<1> QED
  BY <1>1, <1>2, <1>3, KeptHead DEF InTargetOrder

LEMMA PresentIsList ==
    ASSUME order \in Seq(Ids)
    PROVE  Present \in Seq(Ids)
<1> DEFINE K == {n \in 1..Len(order) : nv[order[n]] # "free"}
<1>1. K \in SUBSET (1..Len(order)) /\ Present = Kept(order, K)
  BY DEF Present
<1> HIDE DEF K
<1> QED
  BY <1>1, KeptIsList

-----------------------------------------------------------------------------
(***************************************************************************)
(* Steps that leave part of the state alone.                               *)
(***************************************************************************)
LEMMA IdleIsTyped ==
    /\ Idle \in JobType
    /\ \A said \in {"none", "done", "blocked", "repaired", "failed"} :
          Ended(said) \in JobType /\ Ended(said).pc = "idle"
          /\ Ended(said).bl = "UNKNOWN" /\ Ended(said).said = said
          /\ Ended(said).raced = FALSE
<1>1. <<>> \in Seq(Ids)
  OBVIOUS
<1> QED
  BY <1>1 DEF Idle, Ended, JobType

LEMMA GoEffect ==
    ASSUME TypeOK, NEW a \in Actors, NEW STATE new, Go(a, new), new \in JobType
    PROVE  /\ job' \in [Actors -> JobType] /\ job'[a] = new
           /\ \A b \in Actors \ {a} : job'[b] = job[b]
  BY DEF TypeOK, Go

LEMMA WriteEffect ==
    ASSUME TypeOK, NEW a \in Actors, NEW STATE new, Write(a, new), new \in JobType
    PROVE  /\ job' \in [Actors -> JobType] /\ job'[a] = new
           /\ \A b \in Actors \ {a} :
                 job'[b] = IF job[b].pc = "idle" THEN job[b]
                           ELSE [job[b] EXCEPT !.raced = TRUE]
<1> DEFINE mid == [job EXCEPT ![a] = new]
<1>1. mid \in [Actors -> JobType] /\ mid[a] = new
      /\ \A b \in Actors \ {a} : mid[b] = job[b]
  BY DEF TypeOK
<1>2. \A r \in JobType : [r EXCEPT !.raced = TRUE] \in JobType
  BY DEF JobType
<1>3. job' = RacedBy(a, mid)
  BY DEF Write
<1> HIDE DEF mid
<1> QED
  BY <1>1, <1>2, <1>3 DEF RacedBy

LEMMA KeptRun ==
    ASSUME TypeOK, NEW a \in Actors, GoodRun(job[a]), job'[a] = job[a],
           os' = os, order' = order,
           \A i \in Ids : nv[i] \in {"windows", "recovery"} => nv'[i] = nv[i]
    PROVE  GoodRun(job[a])'
<1>1. job[a] \in JobType /\ order \in Seq(Ids)
  BY DEF TypeOK
<1>2. job[a].rec # NoId => job[a].rec \in Ids
  BY <1>1 DEF JobType
<1>3. InTargetOrder(order) => InTargetOrder(order)'
  <2>1. Len(order) \in Nat
    BY <1>1, LenProperties
  <2>2. Len(order) >= 2 => order[1] \in Ids /\ order[2] \in Ids
    BY <1>1, <2>1, ElementOfSeq
  <2> QED
    BY <2>2 DEF InTargetOrder
<1>4. Entries("windows") \subseteq Entries("windows")'
  BY DEF Entries
<1> QED
  BY <1>2, <1>3, <1>4 DEF GoodRun

LEMMA RacedRun ==
    ASSUME TypeOK, NEW a \in Actors, GoodRun(job[a]), os' = os,
           job'[a] = IF job[a].pc = "idle" THEN job[a]
                     ELSE [job[a] EXCEPT !.raced = TRUE],
           \A i \in Ids : nv[i] = "windows" => nv'[i] = nv[i]
    PROVE  GoodRun(job[a])'
<1>1. job[a] \in JobType
  BY DEF TypeOK
<1>2. Entries("windows") \subseteq Entries("windows")'
  BY DEF Entries
<1>3. CASE job[a].pc = "idle"
  BY <1>1, <1>3 DEF GoodRun, Writing
<1>4. CASE job[a].pc # "idle"
  <2>1. /\ job'[a].pc = job[a].pc /\ job'[a].said = job[a].said
        /\ job'[a].bl = job[a].bl /\ job'[a].win = job[a].win
        /\ job'[a].rec = job[a].rec /\ job'[a].dir = job[a].dir
        /\ job'[a].raced = TRUE
    BY <1>1, <1>4 DEF JobType
  <2> QED
    BY <1>2, <2>1 DEF GoodRun
<1> QED
  BY <1>3, <1>4

LEMMA IdleRun ==
    ASSUME NEW a \in Actors, job'[a].pc = "idle"
    PROVE  GoodRun(job[a])'
  BY DEF GoodRun, Writing

\* No entry of ours appears, and no run becomes a writer.
LEMMA SingleKept ==
    ASSUME Single, overlapped' = overlapped,
           Entries("recovery")' \subseteq Entries("recovery"),
           Entries("direct")' \subseteq Entries("direct"),
           \A a \in Actors : job'[a].pc \in Writing =>
               /\ job'[a].pc = job[a].pc
               /\ job'[a].rec = job[a].rec /\ job'[a].dir = job[a].dir
    PROVE  Single'
<1> SUFFICES ASSUME ~overlapped' PROVE Single'
  BY DEF Single
<1>1. ~overlapped
  OBVIOUS
<1>2. /\ \A i, j \in Entries("recovery")' : i = j
      /\ \A i, j \in Entries("direct")' : i = j
  BY <1>1 DEF Single
<1>3. \A a, b \in Actors :
          job'[a].pc \in Writing /\ job'[b].pc \in Writing => a = b
  BY <1>1 DEF Single
<1>4. \A a \in Actors :
        /\ job'[a].pc = "w_rec" /\ job'[a].rec = NoId => Entries("recovery")' = {}
        /\ job'[a].pc \in {"w_rec", "w_dir"} /\ job'[a].dir = NoId
              => Entries("direct")' = {}
  BY <1>1 DEF Single, Writing
<1> QED
  BY <1>2, <1>3, <1>4 DEF Single

\* A step of one run that writes nothing, and is no writer's.
LEMMA QuietStep ==
    ASSUME BootInv, NEW a \in Actors,
           UNCHANGED <<nv, order, bootNext, locked, os, native, promised, overlapped>>,
           due' \in BOOLEAN, budget' \in 0..Budget,
           job' \in [Actors -> JobType],
           \A b \in Actors \ {a} : job'[b] = job[b],
           GoodRun(job[a])', job'[a].pc \notin Writing
    PROVE  BootInv'
<1>0. TypeOK /\ WindowsStaysListed /\ GoodRuns /\ PromiseStands /\ Single
  BY DEF BootInv
<1>1. TypeOK'
  BY <1>0 DEF TypeOK
<1>2. WindowsStaysListed' /\ PromiseStands'
  BY <1>0 DEF WindowsStaysListed, PromiseStands, Entries
<1>3. GoodRuns'
  BY <1>0, KeptRun DEF GoodRuns
<1>4. Single'
  BY <1>0, SingleKept DEF Entries
<1> QED
  BY <1>1, <1>2, <1>3, <1>4 DEF BootInv

LEMMA EndStep ==
    ASSUME BootInv, NEW a \in Actors,
           NEW said \in {"none", "done", "blocked", "repaired", "failed"},
           Go(a, Ended(said)),
           UNCHANGED <<nv, order, bootNext, locked, os, native, due, promised, overlapped>>,
           budget' \in 0..Budget
    PROVE  BootInv'
<1>1. TypeOK
  BY DEF BootInv
<1>2. /\ job' \in [Actors -> JobType] /\ job'[a] = Ended(said)
      /\ \A b \in Actors \ {a} : job'[b] = job[b]
  BY <1>1, IdleIsTyped, GoEffect
<1>3. job'[a].pc = "idle"
  BY <1>2, IdleIsTyped
<1>4. due' \in BOOLEAN
  BY <1>1 DEF TypeOK
<1> QED
  BY <1>2, <1>3, <1>4, IdleRun, QuietStep DEF Writing

-----------------------------------------------------------------------------
(***************************************************************************)
(* The initial state, and one lemma for each kind of step.                 *)
(***************************************************************************)
LEMMA BootInit == Init => BootInv
<1> SUFFICES ASSUME Init PROVE BootInv
  OBVIOUS
<1>1. PICK w \in {0, 1} : \E o \in {1 - w, NoId} :
         /\ nv = [i \in Ids |-> IF i = w THEN "windows"
                                ELSE IF i = o THEN "other" ELSE "free"]
         /\ order \in IF o = NoId THEN {<<w>>} ELSE {<<w, o>>, <<o, w>>}
  BY DEF Init
<1>2. PICK o \in {1 - w, NoId} :
         /\ nv = [i \in Ids |-> IF i = w THEN "windows"
                                ELSE IF i = o THEN "other" ELSE "free"]
         /\ order \in IF o = NoId THEN {<<w>>} ELSE {<<w, o>>, <<o, w>>}
  BY <1>1
<1>3. w \in Ids /\ (o # NoId => o \in Ids /\ o # w)
  BY IdsAssumption
<1>4. order \in Seq(Ids)
  <2>1. CASE o = NoId
    <3>1. <<w>> \in Seq(Ids)
      BY <1>3
    <3>2. order = <<w>>
      BY <1>2, <2>1
    <3> QED
      BY <3>1, <3>2
  <2>2. CASE o # NoId
    <3>1. <<w, o>> \in Seq(Ids) /\ <<o, w>> \in Seq(Ids)
      BY <1>3, <2>2
    <3> QED
      BY <1>2, <2>2, <3>1
  <2> QED
    BY <2>1, <2>2
<1>5. nv \in [Ids -> Kinds] /\ nv[w] = "windows"
  BY <1>2, <1>3 DEF Kinds
<1>6. TypeOK
  <2>1. budget \in 0..Budget
    BY BudgetAssumption DEF Init
  <2>2. job \in [Actors -> JobType]
    BY IdleIsTyped DEF Init
  <2> QED
    BY <1>4, <1>5, <2>1, <2>2 DEF Init, TypeOK
<1>7. WindowsStaysListed
  <2>1. order = <<w>> \/ order = <<w, o>> \/ order = <<o, w>>
    BY <1>2
  <2>2. CASE order = <<w>> \/ order = <<w, o>>
    <3>1. 1 \in 1..Len(order) /\ order[1] = w
      BY <2>2
    <3> QED
      BY <1>5, <3>1 DEF WindowsStaysListed
  <2>3. CASE order = <<o, w>>
    <3>1. 2 \in 1..Len(order) /\ order[2] = w
      BY <2>3
    <3> QED
      BY <1>5, <3>1 DEF WindowsStaysListed
  <2> QED
    BY <2>1, <2>2, <2>3
<1>8. \A a \in Actors : job[a].pc = "idle"
  BY DEF Init, Idle
<1>9. GoodRuns /\ PromiseStands
  BY <1>8 DEF Init, GoodRuns, GoodRun, PromiseStands, Writing
<1>10. Entries("recovery") = {} /\ Entries("direct") = {}
  BY <1>2 DEF Entries
<1>11. Single
  BY <1>8, <1>10 DEF Single, Writing
<1> QED
  BY <1>6, <1>7, <1>9, <1>11 DEF BootInv

\* A run starts: it holds nothing but what it read about BitLocker.
LEMMA StartStep ==
    ASSUME BootInv, NEW a \in Actors, os = "windows",
           NEW STATE new, new \in JobType, new.pc \in {"probed", "w_read"},
           new.pc = "w_read" => new.bl # "ON", new.said = "none", Go(a, new),
           UNCHANGED <<nv, order, bootNext, locked, os, native, promised, overlapped>>,
           due' \in BOOLEAN, budget' \in 0..Budget
    PROVE  BootInv'
<1>1. TypeOK
  BY DEF BootInv
<1>2. /\ job' \in [Actors -> JobType] /\ job'[a] = new
      /\ \A b \in Actors \ {a} : job'[b] = job[b]
  BY <1>1, GoEffect
<1>3. GoodRun(job[a])'
  BY <1>2 DEF GoodRun, Writing
<1>4. job'[a].pc \notin Writing
  BY <1>2 DEF Writing
<1> QED
  BY <1>2, <1>3, <1>4, QuietStep

LEMMA StartsStep ==
    ASSUME BootInv, StartAgent \/ StartWriter \/ StartTask \/ StartSetup
    PROVE  BootInv'
<1>0. TypeOK /\ budget \in 0..Budget /\ due \in BOOLEAN
      /\ (budget > 0 => budget - 1 \in 0..Budget)
  BY BudgetAssumption DEF BootInv, TypeOK
<1> DEFINE Probed(bl) == [Idle EXCEPT !.pc = "probed", !.bl = bl]
           Reading == [Idle EXCEPT !.pc = "w_read"]
<1>1. \A bl \in Probe : /\ Probed(bl) \in JobType /\ Probed(bl).pc = "probed"
                        /\ Probed(bl).said = "none"
  <2>1. Probe \subseteq {"ON", "OFF", "UNKNOWN"}
    BY DEF Probe
  <2> QED
    BY <2>1, IdleIsTyped DEF Idle, JobType
<1>2. Reading \in JobType /\ Reading.pc = "w_read" /\ Reading.bl # "ON"
      /\ Reading.said = "none"
  BY IdleIsTyped DEF Idle, JobType
<1>3. CASE StartAgent \/ StartTask
  <2>1. PICK a \in Actors : Start(a)
    BY <1>3 DEF StartAgent, StartTask, Actors
  <2>2. PICK bl \in Probe : Go(a, Probed(bl))
    BY <2>1 DEF Start
  <2>3. /\ os = "windows" /\ due' \in BOOLEAN /\ budget' \in 0..Budget
        /\ UNCHANGED <<nv, order, bootNext, locked, os, native, promised, overlapped>>
    BY <1>0, <1>3, <2>1 DEF StartAgent, StartTask, Start
  <2> HIDE DEF Probed
  <2> QED
    BY <1>1, <2>2, <2>3, StartStep
<1>4. CASE StartWriter \/ StartSetup
  <2>1. PICK a \in Actors : Go(a, Reading)
    BY <1>4 DEF StartWriter, StartSetup, Actors
  <2>2. /\ os = "windows" /\ due' \in BOOLEAN /\ budget' \in 0..Budget
        /\ UNCHANGED <<nv, order, bootNext, locked, os, native, promised, overlapped>>
    BY <1>0, <1>4 DEF StartWriter, StartSetup, Spend
  <2> HIDE DEF Reading
  <2> QED
    BY <1>2, <2>1, <2>2, StartStep
<1> QED
  BY <1>3, <1>4

\* Decision: what is written later was decided with both entries known, and
\* BitLocker not seen on; the writer is called on the same condition.
LEMMA DecisionPaths ==
    ASSUME NEW a \in Actors, NEW bl \in {"ON", "OFF", "UNKNOWN"},
           NEW rec, NEW win, NEW list
    PROVE  /\ Decision(a, bl, rec, win, list) \in {"blocked", "w_read", "bcdedit", "done"}
           /\ Decision(a, bl, rec, win, list) \in {"w_read", "bcdedit"} => bl # "ON"
           /\ Decision(a, bl, rec, win, list) \in {"bcdedit", "done"}
                 => rec # NoId /\ win # NoId
           /\ Decision(a, bl, rec, win, list) = "done"
                 => ~ReorderRequired(rec, win, list)
  BY DEF Decision

LEMMA ReadAndPlanStep ==
    ASSUME BootInv, NEW a \in Actors, ReadAndPlan(a)
    PROVE  BootInv'
<1>0. TypeOK /\ job[a] \in JobType /\ GoodRun(job[a]) /\ order \in Seq(Ids)
  BY DEF BootInv, TypeOK, GoodRuns
<1>1. job[a].bl \in {"ON", "OFF", "UNKNOWN"} /\ os = "windows"
  BY <1>0 DEF JobType, ReadAndPlan, GoodRun
<1>2. PICK win \in Listed("windows"), rec \in Listed("recovery") :
         LET next == Decision(a, job[a].bl, rec, win, Present)
         IN  Go(a, IF next \in {"done", "blocked"} THEN Ended(next)
                   ELSE [Idle EXCEPT !.pc = next, !.bl = job[a].bl,
                             !.read = Present, !.win = win, !.rec = rec])
  BY DEF ReadAndPlan
<1> DEFINE next == Decision(a, job[a].bl, rec, win, Present)
<1>3. /\ next \in {"blocked", "w_read", "bcdedit", "done"}
      /\ next \in {"w_read", "bcdedit"} => job[a].bl # "ON"
      /\ next \in {"bcdedit", "done"} => rec # NoId /\ win # NoId
  BY <1>1, DecisionPaths
<1>4. /\ win = NoId \/ win \in Entries("windows")
      /\ rec = NoId \/ rec \in Entries("recovery")
  BY ListedKind
<1>5. Present \in Seq(Ids)
  BY <1>0, PresentIsList
<1> DEFINE new == [Idle EXCEPT !.pc = next, !.bl = job[a].bl,
                       !.read = Present, !.win = win, !.rec = rec]
<1>6. UNCHANGED <<nv, order, bootNext, locked, os, native, due, promised,
                  overlapped, budget>>
      /\ due' \in BOOLEAN /\ budget' \in 0..Budget
  BY <1>0 DEF ReadAndPlan, TypeOK
<1>7. CASE next \in {"done", "blocked"}
  <2>1. Go(a, Ended(next))
    BY <1>2, <1>7
  <2> HIDE DEF next
  <2> QED
    BY <1>6, <1>7, <2>1, EndStep
<1>8. CASE next \notin {"done", "blocked"}
  <2>1. Go(a, new)
    BY <1>2, <1>8
  <2>2. next \in {"w_read", "bcdedit"}
    BY <1>3, <1>8
  <2> HIDE DEF next
  <2>3. /\ new \in JobType /\ new.pc = next /\ new.bl = job[a].bl
        /\ new.rec = rec /\ new.win = win /\ new.said = "none"
    BY <1>1, <1>4, <1>5, <2>2 DEF Idle, JobType, Entries
  <2> HIDE DEF new
  <2>4. /\ job' \in [Actors -> JobType] /\ job'[a] = new
        /\ \A b \in Actors \ {a} : job'[b] = job[b]
    BY <1>0, <2>1, <2>3, GoEffect
  <2>5. GoodRun(job[a])'
    BY <1>1, <1>3, <1>4, <1>6, <2>2, <2>3, <2>4 DEF GoodRun, Writing, Entries
  <2>6. job'[a].pc \notin Writing
    BY <2>2, <2>3, <2>4 DEF Writing
  <2> QED
    BY <1>6, <2>4, <2>5, <2>6, QuietStep
<1> QED
  BY <1>7, <1>8

LEMMA FailsStep ==
    ASSUME BootInv, NEW a \in Actors, Fails(a)
    PROVE  BootInv'
<1>0. TypeOK /\ job[a] \in JobType
  BY DEF BootInv, TypeOK
<1>1. Spend => budget' \in 0..Budget
  BY <1>0, BudgetAssumption DEF TypeOK, Spend
<1>2. CASE ReadFails(a)
  <2>1. Decision(a, job[a].bl, NoId, NoId, <<>>) = "blocked"
    BY DEF Decision
  <2> QED
    BY <1>1, <1>2, <2>1, EndStep DEF ReadFails
<1>3. CASE BcdeditFails(a) \/ WriterFails(a)
  BY <1>1, <1>3, EndStep DEF BcdeditFails, WriterFails
<1> QED
  BY <1>2, <1>3 DEF Fails

\* A run writes the list, which has a Windows entry; the others are raced.
LEMMA ListStep ==
    ASSUME BootInv, NEW a \in Actors, NEW STATE new, new \in JobType, Write(a, new),
           new.pc \in {"idle", "w_next"}, GoodRun(job[a])',
           order' \in Seq(Ids), \E i \in ToSet(order') : nv[i] = "windows",
           UNCHANGED <<nv, bootNext, locked, os, native, due, promised,
                       overlapped, budget>>
    PROVE  BootInv'
<1>0. TypeOK /\ GoodRuns /\ PromiseStands /\ Single
  BY DEF BootInv
<1>1. /\ job' \in [Actors -> JobType] /\ job'[a] = new
      /\ \A b \in Actors \ {a} :
            job'[b] = IF job[b].pc = "idle" THEN job[b]
                      ELSE [job[b] EXCEPT !.raced = TRUE]
  BY <1>0, WriteEffect
<1>2. TypeOK'
  BY <1>0, <1>1 DEF TypeOK
<1>3. DOMAIN order' = 1..Len(order')
  BY LenProperties
<1>4. WindowsStaysListed'
  BY <1>3 DEF WindowsStaysListed, ToSet
<1>5. ASSUME NEW b \in Actors PROVE GoodRun(job[b])'
  <2>1. CASE b # a
    BY <1>0, <1>1, <2>1, RacedRun DEF GoodRuns
  <2> QED
    BY <2>1
<1>6. PromiseStands'
  BY <1>0 DEF PromiseStands, Entries
<1>7. Single'
  <2>1. ASSUME NEW b \in Actors, job'[b].pc \in Writing
        PROVE  /\ job'[b].pc = job[b].pc
               /\ job'[b].rec = job[b].rec /\ job'[b].dir = job[b].dir
    <3>1. b # a
      BY <1>1, <2>1 DEF Writing
    <3>2. job[b] \in JobType
      BY <1>0 DEF TypeOK
    <3>3. job'[b] = IF job[b].pc = "idle" THEN job[b]
                    ELSE [job[b] EXCEPT !.raced = TRUE]
      BY <1>1, <3>1
    <3> QED
      BY <3>2, <3>3 DEF JobType
  <2> QED
    BY <1>0, <2>1, SingleKept DEF Entries
<1> QED
  BY <1>2, <1>4, <1>5, <1>6, <1>7 DEF BootInv, GoodRuns

LEMMA BcdeditStep ==
    ASSUME BootInv, NEW a \in Actors, Bcdedit(a)
    PROVE  BootInv'
<1> DEFINE j == job[a]
           target == TargetOrder(j.rec, j.win, j.read)
           new == [Ended("repaired") EXCEPT !.raced = j.raced]
<1>0. TypeOK /\ j \in JobType /\ GoodRun(j) /\ j.pc = "bcdedit"
  BY DEF BootInv, TypeOK, GoodRuns, Bcdedit
<1>1. j.rec \in Ids /\ j.win \in Ids /\ nv[j.win] = "windows" /\ j.read \in Seq(Ids)
  BY <1>0 DEF GoodRun, Entries, JobType
<1>2. target \in Seq(Ids) /\ j.win \in ToSet(target)
  BY <1>1, TargetOrderIsList
<1>3. UNCHANGED <<nv, bootNext, locked, os, native, due, promised, overlapped, budget>>
  BY DEF Bcdedit
<1>4. CASE \A n \in 1..Len(target) : nv[target[n]] # "free"
  <2>1. order' = target /\ Write(a, new)
    BY <1>4 DEF Bcdedit
  <2>2. new \in JobType /\ new.pc = "idle"
    <3>1. Ended("repaired") \in JobType /\ Ended("repaired").pc = "idle"
      BY IdleIsTyped
    <3> QED
      BY <1>0, <3>1 DEF JobType
  <2> HIDE DEF new, target
  <2>3. job'[a].pc = "idle"
    BY <1>0, <2>1, <2>2, WriteEffect
  <2>4. order' \in Seq(Ids) /\ \E i \in ToSet(order') : nv[i] = "windows"
    BY <1>1, <1>2, <2>1
  <2>5. GoodRun(job[a])'
    BY <2>3, IdleRun
  <2> QED
    BY <1>3, <2>1, <2>2, <2>4, <2>5, ListStep
<1>5. CASE ~ \A n \in 1..Len(target) : nv[target[n]] # "free"
  <2>1. order' = order /\ Go(a, Ended("failed"))
    BY <1>5 DEF Bcdedit
  <2>2. budget' \in 0..Budget
    BY <1>0, <1>3 DEF TypeOK
  <2> QED
    BY <1>3, <2>1, <2>2, EndStep
<1> QED
  BY <1>4, <1>5

LEMMA WriteOrderStep ==
    ASSUME BootInv, NEW a \in Actors, WriteOrder(a)
    PROVE  BootInv'
<1> DEFINE j == job[a]
           target == WriterOrder(j.rec, j.win, j.dir, j.read)
           new == IF a = "setup" THEN [j EXCEPT !.pc = "w_next"]
                  ELSE [Ended("repaired") EXCEPT !.raced = j.raced]
<1>0. TypeOK /\ j \in JobType /\ GoodRun(j) /\ j.pc = "w_order"
  BY DEF BootInv, TypeOK, GoodRuns, WriteOrder
<1>1. /\ j.rec \in Ids /\ j.win \in Ids /\ j.dir \in Ids /\ nv[j.win] = "windows"
      /\ j.read \in Seq(Ids) /\ j.rec # NoId
      /\ ~j.raced => nv[j.rec] = "recovery"
  BY <1>0, IdsAssumption DEF GoodRun, Entries, JobType, Writing
<1>2. /\ target \in Seq(Ids) /\ j.win \in ToSet(target)
      /\ ~j.raced => InTargetOrder(target)
  BY <1>1, WriterOrderIsList
<1>3. /\ order' = target /\ Write(a, new)
      /\ UNCHANGED <<nv, bootNext, locked, os, native, due, promised, overlapped, budget>>
  BY DEF WriteOrder
<1>4. CASE a # "setup"
  <2>1. new \in JobType /\ new.pc = "idle"
    BY <1>0, <1>4, IdleIsTyped DEF JobType, Ended, Idle
  <2> HIDE DEF new, target
  <2>2. job'[a].pc = "idle"
    BY <1>0, <1>3, <2>1, WriteEffect
  <2>3. order' \in Seq(Ids) /\ \E i \in ToSet(order') : nv[i] = "windows"
    BY <1>1, <1>2, <1>3
  <2> QED
    BY <1>3, <2>1, <2>2, <2>3, IdleRun, ListStep
<1>5. CASE a = "setup"
  <2>1. /\ new \in JobType /\ new.pc = "w_next" /\ new.said = j.said
        /\ new.bl = j.bl /\ new.raced = j.raced
    BY <1>0, <1>5 DEF JobType
  <2> HIDE DEF new, target
  <2>2. job'[a] = new
    BY <1>0, <1>3, <2>1, WriteEffect
  <2>3. order' \in Seq(Ids) /\ \E i \in ToSet(order') : nv[i] = "windows"
    BY <1>1, <1>2, <1>3
  <2>4. ~j.raced => InTargetOrder(order)'
    BY <1>1, <1>2, <1>3 DEF InTargetOrder
  <2>5. os' = "windows" /\ j.said = "none" /\ j.bl # "ON"
    BY <1>0, <1>3 DEF GoodRun
  <2>6. GoodRun(job[a])'
    BY <2>1, <2>2, <2>4, <2>5 DEF GoodRun, Writing
  <2> QED
    BY <1>3, <2>1, <2>3, <2>6, ListStep
<1> QED
  BY <1>4, <1>5

LEMMA WriterReadsStep ==
    ASSUME BootInv, NEW a \in Actors, WriterReads(a)
    PROVE  BootInv'
<1>0. TypeOK /\ GoodRuns /\ Single /\ job[a] \in JobType /\ GoodRun(job[a])
  BY DEF BootInv, TypeOK, GoodRuns
<1>1. job[a].pc = "w_read" /\ job[a].bl \in {"OFF", "UNKNOWN"} /\ os = "windows"
  BY <1>0 DEF WriterReads, GoodRun, JobType
<1>2. PICK win \in Found("windows"), rec \in Found("recovery"), dir \in Found("direct") :
         Go(a, IF win = NoId THEN Ended("failed")
               ELSE [Idle EXCEPT !.pc = "w_rec", !.bl = job[a].bl,
                         !.read = order, !.win = win, !.rec = rec, !.dir = dir])
  BY DEF WriterReads
<1>3. /\ win = NoId \/ win \in Entries("windows")
      /\ rec \in Entries("recovery") \/ (rec = NoId /\ Entries("recovery") = {})
      /\ dir \in Entries("direct") \/ (dir = NoId /\ Entries("direct") = {})
  BY <1>0, FoundKind
<1>4. /\ UNCHANGED <<nv, order, bootNext, locked, os, native, due, promised, budget>>
      /\ overlapped' = (overlapped \/ \E b \in Actors \ {a} : job[b].pc \in Writing)
  BY DEF WriterReads
<1> DEFINE new == IF win = NoId THEN Ended("failed")
                  ELSE [Idle EXCEPT !.pc = "w_rec", !.bl = job[a].bl,
                         !.read = order, !.win = win, !.rec = rec, !.dir = dir]
<1>5. /\ new \in JobType
      /\ new.pc = "idle" \/ (/\ new.pc = "w_rec" /\ new.bl # "ON" /\ win # NoId
                             /\ new.win = win /\ new.rec = rec /\ new.dir = dir
                             /\ new.said = "none")
  <2>1. CASE win = NoId
    BY <2>1, IdleIsTyped
  <2>2. CASE win # NoId
    <3>1. order \in Seq(Ids) /\ win \in Ids /\ rec \in Ids \cup {NoId}
          /\ dir \in Ids \cup {NoId}
      BY <1>0, <1>3, <2>2 DEF TypeOK, Entries
    <3> QED
      BY <1>1, <2>2, <3>1 DEF Idle, JobType
  <2> QED
    BY <2>1, <2>2
<1> HIDE DEF new
<1>6. /\ job' \in [Actors -> JobType] /\ job'[a] = new
      /\ \A b \in Actors \ {a} : job'[b] = job[b]
  BY <1>0, <1>2, <1>5, GoEffect DEF new
<1>7. TypeOK'
  <2>1. overlapped' \in BOOLEAN
    BY <1>0, <1>4 DEF TypeOK
  <2> QED
    BY <1>0, <1>4, <1>6, <2>1 DEF TypeOK
<1>8. WindowsStaysListed' /\ PromiseStands'
  BY <1>4 DEF BootInv, WindowsStaysListed, PromiseStands, Entries
<1>9. GoodRun(job[a])'
  <2>1. CASE new.pc = "idle"
    BY <1>6, <2>1, IdleRun
  <2>2. CASE new.pc = "w_rec"
    <3>1. new.bl # "ON" /\ new.win \in Entries("windows") /\ new.said = "none"
          /\ (new.rec # NoId => nv[new.rec] = "recovery")
      BY <1>3, <1>5, <2>2 DEF Entries
    <3> QED
      BY <1>1, <1>4, <1>6, <2>2, <3>1 DEF GoodRun, Entries
  <2> QED
    BY <1>5, <2>1, <2>2
<1>10. GoodRuns'
  BY <1>0, <1>4, <1>6, <1>9, KeptRun DEF GoodRuns
<1>11. Single'
  <2> SUFFICES ASSUME ~overlapped' PROVE Single'
    BY DEF Single
  <2>1. ~overlapped /\ \A b \in Actors \ {a} : job'[b].pc \notin Writing
    BY <1>4, <1>6
  <2>2. Entries("recovery")' = Entries("recovery") /\ Entries("direct")' = Entries("direct")
    BY <1>4 DEF Entries
  <2>3. /\ \A i, j \in Entries("recovery") : i = j
        /\ \A i, j \in Entries("direct") : i = j
    BY <1>0, <2>1 DEF Single
  <2>4. \A b \in Actors : job'[b].pc \in Writing => b = a
    BY <2>1
  <2>5. /\ new.pc = "w_rec" /\ new.rec = NoId => Entries("recovery") = {}
        /\ new.pc \in {"w_rec", "w_dir"} /\ new.dir = NoId => Entries("direct") = {}
    BY <1>3, <1>5, IdsAssumption DEF Entries
  <2>6. \A b \in Actors :
          /\ job'[b].pc = "w_rec" /\ job'[b].rec = NoId => Entries("recovery") = {}
          /\ job'[b].pc \in {"w_rec", "w_dir"} /\ job'[b].dir = NoId
                => Entries("direct") = {}
    BY <1>6, <2>4, <2>5 DEF Writing
  <2> QED
    BY <2>2, <2>3, <2>4, <2>6 DEF Single
<1> QED
  BY <1>7, <1>8, <1>10, <1>11 DEF BootInv

\* What stays when a writer creates an entry, or finds that it need not.
LEMMA CreateStep ==
    ASSUME BootInv, NEW a \in Actors, NEW STATE new, new \in JobType, Go(a, new),
           nv' \in [Ids -> Kinds],
           \A i \in Ids : nv[i] # "free" => nv'[i] = nv[i],
           GoodRun(job[a])',
           UNCHANGED <<order, bootNext, locked, os, native, due, promised,
                       overlapped, budget>>
    PROVE  TypeOK' /\ WindowsStaysListed' /\ GoodRuns' /\ PromiseStands'
<1>0. TypeOK /\ GoodRuns /\ PromiseStands /\ WindowsStaysListed
  BY DEF BootInv
<1>1. /\ job' \in [Actors -> JobType]
      /\ \A b \in Actors \ {a} : job'[b] = job[b]
  BY <1>0, GoEffect
<1>2. TypeOK'
  BY <1>0, <1>1 DEF TypeOK
<1>3. Entries("windows") \subseteq Entries("windows")'
  BY DEF Entries
<1>4. PromiseStands'
  BY <1>0, <1>3 DEF PromiseStands
<1>5. WindowsStaysListed'
  <2>1. \A n \in 1..Len(order) : order[n] \in Ids
    BY <1>0, ElementOfSeq DEF TypeOK
  <2> QED
    BY <1>0, <2>1 DEF WindowsStaysListed
<1>6. ASSUME NEW b \in Actors PROVE GoodRun(job[b])'
  <2>1. CASE b # a
    BY <1>0, <1>1, <2>1, KeptRun DEF GoodRuns
  <2> QED
    BY <2>1
<1> QED
  BY <1>2, <1>4, <1>5, <1>6 DEF GoodRuns

LEMMA EnsureRecoveryStep ==
    ASSUME BootInv, NEW a \in Actors, EnsureRecovery(a)
    PROVE  BootInv'
<1> DEFINE j == job[a]
           id == IF j.rec = NoId THEN FreeId({}) ELSE j.rec
           new == [j EXCEPT !.pc = "w_dir", !.rec = id]
<1>0. TypeOK /\ Single /\ j \in JobType /\ GoodRun(j) /\ j.pc = "w_rec"
  BY DEF BootInv, TypeOK, GoodRuns, EnsureRecovery
<1>1. /\ nv' = IF j.rec = NoId /\ id # NoId THEN [nv EXCEPT ![id] = "recovery"]
              ELSE nv
      /\ Go(a, IF id = NoId THEN Ended("failed") ELSE new)
      /\ UNCHANGED <<order, bootNext, locked, os, native, due, promised,
                     overlapped, budget>>
  BY DEF EnsureRecovery
<1>2. CASE id = NoId
  <2>1. UNCHANGED nv /\ Go(a, Ended("failed")) /\ budget' \in 0..Budget
    BY <1>0, <1>1, <1>2 DEF TypeOK
  <2> QED
    BY <1>1, <2>1, EndStep
<1>3. CASE id # NoId
  <2>1. id \in Ids /\ (j.rec = NoId => nv[id] = "free")
    BY <1>0, <1>3, FreeIdIsFree DEF JobType
  <2>2. /\ new \in JobType /\ new.pc = "w_dir" /\ new.rec = id
        /\ new.bl = j.bl /\ new.said = j.said /\ new.win = j.win
        /\ new.dir = j.dir /\ new.raced = j.raced
    BY <1>0, <2>1 DEF JobType
  <2>3. Go(a, new)
    BY <1>1, <1>3
  <2> HIDE DEF new
  <2>4. job'[a] = new /\ \A b \in Actors \ {a} : job'[b] = job[b]
    BY <1>0, <2>2, <2>3, GoEffect
  <2>5. /\ nv' \in [Ids -> Kinds]
        /\ \A i \in Ids : nv'[i] = IF j.rec = NoId /\ i = id THEN "recovery" ELSE nv[i]
    BY <1>0, <1>1, <1>3, <2>1 DEF TypeOK, Kinds
  <2> HIDE DEF id
  <2>6. \A i \in Ids : nv[i] # "free" => nv'[i] = nv[i]
    BY <2>1, <2>5
  <2>7. GoodRun(job[a])'
    <3>1. j.win \in Entries("windows")' /\ os' = "windows" /\ j.said = "none"
          /\ j.bl # "ON"
      BY <1>0, <1>1, <2>6 DEF GoodRun, Entries, Writing
    <3>2. ~j.raced => nv'[id] = "recovery"
      BY <1>0, <1>3, <2>1, <2>5 DEF GoodRun, Writing, id
    <3> QED
      BY <2>1, <2>2, <2>4, <3>1, <3>2 DEF GoodRun
  <2>8. Single'
    <3> SUFFICES ASSUME ~overlapped' PROVE Single'
      BY DEF Single
    <3>1. ~overlapped /\ j.pc \in Writing
      BY <1>0, <1>1 DEF Writing
    <3>2. Entries("direct")' = Entries("direct")
      BY <2>1, <2>5 DEF Entries
    <3>3. \A i \in Entries("recovery")' : i \in Entries("recovery") \/ (j.rec = NoId /\ i = id)
      BY <2>5 DEF Entries
    <3>4. \A b \in Actors : job'[b].pc \in Writing => b = a
      BY <1>0, <2>4, <3>1 DEF Single
    <3>5. /\ \A i, k \in Entries("recovery") : i = k
          /\ \A i, k \in Entries("direct") : i = k
          /\ j.rec = NoId => Entries("recovery") = {}
          /\ j.dir = NoId => Entries("direct") = {}
      BY <1>0, <3>1 DEF Single
    <3>6. \A i, k \in Entries("recovery")' : i = k
      BY <3>3, <3>5
    <3>7. \A b \in Actors :
            /\ ~(job'[b].pc = "w_rec")
            /\ job'[b].pc \in {"w_rec", "w_dir"} /\ job'[b].dir = NoId
                  => Entries("direct")' = {}
      BY <2>2, <2>4, <3>2, <3>4, <3>5 DEF Writing
    <3> QED
      BY <3>2, <3>4, <3>5, <3>6, <3>7 DEF Single
  <2> QED
    BY <1>1, <2>2, <2>3, <2>5, <2>6, <2>7, <2>8, CreateStep DEF BootInv
<1> QED
  BY <1>2, <1>3

LEMMA EnsureDirectStep ==
    ASSUME BootInv, NEW a \in Actors, EnsureDirect(a)
    PROVE  BootInv'
<1> DEFINE j == job[a]
           id == IF j.dir = NoId THEN FreeId({j.rec}) ELSE j.dir
           new == [j EXCEPT !.pc = "w_order", !.dir = id]
<1>0. TypeOK /\ Single /\ j \in JobType /\ GoodRun(j) /\ j.pc = "w_dir"
  BY DEF BootInv, TypeOK, GoodRuns, EnsureDirect
<1>1. /\ nv' = IF j.dir = NoId /\ id # NoId THEN [nv EXCEPT ![id] = "direct"]
              ELSE nv
      /\ Go(a, IF id = NoId THEN Ended("failed") ELSE new)
      /\ UNCHANGED <<order, bootNext, locked, os, native, due, promised,
                     overlapped, budget>>
  BY DEF EnsureDirect
<1>2. CASE id = NoId
  <2>1. UNCHANGED nv /\ Go(a, Ended("failed")) /\ budget' \in 0..Budget
    BY <1>0, <1>1, <1>2 DEF TypeOK
  <2> QED
    BY <1>1, <2>1, EndStep
<1>3. CASE id # NoId
  <2>1. id \in Ids /\ (j.dir = NoId => nv[id] = "free")
    BY <1>0, <1>3, FreeIdIsFree DEF JobType
  <2>2. /\ new \in JobType /\ new.pc = "w_order" /\ new.dir = id
        /\ new.bl = j.bl /\ new.said = j.said /\ new.win = j.win
        /\ new.rec = j.rec /\ new.raced = j.raced
    BY <1>0, <2>1 DEF JobType
  <2>3. Go(a, new)
    BY <1>1, <1>3
  <2> HIDE DEF new
  <2>4. job'[a] = new /\ \A b \in Actors \ {a} : job'[b] = job[b]
    BY <1>0, <2>2, <2>3, GoEffect
  <2>5. /\ nv' \in [Ids -> Kinds]
        /\ \A i \in Ids : nv'[i] = IF j.dir = NoId /\ i = id THEN "direct" ELSE nv[i]
    BY <1>0, <1>1, <1>3, <2>1 DEF TypeOK, Kinds
  <2> HIDE DEF id
  <2>6. \A i \in Ids : nv[i] # "free" => nv'[i] = nv[i]
    BY <2>1, <2>5
  <2>7. GoodRun(job[a])'
    <3>1. j.win \in Entries("windows")' /\ os' = "windows" /\ j.said = "none"
          /\ j.bl # "ON" /\ j.rec \in Ids
      BY <1>0, <1>1, <2>6 DEF GoodRun, Entries, Writing
    <3>2. ~j.raced /\ j.rec # NoId => nv'[j.rec] = "recovery"
      BY <1>0, <2>6, <3>1 DEF GoodRun, Writing
    <3> QED
      BY <2>1, <2>2, <2>4, <3>1, <3>2 DEF GoodRun
  <2>8. Single'
    <3> SUFFICES ASSUME ~overlapped' PROVE Single'
      BY DEF Single
    <3>1. ~overlapped /\ j.pc \in Writing
      BY <1>0, <1>1 DEF Writing
    <3>2. Entries("recovery")' = Entries("recovery")
      BY <2>1, <2>5 DEF Entries
    <3>3. \A i \in Entries("direct")' : i \in Entries("direct") \/ (j.dir = NoId /\ i = id)
      BY <2>5 DEF Entries
    <3>4. \A b \in Actors : job'[b].pc \in Writing => b = a
      BY <1>0, <2>4, <3>1 DEF Single
    <3>5. /\ \A i, k \in Entries("recovery") : i = k
          /\ \A i, k \in Entries("direct") : i = k
          /\ j.dir = NoId => Entries("direct") = {}
      BY <1>0, <3>1 DEF Single
    <3>6. \A i, k \in Entries("direct")' : i = k
      BY <3>3, <3>5
    <3>7. \A b \in Actors : job'[b].pc \notin {"w_rec", "w_dir"}
      BY <2>2, <2>4, <3>4 DEF Writing
    <3> QED
      BY <3>2, <3>4, <3>5, <3>6, <3>7 DEF Single
  <2> QED
    BY <1>1, <2>2, <2>3, <2>5, <2>6, <2>7, <2>8, CreateStep DEF BootInv
<1> QED
  BY <1>2, <1>3

LEMMA ClearBootNextStep ==
    ASSUME BootInv, ClearBootNext
    PROVE  BootInv'
<1> DEFINE j == job["setup"]
           new == [Ended("repaired") EXCEPT !.raced = j.raced]
<1>0. /\ TypeOK /\ GoodRuns /\ Single /\ j \in JobType /\ GoodRun(j) /\ j.pc = "w_next"
      /\ PromiseStands /\ WindowsStaysListed /\ "setup" \in Actors
  BY DEF BootInv, TypeOK, GoodRuns, ClearBootNext, Actors
<1>1. os = "windows" /\ ~promised
  BY <1>0 DEF GoodRun, PromiseStands
<1>2. /\ bootNext' = NoId /\ due' = TRUE /\ Go("setup", new)
      /\ UNCHANGED <<nv, order, locked, os, native, promised, overlapped, budget>>
  BY DEF ClearBootNext
<1>3. new \in JobType /\ new.pc = "idle"
  <2>1. Ended("repaired") \in JobType /\ Ended("repaired").pc = "idle"
    BY IdleIsTyped
  <2> QED
    BY <1>0, <2>1 DEF JobType
<1> HIDE DEF new
<1>4. /\ job' \in [Actors -> JobType] /\ job'["setup"] = new
      /\ \A b \in Actors \ {"setup"} : job'[b] = job[b]
  BY <1>0, <1>2, <1>3, GoEffect
<1>5. TypeOK'
  BY <1>0, <1>2, <1>4 DEF TypeOK
<1>6. ASSUME NEW b \in Actors PROVE GoodRun(job[b])'
  <2>1. CASE b = "setup"
    BY <1>3, <1>4, <2>1, IdleRun
  <2>2. CASE b # "setup"
    BY <1>0, <1>2, <1>4, <2>2, KeptRun DEF GoodRuns
  <2> QED
    BY <2>1, <2>2
<1>7. WindowsStaysListed' /\ PromiseStands'
  BY <1>0, <1>1, <1>2 DEF WindowsStaysListed, PromiseStands
<1>8. Single'
  BY <1>0, <1>2, <1>3, <1>4, SingleKept DEF Entries, Writing
<1> QED
  BY <1>5, <1>6, <1>7, <1>8 DEF BootInv, GoodRuns

\* The steps that change neither the list nor a run.
LEMMA SetBootNextStep ==
    ASSUME BootInv, SetBootNext
    PROVE  BootInv'
<1>0. TypeOK /\ GoodRuns /\ Single /\ WindowsStaysListed
  BY DEF BootInv
<1>1. /\ os = "recovery" /\ bootNext' \in Entries("windows") /\ promised' = TRUE
      /\ UNCHANGED <<nv, order, locked, os, native, due, job, overlapped, budget>>
  BY DEF SetBootNext
<1>2. TypeOK'
  BY <1>0, <1>1 DEF TypeOK, Entries
<1>3. WindowsStaysListed' /\ PromiseStands'
  BY <1>0, <1>1 DEF WindowsStaysListed, PromiseStands, Entries
<1>4. GoodRuns'
  BY <1>0, <1>1, KeptRun DEF GoodRuns
<1>5. Single'
  BY <1>0, <1>1, SingleKept DEF Entries
<1> QED
  BY <1>2, <1>3, <1>4, <1>5 DEF BootInv

LEMMA ToggleBitLockerStep ==
    ASSUME BootInv, ToggleBitLocker
    PROVE  BootInv'
<1>0. TypeOK /\ GoodRuns /\ Single /\ WindowsStaysListed /\ PromiseStands
  BY DEF BootInv
<1>1. /\ locked' = ~locked /\ Spend
      /\ UNCHANGED <<nv, order, bootNext, os, native, due, job, promised, overlapped>>
  BY DEF ToggleBitLocker
<1>2. budget' \in 0..Budget
  BY <1>0, <1>1, BudgetAssumption DEF TypeOK, Spend
<1>3. TypeOK'
  BY <1>0, <1>1, <1>2 DEF TypeOK
<1>4. WindowsStaysListed' /\ PromiseStands'
  BY <1>0, <1>1 DEF WindowsStaysListed, PromiseStands, Entries
<1>5. GoodRuns'
  BY <1>0, <1>1, KeptRun DEF GoodRuns
<1>6. Single'
  BY <1>0, <1>1, SingleKept DEF Entries
<1> QED
  BY <1>3, <1>4, <1>5, <1>6 DEF BootInv

\* Every run ends with the machine; the promise and BootNext do not.
LEMMA PowerOffStep ==
    ASSUME BootInv, PowerOff
    PROVE  BootInv'
<1>0. TypeOK /\ Single /\ WindowsStaysListed /\ PromiseStands
  BY DEF BootInv
<1>1. /\ os' = "off" /\ due' = FALSE /\ job' = [a \in Actors |-> Idle]
      /\ UNCHANGED <<nv, order, bootNext, locked, native, promised, overlapped>>
  BY DEF PowerOff
<1>2. budget' \in 0..Budget
  BY <1>0, BudgetAssumption DEF PowerOff, TypeOK, Spend
<1>3. job' \in [Actors -> JobType] /\ \A a \in Actors : job'[a].pc = "idle"
  BY <1>1, IdleIsTyped DEF Idle
<1>4. TypeOK'
  BY <1>0, <1>1, <1>2, <1>3 DEF TypeOK
<1>5. WindowsStaysListed' /\ PromiseStands'
  BY <1>0, <1>1 DEF WindowsStaysListed, PromiseStands, Entries
<1>6. GoodRuns'
  BY <1>3, IdleRun DEF GoodRuns
<1>7. Single'
  BY <1>0, <1>1, <1>3, SingleKept DEF Entries, Writing
<1> QED
  BY <1>4, <1>5, <1>6, <1>7 DEF BootInv

LEMMA BootStep ==
    ASSUME BootInv, Boot
    PROVE  BootInv'
<1>0. TypeOK /\ GoodRuns /\ Single /\ WindowsStaysListed
  BY DEF BootInv
<1>1. /\ os = "off" /\ due' = (os' = "windows") /\ bootNext' = NoId /\ promised' = FALSE
      /\ UNCHANGED <<nv, order, locked, native, job, overlapped, budget>>
  BY DEF Boot
<1>2. os' \in {"windows", "recovery", "foreign"}
  BY DEF Boot, Starts
<1>3. due' \in BOOLEAN
  BY <1>1
<1>4. TypeOK'
  BY <1>0, <1>1, <1>2, <1>3 DEF TypeOK
<1>5. \A a \in Actors : job'[a].pc = "idle"
  BY <1>0, <1>1 DEF GoodRuns, GoodRun
<1>6. WindowsStaysListed' /\ PromiseStands'
  BY <1>0, <1>1 DEF WindowsStaysListed, PromiseStands
<1>7. GoodRuns'
  BY <1>5, IdleRun DEF GoodRuns
<1>8. Single'
  BY <1>0, <1>1, SingleKept DEF Entries
<1> QED
  BY <1>4, <1>6, <1>7, <1>8 DEF BootInv

\* Somebody else rewrites the list: no Windows entry goes, every run is raced.
LEMMA OutsideStep ==
    ASSUME BootInv, Outside
    PROVE  BootInv'
<1>0. /\ TypeOK /\ GoodRuns /\ Single /\ WindowsStaysListed /\ PromiseStands
      /\ order \in Seq(Ids) /\ nv \in [Ids -> Kinds]
      /\ \E i \in ToSet(order) : nv[i] = "windows"
  BY WindowsListed DEF BootInv, TypeOK
<1>1. /\ EntryMoves \/ FirmwareForgets \/ SystemAdded
      /\ Spend /\ job' = RacedBy("nobody", job)
      /\ UNCHANGED <<bootNext, locked, os, native, due, promised, overlapped>>
  BY DEF Outside
<1>2. budget' \in 0..Budget
  BY <1>0, <1>1, BudgetAssumption DEF TypeOK, Spend
<1>3. /\ job' \in [Actors -> JobType]
      /\ \A b \in Actors : job'[b] = IF job[b].pc = "idle" THEN job[b]
                                      ELSE [job[b] EXCEPT !.raced = TRUE]
  <2>1. \A r \in JobType : [r EXCEPT !.raced = TRUE] \in JobType
    BY DEF JobType
  <2>2. "nobody" \notin Actors
    BY DEF Actors
  <2> QED
    BY <1>0, <1>1, <2>1, <2>2 DEF TypeOK, RacedBy
<1>4. /\ nv' \in [Ids -> Kinds] /\ order' \in Seq(Ids)
      /\ \A i \in Ids : nv[i] = "windows" => nv'[i] = nv[i]
      /\ \A i \in Ids : nv'[i] \in {"recovery", "direct"} => nv[i] = nv'[i]
      /\ \A i \in ToSet(order) : nv[i] = "windows" => i \in ToSet(order')
  <2>1. CASE EntryMoves
    <3>1. PICK n \in 1..Len(order) :
             LET rest == Without(order, {order[n]})
             IN  order' \in {<<order[n]>> \o rest, Append(rest, order[n])} \ {order}
      BY <2>1 DEF EntryMoves
    <3> DEFINE id == order[n]
               rest == Without(order, {id})
               only == <<id>>
    <3>2. id \in Ids
      BY <1>0, ElementOfSeq
    <3>3. rest \in Seq(Ids) /\ ToSet(rest) = ToSet(order) \ {id}
      BY <1>0, WithoutIsList
    <3>4. only \in Seq(Ids) /\ ToSet(only) = {id}
      BY <3>2 DEF ToSet
    <3>5. Append(rest, id) = rest \o only
      BY <3>2, <3>3
    <3>6. order' = only \o rest \/ order' = rest \o only
      BY <3>1, <3>5
    <3> HIDE DEF id, rest, only
    <3>7. order' \in Seq(Ids) /\ ToSet(order) \subseteq ToSet(order')
      <4>1. /\ only \o rest \in Seq(Ids) /\ rest \o only \in Seq(Ids)
            /\ ToSet(only \o rest) = ToSet(only) \cup ToSet(rest)
            /\ ToSet(rest \o only) = ToSet(rest) \cup ToSet(only)
        BY <3>3, <3>4, JoinedElements
      <4> QED
        BY <3>3, <3>4, <3>6, <4>1
    <3> QED
      BY <1>0, <2>1, <3>7 DEF EntryMoves
  <2>2. CASE FirmwareForgets
    <3>1. PICK i \in Entries("recovery") \cup Entries("direct") :
             nv' = [nv EXCEPT ![i] = "free"] /\ order' = Without(order, {i})
      BY <2>2 DEF FirmwareForgets
    <3>2. i \in Ids /\ nv[i] \in {"recovery", "direct"}
      BY DEF Entries
    <3>3. /\ nv' \in [Ids -> Kinds]
          /\ \A k \in Ids : nv'[k] = IF k = i THEN "free" ELSE nv[k]
      BY <1>0, <3>1, <3>2 DEF Kinds
    <3>4. order' \in Seq(Ids) /\ ToSet(order') = ToSet(order) \ {i}
      BY <1>0, <3>1, WithoutIsList
    <3> QED
      BY <3>2, <3>3, <3>4
  <2>3. CASE SystemAdded
    <3> DEFINE id == FreeId({})
               rest == Without(order, {id})
               only == <<id>>
    <3>1. id \in Ids /\ nv[id] = "free"
      BY <2>3, FreeIdIsFree DEF SystemAdded
    <3>2. nv' = [nv EXCEPT ![id] = "other"] /\ order' = Append(rest, id)
      BY <2>3 DEF SystemAdded
    <3>3. rest \in Seq(Ids) /\ ToSet(rest) = ToSet(order) \ {id}
      BY <1>0, WithoutIsList
    <3>4. only \in Seq(Ids) /\ ToSet(only) = {id}
      BY <3>1 DEF ToSet
    <3>5. order' = rest \o only
      BY <3>1, <3>2, <3>3
    <3> HIDE DEF id, rest, only
    <3>6. /\ nv' \in [Ids -> Kinds]
          /\ \A k \in Ids : nv'[k] = IF k = id THEN "other" ELSE nv[k]
      BY <1>0, <3>1, <3>2 DEF Kinds
    <3>7. order' \in Seq(Ids) /\ ToSet(order) \subseteq ToSet(order')
      BY <3>3, <3>4, <3>5, JoinedElements
    <3> QED
      BY <3>1, <3>6, <3>7
  <2> QED
    BY <1>1, <2>1, <2>2, <2>3
<1>5. TypeOK'
  BY <1>0, <1>1, <1>2, <1>3, <1>4 DEF TypeOK
<1>6. WindowsStaysListed'
  <2>1. PICK i \in ToSet(order) : nv[i] = "windows"
    BY <1>0
  <2>2. i \in Ids
    BY <1>0, <2>1, ElementOfSeq, LenProperties DEF ToSet
  <2>3. i \in ToSet(order') /\ nv'[i] = "windows"
    BY <1>4, <2>1, <2>2
  <2>4. DOMAIN order' = 1..Len(order')
    BY <1>4, LenProperties
  <2> QED
    BY <2>3, <2>4 DEF WindowsStaysListed, ToSet
<1>7. PromiseStands'
  BY <1>0, <1>1, <1>4 DEF PromiseStands, Entries
<1>8. GoodRuns'
  BY <1>0, <1>1, <1>3, <1>4, RacedRun DEF GoodRuns
<1>9. Single'
  <2>1. /\ Entries("recovery")' \subseteq Entries("recovery")
        /\ Entries("direct")' \subseteq Entries("direct")
    BY <1>4 DEF Entries
  <2>2. ASSUME NEW b \in Actors
        PROVE  /\ job'[b].pc = job[b].pc
               /\ job'[b].rec = job[b].rec /\ job'[b].dir = job[b].dir
    <3>1. job[b] \in JobType
      BY <1>0 DEF TypeOK
    <3>2. job'[b] = IF job[b].pc = "idle" THEN job[b]
                    ELSE [job[b] EXCEPT !.raced = TRUE]
      BY <1>3
    <3> QED
      BY <3>1, <3>2 DEF JobType
  <2> QED
    BY <1>0, <1>1, <2>1, <2>2, SingleKept
<1> QED
  BY <1>5, <1>6, <1>7, <1>8, <1>9 DEF BootInv

-----------------------------------------------------------------------------
(***************************************************************************)
(* The theorems.                                                           *)
(***************************************************************************)
LEMMA BootInvStep ==
    BootInv /\ [Next]_vars => BootInv'
<1> SUFFICES ASSUME BootInv, [Next]_vars PROVE BootInv'
  OBVIOUS
<1>1. CASE UNCHANGED vars
  <2>1. TypeOK' /\ WindowsStaysListed' /\ PromiseStands'
    BY <1>1 DEF BootInv, TypeOK, WindowsStaysListed, PromiseStands, Entries, vars
  <2>2. GoodRuns' /\ Single'
    BY <1>1, KeptRun, SingleKept DEF BootInv, GoodRuns, Entries, vars
  <2> QED
    BY <2>1, <2>2 DEF BootInv
<1>2. CASE StartAgent \/ StartWriter \/ StartTask \/ StartSetup
  BY <1>2, StartsStep
<1>3. ASSUME NEW a \in Actors, Runs(a) PROVE BootInv'
  BY <1>3, ReadAndPlanStep, BcdeditStep, WriterReadsStep, EnsureRecoveryStep,
     EnsureDirectStep, WriteOrderStep DEF Runs, WriterStep
<1>4. ASSUME NEW a \in Actors, Fails(a) PROVE BootInv'
  BY <1>4, FailsStep
<1>5. CASE ClearBootNext \/ SetBootNext \/ PowerOff \/ Boot
  BY <1>5, ClearBootNextStep, SetBootNextStep, PowerOffStep, BootStep
<1>6. CASE Outside \/ ToggleBitLocker
  BY <1>6, OutsideStep, ToggleBitLockerStep
<1> QED
  BY <1>1, <1>2, <1>3, <1>4, <1>5, <1>6 DEF Next

(* Every state has the list and the runs in order. *)
THEOREM BootInvariant == Spec => []BootInv
<1> QED
  BY BootInit, BootInvStep, PTL DEF Spec

(* The types hold: no stale plan and no writer puts a number into BootOrder
   which the machine does not use. *)
THEOREM BootTypes == Spec => []TypeOK
<1>1. BootInv => TypeOK
  BY DEF BootInv
<1> QED
  BY <1>1, BootInvariant, PTL

(* Windows never leaves BootOrder, whoever writes it from whatever he read. *)
THEOREM WindowsStaysBootable == Spec => []WindowsStaysListed
<1>1. BootInv => WindowsStaysListed
  BY DEF BootInv
<1> QED
  BY <1>1, BootInvariant, PTL

(* What the Python programs write was planned without BitLocker seen on. *)
THEOREM BitLockerIsHonoured == Spec => []BitLockerHonoured
<1>1. BootInv => BitLockerHonoured
  BY DEF BootInv, GoodRuns, GoodRun, BitLockerHonoured
<1> QED
  BY <1>1, BootInvariant, PTL

(* Unless two writers have overlapped there is one entry of each kind. *)
THEOREM NoEntryTwice == Spec => []NoSecondEntry
<1>1. BootInv => NoSecondEntry
  <2> SUFFICES ASSUME BootInv, ~overlapped
               PROVE  /\ Cardinality(Entries("recovery")) <= 1
                      /\ Cardinality(Entries("direct")) <= 1
    BY DEF NoSecondEntry
  <2>1. ASSUME NEW S, \A i, j \in S : i = j PROVE Cardinality(S) <= 1
    <3>1. CASE S = {}
      BY <3>1, FS_EmptySet
    <3>2. CASE S # {}
      <4>1. PICK i \in S : S = {i}
        BY <2>1, <3>2
      <4>2. Cardinality({i}) = 1
        BY FS_Singleton
      <4> QED
        BY <4>1, <4>2
    <3> QED
      BY <3>1, <3>2
  <2> QED
    BY <2>1 DEF BootInv, Single
<1> QED
  BY <1>1, BootInvariant, PTL

\* Why the record of a run changes: a step of its own, or a write of another.
LEMMA RunMoves ==
    ASSUME BootInv, Next, NEW a \in Actors, job'[a] # job[a]
    PROVE  \/ Runs(a) \/ Fails(a) \/ (a = "setup" /\ ClearBootNext)
           \/ os' = "off" /\ job'[a].said = "none"
           \/ job[a].pc = "idle" /\ job'[a].said = "none"
           \/ job'[a].raced /\ job'[a].pc = job[a].pc
<1>0. TypeOK /\ job \in [Actors -> JobType]
  BY DEF BootInv, TypeOK
<1>1. ASSUME NEW b \in Actors, NEW STATE new, Go(b, new), b # a PROVE FALSE
  BY <1>0, <1>1 DEF Go
<1>2. ASSUME NEW b \in Actors, NEW STATE new, Write(b, new), b # a
      PROVE  job'[a].raced /\ job'[a].pc = job[a].pc
  <2> DEFINE mid == [job EXCEPT ![b] = new]
  <2>1. mid[a] = job[a] /\ job' = RacedBy(b, mid)
    BY <1>0, <1>2 DEF Write
  <2> HIDE DEF mid
  <2>2. job'[a] = [job[a] EXCEPT !.raced = TRUE]
    BY <1>2, <2>1 DEF RacedBy
  <2>3. job[a] \in JobType
    BY <1>0
  <2> QED
    BY <2>2, <2>3 DEF JobType
<1>3. CASE StartAgent \/ StartTask
  <2>1. PICK b \in Actors : Start(b)
    BY <1>3 DEF StartAgent, StartTask, Actors
  <2>2. PICK bl \in Probe : Go(b, [Idle EXCEPT !.pc = "probed", !.bl = bl])
    BY <2>1 DEF Start
  <2>3. b = a
    BY <1>1, <2>2
  <2>4. job'[a] = [Idle EXCEPT !.pc = "probed", !.bl = bl]
    BY <1>0, <2>2, <2>3 DEF Go
  <2> QED
    BY <2>1, <2>3, <2>4 DEF Start, Idle
<1>4. CASE StartWriter \/ StartSetup
  <2>1. PICK b \in Actors : /\ Go(b, [Idle EXCEPT !.pc = "w_read"])
                           /\ job[b].pc = "idle"
    BY <1>4 DEF StartWriter, StartSetup, Actors
  <2>2. b = a
    BY <1>1, <2>1
  <2>3. job'[a] = [Idle EXCEPT !.pc = "w_read"]
    BY <1>0, <2>1, <2>2 DEF Go
  <2> QED
    BY <2>1, <2>2, <2>3 DEF Idle
<1>5. ASSUME NEW b \in Actors, Runs(b)
      PROVE  Runs(a) \/ (job'[a].raced /\ job'[a].pc = job[a].pc)
  <2>1. CASE b = a
    BY <1>5, <2>1
  <2>2. CASE b # a
    <3>1. ~ReadAndPlan(b)
      BY <1>1, <2>2 DEF ReadAndPlan
    <3>2. ~WriterReads(b) /\ ~EnsureRecovery(b) /\ ~EnsureDirect(b)
      BY <1>1, <2>2 DEF WriterReads, EnsureRecovery, EnsureDirect
    <3>3. Bcdedit(b) => job'[a].raced /\ job'[a].pc = job[a].pc
      BY <1>1, <1>2, <2>2 DEF Bcdedit
    <3>4. WriteOrder(b) => job'[a].raced /\ job'[a].pc = job[a].pc
      BY <1>2, <2>2 DEF WriteOrder
    <3> QED
      BY <1>5, <3>1, <3>2, <3>3, <3>4 DEF Runs, WriterStep
  <2> QED
    BY <2>1, <2>2
<1>6. ASSUME NEW b \in Actors, Fails(b) PROVE Fails(a)
  BY <1>1, <1>6 DEF Fails, ReadFails, BcdeditFails, WriterFails
<1>7. ClearBootNext => a = "setup"
  BY <1>1, "setup" \in Actors DEF ClearBootNext, Actors
<1>8. CASE PowerOff
  BY <1>8 DEF PowerOff, Idle
<1>9. CASE Outside
  <2>1. job'[a] = [job[a] EXCEPT !.raced = TRUE] /\ job[a] \in JobType
    BY <1>0, <1>9, "nobody" \notin Actors DEF Outside, RacedBy, Actors
  <2> QED
    BY <2>1 DEF JobType
<1>10. ~SetBootNext /\ ~Boot /\ ~ToggleBitLocker
  BY DEF SetBootNext, Boot, ToggleBitLocker
<1> QED
  BY <1>3, <1>4, <1>5, <1>6, <1>7, <1>8, <1>9, <1>10 DEF Next

(* No run drops an entry of the list which it has read: both lists that are
   written hold everything the run has read. *)
THEOREM KnownEntriesStay == Spec => NoKnownEntryLost
<1> DEFINE Lost(a) ==
      job[a].pc \in {"bcdedit", "w_order"} /\ job'[a].said # "failed"
        /\ job'[a].pc # job[a].pc /\ os' # "off" =>
          ToSet(order) \cap ToSet(job[a].read) \subseteq ToSet(order')
<1>1. BootInv /\ [Next]_vars => [\A a \in Actors : Lost(a)]_vars
  <2> SUFFICES ASSUME BootInv, Next, NEW a \in Actors,
                      job[a].pc \in {"bcdedit", "w_order"}, job'[a].said # "failed",
                      job'[a].pc # job[a].pc, os' # "off"
               PROVE  ToSet(order) \cap ToSet(job[a].read) \subseteq ToSet(order')
    OBVIOUS
  <2> DEFINE j == job[a]
  <2>1. TypeOK /\ j \in JobType /\ GoodRun(j)
    BY DEF BootInv, TypeOK, GoodRuns
  <2>2. /\ j.rec \in Ids /\ j.win \in Ids /\ j.read \in Seq(Ids)
        /\ j.pc = "w_order" => j.dir \in Ids
    BY <2>1 DEF GoodRun, Entries, JobType, Writing
  <2>3. Runs(a) \/ Fails(a)
    <3>1. job'[a] # job[a] /\ ~(a = "setup" /\ ClearBootNext)
      BY DEF ClearBootNext
    <3> QED
      BY <3>1, RunMoves
  <2>4. ~Fails(a)
    <3>1. job'[a] # Ended("failed")
      BY IdleIsTyped
    <3> QED
      BY <2>1, <3>1 DEF Fails, ReadFails, BcdeditFails, WriterFails, Go, TypeOK
  <2>5. CASE Bcdedit(a)
    <3>1. ToSet(j.read) \subseteq ToSet(TargetOrder(j.rec, j.win, j.read))
      BY <2>2, TargetOrderIsList
    <3>2. order' = TargetOrder(j.rec, j.win, j.read) \/ order' = order
      BY <2>5 DEF Bcdedit
    <3> QED
      BY <3>1, <3>2
  <2>6. CASE WriteOrder(a)
    <3>1. j.dir \in Ids
      BY <2>2, <2>6 DEF WriteOrder
    <3>2. ToSet(j.read) \subseteq ToSet(WriterOrder(j.rec, j.win, j.dir, j.read))
      BY <2>2, <3>1, WriterOrderIsList
    <3>3. order' = WriterOrder(j.rec, j.win, j.dir, j.read)
      BY <2>6 DEF WriteOrder
    <3> QED
      BY <3>2, <3>3
  <2> QED
    BY <2>3, <2>4, <2>5, <2>6
       DEF Runs, WriterStep, ReadAndPlan, WriterReads, EnsureRecovery, EnsureDirect
<1>2. Spec => [][\A a \in Actors : Lost(a)]_vars
  <2> HIDE DEF Lost
  <2> QED
    BY <1>1, BootInvariant, PTL DEF Spec
<1> QED
  BY <1>2 DEF NoKnownEntryLost

LEMMA PresentHeadNext ==
    (TypeOK /\ InTargetOrder(order))' => InTargetOrder(Present)'
  BY PresentHead, PTL

(* What a run says that nobody raced is so: the hot key entry is the first
   that is there, and Windows the second. *)
THEOREM SaidIsSo == Spec => SaidRepairedIsRepaired
<1> DEFINE Said(a) ==
      /\ job'[a] # job[a]
      /\ job'[a].said \in {"done", "repaired"}
      /\ ~job'[a].raced
      => InTargetOrder(Present)'
<1>1. BootInv /\ [Next]_vars => [\A a \in Actors : Said(a)]_vars
  <2> SUFFICES ASSUME BootInv, Next, NEW a \in Actors, job'[a] # job[a],
                      job'[a].said \in {"done", "repaired"}, ~job'[a].raced
               PROVE  InTargetOrder(Present)'
    OBVIOUS
  <2> DEFINE j == job[a]
  <2>0. BootInv' /\ TypeOK'
    BY BootInvStep DEF BootInv
  <2>1. TypeOK /\ j \in JobType /\ GoodRun(j)
    BY DEF BootInv, TypeOK, GoodRuns
  <2>2. Runs(a) \/ Fails(a) \/ (a = "setup" /\ ClearBootNext)
    BY RunMoves
  <2>3. ~Fails(a)
    <3>1. job'[a] # Ended("failed") /\ job'[a] # Ended("blocked")
      BY IdleIsTyped
    <3>2. Decision(a, j.bl, NoId, NoId, <<>>) = "blocked"
      BY DEF Decision
    <3> QED
      BY <2>1, <3>1, <3>2 DEF Fails, ReadFails, BcdeditFails, WriterFails, Go, TypeOK
  <2>4. CASE ReadAndPlan(a)
    <3>1. PICK win \in Listed("windows"), rec \in Listed("recovery") :
             LET next == Decision(a, j.bl, rec, win, Present)
             IN  Go(a, IF next \in {"done", "blocked"} THEN Ended(next)
                       ELSE [Idle EXCEPT !.pc = next, !.bl = j.bl,
                                 !.read = Present, !.win = win, !.rec = rec])
      BY <2>4 DEF ReadAndPlan
    <3> DEFINE next == Decision(a, j.bl, rec, win, Present)
    <3>2. j.bl \in {"ON", "OFF", "UNKNOWN"}
      BY <2>1 DEF JobType
    <3>3. /\ next \in {"blocked", "w_read", "bcdedit", "done"}
          /\ next \in {"bcdedit", "done"} => rec # NoId /\ win # NoId
          /\ next = "done" => ~ReorderRequired(rec, win, Present)
      BY <3>2, DecisionPaths
    <3>4. next = "done"
      <4>1. CASE next \in {"done", "blocked"}
        <5>1. job'[a] = Ended(next)
          BY <2>1, <3>1, <4>1 DEF Go, TypeOK
        <5> HIDE DEF next
        <5>2. job'[a].said = next
          BY <4>1, <5>1, IdleIsTyped
        <5> QED
          BY <4>1, <5>2
      <4>2. CASE next \notin {"done", "blocked"}
        <5>1. job'[a].said = "none"
          BY <2>1, <3>1, <4>2 DEF Go, TypeOK, Idle
        <5> QED
          BY <5>1
      <4> QED
        BY <4>1, <4>2
    <3>5. Len(Present) >= 2 /\ Present[1] = rec /\ Present[2] = win
      BY <3>3, <3>4 DEF ReorderRequired
    <3>6. nv[rec] = "recovery" /\ nv[win] = "windows"
      BY <3>3, <3>4, ListedKind DEF Entries
    <3>7. InTargetOrder(Present)
      BY <3>5, <3>6 DEF InTargetOrder
    <3>8. UNCHANGED <<nv, order>>
      BY <2>4 DEF ReadAndPlan
    <3> QED
      BY <3>7, <3>8 DEF InTargetOrder, Present
  <2>5. CASE Bcdedit(a)
    <3> DEFINE target == TargetOrder(j.rec, j.win, j.read)
    <3>1. job'[a] # Ended("failed")
      BY IdleIsTyped
    <3>2. /\ order' = target /\ nv' = nv
          /\ Write(a, [Ended("repaired") EXCEPT !.raced = j.raced])
          /\ j.pc = "bcdedit"
      BY <2>1, <2>5, <3>1 DEF Bcdedit, Go, TypeOK
    <3>3. job'[a].raced = j.raced
      <4>1. Ended("repaired") \in JobType
        BY IdleIsTyped
      <4>2. [Ended("repaired") EXCEPT !.raced = j.raced] \in JobType
            /\ [Ended("repaired") EXCEPT !.raced = j.raced].raced = j.raced
        BY <2>1, <4>1 DEF JobType
      <4> QED
        BY <2>1, <3>2, <4>2, WriteEffect
    <3>4. /\ j.rec \in Ids /\ j.win \in Ids /\ j.read \in Seq(Ids)
          /\ nv[j.win] = "windows" /\ nv[j.rec] = "recovery"
      BY <2>1, <3>2, <3>3, IdsAssumption DEF GoodRun, Entries, JobType
    <3>5. InTargetOrder(target)
      BY <3>4, TargetOrderIsList
    <3> HIDE DEF target
    <3>6. InTargetOrder(order)'
      BY <3>2, <3>5 DEF InTargetOrder
    <3> QED
      BY <2>0, <3>6, PresentHeadNext
  <2>6. CASE WriteOrder(a)
    <3> DEFINE target == WriterOrder(j.rec, j.win, j.dir, j.read)
               new == IF a = "setup" THEN [j EXCEPT !.pc = "w_next"]
                      ELSE [Ended("repaired") EXCEPT !.raced = j.raced]
    <3>1. order' = target /\ nv' = nv /\ Write(a, new) /\ j.pc = "w_order"
      BY <2>6 DEF WriteOrder
    <3>2. new \in JobType /\ new.raced = j.raced
      <4>1. Ended("repaired") \in JobType
        BY IdleIsTyped
      <4> QED
        BY <2>1, <4>1 DEF JobType
    <3> HIDE DEF new
    <3>3. ~j.raced
      BY <2>1, <3>1, <3>2, WriteEffect
    <3>4. /\ j.rec \in Ids /\ j.win \in Ids /\ j.dir \in Ids /\ j.read \in Seq(Ids)
          /\ nv[j.win] = "windows" /\ nv[j.rec] = "recovery"
      BY <2>1, <3>1, <3>3, IdsAssumption DEF GoodRun, Entries, JobType, Writing
    <3>5. InTargetOrder(target)
      BY <3>4, WriterOrderIsList
    <3> HIDE DEF target
    <3>6. InTargetOrder(order)'
      BY <3>1, <3>5 DEF InTargetOrder
    <3> QED
      BY <2>0, <3>6, PresentHeadNext
  <2>7. CASE WriterReads(a) \/ EnsureRecovery(a) \/ EnsureDirect(a)
    <3>1. job'[a] # Ended("failed")
      BY IdleIsTyped
    <3>2. job'[a].said \in {"none", j.said}
      <4>1. CASE WriterReads(a)
        BY <2>1, <3>1, <4>1 DEF WriterReads, Go, TypeOK, Idle
      <4>2. CASE EnsureRecovery(a)
        BY <2>1, <3>1, <4>2 DEF EnsureRecovery, Go, TypeOK, JobType
      <4>3. CASE EnsureDirect(a)
        BY <2>1, <3>1, <4>3 DEF EnsureDirect, Go, TypeOK, JobType
      <4> QED
        BY <2>7, <4>1, <4>2, <4>3
    <3>3. j.said = "none"
      BY <2>1, <2>7 DEF GoodRun, WriterReads, EnsureRecovery, EnsureDirect
    <3> QED
      BY <3>2, <3>3
  <2>8. CASE a = "setup" /\ ClearBootNext
    <3>1. /\ j.pc = "w_next" /\ UNCHANGED <<nv, order>>
          /\ Go("setup", [Ended("repaired") EXCEPT !.raced = j.raced])
      BY <2>8 DEF ClearBootNext
    <3>2. job'[a].raced = j.raced
      <4>1. Ended("repaired") \in JobType
        BY IdleIsTyped
      <4> QED
        BY <2>1, <2>8, <3>1, <4>1 DEF Go, TypeOK, JobType
    <3>3. InTargetOrder(order)
      BY <2>1, <3>1, <3>2 DEF GoodRun
    <3>4. InTargetOrder(order)'
      BY <3>1, <3>3 DEF InTargetOrder
    <3> QED
      BY <2>0, <3>4, PresentHeadNext
  <2> QED
    BY <2>2, <2>3, <2>4, <2>5, <2>6, <2>7, <2>8 DEF Runs, WriterStep
<1>2. Spec => [][\A a \in Actors : Said(a)]_vars
  <2> HIDE DEF Said
  <2> QED
    BY <1>1, BootInvariant, PTL DEF Spec
<1> QED
  BY <1>2 DEF SaidRepairedIsRepaired

(* What the recovery system promised is what the firmware starts next. *)
THEOREM PromisedWindowsBoots == Spec => RebootReachesWindows
<1>1. BootInv /\ [Next]_vars => [promised /\ os = "off" /\ os' # "off" => os' = "windows"]_vars
  <2> SUFFICES ASSUME BootInv, Next, promised, os = "off", os' # "off"
               PROVE  os' = "windows"
    OBVIOUS
  <2>1. TypeOK /\ bootNext \in Ids /\ nv[bootNext] = "windows"
        /\ \A a \in Actors : job[a].pc = "idle"
    BY DEF BootInv, PromiseStands, Entries, GoodRuns, GoodRun
  <2>2. Boot
    BY DEF Next, StartAgent, StartWriter, StartTask, StartSetup, Start, Runs,
           Fails, ReadAndPlan, Bcdedit, WriterStep, WriterReads, EnsureRecovery,
           EnsureDirect, WriteOrder, ReadFails, BcdeditFails, WriterFails,
           ClearBootNext, SetBootNext, PowerOff, Outside, ToggleBitLocker
  <2>3. bootNext # NoId /\ nv[bootNext] # "free"
    BY <2>1, IdsAssumption
  <2>4. os' \in Starts(nv[bootNext])
    BY <2>2, <2>3 DEF Boot
  <2> QED
    BY <2>1, <2>4 DEF Starts
<1> QED
  BY <1>1, BootInvariant, PTL DEF Spec, RebootReachesWindows
=============================================================================
