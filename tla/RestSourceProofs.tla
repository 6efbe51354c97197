-------------------------- MODULE RestSourceProofs --------------------------
(* Proofs about the pages of an incremental read.                            *)
EXTENDS RestSource, FiniteSetTheorems, WellFoundedInduction, TLAPS

-----------------------------------------------------------------------------
(* The first members of a finite set, in an order.                           *)

Before(f, S, i) == {j \in S : f[j] < f[i]}
First(f, S, n) == {i \in S : Cardinality(Before(f, S, i)) < n}

(* The members of S have numbers of their own.                               *)
Numbered(f, S) ==
    /\ IsFiniteSet(S)
    /\ \A i \in S : f[i] \in Nat
    /\ \A i, j \in S : f[i] = f[j] => i = j

(* What is before a member is counted.                                       *)
LEMMA BeforeCount ==
    ASSUME NEW f, NEW S, Numbered(f, S)
    PROVE  /\ \A i : IsFiniteSet(Before(f, S, i)) /\ Cardinality(Before(f, S, i)) \in Nat
           /\ \A n : IsFiniteSet(First(f, S, n)) /\ Cardinality(First(f, S, n)) \in Nat
           /\ Cardinality(S) \in Nat
<1>1. \A T \in SUBSET S : IsFiniteSet(T) /\ Cardinality(T) \in Nat
  BY FS_Subset, FS_CardinalityType DEF Numbered
<1>2. \A i : Before(f, S, i) \in SUBSET S
  BY DEF Before
<1>3. \A n : First(f, S, n) \in SUBSET S
  BY DEF First
<1> QED  BY <1>1, <1>2, <1>3

(* A set of natural numbers has a least one.                                 *)
LEMMA LeastExists ==
    ASSUME NEW T, T \subseteq Nat, T # {}
    PROVE  \E x \in T : \A y \in T : x <= y
<1>1. PICK x \in T : \A y \in T : ~(<<y, x>> \in OpToRel(<, Nat))
  BY NatLessThanWellFounded, WFMin
<1>2. \A y \in T : ~(y < x)
  BY <1>1 DEF OpToRel
<1> QED  BY <1>2

(* A set of members has a first one.                                         *)
LEMMA FirstExists ==
    ASSUME NEW f, NEW S, Numbered(f, S), NEW R \in SUBSET S, R # {}
    PROVE  \E i \in R : \A j \in R : f[i] <= f[j]
<1> DEFINE T == {f[i] : i \in R}
<1>1. T \subseteq Nat /\ T # {}
  BY DEF Numbered
<1>2. PICK x \in T : \A y \in T : x <= y
  <2> HIDE DEF T
  <2> QED  BY <1>1, LeastExists
<1>3. PICK i \in R : x = f[i]
  OBVIOUS
<1>4. \A j \in R : f[j] \in T
  OBVIOUS
<1> QED  BY <1>2, <1>3, <1>4

(* What is before one of the first members is one of them.                   *)
LEMMA FirstDown ==
    ASSUME NEW f, NEW S, Numbered(f, S), NEW n \in Nat,
           NEW j \in First(f, S, n), NEW i \in S, f[i] <= f[j]
    PROVE  i \in First(f, S, n)
<1>1. f[i] \in Nat /\ f[j] \in Nat /\ \A k \in S : f[k] \in Nat
  BY DEF Numbered, First
<1>2. Before(f, S, i) \in SUBSET Before(f, S, j)
  BY <1>1 DEF Before
<1>3. Cardinality(Before(f, S, i)) <= Cardinality(Before(f, S, j))
  BY <1>2, BeforeCount, FS_Subset
<1>4. Cardinality(Before(f, S, j)) < n
  BY DEF First
<1>5. Cardinality(Before(f, S, i)) \in Nat /\ Cardinality(Before(f, S, j)) \in Nat
  BY BeforeCount
<1> QED  BY <1>3, <1>4, <1>5 DEF First

(* All members are among the first if there are no more.                     *)
LEMMA FirstAll ==
    ASSUME NEW f, NEW S, Numbered(f, S), NEW n \in Nat, Cardinality(S) <= n
    PROVE  First(f, S, n) = S
<1>1. ASSUME NEW i \in S  PROVE  Cardinality(Before(f, S, i)) < n
  <2>1. Before(f, S, i) \in SUBSET (S \ {i})
    BY DEF Before, Numbered
  <2>2. IsFiniteSet(S \ {i}) /\ Cardinality(S \ {i}) = Cardinality(S) - 1
    BY FS_RemoveElement DEF Numbered
  <2>3. Cardinality(Before(f, S, i)) <= Cardinality(S \ {i})
    BY <2>1, <2>2, FS_Subset
  <2> QED  BY <2>2, <2>3, BeforeCount
<1> QED  BY <1>1 DEF First

(* One more.                                                                 *)
LEMMA FirstNext ==
    ASSUME NEW f, NEW S, Numbered(f, S), NEW n \in Nat,
           Cardinality(First(f, S, n)) = n, n < Cardinality(S)
    PROVE  Cardinality(First(f, S, n + 1)) = n + 1
<1> DEFINE F == First(f, S, n)
<1>0. \A k \in S : f[k] \in Nat
  BY DEF Numbered
<1>1. S \ F # {} /\ F \subseteq S
  BY BeforeCount DEF First
<1>2. PICK x \in S \ F : \A j \in S \ F : f[x] <= f[j]
  BY <1>1, FirstExists
<1>3. \A j \in F : f[j] < f[x]
  <2>1. ASSUME NEW j \in F, f[x] <= f[j]  PROVE  FALSE
    BY <1>2, <2>1, FirstDown
  <2> QED  BY <1>0, <1>1, <1>2, <2>1
<1>4. Before(f, S, x) = F
  <2>1. Before(f, S, x) \subseteq F
    BY <1>0, <1>2 DEF Before
  <2>2. F \subseteq Before(f, S, x)
    BY <1>1, <1>3 DEF Before
  <2> QED  BY <2>1, <2>2
<1>5. x \in First(f, S, n + 1)
  BY <1>2, <1>4 DEF First
<1>6. F \subseteq First(f, S, n + 1)
  <2>1. \A i \in S : Cardinality(Before(f, S, i)) \in Nat
    BY BeforeCount
  <2> QED  BY <2>1 DEF First
<1>7. ASSUME NEW y \in S \ F, y # x  PROVE  y \notin First(f, S, n + 1)
  <2>1. f[x] < f[y]
    BY <1>0, <1>2, <1>7 DEF Numbered
  <2>2. F \union {x} \in SUBSET Before(f, S, y)
    BY <1>0, <1>1, <1>2, <1>3, <2>1 DEF Before
  <2>3. Cardinality(F \union {x}) = n + 1
    BY <1>2, BeforeCount, FS_AddElement
  <2>4. n + 1 <= Cardinality(Before(f, S, y))
    BY <2>2, <2>3, BeforeCount, FS_Subset
  <2>5. Cardinality(Before(f, S, y)) \in Nat
    BY BeforeCount
  <2> QED  BY <2>4, <2>5 DEF First
<1>8. First(f, S, n + 1) \subseteq S
  BY DEF First
<1>9. First(f, S, n + 1) = F \union {x}
  <2> HIDE DEF F
  <2> QED  BY <1>2, <1>5, <1>6, <1>7, <1>8
<1> QED  BY <1>2, <1>9, BeforeCount, FS_AddElement

(* There are as many first members as asked for, if there are that many.     *)
LEMMA FirstCount ==
    ASSUME NEW f, NEW S, Numbered(f, S), NEW n \in Nat, n <= Cardinality(S)
    PROVE  Cardinality(First(f, S, n)) = n
<1> DEFINE Bad == {m \in Nat : m <= Cardinality(S) /\ Cardinality(First(f, S, m)) # m}
<1>1. SUFFICES ASSUME Bad # {}  PROVE  FALSE
  OBVIOUS
<1>2. PICK m \in Bad : \A k \in Bad : m <= k
  <2>1. Bad \subseteq Nat
    OBVIOUS
  <2> HIDE DEF Bad
  <2> QED  BY <1>1, <2>1, LeastExists
<1>3. m # 0
  <2>1. First(f, S, 0) = {}
    BY BeforeCount DEF First
  <2> QED  BY <2>1, FS_EmptySet
<1>4. m - 1 \in Nat /\ m - 1 \notin Bad
  BY <1>2, <1>3
<1>5. Cardinality(First(f, S, m - 1)) = m - 1 /\ m - 1 < Cardinality(S)
  BY <1>4, BeforeCount
<1>6. Cardinality(First(f, S, (m - 1) + 1)) = (m - 1) + 1
  BY <1>4, <1>5, FirstNext
<1> QED  BY <1>6

(* The size of the first part.                                               *)
LEMMA FirstSize ==
    ASSUME NEW f, NEW S, Numbered(f, S), NEW n \in Nat
    PROVE  /\ Cardinality(First(f, S, n)) <= n
           /\ Cardinality(First(f, S, n)) < n => First(f, S, n) = S
           /\ S # {} /\ n > 0 => First(f, S, n) # {}
<1>0. Cardinality(S) \in Nat
  BY BeforeCount
<1>1. CASE n <= Cardinality(S)
  <2>1. Cardinality(First(f, S, n)) = n
    BY <1>1, FirstCount
  <2> QED  BY <2>1, FS_EmptySet
<1>2. CASE Cardinality(S) < n
  BY <1>0, <1>2, FirstAll
<1> QED  BY <1>0, <1>1, <1>2

(* More members are among the first the more are asked for.                  *)
LEMMA FirstMore ==
    ASSUME NEW f, NEW S, Numbered(f, S), NEW m \in Nat, NEW n \in Nat, m <= n
    PROVE  First(f, S, m) \subseteq First(f, S, n)
<1>1. \A i : Cardinality(Before(f, S, i)) \in Nat
  BY BeforeCount
<1> QED  BY <1>1 DEF First

(* Two sets that have no member in common.                                   *)
LEMMA DisjointCount ==
    ASSUME NEW S, NEW T, IsFiniteSet(S), IsFiniteSet(T), S \intersect T = {}
    PROVE  Cardinality(S \union T) = Cardinality(S) + Cardinality(T)
<1>1. Cardinality(S) \in Nat /\ Cardinality(T) \in Nat
  BY FS_CardinalityType
<1>2. Cardinality(S \intersect T) = 0
  BY FS_EmptySet
<1>3. Cardinality(S \union T) =
         Cardinality(S) + Cardinality(T) - Cardinality(S \intersect T)
  BY FS_Union
<1> QED  BY <1>1, <1>2, <1>3

(* The first m + n are the first m and the first n of the rest.              *)
LEMMA FirstRest ==
    ASSUME NEW f, NEW S, Numbered(f, S), NEW m \in Nat, NEW n \in Nat
    PROVE  LET F == First(f, S, m)
               R == S \ F
           IN  /\ Numbered(f, R)
               /\ First(f, S, m + n) \subseteq F \union First(f, R, n)
               /\ m <= Cardinality(S) => m + Cardinality(First(f, R, n)) <= Cardinality(S)
<1> DEFINE F == First(f, S, m)
           R == S \ F
<1>0. \A k \in S : f[k] \in Nat
  BY DEF Numbered
<1>1. Numbered(f, R)
  BY FS_Subset DEF Numbered
<1>2. F \subseteq S
  BY DEF First
<1>3. ASSUME NEW i \in First(f, S, m + n), i \notin F  PROVE  i \in First(f, R, n)
  <2>1. i \in S /\ Cardinality(Before(f, S, i)) < m + n
        /\ ~(Cardinality(Before(f, S, i)) < m)
    BY <1>3 DEF First
  <2>2. \A j \in F : f[j] < f[i]
    <3>1. ASSUME NEW j \in F, f[i] <= f[j]  PROVE  FALSE
      BY <1>3, <2>1, <3>1, FirstDown
    <3> QED  BY <1>0, <1>2, <2>1, <3>1
  <2>3. Before(f, S, i) = F \union Before(f, R, i) /\ F \intersect Before(f, R, i) = {}
    <3>1. Before(f, S, i) \subseteq F \union Before(f, R, i)
      BY DEF Before
    <3>2. F \subseteq Before(f, S, i)
      BY <1>2, <2>2 DEF Before
    <3>3. Before(f, R, i) \subseteq Before(f, S, i) /\ F \intersect Before(f, R, i) = {}
      BY DEF Before
    <3> QED  BY <3>1, <3>2, <3>3
  <2>4. Cardinality(F) = m
    <3>1. Cardinality(Before(f, S, i)) <= Cardinality(S)
      <4>1. Before(f, S, i) \in SUBSET S
        BY DEF Before
      <4> QED  BY <4>1, FS_Subset DEF Numbered
    <3>2. m <= Cardinality(S)
      BY <2>1, <3>1, BeforeCount
    <3> QED  BY <3>2, FirstCount
  <2>5. Cardinality(Before(f, S, i)) = Cardinality(F) + Cardinality(Before(f, R, i))
    <3>1. IsFiniteSet(F) /\ IsFiniteSet(Before(f, R, i))
      BY <1>1, BeforeCount
    <3>2. Cardinality(Before(f, R, i)) \in Nat
      BY <1>1, BeforeCount
    <3> HIDE DEF F, R
    <3> QED  BY <2>3, <3>1, DisjointCount
  <2>6. Cardinality(Before(f, R, i)) \in Nat
    BY <1>1, BeforeCount
  <2>7. Cardinality(Before(f, R, i)) < n
    BY <2>1, <2>4, <2>5, <2>6
  <2> QED  BY <1>3, <2>1, <2>7 DEF First
<1>4. ASSUME m <= Cardinality(S)
      PROVE  m + Cardinality(First(f, R, n)) <= Cardinality(S)
  <2>1. Cardinality(F) = m
    BY <1>4, FirstCount
  <2>2. First(f, R, n) \subseteq R
    BY DEF First
  <2>3. /\ F \union First(f, R, n) \in SUBSET S
        /\ F \intersect First(f, R, n) = {}
    BY <1>2, <2>2
  <2>4. IsFiniteSet(F) /\ IsFiniteSet(First(f, R, n)) /\ Cardinality(First(f, R, n)) \in Nat
    BY <1>1, BeforeCount
  <2>5. Cardinality(F \union First(f, R, n)) = m + Cardinality(First(f, R, n))
    <3> HIDE DEF F, R
    <3> QED  BY <2>1, <2>3, <2>4, DisjointCount
  <2>6. Cardinality(F \union First(f, R, n)) <= Cardinality(S)
    <3> HIDE DEF F, R
    <3> QED  BY <2>3, FS_Subset DEF Numbered
  <2> QED  BY <2>5, <2>6
<1> QED  BY <1>1, <1>3, <1>4

(* A set of natural numbers that has a bound has a largest one.              *)
LEMMA LargestExists ==
    ASSUME NEW b \in Nat, NEW T \in SUBSET (0..b), T # {}
    PROVE  \E x \in T : \A y \in T : y <= x
<1> DEFINE U == {b - x : x \in T}
<1>1. U \subseteq Nat /\ U # {}
  <2>1. \A x \in T : x \in 0..b /\ b - x \in Nat
    OBVIOUS
  <2>2. U \subseteq Nat
    BY <2>1
  <2> QED  BY <2>2
<1>2. PICK u \in U : \A v \in U : u <= v
  <2> HIDE DEF U
  <2> QED  BY <1>1, LeastExists
<1>3. PICK x \in T : u = b - x
  OBVIOUS
<1>4. ASSUME NEW y \in T  PROVE  y <= x
  <2>1. b - y \in U
    OBVIOUS
  <2>2. b - x <= b - y
    BY <1>2, <1>3, <2>1
  <2> QED  BY <2>2
<1> QED  BY <1>4

-----------------------------------------------------------------------------
(* What an answer of the API consists of.                                    *)

(* A record that exists has a change and a cursor; later changes have later  *)
(* cursors.                                                                  *)
LEMMA CursorFacts ==
    ASSUME RestTypeOK, ApiInv
    PROVE  /\ Len(stamp) \in 0..MaxChanges /\ Last \in 0..MaxChanges /\ Last <= Len(stamp)
           /\ \A i \in Records : change[i] \in 0..Len(stamp)
           /\ \A i \in Records : change[i] # 0 => Cursor(i) \in 1..MaxChanges /\ Cursor(i) <= Last
           /\ \A i, j \in Records : change[i] # 0 /\ change[j] # 0 /\ change[i] <= change[j]
                 => Cursor(i) <= Cursor(j)
<1> USE DEF RestTypeOK, ApiInv
<1>1. Len(stamp) \in 0..MaxChanges
  BY RestAssumption
<1>2. \A n \in 1..Len(stamp) : stamp[n] \in 1..MaxChanges
  BY RestAssumption
<1>3. stamp # <<>> => Len(stamp) \in 1..Len(stamp)
  BY <1>1
<1>4. stamp = <<>> => Len(stamp) = 0
  OBVIOUS
<1>5. Last \in 0..MaxChanges /\ Last <= Len(stamp)
  BY <1>1, <1>2, <1>3, <1>4, RestAssumption DEF Last
<1>6. \A i \in Records : change[i] \in 0..Len(stamp)
  BY <1>1, RestAssumption
<1>7. \A i \in Records : change[i] # 0 => change[i] \in 1..Len(stamp) /\ change[i] <= Len(stamp)
  BY <1>1, <1>6
<1>8. ASSUME NEW i \in Records, change[i] # 0
      PROVE  Cursor(i) \in 1..MaxChanges /\ Cursor(i) <= Last
  <2>1. change[i] \in 1..Len(stamp) /\ stamp # <<>>
    BY <1>4, <1>7, <1>8
  <2> QED  BY <1>2, <1>3, <1>7, <1>8, <2>1 DEF Cursor, Last
<1>9. \A i, j \in Records : change[i] # 0 /\ change[j] # 0 /\ change[i] <= change[j]
         => Cursor(i) <= Cursor(j)
  BY <1>7 DEF Cursor
<1> QED  BY <1>1, <1>5, <1>6, <1>8, <1>9

(* The place of the next request, for a paginator that counts.               *)
Position == IF cfg.paginator = "page_number" THEN request * PageSize ELSE request

(* A page is the first part of what is left, and what is left is what is     *)
(* matched after the position or the token.                                  *)
LEMMA PageFacts ==
    ASSUME RestTypeOK, ApiInv
    PROVE  /\ Numbered(change, Matching) /\ Numbered(change, Remaining)
           /\ Matching \subseteq Records /\ Remaining \subseteq Matching /\ Page \subseteq Remaining
           /\ Page = First(change, Remaining, PageSize)
           /\ Keyset => Remaining = {i \in Matching : change[i] > request}
           /\ ~Keyset => Remaining = Matching \ First(change, Matching, Position)
           /\ Cardinality(Page) \in Nat /\ Cardinality(Page) <= PageSize
           /\ Cardinality(Page) < PageSize => Page = Remaining
           /\ Remaining # {} => Page # {}
<1>1. Matching \subseteq Records /\ Remaining \subseteq Matching /\ Page \subseteq Remaining
  BY DEF Matching, Remaining, Page, FirstOf
<1>2. Numbered(change, Matching)
  <2>1. IsFiniteSet(Matching)
    BY <1>1, RestAssumption, FS_Subset
  <2>2. \A i \in Matching : change[i] \in Nat /\ change[i] # 0
    BY <1>1, RestAssumption DEF RestTypeOK, Matching
  <2> QED  BY <1>1, <2>1, <2>2 DEF Numbered, ApiInv
<1>3. Numbered(change, Remaining)
  BY <1>1, <1>2, FS_Subset DEF Numbered
<1>4. Page = First(change, Remaining, PageSize)
  BY DEF Page, FirstOf, First, Before
<1>5. Keyset => Remaining = {i \in Matching : change[i] > request}
  BY DEF Remaining
<1>6. ~Keyset => Remaining = Matching \ First(change, Matching, Position)
  BY DEF Remaining, FirstOf, First, Before, Position
<1>7. PageSize \in Nat /\ PageSize > 0
  BY RestAssumption
<1>8. /\ Cardinality(Page) <= PageSize
      /\ Cardinality(Page) < PageSize => Page = Remaining
      /\ Remaining # {} => Page # {}
  BY <1>3, <1>4, <1>7, FirstSize
<1>9. Cardinality(Page) \in Nat
  BY <1>3, <1>4, <1>7, BeforeCount
<1> QED  BY <1>1, <1>2, <1>3, <1>4, <1>5, <1>6, <1>8, <1>9

(* max_cursor becomes the largest of its value and the cursors of the page.  *)
LEMMA LargestIs ==
    ASSUME RestTypeOK, ApiInv
    PROVE  /\ Largest = max_cursor \/ \E i \in Page : Largest = Cursor(i)
           /\ max_cursor <= Largest
           /\ Largest \in 0..MaxChanges
           /\ max_cursor <= Last => Largest <= Last
<1> DEFINE cursors == {Cursor(i) : i \in Page} \union {max_cursor}
<1>0. MaxChanges \in Nat /\ max_cursor \in 0..MaxChanges
  BY RestAssumption DEF RestTypeOK
<1>1. \A i \in Page : Cursor(i) \in 0..MaxChanges /\ Cursor(i) <= Last
  <2>1. \A i \in Page : i \in Records /\ change[i] # 0
    BY PageFacts DEF Matching
  <2> QED  BY <1>0, <2>1, CursorFacts
<1>2. cursors \in SUBSET (0..MaxChanges) /\ cursors # {} /\ max_cursor \in cursors
  BY <1>0, <1>1
<1>3. \E c \in cursors : \A d \in cursors : d <= c
  <2> HIDE DEF cursors
  <2> QED  BY <1>0, <1>2, LargestExists
<1>4. Largest = CHOOSE c \in cursors : \A d \in cursors : d <= c
  BY DEF Largest
<1>5. Largest \in cursors /\ \A d \in cursors : d <= Largest
  <2> HIDE DEF cursors
  <2> QED  BY <1>3, <1>4
<1>6. Largest = max_cursor \/ \E i \in Page : Largest = Cursor(i)
  BY <1>5
<1>7. max_cursor <= Largest /\ Largest \in 0..MaxChanges
  <2> HIDE DEF cursors
  <2> QED  BY <1>2, <1>5
<1> QED  BY <1>1, <1>6, <1>7

(* The token of the next page is the last record of this one.                *)
LEMMA NextTokenIs ==
    ASSUME RestTypeOK, ApiInv, Page # Remaining
    PROVE  /\ \E i \in Page : NextToken = change[i]
           /\ \A i \in Page : change[i] <= NextToken
           /\ NextToken \in Nat /\ NextToken <= Len(stamp)
<1> DEFINE numbers == {change[i] : i \in Page}
<1>1. \A i \in Page : change[i] \in 0..Len(stamp)
  BY PageFacts, CursorFacts
<1>2. Page # {}
  BY PageFacts
<1>3. Len(stamp) \in Nat /\ numbers \in SUBSET (0..Len(stamp)) /\ numbers # {}
  BY <1>1, <1>2, CursorFacts
<1>4. \E n \in numbers : \A d \in numbers : d <= n
  <2> HIDE DEF numbers
  <2> QED  BY <1>3, LargestExists
<1>5. \E n \in numbers : \A i \in Page : change[i] <= n
  BY <1>4
<1>6. NextToken = CHOOSE n \in numbers : \A i \in Page : change[i] <= n
  BY DEF NextToken
<1>7. NextToken \in numbers /\ \A i \in Page : change[i] <= NextToken
  <2> HIDE DEF numbers
  <2> QED  BY <1>5, <1>6
<1> QED  BY <1>1, <1>3, <1>7

-----------------------------------------------------------------------------
(* The steps of a read.                                                      *)

(* The five steps that fetch a page do the same with it, and go on or finish *)
(* by what the paginator says.                                               *)
Fetched(early) ==
    /\ pc = "read" /\ pages_fetched < cfg.max_pages
    /\ UNCHANGED <<cfg, api, current_cursor, asOf, stored>>
    /\ Yield
    /\ \/ seen' = seen
       \/ Keyset /\ seen' = seen \union {request}
    /\ faults' \in {faults, faults + 1} /\ faults' \in 0..MaxFaults
    /\ \/ Finish(early) /\ (early \/ Page = Remaining)
       \/ cfg.paginator = "page_number" /\ GoOn(request + 1)
       \/ cfg.paginator = "offset" /\ Cardinality(Page) = PageSize /\ GoOn(request + PageSize)
       \/ Keyset /\ Page # Remaining /\ GoOn(NextToken)

Fetches == \/ FetchSinglePage \/ FetchPageNumber \/ FetchOffset \/ FetchToken
           \/ FetchLoop

LEMMA FetchedIs ==
    ASSUME RestTypeOK, ApiInv, Fetches
    PROVE  \E early \in BOOLEAN : Fetched(early)
<1>0. faults \in 0..MaxFaults /\ (faults < MaxFaults => faults + 1 \in 0..MaxFaults)
  BY RestAssumption DEF RestTypeOK
<1>1. CASE FetchSinglePage
  <2>1. (Page # Remaining) \in BOOLEAN /\ (Page # Remaining \/ Page = Remaining)
    OBVIOUS
  <2>2. Fetched(Page # Remaining)
    BY <1>0, <1>1, <2>1 DEF FetchSinglePage, Fetching, MayFetch, Fetched
  <2> QED  BY <2>1, <2>2
<1>2. CASE FetchPageNumber
  <2>1. Page = {} => Page = Remaining
    BY PageFacts
  <2>2. Fetched(FALSE)
    BY <1>0, <1>2, <2>1 DEF FetchPageNumber, Fetching, MayFetch, Fetched
  <2> QED  BY <2>2
<1>3. CASE FetchOffset
  <2>1. /\ LastPage => Page = Remaining
        /\ ~LastPage => Cardinality(Page) = PageSize
    BY PageFacts, RestAssumption DEF LastPage
  <2>2. Fetched(FALSE)
    BY <1>0, <1>3, <2>1 DEF FetchOffset, Fetching, MayFetch, Fetched
  <2> QED  BY <2>2
<1>4. CASE FetchToken
  <2>1. Fetched(FALSE)
    BY <1>0, <1>4 DEF FetchToken, Fetching, MayFetch, Fetched, Keyset
  <2> QED  BY <2>1
<1>5. CASE FetchLoop
  <2>1. (Page # Remaining) \in BOOLEAN /\ (Page # Remaining \/ Page = Remaining)
    OBVIOUS
  <2>2. Fetched(Page # Remaining)
    BY <1>0, <1>5, <2>1 DEF FetchLoop, Fetching, MayFetch, Fetched, Keyset
  <2> QED  BY <2>1, <2>2
<1> QED  BY <1>1, <1>2, <1>3, <1>4, <1>5 DEF Fetches

(* The kinds of steps.                                                       *)
LEMMA StepCases ==
    ASSUME RestTypeOK, ApiInv, [Next]_vars
    PROVE  \/ UNCHANGED vars
           \/ Begin
           \/ \E early \in BOOLEAN : Fetched(early)
           \/ StopAtMaxPages
           \/ Commit
           \/ Store
           \/ Fails
           \/ \E i \in Records : \E c \in {Last, Last + 1} : Change(i, c)
BY FetchedIs DEF Next, Step, Fetches

(* A record changes: it is the last one, and its cursor is not before the    *)
(* others'.                                                                  *)
LEMMA ChangeIs ==
    ASSUME RestTypeOK, ApiInv, NEW x \in Records, NEW c, Change(x, c)
    PROVE  /\ Len(stamp) + 1 \in 1..MaxChanges
           /\ c \in 1..MaxChanges /\ c >= Last /\ c <= Len(stamp) + 1
           /\ stamp' \in Seq(1..MaxChanges) /\ Len(stamp') = Len(stamp) + 1
           /\ \A n \in 1..Len(stamp) : stamp'[n] = stamp[n]
           /\ stamp'[Len(stamp) + 1] = c
           /\ Last' = c
           /\ change' \in [Records -> 0..MaxChanges]
           /\ change'[x] = Len(stamp) + 1
           /\ Cursor(x)' = c
           /\ \A i \in Records \ {x} : change'[i] = change[i]
           /\ \A i \in Records \ {x} : change[i] # 0 => Cursor(i)' = Cursor(i)
<1>1. /\ Len(stamp) \in 0..MaxChanges /\ Last \in 0..MaxChanges /\ Last <= Len(stamp)
      /\ MaxChanges \in Nat
      /\ \A i \in Records : change[i] \in 0..Len(stamp)
  BY CursorFacts, RestAssumption
<1>2. Len(stamp) < MaxChanges /\ c \in {Last, Last + 1} \ {0} /\ stamp' = Append(stamp, c)
      /\ change' = [change EXCEPT ![x] = Len(stamp) + 1]
  BY DEF Change
<1>3. Len(stamp) + 1 \in 1..MaxChanges
  BY <1>1, <1>2
<1>4. c \in 1..MaxChanges /\ c >= Last /\ c <= Len(stamp) + 1
  BY <1>1, <1>2
<1>5. stamp \in Seq(1..MaxChanges) /\ change \in [Records -> 0..MaxChanges]
  BY DEF RestTypeOK
<1>6. /\ stamp' \in Seq(1..MaxChanges) /\ Len(stamp') = Len(stamp) + 1
      /\ \A n \in 1..Len(stamp) : stamp'[n] = stamp[n]
      /\ stamp'[Len(stamp) + 1] = c
  BY <1>2, <1>4, <1>5
<1>7. stamp' # <<>>
  BY <1>1, <1>6
<1>8. Last' = c
  BY <1>6, <1>7 DEF Last
<1>9. change' \in [Records -> 0..MaxChanges]
  BY <1>2, <1>3, <1>5
<1>10. change'[x] = Len(stamp) + 1
  BY <1>2, <1>5
<1>11. \A i \in Records \ {x} : change'[i] = change[i]
  BY <1>2, <1>5
<1>12. \A i \in Records \ {x} : change[i] # 0 => Cursor(i)' = Cursor(i)
  <2>1. \A i \in Records : change[i] # 0 => change[i] \in 1..Len(stamp)
    BY <1>1
  <2> QED  BY <1>6, <1>11, <2>1 DEF Cursor
<1>13. Cursor(x)' = c
  BY <1>6, <1>10 DEF Cursor
<1> QED  BY <1>3, <1>4, <1>6, <1>8, <1>9, <1>10, <1>11, <1>12, <1>13

-----------------------------------------------------------------------------
(* Type correctness.                                                         *)

(* What a page does to the rows yielded and the watermark in hand.           *)
LEMMA YieldIs ==
    ASSUME RestTypeOK, ApiInv, Yield
    PROVE  /\ got' \in [Records -> 0..MaxChanges]
           /\ \A i \in Page : got'[i] = change[i]
           /\ \A i \in Records \ Page : got'[i] = got[i]
           /\ max_cursor' = Largest /\ max_cursor' \in 0..MaxChanges
<1>1. Page \subseteq Records
  BY PageFacts
<1>2. \A i \in Records : (IF i \in Page THEN change[i] ELSE got[i]) \in 0..MaxChanges
  BY DEF RestTypeOK
<1>3. got' = [i \in Records |-> IF i \in Page THEN change[i] ELSE got[i]]
  BY DEF Yield
<1>4. max_cursor' = Largest /\ Largest \in 0..MaxChanges
  BY LargestIs DEF Yield, Furthest
<1> QED  BY <1>1, <1>2, <1>3, <1>4

(* A request further on is a number, and a token is a change made.           *)
LEMMA RequestIs ==
    ASSUME RestTypeOK, ApiInv, MarkInv, pc = "read", NEW early \in BOOLEAN, Fetched(early)
    PROVE  /\ request' \in Nat
           /\ Keyset => request' <= Len(stamp)
           /\ seen' \subseteq 0..MaxChanges
           /\ pages_fetched' \in 0..cfg.max_pages
           /\ pc' \in {"read", "commit"}
<1>0. request \in Nat /\ PageSize \in Nat /\ Len(stamp) \in 0..MaxChanges
      /\ MaxChanges \in Nat
  BY CursorFacts, RestAssumption DEF RestTypeOK
<1>1. cfg.max_pages \in Nat
  BY RestAssumption DEF RestTypeOK
<1>2. Keyset => request <= Len(stamp)
  BY DEF MarkInv
<1>3. Page # Remaining => NextToken \in Nat /\ NextToken <= Len(stamp)
  BY NextTokenIs
<1>4. request' \in Nat
  BY <1>0, <1>3 DEF Fetched, Finish, GoOn
<1>5. Keyset => request' <= Len(stamp)
  BY <1>2, <1>3 DEF Fetched, Finish, GoOn, Keyset
<1>6. Keyset => request \in 0..MaxChanges
  BY <1>0, <1>2
<1>7. seen' \subseteq 0..MaxChanges
  BY <1>6 DEF Fetched, RestTypeOK
<1>8. pages_fetched \in 0..cfg.max_pages /\ pages_fetched < cfg.max_pages
  BY DEF Fetched, RestTypeOK
<1>9. pages_fetched + 1 \in 0..cfg.max_pages
  BY <1>1, <1>8
<1>10. pages_fetched' \in 0..cfg.max_pages
  BY <1>8, <1>9 DEF Fetched, Finish, GoOn
<1>11. pc' \in {"read", "commit"}
  BY DEF Fetched, Finish, GoOn
<1> QED  BY <1>4, <1>5, <1>7, <1>10, <1>11

(* Whatever remains of a run that is over has its type.                      *)
LEMMA OverType ==
    ASSUME RestTypeOK, Over, UNCHANGED <<cfg, api>>
    PROVE  /\ pc' = "idle"
           /\ {current_cursor', max_cursor'} \subseteq 0..MaxChanges
           /\ request' \in Nat /\ pages_fetched' \in 0..cfg'.max_pages
           /\ seen' \subseteq 0..MaxChanges /\ got' \in [Records -> 0..MaxChanges]
           /\ asOf' \in 0..Len(stamp') /\ cut' \in BOOLEAN
<1>1. MaxChanges \in Nat /\ cfg.max_pages \in Nat /\ Len(stamp) \in Nat
  BY RestAssumption DEF RestTypeOK
<1>2. 0 \in 0..MaxChanges /\ 0 \in 0..cfg.max_pages /\ 0 \in 0..Len(stamp) /\ 0 \in Nat
  BY <1>1
<1>3. Nothing \in [Records -> 0..MaxChanges]
  BY <1>2 DEF Nothing
<1> QED  BY <1>2, <1>3 DEF Over, api

LEMMA TypeStep ==
    ASSUME RestTypeOK, ApiInv, MarkInv, [Next]_vars
    PROVE  RestTypeOK'
<1> USE DEF RestTypeOK
<1>0. MaxChanges \in Nat /\ cfg.max_pages \in Nat /\ Len(stamp) \in Nat
  BY RestAssumption
<1>1. CASE UNCHANGED vars
  BY <1>1 DEF vars, api, reading, stored
<1>2. CASE Begin
  <2>1. /\ 0 \in 0..MaxChanges /\ 0 \in 0..cfg.max_pages
        /\ Len(stamp) \in 0..Len(stamp) /\ 0 \in Nat
    BY <1>0
  <2>2. Nothing \in [Records -> 0..MaxChanges]
    BY <2>1 DEF Nothing
  <2> QED  BY <1>2, <2>1, <2>2 DEF Begin, api, stored
<1>3. ASSUME NEW early \in BOOLEAN, Fetched(early)  PROVE  RestTypeOK'
  <2>1. pc = "read"
    BY <1>3 DEF Fetched
  <2>2. /\ request' \in Nat /\ seen' \subseteq 0..MaxChanges
        /\ pages_fetched' \in 0..cfg.max_pages /\ pc' \in {"read", "commit"}
    BY <1>3, <2>1, RequestIs
  <2>3. got' \in [Records -> 0..MaxChanges] /\ max_cursor' \in 0..MaxChanges
    BY <1>3, YieldIs DEF Fetched
  <2>4. cut' \in BOOLEAN
    BY <1>3 DEF Fetched, Finish, GoOn
  <2>5. faults' \in 0..MaxFaults
    BY <1>3 DEF Fetched
  <2>6. UNCHANGED <<cfg, change, stamp, current_cursor, asOf, landed, cursor_value>>
    BY <1>3 DEF Fetched, api, stored
  <2> QED  BY <2>2, <2>3, <2>4, <2>5, <2>6
<1>4. CASE StopAtMaxPages
  BY <1>4 DEF StopAtMaxPages, Finish, api, stored
<1>5. CASE Commit
  <2>1. \A i \in Records : (IF got[i] # 0 THEN got[i] ELSE landed[i]) \in 0..MaxChanges
    OBVIOUS
  <2>2. landed' \in [Records -> 0..MaxChanges]
    BY <1>5, <2>1 DEF Commit
  <2> QED  BY <1>5, <2>2 DEF Commit, api, reading
<1>6. CASE Store
  <2>1. UNCHANGED <<cfg, api, landed, faults>> /\ cursor_value' = max_cursor
    BY <1>6 DEF Store
  <2> QED  BY <1>6, <2>1, OverType DEF Store, api
<1>7. CASE Fails
  <2>1. faults' \in 0..MaxFaults
    BY <1>7, RestAssumption DEF Fails
  <2>2. UNCHANGED <<cfg, api, stored>>
    BY <1>7 DEF Fails
  <2> QED  BY <1>7, <2>1, <2>2, OverType DEF Fails, api, stored
<1>8. ASSUME NEW x \in Records, NEW c, Change(x, c)  PROVE  RestTypeOK'
  <2>1. /\ stamp' \in Seq(1..MaxChanges) /\ Len(stamp') = Len(stamp) + 1
        /\ change' \in [Records -> 0..MaxChanges] /\ Len(stamp) + 1 \in 1..MaxChanges
    BY <1>8, ChangeIs
  <2>2. asOf \in 0..Len(stamp) + 1 /\ Len(stamp') <= MaxChanges
    BY <1>0, <2>1
  <2>3. UNCHANGED <<cfg, pc, reading, stored, faults>>
    BY <1>8 DEF Change
  <2> QED  BY <2>1, <2>2, <2>3 DEF reading, stored
<1> QED  BY <1>1, <1>2, <1>3, <1>4, <1>5, <1>6, <1>7, <1>8, StepCases

(* Changes stay numbered in the order of their cursors.                      *)
LEMMA ApiStep ==
    ASSUME RestTypeOK, ApiInv, [Next]_vars
    PROVE  ApiInv'
<1>1. CASE UNCHANGED api
  BY <1>1 DEF ApiInv, api
<1>2. ASSUME NEW x \in Records, NEW c, Change(x, c)  PROVE  ApiInv'
  <2> DEFINE n == Len(stamp)
  <2>1. /\ n + 1 \in 1..MaxChanges /\ Len(stamp') = n + 1
        /\ c \in 1..MaxChanges /\ c >= Last /\ c <= n + 1
        /\ \A m \in 1..n : stamp'[m] = stamp[m]
        /\ stamp'[n + 1] = c
        /\ change'[x] = n + 1
        /\ \A i \in Records \ {x} : change'[i] = change[i]
    BY <1>2, ChangeIs
  <2>2. n \in Nat /\ \A i \in Records : change[i] \in 0..n
    BY CursorFacts
  <2>3. \A i \in Records : change'[i] <= Len(stamp')
    BY <2>1, <2>2
  <2>4. \A i, j \in Records : change'[i] = change'[j] /\ change'[i] # 0 => i = j
    <3>1. \A i, j \in Records \ {x} : change[i] = change[j] /\ change[i] # 0 => i = j
      BY DEF ApiInv
    <3>2. \A i \in Records \ {x} : change'[i] # n + 1
      BY <2>1, <2>2
    <3> HIDE DEF n
    <3> QED  BY <2>1, <3>1, <3>2
  <2>5. \A m \in 1..n : stamp[m] <= Last
    <3>1. \A m \in 1..n : stamp # <<>> /\ n \in 1..n /\ m <= n
      BY <2>2
    <3> QED  BY <3>1 DEF ApiInv, Last
  <2>6. \A m \in 1..n : stamp[m] \in 1..MaxChanges
    BY <2>2, RestAssumption, SMTT(20) DEF RestTypeOK
  <2>7. Last \in 0..MaxChanges /\ MaxChanges \in Nat
    BY CursorFacts, RestAssumption
  <2>8. \A m \in 1..n + 1 : m \in 1..n \/ m = n + 1
    BY <2>2
  <2>9. \A m, k \in 1..n + 1 : m <= k => stamp'[m] <= stamp'[k]
    <3>1. \A m \in 1..n : stamp'[m] <= c
      BY <2>1, <2>5, <2>6, <2>7
    <3>2. \A m, k \in 1..n : m <= k => stamp'[m] <= stamp'[k]
      BY <2>1 DEF ApiInv
    <3>3. \A k \in 1..n : ~(n + 1 <= k)
      BY <2>2
    <3> HIDE DEF n
    <3> QED  BY <2>1, <2>8, <3>1, <3>2, <3>3
  <2>10. \A m \in 1..n + 1 : stamp'[m] <= m
    <3>1. \A m \in 1..n : stamp[m] <= m
      BY DEF ApiInv
    <3> HIDE DEF n
    <3> QED  BY <2>1, <2>8, <3>1
  <2> HIDE DEF n
  <2> QED  BY <2>1, <2>3, <2>4, <2>9, <2>10 DEF ApiInv
<1>3. Begin \/ (\E early \in BOOLEAN : Fetched(early)) \/ StopAtMaxPages \/ Commit \/ Store
         \/ Fails \/ UNCHANGED vars => UNCHANGED api
  BY DEF Begin, Fetched, StopAtMaxPages, Commit, Store, Fails, vars
<1> QED  BY <1>1, <1>2, <1>3, StepCases

(* A watermark is never ahead of the API.                                    *)
LEMMA MarkStep ==
    ASSUME RestTypeOK, ApiInv, MarkInv, [Next]_vars
    PROVE  MarkInv'
<1>0. /\ Last \in 0..MaxChanges /\ Len(stamp) \in 0..MaxChanges /\ MaxChanges \in Nat
      /\ cursor_value \in 0..MaxChanges /\ max_cursor \in 0..MaxChanges
      /\ current_cursor \in 0..MaxChanges /\ request \in Nat
      /\ pc \in {"idle", "read", "commit", "store"}
  BY CursorFacts, RestAssumption DEF RestTypeOK
<1>1. UNCHANGED <<cfg, api>> => Last' = Last /\ Len(stamp') = Len(stamp) /\ Keyset' = Keyset
  BY DEF api, Last, Keyset
<1>2. CASE UNCHANGED vars
  BY <1>1, <1>2 DEF vars, reading, stored, MarkInv
<1>3. CASE Begin
  BY <1>0, <1>1, <1>3 DEF Begin, stored, MarkInv
<1>4. ASSUME NEW early \in BOOLEAN, Fetched(early)  PROVE  MarkInv'
  <2>1. pc = "read"
    BY <1>4 DEF Fetched
  <2>2. UNCHANGED <<cfg, api, current_cursor, stored>> /\ max_cursor' = Largest
    BY <1>4, YieldIs DEF Fetched
  <2>3. max_cursor <= Largest /\ Largest \in 0..MaxChanges /\ Largest <= Last
    BY <2>1, LargestIs DEF MarkInv
  <2>4. cursor_value <= Largest
    BY <1>0, <2>1, <2>3 DEF MarkInv
  <2>5. Keyset => request' <= Len(stamp)
    BY <1>4, <2>1, RequestIs
  <2> QED  BY <1>1, <2>1, <2>2, <2>3, <2>4, <2>5 DEF MarkInv, stored
<1>5. CASE StopAtMaxPages
  BY <1>1, <1>5 DEF StopAtMaxPages, Finish, stored, MarkInv
<1>6. CASE Commit
  BY <1>1, <1>6 DEF Commit, reading, MarkInv
<1>7. CASE Store
  BY <1>1, <1>7 DEF Store, Over, MarkInv
<1>8. CASE Fails
  BY <1>1, <1>8 DEF Fails, Over, stored, MarkInv
<1>9. ASSUME NEW x \in Records, NEW c, Change(x, c)  PROVE  MarkInv'
  <2>1. /\ c \in 1..MaxChanges /\ c >= Last /\ Last' = c /\ Len(stamp') = Len(stamp) + 1
    BY <1>9, ChangeIs
  <2>2. UNCHANGED <<cfg, pc, reading, stored>>
    BY <1>9 DEF Change
  <2>3. Keyset' = Keyset
    BY <2>2 DEF Keyset
  <2>4. \A m \in 0..MaxChanges : m <= Last => m <= c
    BY <1>0, <2>1
  <2>5. request <= Len(stamp) => request <= Len(stamp) + 1
    BY <1>0
  <2> QED  BY <1>0, <2>1, <2>2, <2>3, <2>4, <2>5 DEF MarkInv, reading, stored
<1> QED  BY <1>2, <1>3, <1>4, <1>5, <1>6, <1>7, <1>8, <1>9, StepCases

-----------------------------------------------------------------------------
(* What is yielded.                                                          *)

(* One more page.                                                            *)
LEMMA NextPage ==
    ASSUME NEW r \in Nat
    PROVE  (r + 1) * PageSize = r * PageSize + PageSize /\ r * PageSize \in Nat
BY RestAssumption

(* The next request goes on right after this page: what it leaves out is in  *)
(* the page or was left out before.                                          *)
LEMMA GoesOn ==
    ASSUME RestTypeOK, ApiInv, pc = "read", NEW early \in BOOLEAN, Fetched(early), pc' = "read",
           cfg.paginator = "single_page" => request = 0,
           cfg.paginator = "offset" => request <= Cardinality(Matching)
    PROVE  /\ Matching' = Matching
           /\ Matching \ Remaining' \subseteq Page \union (Matching \ Remaining)
           /\ cfg'.paginator = "single_page" => request' = 0
           /\ cfg'.paginator = "offset" => request' <= Cardinality(Matching')
<1>0. request \in Nat /\ PageSize \in Nat
      /\ cfg.paginator \in {"single_page", "page_number", "offset", "link", "cursor"}
  BY RestAssumption DEF RestTypeOK
<1>1. /\ UNCHANGED <<cfg, change, stamp, current_cursor>>
      /\ \/ cfg.paginator = "page_number" /\ request' = request + 1
         \/ cfg.paginator = "offset" /\ Cardinality(Page) = PageSize
            /\ request' = request + PageSize
         \/ Keyset /\ Page # Remaining /\ request' = NextToken
  BY DEF Fetched, Finish, GoOn, api
<1>2. Matching' = Matching
  BY <1>1 DEF Matching, Cursor
<1>3. /\ Keyset' => Remaining' = {i \in Matching : change[i] > request'}
      /\ ~Keyset' => Remaining' = Matching \ First(change, Matching, Position')
      /\ Keyset' = Keyset
  BY <1>1, <1>2 DEF Keyset, Remaining, FirstOf, First, Before, Position
<1>4. Numbered(change, Matching)
  BY PageFacts
<1>5. CASE cfg.paginator = "page_number" /\ request' = request + 1
  <2>1. ~Keyset /\ Position = request * PageSize /\ Position' = (request + 1) * PageSize
    BY <1>1, <1>5 DEF Keyset, Position
  <2>2. Position \in Nat /\ Position' = Position + PageSize
    BY <1>0, <2>1, NextPage
  <2>3. First(change, Matching, Position + PageSize)
           \subseteq First(change, Matching, Position) \union Page
    BY <1>0, <1>4, <2>1, <2>2, FirstRest, PageFacts
  <2>4. Matching \ Remaining' = First(change, Matching, Position')
    BY <1>3, <2>1 DEF First
  <2>5. Matching \ Remaining = First(change, Matching, Position)
    BY <2>1, PageFacts DEF First
  <2> QED  BY <1>1, <1>2, <1>5, <2>2, <2>3, <2>4, <2>5
<1>6. CASE cfg.paginator = "offset" /\ Cardinality(Page) = PageSize
           /\ request' = request + PageSize
  <2>1. ~Keyset /\ Position = request /\ Position' = request + PageSize
    BY <1>1, <1>6 DEF Keyset, Position
  <2>2. First(change, Matching, request + PageSize)
           \subseteq First(change, Matching, request) \union Page
    BY <1>0, <1>4, <2>1, FirstRest, PageFacts
  <2>3. request + Cardinality(Page) <= Cardinality(Matching)
    BY <1>0, <1>4, <1>6, <2>1, FirstRest, PageFacts
  <2>4. Matching \ Remaining' = First(change, Matching, Position')
    BY <1>3, <2>1 DEF First
  <2>5. Matching \ Remaining = First(change, Matching, Position)
    BY <2>1, PageFacts DEF First
  <2> QED  BY <1>1, <1>2, <1>6, <2>1, <2>2, <2>3, <2>4, <2>5
<1>7. CASE Keyset /\ Page # Remaining /\ request' = NextToken
  <2>1. PICK j \in Page : NextToken = change[j]
    BY <1>7, NextTokenIs
  <2>2. ASSUME NEW i \in Matching \ Remaining', i \in Remaining  PROVE  i \in Page
    <3>1. ~(change[i] > NextToken)
      BY <1>3, <1>7, <2>2
    <3>2. change[i] \in Nat /\ change[j] \in Nat
      BY <2>2, PageFacts DEF RestTypeOK, Numbered
    <3>3. change[i] <= change[j]
      BY <2>1, <3>1, <3>2
    <3>4. Numbered(change, Remaining) /\ Page = First(change, Remaining, PageSize)
      BY PageFacts
    <3> QED  BY <1>0, <2>1, <2>2, <3>3, <3>4, FirstDown
  <2>3. cfg'.paginator # "single_page" /\ cfg'.paginator # "offset"
    BY <1>1, <1>7 DEF Keyset
  <2> QED  BY <1>2, <2>2, <2>3
<1> QED  BY <1>1, <1>5, <1>6, <1>7

(* A matched record with a smaller cursor than one of the page is in it, or  *)
(* before the position of the request.                                       *)
LEMMA Smaller ==
    ASSUME RestTypeOK, ApiInv, NEW i \in Matching, NEW j \in Page, Cursor(i) < Cursor(j)
    PROVE  i \in Page \/ i \in Matching \ Remaining
<1>1. /\ Numbered(change, Remaining) /\ Page = First(change, Remaining, PageSize)
      /\ j \in Matching /\ j \in Records /\ i \in Records
  BY PageFacts
<1>2. change[i] # 0 /\ change[j] # 0 /\ change[i] \in Nat /\ change[j] \in Nat
  BY <1>1 DEF Matching, RestTypeOK
<1>3. Cursor(i) \in Nat /\ Cursor(j) \in Nat
  BY <1>1, <1>2, CursorFacts
<1>4. ~(change[j] <= change[i])
  BY <1>1, <1>2, <1>3, CursorFacts
<1>5. change[i] <= change[j]
  BY <1>2, <1>4
<1> QED  BY <1>1, <1>5, FirstDown, RestAssumption

(* Reading keeps to what it has seen.                                        *)
ReadPart ==
    pc \in {"read", "commit"} =>
       \A i \in Records :
          /\ got[i] # 0 => change[i] # 0 /\ Cursor(i) >= current_cursor
          /\ i \in Matching /\ Cursor(i) < max_cursor => got[i] = change[i]

StorePart ==
    pc = "store" =>
       \A i \in Records : change[i] # 0 /\ Cursor(i) < max_cursor => landed[i] = change[i]

(* A page yielded.                                                           *)
LEMMA ReadFetched ==
    ASSUME RestTypeOK, ApiInv, MarkInv, ReadInv, PageInv, pc = "read",
           NEW early \in BOOLEAN, Fetched(early)
    PROVE  ReadInv'
<1>1. /\ UNCHANGED <<cfg, api, current_cursor, asOf, stored>>
      /\ UNCHANGED <<change, stamp, landed, cursor_value>>
      /\ pc' \in {"read", "commit"}
  BY DEF Fetched, Finish, GoOn, api, stored
<1>2. Matching' = Matching /\ \A i : Cursor(i)' = Cursor(i)
  BY <1>1 DEF Matching, Cursor
<1>3. /\ \A i \in Page : got'[i] = change[i]
      /\ \A i \in Records \ Page : got'[i] = got[i]
      /\ max_cursor' = Largest
  BY YieldIs DEF Fetched
<1>4. Page \subseteq Matching /\ Matching \subseteq Records
  BY PageFacts
<1>5. NothingPassedOver'
  BY <1>1, <1>2 DEF ReadInv, NothingPassedOver
<1>6. ASSUME NEW i \in Records, got'[i] # 0  PROVE  change[i] # 0 /\ Cursor(i) >= current_cursor
  <2>1. CASE i \in Page
    BY <1>4, <2>1 DEF Matching
  <2>2. CASE i \notin Page
    BY <1>3, <1>6, <2>2 DEF ReadInv
  <2> QED  BY <2>1, <2>2
<1>7. ASSUME NEW i \in Matching, Cursor(i) < Largest  PROVE  got'[i] = change[i]
  <2>1. CASE i \in Page
    BY <1>3, <2>1
  <2>2. CASE i \in Matching \ Remaining
    <3>1. i \notin Page /\ got[i] = change[i]
      BY <2>2, PageFacts DEF PageInv
    <3> QED  BY <1>3, <1>4, <3>1
  <2>3. CASE i \notin Page /\ Largest = max_cursor
    BY <1>3, <1>4, <1>7, <2>3 DEF ReadInv
  <2>4. ASSUME NEW j \in Page, Largest = Cursor(j)
        PROVE  i \in Page \/ i \in Matching \ Remaining
    BY <1>7, <2>4, Smaller
  <2> QED  BY <2>1, <2>2, <2>3, <2>4, LargestIs
<1>8. ReadPart'
  BY <1>1, <1>2, <1>3, <1>6, <1>7 DEF ReadPart
<1>9. StorePart'
  BY <1>1 DEF StorePart
<1> QED  BY <1>5, <1>8, <1>9 DEF ReadInv, NothingPassedOver, ReadPart, StorePart

(* The rows land, and with them what the next filter leaves out.             *)
LEMMA ReadCommitted ==
    ASSUME RestTypeOK, ApiInv, MarkInv, ReadInv, Commit
    PROVE  ReadInv'
<1>1. /\ pc = "commit" /\ pc' = "store" /\ UNCHANGED <<change, stamp, max_cursor, cursor_value>>
      /\ \A i \in Records : landed'[i] = IF got[i] # 0 THEN got[i] ELSE landed[i]
  BY DEF Commit, api, reading
<1>2. \A i : Cursor(i)' = Cursor(i)
  BY <1>1 DEF Cursor
<1>3. current_cursor = cursor_value /\ cursor_value \in 0..MaxChanges /\ MaxChanges \in Nat
  BY <1>1, RestAssumption DEF MarkInv, RestTypeOK
<1>4. ASSUME NEW i \in Records, change[i] # 0, Cursor(i) < cursor_value
      PROVE  landed'[i] = change[i]
  <2>1. Cursor(i) \in Nat
    BY <1>4, CursorFacts
  <2>2. ~(Cursor(i) >= current_cursor)
    BY <1>3, <1>4, <2>1
  <2>3. got[i] = 0
    BY <1>1, <2>2 DEF ReadInv
  <2>4. landed[i] = change[i]
    BY <1>4 DEF ReadInv, NothingPassedOver
  <2> QED  BY <1>1, <2>3, <2>4
<1>5. ASSUME NEW i \in Records, change[i] # 0, Cursor(i) < max_cursor
      PROVE  landed'[i] = change[i]
  <2>1. CASE Cursor(i) < cursor_value
    BY <1>4, <1>5, <2>1
  <2>2. CASE ~(Cursor(i) < cursor_value)
    <3>1. Cursor(i) \in Nat
      BY <1>5, CursorFacts
    <3>2. i \in Matching
      BY <1>3, <1>5, <2>2, <3>1 DEF Matching
    <3>3. got[i] = change[i]
      BY <1>1, <1>5, <3>2 DEF ReadInv
    <3> QED  BY <1>1, <1>5, <3>3
  <2> QED  BY <2>1, <2>2
<1>6. NothingPassedOver'
  BY <1>1, <1>2, <1>4 DEF NothingPassedOver
<1>7. StorePart'
  BY <1>1, <1>2, <1>5 DEF StorePart
<1>8. ReadPart'
  BY <1>1 DEF ReadPart
<1> QED  BY <1>6, <1>7, <1>8 DEF ReadInv, NothingPassedOver, ReadPart, StorePart

(* A change is not behind any watermark.                                     *)
LEMMA ReadChanged ==
    ASSUME RestTypeOK, ApiInv, MarkInv, ReadInv, NEW x \in Records, NEW c, Change(x, c)
    PROVE  ReadInv'
<1>1. /\ c \in 1..MaxChanges /\ c >= Last /\ Cursor(x)' = c
      /\ change'[x] = Len(stamp) + 1 /\ Len(stamp) + 1 \in 1..MaxChanges
      /\ \A i \in Records \ {x} : change'[i] = change[i]
      /\ \A i \in Records \ {x} : change[i] # 0 => Cursor(i)' = Cursor(i)
  BY ChangeIs
<1>2. UNCHANGED <<pc, got, max_cursor, current_cursor, landed, cursor_value>>
  BY DEF Change, reading, stored
<1>3. /\ Last \in 0..MaxChanges /\ MaxChanges \in Nat
      /\ max_cursor \in 0..MaxChanges /\ cursor_value \in 0..MaxChanges
      /\ current_cursor \in 0..MaxChanges
  BY CursorFacts, RestAssumption DEF RestTypeOK
<1>4. ~(c < cursor_value)
  BY <1>1, <1>3 DEF MarkInv
<1>5. pc # "idle" => ~(c < max_cursor) /\ c >= current_cursor
  BY <1>1, <1>3 DEF MarkInv
<1>6. NothingPassedOver'
  BY <1>1, <1>2, <1>4 DEF ReadInv, NothingPassedOver
<1>7. StorePart'
  BY <1>1, <1>2, <1>5 DEF ReadInv, StorePart
<1>8. \A i \in Records \ {x} : i \in Matching' => i \in Matching
  BY <1>1, <1>2 DEF Matching
<1>9. change'[x] # 0
  BY <1>1
<1>10. ReadPart'
  <2>1. SUFFICES ASSUME pc \in {"read", "commit"}, NEW i \in Records
                 PROVE  /\ got[i] # 0 => change'[i] # 0 /\ Cursor(i)' >= current_cursor
                        /\ i \in Matching' /\ Cursor(i)' < max_cursor => got[i] = change'[i]
    BY <1>2 DEF ReadPart
  <2>2. pc # "idle"
    BY <2>1
  <2>3. CASE i = x
    BY <1>1, <1>5, <1>9, <2>2, <2>3
  <2>4. CASE i # x
    <3>1. change'[i] = change[i] /\ (change[i] # 0 => Cursor(i)' = Cursor(i))
      BY <1>1, <2>4
    <3>2. i \in Matching' => i \in Matching /\ change[i] # 0
      BY <1>8, <2>4 DEF Matching
    <3>3. got[i] # 0 => change[i] # 0 /\ Cursor(i) >= current_cursor
      BY <2>1 DEF ReadInv
    <3>4. i \in Matching /\ Cursor(i) < max_cursor => got[i] = change[i]
      BY <2>1 DEF ReadInv
    <3> QED  BY <3>1, <3>2, <3>3, <3>4
  <2> QED  BY <2>3, <2>4
<1> QED  BY <1>6, <1>7, <1>10 DEF ReadInv, NothingPassedOver, ReadPart, StorePart

(* What the run has seen a larger cursor than is yielded, lands, and is left *)
(* out by the next run's filter only then.                                   *)
LEMMA ReadStep ==
    ASSUME RestTypeOK, ApiInv, MarkInv, ReadInv, PageInv, [Next]_vars
    PROVE  ReadInv'
<1>0. UNCHANGED api => \A i : Cursor(i)' = Cursor(i)
  BY DEF Cursor, api
<1>1. UNCHANGED <<api, stored>> => NothingPassedOver'
  BY <1>0 DEF ReadInv, NothingPassedOver, api, stored
<1>2. CASE UNCHANGED vars
  <2>1. Matching' = Matching
    BY <1>0, <1>2 DEF vars, api, reading, Matching
  <2>2. UNCHANGED <<change, stamp, landed, cursor_value, pc, max_cursor, current_cursor, got>>
    BY <1>2 DEF vars, api, reading, stored
  <2> QED  BY <1>0, <1>1, <2>1, <2>2 DEF api, stored, ReadInv
<1>3. CASE Begin
  <2>1. /\ pc' = "read" /\ current_cursor' = cursor_value /\ max_cursor' = cursor_value
        /\ got' = Nothing /\ UNCHANGED <<api, stored>>
    BY <1>3 DEF Begin
  <2>2. NothingPassedOver'
    BY <1>1, <2>1
  <2>3. \A i \in Records : got'[i] = 0
    BY <2>1 DEF Nothing
  <2>4. ASSUME NEW i \in Matching'  PROVE  ~(Cursor(i)' < max_cursor')
    <3>1. change[i] # 0 /\ i \in Records /\ Cursor(i)' = Cursor(i)
          /\ Cursor(i) >= cursor_value
      BY <1>0, <2>1, <2>4 DEF Matching, api
    <3>2. Cursor(i) \in Nat /\ cursor_value \in Nat
      BY <3>1, CursorFacts DEF RestTypeOK
    <3> QED  BY <2>1, <3>1, <3>2
  <2>5. pc' # "store"
    BY <2>1
  <2> QED  BY <2>2, <2>3, <2>4, <2>5 DEF ReadInv, NothingPassedOver
<1>4. ASSUME NEW early \in BOOLEAN, Fetched(early)  PROVE  ReadInv'
  <2>1. pc = "read"
    BY <1>4 DEF Fetched
  <2> QED  BY <1>4, <2>1, ReadFetched
<1>5. CASE StopAtMaxPages
  <2>1. /\ pc = "read" /\ pc' = "commit" /\ UNCHANGED <<api, stored>>
        /\ UNCHANGED <<change, stamp, got, max_cursor, current_cursor>>
    BY <1>5 DEF StopAtMaxPages, Finish, api
  <2>2. Matching' = Matching
    BY <1>0, <2>1 DEF Matching
  <2> QED  BY <1>0, <1>1, <2>1, <2>2 DEF ReadInv
<1>6. CASE Commit
  BY <1>6, ReadCommitted
<1>7. CASE Store
  <2>1. /\ pc = "store" /\ pc' = "idle" /\ cursor_value' = max_cursor
        /\ UNCHANGED <<change, stamp, landed>>
    BY <1>7 DEF Store, Over, api
  <2>2. NothingPassedOver'
    BY <2>1 DEF ReadInv, NothingPassedOver, Cursor
  <2> QED  BY <2>1, <2>2 DEF ReadInv, NothingPassedOver
<1>8. CASE Fails
  <2>1. pc' = "idle" /\ UNCHANGED <<api, stored>>
    BY <1>8 DEF Fails, Over
  <2> QED  BY <1>1, <2>1 DEF ReadInv
<1>9. ASSUME NEW x \in Records, NEW c, Change(x, c)  PROVE  ReadInv'
  BY <1>9, ReadChanged
<1> QED  BY <1>2, <1>3, <1>4, <1>5, <1>6, <1>7, <1>8, <1>9, StepCases

(* Who may change a record during a read.                                    *)
LEMMA MeanwhileIs ==
    ASSUME PositionsStand, RestTypeOK, pc # "idle", NEW x \in Records, NEW c, Change(x, c)
    PROVE  /\ cfg.paginator # "page_number"
           /\ cfg.paginator = "offset" => change[x] = 0
BY DEF PositionsStand, RestTypeOK, Change

(* A record that is created while an offset is read comes after the offset.  *)
LEMMA CreatedLast ==
    ASSUME RestTypeOK, ApiInv, MarkInv, pc = "read", NEW x \in Records, NEW c, Change(x, c),
           change[x] = 0, NEW n \in Nat, n <= Cardinality(Matching)
    PROVE  /\ First(change', Matching', n) = First(change, Matching, n)
           /\ n <= Cardinality(Matching')
<1>1. /\ c \in 1..MaxChanges /\ c >= Last /\ Cursor(x)' = c
      /\ change'[x] = Len(stamp) + 1
      /\ \A i \in Records \ {x} : change'[i] = change[i]
      /\ \A i \in Records \ {x} : change[i] # 0 => Cursor(i)' = Cursor(i)
  BY ChangeIs
<1>2. current_cursor' = current_cursor
  BY DEF Change, reading
<1>3. c >= current_cursor
  <2>1. Last \in 0..MaxChanges /\ max_cursor \in 0..MaxChanges /\ MaxChanges \in Nat
        /\ current_cursor \in 0..MaxChanges /\ cursor_value \in 0..MaxChanges
    BY CursorFacts, RestAssumption DEF RestTypeOK
  <2> QED  BY <1>1, <2>1 DEF MarkInv
<1>4. Len(stamp) + 1 \in Nat /\ Len(stamp) + 1 # 0 /\ \A i \in Records : change[i] \in 0..Len(stamp)
      /\ Len(stamp) \in Nat
  BY CursorFacts
<1>5. x \notin Matching
  BY DEF Matching
<1>6. Matching' = Matching \union {x}
  <2>1. x \in Matching'
    BY <1>1, <1>2, <1>3, <1>4 DEF Matching
  <2>2. \A i \in Records \ {x} : i \in Matching' <=> i \in Matching
    BY <1>1, <1>2 DEF Matching
  <2>3. Matching' \subseteq Records /\ Matching \subseteq Records
    BY DEF Matching
  <2> QED  BY <2>1, <2>2, <2>3
<1>7. \A i \in Matching : change'[i] = change[i] /\ change[i] \in 0..Len(stamp)
                          /\ change[i] \in Nat
  BY <1>1, <1>4, <1>5 DEF Matching
<1>8. Before(change', Matching', x) = Matching
  <2>1. \A j \in Matching : change'[j] < change'[x]
    BY <1>1, <1>4, <1>7
  <2>2. ~(change'[x] < change'[x])
    BY <1>1, <1>4
  <2> QED  BY <1>6, <2>1, <2>2 DEF Before
<1>9. ASSUME NEW i \in Matching
      PROVE  Before(change', Matching', i) = Before(change, Matching, i)
  <2>1. ~(change'[x] < change'[i])
    BY <1>1, <1>4, <1>7
  <2>2. \A j \in Matching : change'[j] < change'[i] <=> change[j] < change[i]
    BY <1>7
  <2> QED  BY <1>6, <2>1, <2>2 DEF Before
<1>10. IsFiniteSet(Matching) /\ Cardinality(Matching) \in Nat
  BY PageFacts, BeforeCount DEF Numbered
<1>11. ~(Cardinality(Matching) < n)
  BY <1>10
<1>12. First(change', Matching', n) = First(change, Matching, n)
  <2>1. x \notin First(change', Matching', n)
    BY <1>8, <1>11 DEF First
  <2>2. \A i \in Matching : i \in First(change', Matching', n) <=> i \in First(change, Matching, n)
    BY <1>6, <1>9 DEF First
  <2>3. First(change', Matching', n) \subseteq Matching \union {x}
        /\ First(change, Matching, n) \subseteq Matching
    BY <1>6 DEF First
  <2> QED  BY <2>1, <2>2, <2>3
<1>13. Cardinality(Matching') = Cardinality(Matching) + 1
  BY <1>5, <1>6, <1>10, FS_AddElement
<1>14. n <= Cardinality(Matching')
  BY <1>10, <1>13
<1> QED  BY <1>12, <1>14

(* The parts of PageInv.                                                     *)
PassedPart ==
    pc = "read" =>
       /\ \A i \in Matching \ Remaining : got[i] = change[i]
       /\ cfg.paginator = "single_page" => request = 0
       /\ cfg.paginator = "offset" => request <= Cardinality(Matching)

(* The first request of a run leaves nothing out.                            *)
LEMMA PageBegun ==
    ASSUME RestTypeOK, ApiInv, Begin
    PROVE  PageInv'
<1>1. request' = 0 /\ pc' = "read" /\ UNCHANGED <<cfg, change, stamp>>
  BY DEF Begin, api
<1>2. Matching' \subseteq Records /\ \A i \in Matching' : change[i] # 0
  BY <1>1 DEF Matching
<1>3. Numbered(change, Matching')
  <2>1. IsFiniteSet(Matching')
    BY <1>2, RestAssumption, FS_Subset
  <2>2. \A i \in Matching' : change[i] \in Nat
    BY <1>2, RestAssumption DEF RestTypeOK
  <2> QED  BY <1>2, <2>1, <2>2 DEF Numbered, ApiInv
<1>4. Cardinality(Matching') \in Nat /\ First(change, Matching', 0) = {}
  BY <1>3, BeforeCount DEF First
<1>5. Matching' \ Remaining' = {}
  <2>1. CASE Keyset'
    <3>1. \A i \in Matching' : change[i] > 0
      BY <1>2, <1>3 DEF Numbered
    <3>2. Remaining' = {i \in Matching' : change'[i] > request'}
      BY <2>1 DEF Remaining
    <3> QED  BY <1>1, <3>1, <3>2
  <2>2. CASE ~Keyset'
    <3>1. (IF cfg.paginator = "page_number" THEN 0 * PageSize ELSE 0) = 0
      BY RestAssumption
    <3>2. Remaining' = Matching' \ First(change, Matching', 0)
      BY <1>1, <2>2, <3>1 DEF Remaining, FirstOf, First, Before
    <3> QED  BY <1>4, <3>2
  <2> QED  BY <2>1, <2>2
<1>6. request' <= Cardinality(Matching')
  BY <1>1, <1>4
<1>7. PassedPart'
  BY <1>1, <1>5, <1>6 DEF PassedPart
<1>8. CompleteRead'
  BY <1>1 DEF CompleteRead
<1> QED  BY <1>7, <1>8 DEF PageInv, PassedPart, CompleteRead

(* A page that is the last one completes the read, and any other leaves      *)
(* nothing out before the next request.                                      *)
LEMMA PageFetched ==
    ASSUME RestTypeOK, ApiInv, PageInv, pc = "read", NEW early \in BOOLEAN, Fetched(early)
    PROVE  PageInv'
<1>1. UNCHANGED <<cfg, change, stamp, current_cursor, asOf>>
  BY DEF Fetched, api
<1>2. Matching' = Matching
  BY <1>1 DEF Matching, Cursor
<1>3. /\ \A i \in Page : got'[i] = change[i]
      /\ \A i \in Records \ Page : got'[i] = got[i]
      /\ Page \subseteq Remaining /\ Matching \subseteq Records
  BY YieldIs, PageFacts DEF Fetched
<1>4. \A i \in Page \union (Matching \ Remaining) : got'[i] = change[i]
  <2>1. \A i \in Matching \ Remaining : i \in Records \ Page /\ got[i] = change[i]
    BY <1>3 DEF PageInv
  <2> QED  BY <1>3, <2>1
<1>5. CASE pc' = "read"
  <2>1. /\ Matching \ Remaining' \subseteq Page \union (Matching \ Remaining)
        /\ cfg'.paginator = "single_page" => request' = 0
        /\ cfg'.paginator = "offset" => request' <= Cardinality(Matching')
    <3>1. /\ cfg.paginator = "single_page" => request = 0
          /\ cfg.paginator = "offset" => request <= Cardinality(Matching)
      BY DEF PageInv
    <3> QED  BY <1>5, <3>1, GoesOn
  <2>2. PassedPart'
    BY <1>1, <1>2, <1>4, <2>1 DEF PassedPart
  <2>3. CompleteRead'
    BY <1>5 DEF CompleteRead
  <2> QED  BY <2>2, <2>3 DEF PageInv, PassedPart, CompleteRead
<1>6. CASE pc' # "read"
  <2>1. cut' = early /\ (early \/ Page = Remaining)
    BY <1>6 DEF Fetched, Finish, GoOn
  <2>2. ~cut' => \A i \in Matching : got'[i] = change[i]
    BY <1>4, <2>1
  <2>3. CompleteRead'
    BY <1>1, <1>2, <2>2 DEF CompleteRead
  <2>4. PassedPart'
    BY <1>6 DEF PassedPart
  <2> QED  BY <2>3, <2>4 DEF PageInv, PassedPart, CompleteRead
<1> QED  BY <1>5, <1>6

(* A change during a read or a commit comes after the next request, or is    *)
(* not one that was asked for.                                               *)
LEMMA PageChanged ==
    ASSUME PositionsStand, RestTypeOK, ApiInv, MarkInv, PageInv,
           NEW x \in Records, NEW c, Change(x, c)
    PROVE  PageInv'
<1>1. UNCHANGED <<cfg, pc, request, got, asOf, cut, current_cursor>>
  BY DEF Change, reading
<1>2. /\ change'[x] = Len(stamp) + 1
      /\ \A i \in Records \ {x} : change'[i] = change[i]
      /\ \A i \in Records \ {x} : change[i] # 0 => Cursor(i)' = Cursor(i)
  BY ChangeIs
<1>3. \A i \in Records \ {x} : i \in Matching' <=> i \in Matching
  BY <1>1, <1>2 DEF Matching
<1>4. Matching' \subseteq Records /\ Matching \subseteq Records
  BY DEF Matching
<1>5. CompleteRead'
  <2>1. Len(stamp) \in Nat /\ asOf \in 0..Len(stamp)
    BY CursorFacts DEF RestTypeOK
  <2>2. ~(change'[x] <= asOf)
    BY <1>2, <2>1
  <2>3. \A i \in Matching' : change'[i] <= asOf => i \in Matching /\ change'[i] = change[i]
    BY <1>2, <1>3, <1>4, <2>2
  <2> QED  BY <1>1, <2>3 DEF PageInv, CompleteRead
<1>6. PassedPart'
  <2>1. SUFFICES ASSUME pc = "read"
                 PROVE  /\ \A i \in Matching' \ Remaining' : got[i] = change'[i]
                        /\ cfg.paginator = "single_page" => request = 0
                        /\ cfg.paginator = "offset" => request <= Cardinality(Matching')
    BY <1>1 DEF PassedPart
  <2>2. /\ \A i \in Matching \ Remaining : got[i] = change[i]
        /\ cfg.paginator = "single_page" => request = 0
        /\ cfg.paginator = "offset" => request <= Cardinality(Matching)
    BY <2>1 DEF PageInv
  <2>3. /\ cfg.paginator \in {"single_page", "offset", "link", "cursor"}
        /\ cfg.paginator = "offset" => change[x] = 0
    BY <2>1, MeanwhileIs, RestAssumption DEF RestTypeOK
  <2>4. request \in Nat
    BY DEF RestTypeOK
  <2>5. CASE Keyset
    <3>1. Remaining' = {i \in Matching' : change'[i] > request}
          /\ Remaining = {i \in Matching : change[i] > request}
      BY <1>1, <2>5 DEF Remaining, Keyset
    <3>2. change'[x] > request
      <4>1. request <= Len(stamp) /\ Len(stamp) \in Nat
        BY <2>1, <2>5, CursorFacts DEF MarkInv
      <4> QED  BY <1>2, <2>4, <4>1
    <3>3. \A i \in Matching' \ Remaining' : i \in Matching \ Remaining /\ change'[i] = change[i]
      BY <1>2, <1>3, <1>4, <3>1, <3>2
    <3> QED  BY <2>2, <2>5, <3>3 DEF Keyset
  <2>6. CASE cfg.paginator = "single_page"
    <3>1. First(change', Matching', 0) = {}
      <4>1. /\ \A i \in Records : change[i] \in 0..Len(stamp)
            /\ Len(stamp) \in Nat /\ Len(stamp) + 1 \in 1..MaxChanges
        BY CursorFacts, ChangeIs
      <4>2. \A S \in SUBSET Records : IsFiniteSet(S) /\ Cardinality(S) \in Nat
        BY RestAssumption, FS_Subset, FS_CardinalityType
      <4>3. \A i : Before(change', Matching', i) \in SUBSET Records
        BY <1>4 DEF Before
      <4>4. \A i : ~(Cardinality(Before(change', Matching', i)) < 0)
        BY <4>2, <4>3
      <4> QED  BY <4>4 DEF First
    <3>2. Remaining' = Matching' \ First(change', Matching', 0)
      BY <1>1, <2>2, <2>6 DEF Remaining, Keyset, FirstOf, First, Before
    <3> QED  BY <2>2, <2>6, <3>1, <3>2
  <2>7. CASE cfg.paginator = "offset"
    <3>1. /\ First(change', Matching', request) = First(change, Matching, request)
          /\ request <= Cardinality(Matching')
      BY <2>1, <2>2, <2>3, <2>4, <2>7, CreatedLast
    <3>2. /\ Remaining' = Matching' \ First(change', Matching', request)
          /\ Remaining = Matching \ First(change, Matching, request)
      BY <1>1, <2>7 DEF Remaining, Keyset, FirstOf, First, Before
    <3>3. First(change, Matching, request) \subseteq Matching /\ x \notin Matching
      BY <2>3, <2>7 DEF First, Matching
    <3>4. \A i \in Matching' \ Remaining' : i \in Matching \ Remaining /\ i # x
      BY <3>1, <3>2, <3>3
    <3>5. \A i \in Matching' \ Remaining' : got[i] = change'[i]
      BY <1>2, <1>4, <2>2, <3>4
    <3> QED  BY <2>7, <3>1, <3>5
  <2> QED  BY <2>3, <2>5, <2>6, <2>7 DEF Keyset
<1> QED  BY <1>5, <1>6 DEF PageInv, PassedPart, CompleteRead

LEMMA PageStep ==
    ASSUME PositionsStand, RestTypeOK, ApiInv, MarkInv, PageInv, [Next]_vars
    PROVE  PageInv'
<1>1. CASE UNCHANGED vars
  <2>1. UNCHANGED <<cfg, change, stamp, pc, current_cursor, request, got, asOf, cut>>
    BY <1>1 DEF vars, api, reading
  <2>2. Matching' = Matching /\ Remaining' = Remaining
    BY <2>1 DEF Matching, Cursor, Remaining, FirstOf, Keyset
  <2> QED  BY <2>1, <2>2 DEF PageInv, CompleteRead
<1>2. CASE Begin
  BY <1>2, PageBegun
<1>3. ASSUME NEW early \in BOOLEAN, Fetched(early)  PROVE  PageInv'
  <2>1. pc = "read"
    BY <1>3 DEF Fetched
  <2> QED  BY <1>3, <2>1, PageFetched
<1>4. CASE StopAtMaxPages
  BY <1>4 DEF StopAtMaxPages, Finish, PageInv, CompleteRead
<1>5. CASE Commit
  BY <1>5 DEF Commit, PageInv, CompleteRead
<1>6. CASE Store
  BY <1>6 DEF Store, Over, PageInv, CompleteRead
<1>7. CASE Fails
  BY <1>7 DEF Fails, Over, PageInv, CompleteRead
<1>8. ASSUME NEW x \in Records, NEW c, Change(x, c)  PROVE  PageInv'
  BY <1>8, PageChanged
<1> QED  BY <1>1, <1>2, <1>3, <1>4, <1>5, <1>6, <1>7, <1>8, StepCases

-----------------------------------------------------------------------------
(* The theorems.                                                             *)

LEMMA Initially == Init => RestInv
<1> SUFFICES ASSUME Init  PROVE  RestInv
  OBVIOUS
<1>1. MaxChanges \in Nat /\ MaxFaults \in Nat /\ \A s \in Setups : s.max_pages \in Nat
  BY RestAssumption
<1>2. 0 \in 0..MaxChanges /\ 0 \in 0..MaxFaults /\ stamp = <<>> /\ Len(stamp) = 0
  BY <1>1 DEF Init
<1>3. Nothing \in [Records -> 0..MaxChanges]
  BY <1>2 DEF Nothing
<1>4. RestTypeOK
  <2>1. stamp \in Seq(1..MaxChanges) /\ Len(stamp) <= MaxChanges /\ asOf \in 0..Len(stamp)
    BY <1>1, <1>2 DEF Init
  <2>2. cfg \in Setups /\ pages_fetched \in 0..cfg.max_pages
    BY <1>1 DEF Init
  <2> QED  BY <1>2, <1>3, <2>1, <2>2 DEF Init, RestTypeOK
<1>5. \A i \in Records : change[i] = 0
  BY DEF Init, Nothing
<1>6. ApiInv
  BY <1>2, <1>5 DEF ApiInv
<1>7. MarkInv
  BY <1>2 DEF Init, MarkInv, Last
<1>8. ReadInv
  BY <1>5 DEF Init, ReadInv, NothingPassedOver
<1>9. PageInv
  BY DEF Init, PageInv, CompleteRead
<1> QED  BY <1>4, <1>6, <1>7, <1>8, <1>9 DEF RestInv

(* Every state of a read has its types, the changes of the API are numbered  *)
(* in the order of their cursors, and no watermark is ahead of the API,      *)
(* however the stream is set up.                                             *)
THEOREM ReadTypeCorrect == Spec => [](RestTypeOK /\ ApiInv /\ MarkInv)
<1>1. Init => RestTypeOK /\ ApiInv /\ MarkInv
  BY Initially DEF RestInv
<1>2. RestTypeOK /\ ApiInv /\ MarkInv /\ [Next]_vars => (RestTypeOK /\ ApiInv /\ MarkInv)'
  BY TypeStep, ApiStep, MarkStep
<1> QED  BY <1>1, <1>2, PTL DEF Spec

(* The variables of the API, of a read and of the destination have their     *)
(* types, however the stream is set up.                                      *)
THEOREM RestTypeCorrect == Spec => []RestTypeOK
<1>1. RestTypeOK /\ ApiInv /\ MarkInv => RestTypeOK
  OBVIOUS
<1> QED  BY <1>1, ReadTypeCorrect, PTL

(* What is behind the position of the next request has been yielded, and     *)
(* what is behind the largest cursor seen has been yielded or has landed.    *)
THEOREM RestInvariant ==
    ASSUME PositionsStand
    PROVE  Spec => []RestInv
<1>1. RestInv /\ [Next]_vars => RestInv'
  BY TypeStep, ApiStep, MarkStep, ReadStep, PageStep DEF RestInv
<1> QED  BY <1>1, Initially, PTL DEF Spec

(* No record is passed over: what the next run's filter leaves out has       *)
(* landed, wherever pages were cut off, reads failed or records moved.       *)
THEOREM NoRecordPassedOver ==
    ASSUME PositionsStand
    PROVE  Spec => []NothingPassedOver
<1>1. RestInv => NothingPassedOver
  BY DEF RestInv, ReadInv
<1> QED  BY <1>1, RestInvariant, PTL

(* A read that reached the last page has yielded every record that matched   *)
(* when it began and has not changed since.                                  *)
THEOREM ReadsAreComplete ==
    ASSUME PositionsStand
    PROVE  Spec => []CompleteRead
<1>1. RestInv => CompleteRead
  BY DEF RestInv, PageInv
<1> QED  BY <1>1, RestInvariant, PTL
=============================================================================
