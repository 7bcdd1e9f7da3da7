--------------------------- MODULE CometCacheProofs ---------------------------
(***************************************************************************)
(* Proofs about CometCache, for any number of entries, of edits and of     *)
(* changes that others make.                                               *)
(***************************************************************************)
EXTENDS CometCache, SequenceTheorems, WellFoundedInduction, TLAPS

------------------------------------------------------------------------------
(* Lists of items.                                                           *)

\* A list of items holds an entry at most once.
IsList(items) ==
  /\ items \in Seq(Item)
  /\ \A i, j \in DOMAIN items : items[i].keypath = items[j].keypath => i = j

\* What a list shows of an entry.
Shows(items, k) == IF Has(items, k) THEN items[IndexOf(items, k)].value ELSE Absent

LEMMA ListShape ==
  ASSUME NEW items, IsList(items)
  PROVE  /\ DOMAIN items = 1..Len(items) /\ Len(items) \in Nat
         /\ \A i \in DOMAIN items :
              items[i] \in Item /\ items[i].keypath \in Keys /\ items[i].value \in Values
<1>1. items \in Seq(Item)
  BY DEF IsList
<1>2. DOMAIN items = 1..Len(items) /\ Len(items) \in Nat
  BY <1>1, LenProperties
<1>3. \A i \in DOMAIN items : items[i] \in Item
  BY <1>1, <1>2, ElementOfSeq
<1> QED BY <1>2, <1>3 DEF Item

\* The index of an entry that is there.
LEMMA IndexIs ==
  ASSUME NEW items, IsList(items), NEW i \in DOMAIN items
  PROVE  IndexOf(items, items[i].keypath) = i
<1> DEFINE k == items[i].keypath
<1>1. \E j \in DOMAIN items : items[j].keypath = k
  OBVIOUS
<1>2. /\ IndexOf(items, k) \in DOMAIN items
      /\ items[IndexOf(items, k)].keypath = k
  BY <1>1 DEF IndexOf
<1> QED BY <1>2 DEF IsList

LEMMA ShowsIs ==
  ASSUME NEW items, IsList(items), NEW i \in DOMAIN items
  PROVE  /\ Has(items, items[i].keypath)
         /\ Shows(items, items[i].keypath) = items[i].value
BY IndexIs DEF Shows, Has

LEMMA HasIndex ==
  ASSUME NEW items, IsList(items), NEW k, Has(items, k)
  PROVE  /\ IndexOf(items, k) \in DOMAIN items
         /\ items[IndexOf(items, k)].keypath = k
BY DEF IndexOf, Has

\* A list has the entries of which it shows a value.
LEMMA HasShows ==
  ASSUME NEW items, IsList(items), NEW k
  PROVE  /\ Has(items, k) <=> Shows(items, k) # Absent
         /\ Shows(items, k) \in Values \cup {Absent}
         /\ Has(items, k) => k \in Keys
<1>1. CASE ~Has(items, k)
  BY <1>1 DEF Shows
<1>2. CASE Has(items, k)
  <2>1. /\ IndexOf(items, k) \in DOMAIN items
        /\ items[IndexOf(items, k)].keypath = k
    BY <1>2, HasIndex
  <2>2. items[IndexOf(items, k)].value \in Values /\ k \in Keys
    BY <2>1, ListShape
  <2> QED BY <1>2, <2>2, CometCacheAssumption DEF Shows
<1> QED BY <1>1, <1>2

\* The items of a list are the entries with what it shows of them.
LEMMA ItemsShown ==
  ASSUME NEW items, IsList(items), NEW x
  PROVE  x \in {items[i] : i \in DOMAIN items}
           <=> x \in Item /\ Shows(items, x.keypath) = x.value
<1>1. ASSUME NEW i \in DOMAIN items, x = items[i]
      PROVE  x \in Item /\ Shows(items, x.keypath) = x.value
  BY <1>1, ListShape, ShowsIs
<1>2. ASSUME x \in Item, Shows(items, x.keypath) = x.value
      PROVE  \E i \in DOMAIN items : x = items[i]
  <2>1. x.value # Absent
    BY <1>2, CometCacheAssumption DEF Item
  <2>2. Has(items, x.keypath)
    BY <1>2, <2>1 DEF Shows
  <2> DEFINE i == IndexOf(items, x.keypath)
  <2>3. i \in DOMAIN items /\ items[i].keypath = x.keypath
    BY <2>2, HasIndex
  <2>4. items[i].value = x.value
    BY <1>2, <2>2 DEF Shows
  <2>5. items[i] \in Item
    BY <2>3, ListShape
  <2>6. items[i] = x
    BY <1>2, <2>3, <2>4, <2>5 DEF Item
  <2> QED BY <2>3, <2>6
<1> QED BY <1>1, <1>2

\* Two lists that show the same of every entry hold the same items.
LEMMA SameItems ==
  ASSUME NEW a, NEW b, IsList(a), IsList(b), \A k \in Keys : Shows(a, k) = Shows(b, k)
  PROVE  {a[i] : i \in DOMAIN a} = {b[i] : i \in DOMAIN b}
<1>1. ASSUME NEW x
      PROVE  x \in {a[i] : i \in DOMAIN a} <=> x \in {b[i] : i \in DOMAIN b}
  <2>1. x \in {a[i] : i \in DOMAIN a} <=> x \in Item /\ Shows(a, x.keypath) = x.value
    BY ItemsShown
  <2>2. x \in {b[i] : i \in DOMAIN b} <=> x \in Item /\ Shows(b, x.keypath) = x.value
    BY ItemsShown
  <2>3. x \in Item => x.keypath \in Keys
    BY DEF Item
  <2> QED BY <2>1, <2>2, <2>3
<1> QED BY <1>1

LEMMA EmptyList ==
  IsList(<<>>) /\ \A k : Shows(<<>>, k) = Absent /\ ~Has(<<>>, k)
<1>1. <<>> \in Seq(Item) /\ DOMAIN <<>> = {}
  BY EmptySeq, LenProperties
<1> QED BY <1>1 DEF IsList, Shows, Has

------------------------------------------------------------------------------
(* updateQueryData.                                                          *)

\* An item at the end.
LEMMA AppendedList ==
  ASSUME NEW items, IsList(items), NEW k \in Keys, NEW v \in Values, ~Has(items, k)
  PROVE  LET all == Append(items, [keypath |-> k, value |-> v])
         IN IsList(all) /\ \A j : Shows(all, j) = IF j = k THEN v ELSE Shows(items, j)
<1> DEFINE it  == [keypath |-> k, value |-> v]
           all == Append(items, it)
           n   == Len(items)
<1>1. items \in Seq(Item) /\ it \in Item /\ it.keypath = k /\ it.value = v
  BY DEF IsList, Item
<1>2. DOMAIN items = 1..n /\ n \in Nat
  BY ListShape
<1> HIDE DEF it
<1>3. /\ all \in Seq(Item) /\ Len(all) = n + 1
      /\ \A i \in 1..n : all[i] = items[i]
      /\ all[n + 1] = it
  BY <1>1, AppendProperties
<1>4. DOMAIN all = 1..(n + 1)
  BY <1>3, LenProperties
<1> HIDE DEF all, n
<1>5. \A i \in 1..n : items[i].keypath # k
  BY <1>2 DEF Has
<1>6. ASSUME NEW i \in DOMAIN all, NEW j \in DOMAIN all, all[i].keypath = all[j].keypath
      PROVE  i = j
  <2>1. (i \in 1..n \/ i = n + 1) /\ (j \in 1..n \/ j = n + 1)
    BY <1>2, <1>4
  <2> QED BY <1>1, <1>2, <1>3, <1>5, <1>6, <2>1 DEF IsList
<1>7. IsList(all)
  BY <1>3, <1>6 DEF IsList
<1>8. Shows(all, k) = v
  <2>1. n + 1 \in DOMAIN all
    BY <1>2, <1>4
  <2> QED BY <1>1, <1>3, <1>7, <2>1, ShowsIs
<1>9. ASSUME NEW j, j # k
      PROVE  Shows(all, j) = Shows(items, j)
  <2>1. CASE Has(items, j)
    <3>1. PICK i \in DOMAIN items : items[i].keypath = j
      BY <2>1 DEF Has
    <3>2. i \in DOMAIN all /\ all[i] = items[i]
      BY <1>2, <1>3, <1>4, <3>1
    <3> QED BY <1>7, <3>1, <3>2, ShowsIs
  <2>2. CASE ~Has(items, j)
    <3>1. ~Has(all, j)
      BY <1>1, <1>2, <1>3, <1>4, <1>9, <2>2 DEF Has
    <3> QED BY <2>2, <3>1 DEF Shows
  <2> QED BY <2>1, <2>2
<1> QED BY <1>7, <1>8, <1>9 DEF all, it

\* A new item is shown from then on.
LEMMA CreatedList ==
  ASSUME NEW items, IsList(items), NEW k \in Keys, NEW v \in Values, ~Has(items, k)
  PROVE  /\ IsList(Created(items, k, v))
         /\ \A j : Shows(Created(items, k, v), j) = IF j = k THEN v ELSE Shows(items, j)
BY AppendedList DEF Created

\* A new value is shown from then on.
LEMMA AssignedList ==
  ASSUME NEW items, IsList(items), NEW k, NEW v \in Values, Has(items, k)
  PROVE  /\ IsList(Assigned(items, k, v))
         /\ \A j : Shows(Assigned(items, k, v), j) = IF j = k THEN v ELSE Shows(items, j)
<1> DEFINE x   == IndexOf(items, k)
           it  == [items[x] EXCEPT !.value = v]
           all == [items EXCEPT ![x] = it]
<1>1. items \in Seq(Item) /\ DOMAIN items = 1..Len(items)
  BY ListShape DEF IsList
<1>2. x \in DOMAIN items /\ items[x].keypath = k
  BY HasIndex
<1>3. items[x] \in Item
  BY <1>2, ListShape
<1>4. it \in Item /\ it.keypath = k /\ it.value = v
  BY <1>2, <1>3 DEF Item
<1>5. Assigned(items, k, v) = all
  BY DEF Assigned
<1> HIDE DEF it
<1>6. /\ all \in Seq(Item) /\ Len(all) = Len(items)
      /\ \A i \in 1..Len(items) : all[i] = IF i = x THEN it ELSE items[i]
  BY <1>1, <1>2, <1>4, ExceptSeq
<1>7. DOMAIN all = DOMAIN items
  BY <1>1, <1>6, LenProperties
<1> HIDE DEF all, x
<1>8. \A i \in DOMAIN all : all[i].keypath = items[i].keypath
  BY <1>1, <1>2, <1>4, <1>6, <1>7
<1>9. IsList(all)
  BY <1>6, <1>7, <1>8 DEF IsList
<1>10. Shows(all, k) = v
  BY <1>1, <1>2, <1>4, <1>6, <1>7, <1>9, ShowsIs
<1>11. ASSUME NEW j, j # k
       PROVE  Shows(all, j) = Shows(items, j)
  <2>1. CASE Has(items, j)
    <3>1. PICK i \in DOMAIN items : items[i].keypath = j
      BY <2>1 DEF Has
    <3>2. i \in DOMAIN all /\ all[i] = items[i]
      BY <1>1, <1>2, <1>6, <1>7, <1>11, <3>1
    <3> QED BY <1>9, <3>1, <3>2, ShowsIs
  <2>2. CASE ~Has(items, j)
    <3>1. ~Has(all, j)
      BY <1>7, <1>8, <2>2 DEF Has
    <3> QED BY <2>2, <3>1 DEF Shows
  <2> QED BY <2>1, <2>2
<1> QED BY <1>5, <1>9, <1>10, <1>11

\* A sequence without one of its elements.
LEMMA RemoveAtProperties ==
  ASSUME NEW S, NEW s \in Seq(S), NEW x \in 1..Len(s)
  PROVE  /\ RemoveAt(s, x) \in Seq(S) /\ Len(RemoveAt(s, x)) = Len(s) - 1
         /\ \A i \in 1..(Len(s) - 1) :
              RemoveAt(s, x)[i] = IF i < x THEN s[i] ELSE s[i + 1]
<1> DEFINE n == Len(s)
           a == SubSeq(s, 1, x - 1)
           b == SubSeq(s, x + 1, n)
<1>0. n \in Nat /\ x \in 1..n
  BY LenProperties
<1>1. \A i \in 1..n : s[i] \in S
  BY ElementOfSeq
<1>2. /\ a \in Seq(S) /\ Len(a) = x - 1
      /\ \A i \in 1..(x - 1) : a[i] = s[i]
  <2>1. 1 \in Int /\ x - 1 \in Int /\ \A i \in 1..(x - 1) : s[i] \in S
    BY <1>0, <1>1
  <2>2. /\ a \in Seq(S) /\ Len(a) = IF 1 <= x - 1 THEN (x - 1) - 1 + 1 ELSE 0
        /\ \A i \in 1..((x - 1) - 1 + 1) : a[i] = s[1 + i - 1]
    BY <2>1, SubSeqProperties
  <2>3. \A i \in 1..(x - 1) : i \in 1..((x - 1) - 1 + 1) /\ 1 + i - 1 = i
    BY <1>0
  <2> HIDE DEF a
  <2>4. Len(a) = x - 1
    BY <1>0, <2>2
  <2> QED BY <2>2, <2>3, <2>4
<1>3. /\ b \in Seq(S) /\ Len(b) = n - x
      /\ \A i \in 1..(n - x) : b[i] = s[x + i]
  <2>1. x + 1 \in Int /\ n \in Int /\ \A i \in (x + 1)..n : s[i] \in S
    BY <1>0, <1>1
  <2>2. /\ b \in Seq(S) /\ Len(b) = IF x + 1 <= n THEN n - (x + 1) + 1 ELSE 0
        /\ \A i \in 1..(n - (x + 1) + 1) : b[i] = s[(x + 1) + i - 1]
    BY <2>1, SubSeqProperties
  <2>3. \A i \in 1..(n - x) : i \in 1..(n - (x + 1) + 1) /\ (x + 1) + i - 1 = x + i
    BY <1>0
  <2> HIDE DEF b
  <2>4. Len(b) = n - x
    BY <1>0, <2>2
  <2> QED BY <2>2, <2>3, <2>4
<1>4. RemoveAt(s, x) = a \o b
  BY DEF RemoveAt
<1> HIDE DEF a, b, n
<1>5. /\ a \o b \in Seq(S) /\ Len(a \o b) = (x - 1) + (n - x)
      /\ \A i \in 1..((x - 1) + (n - x)) :
           (a \o b)[i] = IF i <= x - 1 THEN a[i] ELSE b[i - (x - 1)]
  <2>1. a \in Seq(S) /\ b \in Seq(S)
    BY <1>2, <1>3
  <2>2. /\ a \o b \in Seq(S) /\ Len(a \o b) = Len(a) + Len(b)
        /\ \A i \in 1..(Len(a) + Len(b)) :
             (a \o b)[i] = IF i <= Len(a) THEN a[i] ELSE b[i - Len(a)]
    BY <2>1, ConcatProperties
  <2>3. Len(a) = x - 1 /\ Len(b) = n - x
    BY <1>2, <1>3
  <2> QED BY <2>2, <2>3
<1>6. ASSUME NEW i \in 1..(n - 1)
      PROVE  (a \o b)[i] = IF i < x THEN s[i] ELSE s[i + 1]
  <2>1. i \in 1..((x - 1) + (n - x))
    BY <1>0
  <2>2. CASE i < x
    <3>1. i <= x - 1 /\ i \in 1..(x - 1)
      BY <1>0, <2>2
    <3> QED BY <1>2, <1>5, <2>1, <2>2, <3>1
  <2>3. CASE ~(i < x)
    <3>1. ~(i <= x - 1) /\ i - (x - 1) \in 1..(n - x) /\ x + (i - (x - 1)) = i + 1
      BY <1>0, <2>3
    <3>2. b[i - (x - 1)] = s[i + 1]
      BY <1>3, <3>1
    <3> QED BY <1>5, <2>1, <2>3, <3>1, <3>2
  <2> QED BY <2>2, <2>3
<1>7. Len(a \o b) = n - 1
  BY <1>0, <1>5
<1> QED BY <1>4, <1>5, <1>6, <1>7 DEF n

\* An item that is removed is not shown any more; the others are.
LEMMA RemovedList ==
  ASSUME NEW items, IsList(items), NEW k, Has(items, k)
  PROVE  /\ IsList(Removed(items, k))
         /\ \A j : Shows(Removed(items, k), j) = IF j = k THEN Absent ELSE Shows(items, j)
<1> DEFINE x   == IndexOf(items, k)
           n   == Len(items)
           all == RemoveAt(items, x)
<1>1. items \in Seq(Item) /\ DOMAIN items = 1..n /\ n \in Nat
  BY ListShape DEF IsList
<1>2. x \in 1..n /\ items[x].keypath = k
  BY <1>1, HasIndex
<1>3. Removed(items, k) = all
  BY DEF Removed
<1> HIDE DEF x
<1>4. /\ all \in Seq(Item) /\ Len(all) = n - 1
      /\ \A i \in 1..(n - 1) : all[i] = IF i < x THEN items[i] ELSE items[i + 1]
  BY <1>1, <1>2, RemoveAtProperties
<1>5. DOMAIN all = 1..(n - 1)
  BY <1>4, LenProperties
<1> HIDE DEF all, n
<1> DEFINE at(i) == IF i < x THEN i ELSE i + 1
<1>6. \A i \in DOMAIN all : at(i) \in DOMAIN items /\ at(i) # x /\ all[i] = items[at(i)]
  BY <1>1, <1>2, <1>4, <1>5
<1>7. \A i, j \in DOMAIN all : at(i) = at(j) => i = j
  BY <1>1, <1>2, <1>5
<1>8. \A i \in DOMAIN items : i # x => \E j \in DOMAIN all : at(j) = i
  <2> TAKE i \in DOMAIN items
  <2> HAVE i # x
  <2>1. CASE i < x
    <3>1. i \in DOMAIN all /\ at(i) = i
      BY <1>1, <1>2, <1>5, <2>1
    <3> QED BY <3>1
  <2>2. CASE x < i
    <3>1. i - 1 \in DOMAIN all /\ at(i - 1) = i
      BY <1>1, <1>2, <1>5, <2>2
    <3> QED BY <3>1
  <2> QED BY <1>1, <1>2, <2>1, <2>2
<1> HIDE DEF at
<1>9. IsList(all)
  BY <1>4, <1>6, <1>7 DEF IsList
<1>10. Shows(all, k) = Absent
  BY <1>1, <1>2, <1>6 DEF IsList, Has, Shows
<1>11. ASSUME NEW j, j # k
       PROVE  Shows(all, j) = Shows(items, j)
  <2>1. CASE Has(items, j)
    <3>1. PICK i \in DOMAIN items : items[i].keypath = j
      BY <2>1 DEF Has
    <3>2. i # x
      BY <1>2, <1>11, <3>1
    <3>3. PICK m \in DOMAIN all : at(m) = i
      BY <1>8, <3>2
    <3>4. all[m] = items[i]
      BY <1>6, <3>3
    <3> QED BY <1>9, <3>1, <3>3, <3>4, ShowsIs
  <2>2. CASE ~Has(items, j)
    <3>1. ~Has(all, j)
      BY <1>6, <2>2 DEF Has
    <3> QED BY <2>2, <3>1 DEF Shows
  <2> QED BY <2>1, <2>2
<1> QED BY <1>3, <1>9, <1>10, <1>11

------------------------------------------------------------------------------
(* The answer of a query.                                                    *)

\* A set of naturals has a least element.
LEMMA LeastNat ==
  ASSUME NEW T \in SUBSET Nat, T # {}
  PROVE  \E x \in T : \A y \in T : ~(y < x)
<1>1. PICK x \in T : \A y \in T : ~(<<y, x>> \in OpToRel(<, Nat))
  BY NatLessThanWellFounded, WFMin
<1>2. \A y \in T : y < x => <<y, x>> \in OpToRel(<, Nat)
  BY DEF OpToRel
<1> QED BY <1>1, <1>2

\* f holds what the answer comes to after each of the first n entries.
AnswerSteps(f, n) ==
  f = [i \in 0..n |->
         IF i = 0 THEN <<>>
         ELSE IF stored[Keypaths[i]] = Absent THEN f[i - 1]
         ELSE Append(f[i - 1], [keypath |-> Keypaths[i], value |-> stored[Keypaths[i]]])]

LEMMA AnswerStepsExist ==
  ASSUME NEW N \in Nat
  PROVE  \E f : AnswerSteps(f, N)
<1> DEFINE T == {n \in Nat : ~\E f : AnswerSteps(f, n)}
<1> SUFFICES ASSUME T # {}
             PROVE  FALSE
  OBVIOUS
<1>1. PICK m \in T : \A y \in T : ~(y < m)
  BY LeastNat
<1>2. m \in Nat /\ ~\E f : AnswerSteps(f, m)
  BY <1>1
<1>3. CASE m = 0
  <2> DEFINE f == [i \in 0..0 |-> <<>>]
  <2>1. AnswerSteps(f, 0)
    BY DEF AnswerSteps
  <2> QED BY <1>2, <1>3, <2>1
<1>4. CASE m # 0
  <2>1. m - 1 \in Nat /\ m - 1 < m
    BY <1>2, <1>4
  <2>2. PICK g : AnswerSteps(g, m - 1)
    BY <1>1, <2>1
  <2> DEFINE it == [keypath |-> Keypaths[m], value |-> stored[Keypaths[m]]]
             last == IF stored[Keypaths[m]] = Absent THEN g[m - 1] ELSE Append(g[m - 1], it)
             f == [i \in 0..m |-> IF i = m THEN last ELSE g[i]]
  <2>3. \A i \in 0..(m - 1) : f[i] = g[i]
    BY <1>2, <1>4
  <2>4. f[m] = last
    BY <1>2
  <2>5. ASSUME NEW i \in 0..m
        PROVE  f[i] = IF i = 0 THEN <<>>
                      ELSE IF stored[Keypaths[i]] = Absent THEN f[i - 1]
                      ELSE Append(f[i - 1],
                                  [keypath |-> Keypaths[i], value |-> stored[Keypaths[i]]])
    <3>1. CASE i = m
      <4>1. i - 1 \in 0..(m - 1) /\ i # 0
        BY <1>2, <1>4, <3>1
      <4>2. f[i - 1] = g[i - 1]
        BY <2>3, <4>1
      <4> HIDE DEF f
      <4> QED BY <2>4, <3>1, <4>1, <4>2
    <3>2. CASE i # m
      <4>1. i \in 0..(m - 1) /\ (i # 0 => i - 1 \in 0..(m - 1))
        BY <1>2, <3>2
      <4>2. f[i] = g[i] /\ (i # 0 => f[i - 1] = g[i - 1])
        BY <2>3, <4>1
      <4> HIDE DEF f
      <4>3. g[i] = IF i = 0 THEN <<>>
                   ELSE IF stored[Keypaths[i]] = Absent THEN g[i - 1]
                   ELSE Append(g[i - 1],
                               [keypath |-> Keypaths[i], value |-> stored[Keypaths[i]]])
        BY <2>2, <4>1 DEF AnswerSteps
      <4> QED BY <4>1, <4>2, <4>3
    <3> QED BY <3>1, <3>2
  <2>6. f = [i \in 0..m |-> f[i]]
    OBVIOUS
  <2>7. AnswerSteps(f, m)
    <3> HIDE DEF f
    <3> QED BY <2>5, <2>6 DEF AnswerSteps
  <2> HIDE DEF f
  <2> QED BY <1>2, <2>7
<1> QED BY <1>3, <1>4

\* An answer is a list that shows what is stored of each entry.
LEMMA AnswerShows ==
  ASSUME stored \in [Keys -> Values \cup {Absent}]
  PROVE  IsList(Answer) /\ \A k \in Keys : Shows(Answer, k) = stored[k]
<1> DEFINE N == Len(Keypaths)
           Among(k, n) == \E i \in 1..n : Keypaths[i] = k
           Good(l, n) == /\ IsList(l)
                         /\ \A k \in Keys : Shows(l, k) = IF Among(k, n) THEN stored[k] ELSE Absent
           f == CHOOSE g : AnswerSteps(g, N)
<1>1. /\ N \in Nat /\ DOMAIN Keypaths = 1..N
      /\ \A i \in 1..N : Keypaths[i] \in Keys
      /\ \A i, j \in 1..N : Keypaths[i] = Keypaths[j] => i = j
  BY CometCacheAssumption, LenProperties, ElementOfSeq
<1>2. AnswerSteps(f, N)
  BY <1>1, AnswerStepsExist
<1>3. Answer = f[N]
  BY DEF Answer, AnswerSteps
<1> HIDE DEF f, N
<1>4. f[0] = <<>>
  BY <1>1, <1>2 DEF AnswerSteps
<1>5. \A i \in 1..N : f[i] = IF stored[Keypaths[i]] = Absent THEN f[i - 1]
        ELSE Append(f[i - 1], [keypath |-> Keypaths[i], value |-> stored[Keypaths[i]]])
  <2> TAKE i \in 1..N
  <2>1. i \in 0..N /\ i # 0
    BY <1>1
  <2>2. f[i] = IF i = 0 THEN <<>>
               ELSE IF stored[Keypaths[i]] = Absent THEN f[i - 1]
               ELSE Append(f[i - 1], [keypath |-> Keypaths[i], value |-> stored[Keypaths[i]]])
    BY <1>2, <2>1 DEF AnswerSteps
  <2> QED BY <2>1, <2>2
<1> DEFINE T == {n \in Nat : n <= N /\ ~Good(f[n], n)}
<1>6. T = {}
  <2> SUFFICES ASSUME T # {}
               PROVE  FALSE
    OBVIOUS
  <2>1. PICK m \in T : \A y \in T : ~(y < m)
    BY LeastNat
  <2>2. m \in Nat /\ m <= N /\ ~Good(f[m], m)
    BY <2>1
  <2>3. CASE m = 0
    <3>1. IsList(f[0]) /\ \A k : Shows(f[0], k) = Absent
      BY <1>4, EmptyList
    <3>2. \A k : ~Among(k, 0)
      OBVIOUS
    <3> HIDE DEF Among
    <3> QED BY <2>2, <2>3, <3>1, <3>2
  <2>4. CASE m # 0
    <3>1. m \in 1..N /\ m - 1 \in Nat /\ m - 1 <= N /\ m - 1 < m
      BY <1>1, <2>2, <2>4
    <3>2. Good(f[m - 1], m - 1)
      BY <2>1, <3>1
    <3> DEFINE key == Keypaths[m]
               old == f[m - 1]
    <3>3. key \in Keys
      BY <1>1, <3>1
    <3>4. ~Among(key, m - 1)
      BY <1>1, <3>1
    <3>5. \A k : Among(k, m) <=> Among(k, m - 1) \/ k = key
      <4> TAKE k
      <4>1. \A i : i \in 1..m <=> i \in 1..(m - 1) \/ i = m
        BY <3>1
      <4> QED BY <4>1
    <3> HIDE DEF Among
    <3>6. IsList(old) /\ Shows(old, key) = Absent
      BY <3>2, <3>3, <3>4
    <3>7. ~Has(old, key)
      BY <3>6, HasShows
    <3>8. CASE stored[key] = Absent
      <4>1. f[m] = old
        BY <1>5, <3>1, <3>8
      <4>2. \A k \in Keys : Shows(old, k) = IF Among(k, m) THEN stored[k] ELSE Absent
        BY <3>2, <3>5, <3>6, <3>8
      <4> QED BY <2>2, <3>6, <4>1, <4>2
    <3>9. CASE stored[key] # Absent
      <4> DEFINE new == Append(old, [keypath |-> key, value |-> stored[key]])
      <4>1. f[m] = new
        BY <1>5, <3>1, <3>9
      <4>2. stored[key] \in Values
        BY <3>3, <3>9
      <4>3. /\ IsList(new)
            /\ \A k : Shows(new, k) = IF k = key THEN stored[key] ELSE Shows(old, k)
        BY <3>3, <3>6, <3>7, <4>2, AppendedList
      <4> HIDE DEF new
      <4>4. \A k \in Keys : Shows(new, k) = IF Among(k, m) THEN stored[k] ELSE Absent
        BY <3>2, <3>5, <4>3
      <4> QED BY <2>2, <4>1, <4>3, <4>4
    <3> QED BY <3>8, <3>9
  <2> QED BY <2>3, <2>4
<1>7. Good(f[N], N)
  BY <1>1, <1>6
<1>8. \A k \in Keys : Among(k, N)
  BY <1>1 DEF Keys, Range
<1> HIDE DEF Among
<1> QED BY <1>3, <1>7, <1>8
------------------------------------------------------------------------------
(* A batch of changes.                                                       *)

\* A change as the server notifies it: of a value, if it is one of a leaf.
Notice == {c \in Change : c.op = "value_set" => c.value \in Values}

Mentions(cs, k) == \E i \in DOMAIN cs : cs[i].keypath = k

\* No later change is of the same entry.
LastOf(cs, i) == \A j \in DOMAIN cs : j > i => cs[j].keypath # cs[i].keypath

\* After an entry is deleted the next change of it is that it is created.
InTurn(cs) ==
  \A i, j \in DOMAIN cs :
    i < j /\ cs[i].keypath = cs[j].keypath /\ cs[i].op = "deleted" =>
      \E m \in DOMAIN cs :
        i < m /\ m <= j /\ cs[m].keypath = cs[i].keypath /\ cs[m].op = "created"

InTurnUpTo(cs, n) ==
  \A i, j \in 1..n :
    i < j /\ cs[i].keypath = cs[j].keypath /\ cs[i].op = "deleted" =>
      \E m \in 1..n :
        i < m /\ m <= j /\ cs[m].keypath = cs[i].keypath /\ cs[m].op = "created"

LEMMA InTurnAt ==
  ASSUME NEW cs, NEW n, DOMAIN cs = 1..n
  PROVE  InTurn(cs) <=> InTurnUpTo(cs, n)
BY DEF InTurn, InTurnUpTo

LEMMA NoticeShape ==
  ASSUME NEW cs \in Seq(Notice)
  PROVE  /\ DOMAIN cs = 1..Len(cs) /\ Len(cs) \in Nat
         /\ \A i \in DOMAIN cs :
              /\ cs[i] \in Notice /\ cs[i].keypath \in Keys
              /\ cs[i].op \in {"value_set", "created", "deleted"}
              /\ cs[i].op = "value_set" => cs[i].value \in Values
<1>1. DOMAIN cs = 1..Len(cs) /\ Len(cs) \in Nat
  BY LenProperties
<1>2. \A i \in DOMAIN cs : cs[i] \in Notice
  BY <1>1, ElementOfSeq
<1> QED BY <1>1, <1>2 DEF Notice, Change

\* In a batch in which nothing is deleted and created, what is deleted is not
\* mentioned again.
Clean(batch) ==
  \A i, j \in DOMAIN batch :
    i < j /\ batch[i].op = "deleted" => batch[j].keypath # batch[i].keypath

LEMMA InTurnIsClean ==
  ASSUME NEW batch, DOMAIN batch \subseteq Int, InTurn(batch), ~Recreated(batch)
  PROVE  Clean(batch)
<1> SUFFICES ASSUME NEW i \in DOMAIN batch, NEW j \in DOMAIN batch, i < j,
                    batch[i].op = "deleted", batch[j].keypath = batch[i].keypath
             PROVE  FALSE
  BY DEF Clean
<1>1. PICK m \in DOMAIN batch :
        i < m /\ m <= j /\ batch[m].keypath = batch[i].keypath /\ batch[m].op = "created"
  BY DEF InTurn
<1> QED BY <1>1 DEF Recreated

\* What a list shows after the first n changes of a batch.
Effects(batch, snapshot, n, items) ==
  /\ IsList(items)
  /\ \A k : ~Has(snapshot, k) => ~Has(items, k)
  /\ \A k : (\A i \in 1..n : batch[i].keypath # k) => Shows(items, k) = Shows(snapshot, k)
  /\ \A k : Has(snapshot, k)
              /\ (\A i \in 1..n : batch[i].keypath = k => batch[i].op # "deleted")
            => Has(items, k)
  /\ \A i \in 1..n :
       Has(snapshot, batch[i].keypath) /\ batch[i].op # "created"
       /\ (\A j \in 1..n : j > i => batch[j].keypath # batch[i].keypath)
       => Shows(items, batch[i].keypath)
            = IF batch[i].op = "deleted" THEN Absent ELSE batch[i].value

LEMMA ChangeEffect ==
  ASSUME NEW snapshot, NEW items, IsList(items), NEW c \in Notice,
         Has(snapshot, c.keypath) => Has(items, c.keypath)
  PROVE  LET new == ProcessChange(snapshot, items, c)
         IN /\ IsList(new)
            /\ \A k : k # c.keypath => Shows(new, k) = Shows(items, k)
            /\ Shows(new, c.keypath)
                 = IF ~Has(snapshot, c.keypath) \/ c.op = "created" THEN Shows(items, c.keypath)
                   ELSE IF c.op = "deleted" THEN Absent
                   ELSE c.value
<1> DEFINE key == c.keypath
<1>1. CASE ~Has(snapshot, key) \/ c.op = "created"
  <2>1. ProcessChange(snapshot, items, c) = items
    BY <1>1 DEF ProcessChange
  <2> QED BY <1>1, <2>1
<1>2. CASE Has(snapshot, key) /\ c.op = "deleted"
  <2>1. ProcessChange(snapshot, items, c) = Removed(items, key)
    BY <1>2 DEF ProcessChange
  <2>2. /\ IsList(Removed(items, key))
        /\ \A j : Shows(Removed(items, key), j) = IF j = key THEN Absent ELSE Shows(items, j)
    BY <1>2, RemovedList
  <2> QED BY <1>2, <2>1, <2>2
<1>3. CASE Has(snapshot, key) /\ c.op # "deleted" /\ c.op # "created"
  <2>1. ProcessChange(snapshot, items, c) = Assigned(items, key, c.value)
    BY <1>3 DEF ProcessChange
  <2>2. c.value \in Values
    BY <1>3 DEF Notice, Change
  <2>3. /\ IsList(Assigned(items, key, c.value))
        /\ \A j : Shows(Assigned(items, key, c.value), j)
                   = IF j = key THEN c.value ELSE Shows(items, j)
    BY <1>3, <2>2, AssignedList
  <2> QED BY <1>3, <2>1, <2>3
<1> QED BY <1>1, <1>2, <1>3

LEMMA EffectsStep ==
  ASSUME NEW batch \in Seq(Notice), Clean(batch), NEW snapshot, IsList(snapshot),
         NEW n \in 1..Len(batch), NEW items, Effects(batch, snapshot, n - 1, items)
  PROVE  Effects(batch, snapshot, n, ProcessChange(snapshot, items, batch[n]))
<1> DEFINE c   == batch[n]
           key == batch[n].keypath
           new == ProcessChange(snapshot, items, batch[n])
<1>1. /\ DOMAIN batch = 1..Len(batch) /\ Len(batch) \in Nat /\ n \in DOMAIN batch
      /\ c \in Notice /\ n \in Nat /\ 1 <= n
  BY NoticeShape
<1>2. \A i : i \in 1..n <=> i \in 1..(n - 1) \/ i = n
  BY <1>1
<1>3. \A i \in 1..(n - 1) : i \in DOMAIN batch /\ i < n
  BY <1>1
<1>4. \A i \in 1..(n - 1) : batch[i].keypath = key => batch[i].op # "deleted"
  BY <1>1, <1>3 DEF Clean
<1>5. IsList(items) /\ (Has(snapshot, key) => Has(items, key))
  BY <1>4 DEF Effects
<1>6. /\ IsList(new)
      /\ \A k : k # key => Shows(new, k) = Shows(items, k)
      /\ Shows(new, key) = IF ~Has(snapshot, key) \/ c.op = "created" THEN Shows(items, key)
                            ELSE IF c.op = "deleted" THEN Absent
                            ELSE c.value
  BY <1>1, <1>5, ChangeEffect
<1> HIDE DEF new
<1>7. \A k : /\ Has(new, k) <=> Shows(new, k) # Absent
             /\ Has(items, k) <=> Shows(items, k) # Absent
  BY <1>5, <1>6, HasShows
<1>8. ASSUME NEW k, ~Has(snapshot, k) PROVE ~Has(new, k)
  BY <1>6, <1>7, <1>8 DEF Effects
<1>9. ASSUME NEW k, \A i \in 1..n : batch[i].keypath # k
      PROVE  Shows(new, k) = Shows(snapshot, k)
  <2>1. k # key /\ \A i \in 1..(n - 1) : batch[i].keypath # k
    BY <1>2, <1>9
  <2> QED BY <1>6, <2>1 DEF Effects
<1>10. ASSUME NEW k, Has(snapshot, k),
              \A i \in 1..n : batch[i].keypath = k => batch[i].op # "deleted"
       PROVE  Has(new, k)
  <2>1. /\ k = key => c.op # "deleted"
        /\ \A i \in 1..(n - 1) : batch[i].keypath = k => batch[i].op # "deleted"
    BY <1>2, <1>10
  <2>2. Has(items, k)
    BY <1>10, <2>1 DEF Effects
  <2>3. c.op \in {"value_set", "created", "deleted"} /\ (c.op = "value_set" => c.value \in Values)
    BY <1>1 DEF Notice, Change
  <2>4. Absent \notin Values
    BY CometCacheAssumption
  <2> QED BY <1>6, <1>7, <1>10, <2>1, <2>2, <2>3, <2>4
<1>11. ASSUME NEW i \in 1..n, Has(snapshot, batch[i].keypath), batch[i].op # "created",
              \A j \in 1..n : j > i => batch[j].keypath # batch[i].keypath
       PROVE  Shows(new, batch[i].keypath)
                = IF batch[i].op = "deleted" THEN Absent ELSE batch[i].value
  <2>1. CASE i = n
    BY <1>6, <1>11, <2>1
  <2>2. CASE i # n
    <3>1. i \in 1..(n - 1) /\ n > i /\ n \in 1..n
      BY <1>1, <2>2
    <3>2. batch[i].keypath # key /\ \A j \in 1..(n - 1) : j > i => batch[j].keypath # batch[i].keypath
      BY <1>2, <1>11, <3>1
    <3>3. Shows(items, batch[i].keypath)
            = IF batch[i].op = "deleted" THEN Absent ELSE batch[i].value
      BY <1>11, <3>1, <3>2 DEF Effects
    <3> QED BY <1>6, <3>2, <3>3
  <2> QED BY <2>1, <2>2
<1>12. Effects(batch, snapshot, n, new)
  BY <1>6, <1>8, <1>9, <1>10, <1>11 DEF Effects
<1> QED BY <1>12 DEF new
\* f holds the items after each of the first n changes of a batch.
BatchSteps(batch, snapshot, f, n) ==
  f = [i \in 0..n |->
         IF i = 0 THEN snapshot ELSE ProcessChange(snapshot, f[i - 1], batch[i])]

LEMMA BatchStepsExist ==
  ASSUME NEW batch, NEW snapshot, NEW N \in Nat
  PROVE  \E f : BatchSteps(batch, snapshot, f, N)
<1> DEFINE T == {n \in Nat : ~\E f : BatchSteps(batch, snapshot, f, n)}
<1> SUFFICES ASSUME T # {}
             PROVE  FALSE
  OBVIOUS
<1>1. PICK m \in T : \A y \in T : ~(y < m)
  BY LeastNat
<1>2. m \in Nat /\ ~\E f : BatchSteps(batch, snapshot, f, m)
  BY <1>1
<1>3. CASE m = 0
  <2> DEFINE f == [i \in 0..0 |-> snapshot]
  <2>1. BatchSteps(batch, snapshot, f, 0)
    BY DEF BatchSteps
  <2> QED BY <1>2, <1>3, <2>1
<1>4. CASE m # 0
  <2>1. m - 1 \in Nat /\ m - 1 < m
    BY <1>2, <1>4
  <2>2. PICK g : BatchSteps(batch, snapshot, g, m - 1)
    BY <1>1, <2>1
  <2> DEFINE last == ProcessChange(snapshot, g[m - 1], batch[m])
             f == [i \in 0..m |-> IF i = m THEN last ELSE g[i]]
  <2>3. \A i \in 0..(m - 1) : f[i] = g[i]
    BY <1>2, <1>4
  <2>4. f[m] = last
    BY <1>2
  <2>5. ASSUME NEW i \in 0..m
        PROVE  f[i] = IF i = 0 THEN snapshot ELSE ProcessChange(snapshot, f[i - 1], batch[i])
    <3>1. CASE i = m
      <4>1. i - 1 \in 0..(m - 1) /\ i # 0
        BY <1>2, <1>4, <3>1
      <4>2. f[i - 1] = g[i - 1]
        BY <2>3, <4>1
      <4> HIDE DEF f
      <4> QED BY <2>4, <3>1, <4>1, <4>2
    <3>2. CASE i # m
      <4>1. i \in 0..(m - 1) /\ (i # 0 => i - 1 \in 0..(m - 1))
        BY <1>2, <3>2
      <4>2. f[i] = g[i] /\ (i # 0 => f[i - 1] = g[i - 1])
        BY <2>3, <4>1
      <4> HIDE DEF f
      <4>3. g[i] = IF i = 0 THEN snapshot ELSE ProcessChange(snapshot, g[i - 1], batch[i])
        BY <2>2, <4>1 DEF BatchSteps
      <4> QED BY <4>1, <4>2, <4>3
    <3> QED BY <3>1, <3>2
  <2>6. f = [i \in 0..m |-> f[i]]
    OBVIOUS
  <2>7. BatchSteps(batch, snapshot, f, m)
    <3> HIDE DEF f
    <3> QED BY <2>5, <2>6 DEF BatchSteps
  <2> HIDE DEF f
  <2> QED BY <1>2, <2>7
<1> QED BY <1>3, <1>4

\* What a batch comes to.
LEMMA BatchEffects ==
  ASSUME NEW batch \in Seq(Notice), Clean(batch), NEW snapshot, IsList(snapshot)
  PROVE  Effects(batch, snapshot, Len(batch), processCometUpdates(batch, snapshot))
<1> DEFINE N == Len(batch)
           f == CHOOSE g : BatchSteps(batch, snapshot, g, N)
<1>1. N \in Nat
  BY NoticeShape
<1>2. BatchSteps(batch, snapshot, f, N)
  BY <1>1, BatchStepsExist
<1>3. processCometUpdates(batch, snapshot) = f[N]
  BY DEF processCometUpdates, BatchSteps
<1> HIDE DEF f
<1>4. f[0] = snapshot
  BY <1>1, <1>2 DEF BatchSteps
<1>5. ASSUME NEW i \in 1..N
      PROVE  f[i] = ProcessChange(snapshot, f[i - 1], batch[i])
  <2>1. i \in 0..N /\ i # 0
    BY <1>1
  <2>2. f[i] = IF i = 0 THEN snapshot ELSE ProcessChange(snapshot, f[i - 1], batch[i])
    BY <1>2, <2>1 DEF BatchSteps
  <2> QED BY <2>1, <2>2
<1> DEFINE T == {n \in Nat : n <= N /\ ~Effects(batch, snapshot, n, f[n])}
<1>6. T = {}
  <2> SUFFICES ASSUME T # {}
               PROVE  FALSE
    OBVIOUS
  <2>1. PICK m \in T : \A y \in T : ~(y < m)
    BY LeastNat
  <2>2. m \in Nat /\ m <= N /\ ~Effects(batch, snapshot, m, f[m])
    BY <2>1
  <2>3. CASE m = 0
    <3>1. Effects(batch, snapshot, 0, snapshot)
      BY DEF Effects
    <3> QED BY <1>4, <2>2, <2>3, <3>1
  <2>4. CASE m # 0
    <3>1. m \in 1..N /\ m - 1 \in Nat /\ m - 1 <= N /\ m - 1 < m
      BY <1>1, <2>2, <2>4
    <3>2. Effects(batch, snapshot, m - 1, f[m - 1])
      BY <2>1, <3>1
    <3>3. Effects(batch, snapshot, m, ProcessChange(snapshot, f[m - 1], batch[m]))
      BY <3>1, <3>2, EffectsStep
    <3> QED BY <1>5, <2>2, <3>1, <3>3
  <2> QED BY <2>3, <2>4
<1> QED BY <1>1, <1>3, <1>6

------------------------------------------------------------------------------
(* The inductive invariant.                                                  *)

Types ==
  /\ stored \in [Keys -> Values \cup {Absent}]
  /\ queue \in Seq(Notice)
  /\ handle \in {"none", "created", "started"}
  /\ IsList(data)
  /\ entry \in {"absent", "empty", "loaded"}
  /\ fetch.state \in {"none", "asked", "answered"}
  /\ subscription \in {"none", "asked", "answered", "known"}
  /\ comet \in [state: {"none", "asked", "answered", "ended"}, batch: Seq(Notice)]
  /\ unsubscribes \in Nat
  /\ edits \in [Edits -> [state: {"none", "sent", "answered", "done"},
                          op: {"set", "create", "delete"}, keypath: Keys,
                          value: Values \cup {Absent}]]
  /\ shown \in BOOLEAN

\* The entry of the cache, its subscription and what the server knows of it.
Lifecycle ==
  /\ entry = "absent" => subscription \in {"none", "known"}
  /\ subscription # "known" => handle # "started" /\ queue = <<>> /\ comet.state # "answered"
  /\ subscription = "none" => entry # "loaded" /\ handle = "none" /\ unsubscribes = 0
  /\ subscription = "asked" => handle = "none" /\ entry = "loaded"
  /\ subscription = "answered" => handle = "created" /\ entry = "loaded"
  /\ subscription = "known" => handle \in {"none", "started"}
  /\ subscription = "known" /\ entry = "loaded" => handle = "started"
  /\ entry = "empty" => subscription = "none" /\ shown
  /\ entry # "absent" => unsubscribes = 0
  /\ entry = "absent" /\ subscription = "known" /\ unsubscribes = 0 => handle = "none"
  /\ entry = "absent" /\ subscription = "none" => fetch.state = "none"
  /\ handle = "none" => queue = <<>>

\* Nothing crosses an edit, and no other edit is of the same entry.
EditsInv ==
  \A e \in Edits : InFlight(e) =>
    /\ entry = "loaded" /\ fetch.state = "none" /\ queue = <<>> /\ comet.state # "answered"
    /\ edits[e].op = "create" <=> ~Has(data, edits[e].keypath)
    /\ edits[e].op = "delete" <=> edits[e].value = Absent
    /\ edits[e].state = "answered" => stored[edits[e].keypath] = edits[e].value
    /\ \A f \in Edits : InFlight(f) /\ f # e => edits[f].keypath # edits[e].keypath

FetchInv == fetch.state = "answered" => fetch.items = Answer

\* Where the list does not show what is stored, something is on its way.
DataInv ==
  entry = "loaded" /\ fetch.state = "none" =>
    \A k \in Keys :
      \/ Shows(data, k) = stored[k]
      \/ Mentions(queue, k)
      \/ comet.state = "answered" /\ Mentions(comet.batch, k)
      \/ \E e \in Edits : edits[e].state = "answered" /\ edits[e].keypath = k

\* What the last change of an entry says of it is so.
Final(c) ==
  /\ c.op # "created"
  /\ c.op = "deleted" => stored[c.keypath] = Absent
  /\ c.op = "value_set" => stored[c.keypath] = c.value

\* The last change of an entry is final, in a batch unless there are more
\* in the queue; what the batch deletes is created there.
QueueInv == InTurn(queue) /\ \A i \in DOMAIN queue : LastOf(queue, i) => Final(queue[i])

CreatedLater(k) == \E j \in DOMAIN queue : queue[j].keypath = k /\ queue[j].op = "created"

BatchInv ==
  comet.state = "answered" =>
    /\ InTurn(comet.batch)
    /\ \A i \in DOMAIN comet.batch : LastOf(comet.batch, i) =>
         /\ Mentions(queue, comet.batch[i].keypath) /\ comet.batch[i].op = "deleted"
              => CreatedLater(comet.batch[i].keypath)
         /\ ~Mentions(queue, comet.batch[i].keypath) => Final(comet.batch[i])

PendingInv == entry = "loaded" => QueueInv /\ BatchInv

Settled == Types /\ Lifecycle /\ EditsInv /\ FetchInv /\ DataInv /\ PendingInv

\* The inductive invariant: it holds until something crosses, or the user
\* logs out.
CacheInv == raced = {} /\ logout = "no" => Settled

------------------------------------------------------------------------------
(* Showing and hiding the list, its query and its subscription.              *)

LEMMA NoneMentioned ==
  /\ <<>> \in Seq(Notice)
  /\ \A k : ~Mentions(<<>>, k)
  /\ InTurn(<<>>) /\ DOMAIN <<>> = {}
<1>1. <<>> \in Seq(Notice) /\ DOMAIN <<>> = {}
  BY EmptySeq, LenProperties
<1> QED BY <1>1 DEF Mentions, InTurn

LEMMA ShowKeeps ==
  ASSUME Settled, Show, raced = {}, raced' = {}
  PROVE  Settled'
<1>0. Types /\ Lifecycle /\ EditsInv /\ FetchInv /\ DataInv /\ PendingInv
  BY DEF Settled
<1>1. CASE entry = "absent"
  <2>1. subscription = "none"
    BY <1>1 DEF Show, Raced
  <2>2. /\ entry' = "empty" /\ data' = <<>> /\ shown' = TRUE
        /\ fetch' = Asked /\ fetch.state = "none"
        /\ UNCHANGED <<stored, queue, handle, subscription, comet, unsubscribes, edits>>
    BY <1>0, <1>1, <2>1 DEF Show, Lifecycle, srv
  <2>3. fetch'.state = "asked"
    BY <2>2 DEF Asked
  <2>4. Types'
    BY <1>0, <2>2, <2>3, EmptyList DEF Types
  <2>5. Lifecycle'
    BY <1>0, <1>1, <2>1, <2>2 DEF Lifecycle
  <2>6. EditsInv'
    BY <1>0, <1>1, <2>2 DEF EditsInv, InFlight
  <2>7. FetchInv' /\ DataInv' /\ PendingInv'
    BY <2>2, <2>3 DEF FetchInv, DataInv, PendingInv
  <2> QED BY <2>4, <2>5, <2>6, <2>7 DEF Settled
<1>2. CASE entry # "absent"
  <2>1. /\ shown' = TRUE
        /\ UNCHANGED <<stored, queue, handle, data, entry, fetch, subscription, comet,
                       unsubscribes, edits>>
    BY <1>2 DEF Show, srv
  <2>2. Types' /\ Lifecycle'
    BY <1>0, <2>1 DEF Types, Lifecycle
  <2>3. EditsInv' /\ FetchInv' /\ DataInv'
    BY <1>0, <2>1 DEF EditsInv, InFlight, FetchInv, Answer, DataInv
  <2>4. PendingInv'
    BY <1>0, <2>1 DEF PendingInv, QueueInv, BatchInv, CreatedLater, Final
  <2> QED BY <2>2, <2>3, <2>4 DEF Settled
<1> QED BY <1>1, <1>2

LEMMA HideKeeps ==
  ASSUME Settled, Hide
  PROVE  Settled'
<1>0. Types /\ Lifecycle /\ EditsInv /\ FetchInv /\ DataInv /\ PendingInv
  BY DEF Settled
<1>1. /\ shown' = FALSE /\ entry = "loaded"
      /\ UNCHANGED <<stored, queue, handle, data, entry, fetch, subscription, comet,
                     unsubscribes, edits>>
  BY DEF Hide, srv
<1>2. Types' /\ Lifecycle'
  BY <1>0, <1>1 DEF Types, Lifecycle
<1>3. EditsInv' /\ FetchInv' /\ DataInv'
  BY <1>0, <1>1 DEF EditsInv, InFlight, FetchInv, Answer, DataInv
<1>4. PendingInv'
  BY <1>0, <1>1 DEF PendingInv, QueueInv, BatchInv, CreatedLater, Final
<1> QED BY <1>2, <1>3, <1>4 DEF Settled

LEMMA ServeQueryKeeps ==
  ASSUME Settled, ServeQuery
  PROVE  Settled'
<1>0. Types /\ Lifecycle /\ EditsInv /\ FetchInv /\ DataInv /\ PendingInv
  BY DEF Settled
<1>1. /\ fetch.state = "asked"
      /\ fetch' = [state |-> "answered", items |-> Answer]
      /\ UNCHANGED <<stored, queue, handle, data, entry, subscription, comet,
                     unsubscribes, edits, shown>>
  BY DEF ServeQuery, srv, ui
<1>2. fetch'.state = "answered" /\ fetch'.items = Answer
  BY <1>1
<1>3. Answer' = Answer
  BY <1>1 DEF Answer
<1>4. Types' /\ Lifecycle'
  BY <1>0, <1>1, <1>2 DEF Types, Lifecycle
<1>5. EditsInv'
  BY <1>0, <1>1 DEF EditsInv, InFlight
<1>6. FetchInv' /\ DataInv'
  BY <1>2, <1>3 DEF FetchInv, DataInv
<1>7. PendingInv'
  BY <1>0, <1>1 DEF PendingInv, QueueInv, BatchInv, CreatedLater, Final
<1> QED BY <1>4, <1>5, <1>6, <1>7 DEF Settled

\* The answer of a query is what is stored when it comes.
LEMMA ReceiveQueryKeeps ==
  ASSUME Settled, ReceiveQuery
  PROVE  Settled'
<1>0. Types /\ Lifecycle /\ EditsInv /\ FetchInv /\ DataInv /\ PendingInv
  BY DEF Settled
<1>1. /\ fetch.state = "answered" /\ fetch' = Idle /\ fetch'.state = "none"
      /\ UNCHANGED <<stored, queue, handle, unsubscribes, edits, shown>>
  BY DEF ReceiveQuery, srv, ui, Idle
<1>2. \A e \in Edits : ~InFlight(e)
  BY <1>0, <1>1 DEF EditsInv
<1>3. EditsInv' /\ FetchInv'
  BY <1>1, <1>2 DEF EditsInv, InFlight, FetchInv
<1>4. CASE entry = "absent"
  <2>1. UNCHANGED <<data, entry, subscription, comet>>
    BY <1>4 DEF ReceiveQuery
  <2>2. Types' /\ Lifecycle'
    BY <1>0, <1>1, <1>4, <2>1 DEF Types, Lifecycle
  <2>3. DataInv' /\ PendingInv'
    BY <1>4, <2>1 DEF DataInv, PendingInv
  <2> QED BY <1>3, <2>2, <2>3 DEF Settled
<1>5. CASE entry # "absent"
  <2>1. /\ data' = Answer /\ entry' = "loaded"
        /\ subscription' = IF subscription = "none" THEN "asked" ELSE subscription
        /\ comet' = IF comet.state = "none" THEN [comet EXCEPT !.state = "asked"] ELSE comet
    BY <1>0, <1>1, <1>5 DEF ReceiveQuery, FetchInv
  <2>2. /\ comet' \in [state: {"none", "asked", "answered", "ended"}, batch: Seq(Notice)]
        /\ comet'.state = "answered" => comet' = comet
    BY <1>0, <2>1 DEF Types
  <2>2a. comet'.state = "answered" <=> comet.state = "answered"
    BY <1>0, <2>1 DEF Types
  <2>3. IsList(Answer) /\ \A k \in Keys : Shows(Answer, k) = stored[k]
    BY <1>0, AnswerShows DEF Types
  <2>4. subscription' \in {"none", "asked", "answered", "known"}
    BY <1>0, <2>1 DEF Types
  <2>5. Types'
    BY <1>0, <1>1, <2>1, <2>2, <2>3, <2>4 DEF Types
  <2>6. Lifecycle'
    BY <1>0, <1>1, <1>5, <2>1, <2>2a DEF Lifecycle, Types
  <2>7. DataInv'
    BY <1>1, <2>1, <2>3 DEF DataInv
  <2>8. CASE entry = "loaded"
    <3>1. PendingInv'
      BY <1>0, <1>1, <2>2, <2>8 DEF PendingInv, QueueInv, BatchInv, CreatedLater, Final
    <3> QED BY <1>3, <2>5, <2>6, <2>7, <3>1 DEF Settled
  <2>9. CASE entry = "empty"
    <3>1. queue' = <<>> /\ comet'.state # "answered"
      BY <1>0, <1>1, <2>2a, <2>9 DEF Lifecycle
    <3>2. PendingInv'
      BY <3>1, NoneMentioned DEF PendingInv, QueueInv, BatchInv
    <3> QED BY <1>3, <2>5, <2>6, <2>7, <3>2 DEF Settled
  <2> QED BY <1>0, <1>5, <2>8, <2>9 DEF Types
<1> QED BY <1>4, <1>5

LEMMA ExpireKeeps ==
  ASSUME Settled, Expire
  PROVE  Settled'
<1>0. Types /\ Lifecycle /\ EditsInv /\ FetchInv /\ DataInv /\ PendingInv
  BY DEF Settled
<1>1. /\ entry = "loaded" /\ entry' = "absent" /\ data' = <<>>
      /\ unsubscribes' = unsubscribes + 1 /\ subscription \notin {"asked", "answered"}
      /\ fetch.state = "none" /\ \A e \in Edits : ~InFlight(e)
      /\ UNCHANGED <<stored, queue, handle, fetch, subscription, comet, edits, shown>>
  BY DEF Expire, AtRest, srv, ui
<1>2. Types' /\ Lifecycle'
  BY <1>0, <1>1, EmptyList DEF Types, Lifecycle
<1>3. EditsInv' /\ FetchInv' /\ DataInv' /\ PendingInv'
  BY <1>1 DEF EditsInv, InFlight, FetchInv, DataInv, PendingInv
<1> QED BY <1>2, <1>3 DEF Settled

LEMMA SubscribeKeeps ==
  ASSUME Settled, ServeSubscribe \/ ReceiveSubscribe
  PROVE  Settled'
<1>0. Types /\ Lifecycle /\ EditsInv /\ FetchInv /\ DataInv /\ PendingInv
  BY DEF Settled
<1>1. /\ \/ subscription = "asked" /\ subscription' = "answered" /\ handle' = "created"
         \/ /\ subscription = "answered" /\ subscription' = "known"
            /\ handle' = IF handle = "created" THEN "started" ELSE handle
      /\ UNCHANGED <<stored, queue, data, entry, fetch, comet, unsubscribes, edits, shown>>
  BY DEF ServeSubscribe, ReceiveSubscribe, ui
<1>2. Types' /\ Lifecycle'
  BY <1>0, <1>1 DEF Types, Lifecycle
<1>3. EditsInv' /\ FetchInv' /\ DataInv'
  BY <1>0, <1>1 DEF EditsInv, InFlight, FetchInv, Answer, DataInv
<1>4. PendingInv'
  BY <1>0, <1>1 DEF PendingInv, QueueInv, BatchInv, CreatedLater, Final
<1> QED BY <1>2, <1>3, <1>4 DEF Settled

LEMMA ServeUnsubscribeKeeps ==
  ASSUME Settled, ServeUnsubscribe
  PROVE  Settled'
<1>0. Types /\ Lifecycle /\ EditsInv /\ FetchInv /\ DataInv /\ PendingInv
  BY DEF Settled
<1>1. /\ unsubscribes > 0 /\ subscription = "known" /\ unsubscribes' = unsubscribes - 1
      /\ handle' = "none" /\ queue' = <<>>
      /\ UNCHANGED <<stored, data, entry, fetch, subscription, comet, edits, shown>>
  BY DEF ServeUnsubscribe, CanUnsubscribe, ui
<1>2. entry = "absent"
  BY <1>0, <1>1 DEF Lifecycle, Types
<1>3. Types' /\ Lifecycle'
  BY <1>0, <1>1, <1>2, NoneMentioned DEF Types, Lifecycle
<1>4. EditsInv' /\ FetchInv'
  BY <1>0, <1>1, <1>2 DEF EditsInv, InFlight, FetchInv, Answer
<1>5. DataInv' /\ PendingInv'
  BY <1>1, <1>2 DEF DataInv, PendingInv
<1> QED BY <1>3, <1>4, <1>5 DEF Settled

LEMMA ForgetKeeps ==
  ASSUME Settled, Forget
  PROVE  Settled'
<1>0. Types /\ Lifecycle /\ EditsInv /\ FetchInv /\ DataInv /\ PendingInv
  BY DEF Settled
<1>1. /\ entry = "absent" /\ unsubscribes = 0 /\ subscription = "known"
      /\ subscription' = "none" /\ fetch.state = "none" /\ comet.state # "answered"
      /\ \A e \in Edits : ~InFlight(e)
      /\ UNCHANGED <<stored, queue, handle, data, entry, fetch, comet, unsubscribes, edits,
                     shown>>
  BY DEF Forget, AtRest, srv, ui
<1>2. Types' /\ Lifecycle'
  BY <1>0, <1>1 DEF Types, Lifecycle
<1>3. EditsInv' /\ FetchInv' /\ DataInv' /\ PendingInv'
  BY <1>1 DEF EditsInv, InFlight, FetchInv, DataInv, PendingInv
<1> QED BY <1>2, <1>3 DEF Settled
------------------------------------------------------------------------------
(* Notifications.                                                            *)

LEMMA ServeCometKeeps ==
  ASSUME Settled, ServeComet
  PROVE  Settled'
<1>0. Types /\ Lifecycle /\ EditsInv /\ FetchInv /\ DataInv /\ PendingInv
  BY DEF Settled
<1>1. /\ comet.state = "asked" /\ queue # <<>> /\ queue' = <<>>
      /\ comet' = [state |-> "answered", batch |-> queue]
      /\ UNCHANGED <<stored, handle, data, entry, fetch, subscription, unsubscribes, edits,
                     shown>>
  BY DEF ServeComet, ui
<1>2. comet'.state = "answered" /\ comet'.batch = queue
  BY <1>1
<1>3. Types' /\ Lifecycle'
  BY <1>0, <1>1, <1>2, NoneMentioned DEF Types, Lifecycle
<1>4. EditsInv' /\ FetchInv'
  BY <1>0, <1>1 DEF EditsInv, InFlight, FetchInv, Answer
<1>5. DataInv'
  BY <1>0, <1>1, <1>2 DEF DataInv
<1>6. PendingInv'
  <2> SUFFICES ASSUME entry' = "loaded"
               PROVE  QueueInv' /\ BatchInv'
    BY DEF PendingInv
  <2>1. QueueInv
    BY <1>0, <1>1 DEF PendingInv
  <2>2. QueueInv'
    BY <1>1, NoneMentioned DEF QueueInv
  <2>3. BatchInv'
    BY <1>1, <1>2, <2>1, NoneMentioned DEF QueueInv, BatchInv, Final
  <2> QED BY <2>2, <2>3
<1> QED BY <1>3, <1>4, <1>5, <1>6 DEF Settled

\* A batch that is received makes the list show what is stored, or asks for
\* all of it.
LEMMA ReceiveCometKeeps ==
  ASSUME Settled, ReceiveComet, raced = {}, raced' = {}
  PROVE  Settled'
<1> DEFINE batch == comet.batch
           items == processCometUpdates(comet.batch, data)
           invalid == invalidateTags(comet.batch, data)
<1>0. Types /\ Lifecycle /\ EditsInv /\ FetchInv /\ DataInv /\ PendingInv
  BY DEF Settled
<1>1. /\ comet.state = "answered" /\ comet' = NextComet
      /\ IF entry # "loaded" THEN UNCHANGED <<data, entry, fetch>>
         ELSE /\ data' = IF ~shown /\ invalid THEN <<>> ELSE items
              /\ IF invalid THEN Invalidate ELSE UNCHANGED <<entry, fetch>>
      /\ unsubscribes' = IF entry = "loaded" /\ invalid /\ ~shown
                         THEN unsubscribes + 1 ELSE unsubscribes
      /\ ~Recreated(comet.batch)
      /\ UNCHANGED <<stored, queue, handle, subscription, edits, shown>>
  BY DEF ReceiveComet, Raced, srv, ui
<1>2. comet'.state = "asked" /\ comet' \in [state: {"none", "asked", "answered", "ended"},
                                            batch: Seq(Notice)]
  BY <1>1, NoneMentioned DEF NextComet
<1>3. batch \in Seq(Notice) /\ subscription = "known"
  BY <1>0, <1>1 DEF Types, Lifecycle
<1>4. \A e \in Edits : ~InFlight(e)
  BY <1>0, <1>1 DEF EditsInv
<1>5. EditsInv'
  BY <1>1, <1>4 DEF EditsInv, InFlight
<1>6. CASE entry # "loaded"
  <2>1. UNCHANGED <<data, entry, fetch, unsubscribes>>
    BY <1>1, <1>6
  <2>2. Types' /\ Lifecycle'
    BY <1>0, <1>1, <1>2, <1>3, <2>1 DEF Types, Lifecycle
  <2>3. FetchInv' /\ DataInv' /\ PendingInv'
    BY <1>0, <1>1, <1>6, <2>1 DEF FetchInv, Answer, DataInv, PendingInv
  <2> QED BY <1>5, <2>2, <2>3 DEF Settled
<1>7. CASE entry = "loaded"
  <2>1. /\ InTurn(batch) /\ QueueInv /\ BatchInv
        /\ DOMAIN batch = 1..Len(batch) /\ Len(batch) \in Nat
    BY <1>0, <1>1, <1>3, <1>7, NoticeShape DEF PendingInv, BatchInv
  <2>2. Clean(batch)
    BY <1>1, <2>1, InTurnIsClean
  <2>3. Effects(batch, data, Len(batch), items)
    BY <1>0, <1>3, <2>2, BatchEffects DEF Types
  <2>4. PendingInv'
    BY <1>1, <1>2, <2>1 DEF PendingInv, QueueInv, BatchInv, Final
  <2>5. CASE invalid /\ ~shown
    <3>1. /\ data' = <<>> /\ entry' = "absent" /\ unsubscribes' = unsubscribes + 1
          /\ fetch' = fetch
      BY <1>1, <1>7, <2>5 DEF Invalidate
    <3>2. Types' /\ Lifecycle'
      BY <1>0, <1>1, <1>2, <1>3, <3>1, EmptyList DEF Types, Lifecycle
    <3>3. FetchInv' /\ DataInv'
      BY <1>0, <1>1, <3>1 DEF FetchInv, Answer, DataInv
    <3> QED BY <1>5, <2>4, <3>2, <3>3 DEF Settled
  <2>6. CASE invalid /\ shown
    <3>1. /\ data' = items /\ entry' = entry /\ unsubscribes' = unsubscribes
          /\ fetch' = Asked
      BY <1>1, <1>7, <2>6 DEF Invalidate
    <3>2. fetch'.state # "none" /\ fetch'.state \in {"asked", "answered"}
          /\ (fetch'.state = "answered" => fetch' = fetch)
      BY <1>0, <3>1 DEF Asked, Types
    <3>3. IsList(items)
      BY <2>3 DEF Effects
    <3>4. Types' /\ Lifecycle'
      BY <1>0, <1>1, <1>2, <1>3, <1>7, <3>1, <3>2, <3>3 DEF Types, Lifecycle
    <3>5. FetchInv' /\ DataInv'
      BY <1>0, <1>1, <3>2 DEF FetchInv, Answer, DataInv
    <3> QED BY <1>5, <2>4, <3>4, <3>5 DEF Settled
  <2>7. CASE ~invalid
    <3>1. data' = items /\ UNCHANGED <<entry, fetch, unsubscribes>>
      BY <1>1, <1>7, <2>7
    <3>3. IsList(items)
      BY <2>3 DEF Effects
    <3>4. Types' /\ Lifecycle'
      BY <1>0, <1>1, <1>2, <1>3, <1>7, <3>1, <3>3 DEF Types, Lifecycle
    <3>5. FetchInv'
      BY <1>0, <1>1, <3>1 DEF FetchInv, Answer
    <3>6. ASSUME NEW k \in Keys, fetch.state = "none"
          PROVE  Shows(items, k) = stored[k] \/ Mentions(queue, k)
      <4>1. CASE ~Mentions(batch, k)
        <5>1. Shows(data, k) = stored[k] \/ Mentions(queue, k)
          BY <1>0, <1>4, <1>7, <3>6, <4>1 DEF DataInv, InFlight
        <5>2. \A i \in 1..Len(batch) : batch[i].keypath # k
          BY <2>1, <4>1 DEF Mentions
        <5>3. Shows(items, k) = Shows(data, k)
          BY <2>3, <5>2 DEF Effects
        <5> QED BY <5>1, <5>3
      <4>2. CASE Mentions(batch, k) /\ ~Mentions(queue, k)
        <5>1. PICK i \in 1..Len(batch) :
                batch[i].keypath = k /\ \A j \in 1..Len(batch) : j > i => batch[j].keypath # k
          <6> DEFINE T == {n \in Nat : \E i \in 1..Len(batch) :
                                         batch[i].keypath = k /\ n = Len(batch) - i}
          <6>1. PICK i \in 1..Len(batch) : batch[i].keypath = k
            BY <2>1, <4>2 DEF Mentions
          <6>2. Len(batch) - i \in T
            BY <2>1, <6>1
          <6>3. PICK n \in T : \A y \in T : ~(y < n)
            BY <6>2, LeastNat
          <6>4. PICK m \in 1..Len(batch) : batch[m].keypath = k /\ n = Len(batch) - m
            BY <6>3
          <6>5. ASSUME NEW j \in 1..Len(batch), j > m, batch[j].keypath = k PROVE FALSE
            <7>1. Len(batch) - j \in T /\ Len(batch) - j < Len(batch) - m
              BY <2>1, <6>5
            <7> QED BY <6>3, <6>4, <7>1
          <6> QED BY <6>4, <6>5
        <5>2. LastOf(batch, i) /\ i \in DOMAIN batch
          BY <2>1, <5>1 DEF LastOf
        <5>3. Final(batch[i])
          BY <1>1, <2>1, <4>2, <5>1, <5>2 DEF BatchInv
        <5>4. batch[i].op \in {"value_set", "deleted"}
          BY <1>3, <5>2, <5>3, NoticeShape DEF Final
        <5>5. CASE Has(data, k)
          <6>1. Shows(items, k) = IF batch[i].op = "deleted" THEN Absent ELSE batch[i].value
            BY <2>3, <5>1, <5>4, <5>5 DEF Effects
          <6> QED BY <5>1, <5>3, <5>4, <6>1 DEF Final
        <5>6. CASE ~Has(data, k)
          <6>1. batch[i].op = "deleted"
            BY <2>7, <5>1, <5>2, <5>6 DEF invalidateTags
          <6>2. ~Has(items, k)
            BY <2>3, <5>6 DEF Effects
          <6>3. Shows(items, k) = Absent
            BY <6>2 DEF Shows
          <6> QED BY <5>1, <5>3, <6>1, <6>3 DEF Final
        <5> QED BY <5>5, <5>6
      <4> QED BY <4>1, <4>2
    <3>7. DataInv'
      BY <1>1, <3>1, <3>6 DEF DataInv
    <3> QED BY <1>5, <2>4, <3>4, <3>5, <3>7 DEF Settled
  <2> QED BY <2>5, <2>6, <2>7
<1> QED BY <1>6, <1>7
\* A change of an entry that is there before it, or of a new one.
LEMMA NotifiedKeeps ==
  ASSUME Settled, entry = "loaded", NEW k \in Keys, NEW cs \in Seq(Notice),
         queue' = queue \o cs, UNCHANGED <<comet, entry>>,
         \A j \in Keys \ {k} : stored'[j] = stored[j],
         \/ \E v \in Values : cs = <<ChangeOf("created", k, Absent), ChangeOf("value_set", k, v)>>
                            /\ stored'[k] = v
         \/ \E v \in Values : cs = <<ChangeOf("value_set", k, v)>>
                            /\ stored'[k] = v /\ stored[k] # Absent
         \/ cs = <<ChangeOf("deleted", k, Absent)>> /\ stored'[k] = Absent /\ stored[k] # Absent
  PROVE  PendingInv'
<1> DEFINE all == queue \o cs
           n == Len(queue)
           m == Len(cs)
<1>0. /\ Types /\ QueueInv /\ BatchInv
      /\ queue \in Seq(Notice) /\ n \in Nat /\ DOMAIN queue = 1..n
  BY NoticeShape DEF Settled, PendingInv, Types
<1>1. /\ all \in Seq(Notice) /\ m \in Nat /\ DOMAIN cs = 1..m /\ DOMAIN all = 1..(n + m)
      /\ \A i \in 1..n : all[i] = queue[i]
      /\ \A i \in 1..m : all[n + i] = cs[i]
  <2>1. /\ all \in Seq(Notice) /\ Len(all) = n + m
        /\ \A i \in 1..(n + m) : all[i] = IF i <= n THEN queue[i] ELSE cs[i - n]
    BY <1>0, ConcatProperties
  <2>2. m \in Nat /\ DOMAIN cs = 1..m
    BY NoticeShape
  <2>3. DOMAIN all = 1..(n + m)
    BY <2>1, LenProperties
  <2> HIDE DEF all, n, m
  <2>4. ASSUME NEW i \in 1..n PROVE all[i] = queue[i]
    BY <1>0, <2>1, <2>2
  <2>5. ASSUME NEW i \in 1..m PROVE all[n + i] = cs[i]
    <3>1. n + i \in 1..(n + m) /\ ~(n + i <= n) /\ (n + i) - n = i
      BY <1>0, <2>2
    <3> QED BY <2>1, <3>1
  <2> QED BY <2>1, <2>2, <2>3, <2>4, <2>5
<1>2. /\ m \in {1, 2} /\ \A i \in 1..m : cs[i].keypath = k
      /\ m = 2 => /\ cs[1].op = "created" /\ cs[2].op = "value_set"
                  /\ cs[2].value = stored'[k]
      /\ m = 1 => /\ stored[k] # Absent
                  /\ \/ cs[1].op = "value_set" /\ cs[1].value = stored'[k]
                     \/ cs[1].op = "deleted" /\ stored'[k] = Absent
  BY DEF ChangeOf
<1> HIDE DEF all, n, m
<1>3. queue' = all
  BY DEF all
<1>4. ASSUME NEW c, c.keypath \in Keys, c.keypath # k, Final(c)
      PROVE  Final(c)'
  BY <1>4 DEF Final
<1>5. \A i \in 1..(n + m) : i \in 1..n \/ \E a \in 1..m : i = n + a
  <2> TAKE i \in 1..(n + m)
  <2>1. i \in 1..n \/ (i - n \in 1..m /\ i = n + (i - n))
    BY <1>0, <1>1
  <2> QED BY <2>1
<1>6. /\ \A i \in 1..n : i \in 1..(n + m)
      /\ \A a \in 1..m : n + a \in 1..(n + m)
      /\ \A i \in 1..n, a \in 1..m : i < n + a /\ ~(n + a < i)
      /\ \A a, b \in 1..m : n + a < n + b => a < b
  BY <1>0, <1>1
<1>7. \A i \in 1..n : queue[i].keypath \in Keys
  BY <1>0, NoticeShape
<1>7a. InTurnUpTo(queue, n)
  BY <1>0, InTurnAt DEF QueueInv
<1>8. InTurnUpTo(all, n + m)
  <2> SUFFICES ASSUME NEW i \in 1..(n + m), NEW j \in 1..(n + m), i < j,
                      all[i].keypath = all[j].keypath, all[i].op = "deleted"
               PROVE  \E x \in 1..(n + m) : /\ i < x /\ x <= j
                                            /\ all[x].keypath = all[i].keypath
                                            /\ all[x].op = "created"
    BY DEF InTurnUpTo
  <2>1. ASSUME NEW a \in 1..m, i = n + a PROVE FALSE
    <3>1. cs[a].op = "deleted"
      BY <1>1, <2>1
    <3>2. a = m
      BY <1>2, <3>1
    <3>3. PICK b \in 1..m : j = n + b
      BY <1>5, <1>6, <2>1
    <3>4. a < b
      BY <1>6, <2>1, <3>3
    <3> QED BY <1>1, <3>2, <3>4
  <2>2. i \in 1..n
    BY <1>5, <2>1
  <2>3. CASE j \in 1..n
    <3>1. queue[i].keypath = queue[j].keypath /\ queue[i].op = "deleted"
      BY <1>1, <2>2, <2>3
    <3>2. PICK x \in 1..n : /\ i < x /\ x <= j
                            /\ queue[x].keypath = queue[i].keypath /\ queue[x].op = "created"
      BY <1>7a, <2>2, <2>3, <3>1 DEF InTurnUpTo
    <3> QED BY <1>1, <1>6, <2>2, <3>2
  <2>4. CASE j \notin 1..n
    <3>1. PICK b \in 1..m : j = n + b
      BY <1>5, <2>4
    <3>2. queue[i].keypath = k /\ queue[i].op = "deleted"
      BY <1>1, <1>2, <2>2, <3>1
    <3>3. CASE m = 2
      <4>1. 1 \in 1..m /\ n + 1 <= n + b
        BY <1>0, <1>1, <3>1, <3>3
      <4>2. all[n + 1].keypath = k /\ all[n + 1].op = "created"
        BY <1>1, <1>2, <3>3, <4>1
      <4> QED BY <1>1, <1>6, <2>2, <3>1, <3>2, <4>1, <4>2
    <3>4. CASE m # 2
      <4>1. ~Final(queue[i])
        BY <1>2, <3>2, <3>4 DEF Final
      <4>2. ~LastOf(queue, i)
        BY <1>0, <2>2, <4>1 DEF QueueInv
      <4>3. PICK y \in 1..n : y > i /\ queue[y].keypath = k
        BY <1>0, <3>2, <4>2 DEF LastOf
      <4>4. PICK x \in 1..n : /\ i < x /\ x <= y
                              /\ queue[x].keypath = queue[i].keypath /\ queue[x].op = "created"
        BY <1>7a, <2>2, <3>2, <4>3 DEF InTurnUpTo
      <4>5. x <= j
        BY <1>0, <1>1, <3>1
      <4> QED BY <1>1, <1>6, <2>2, <4>4, <4>5
    <3> QED BY <3>3, <3>4
  <2> QED BY <2>3, <2>4
<1>9. \A i \in 1..(n + m) : all[i].keypath = k =>
        /\ i = n + m \/ (n + m > i /\ all[n + m].keypath = k)
        /\ all[n + m] = cs[m] /\ m \in 1..m
  BY <1>0, <1>1, <1>2
<1>10. ASSUME NEW i \in 1..(n + m), LastOf(all, i)
       PROVE  /\ all[i].op # "created"
              /\ all[i].op = "deleted" => stored'[all[i].keypath] = Absent
              /\ all[i].op = "value_set" => stored'[all[i].keypath] = all[i].value
  <2>1. CASE all[i].keypath = k
    <3>1. i = n + m /\ all[i] = cs[m] /\ n + m \in 1..(n + m)
      BY <1>1, <1>6, <1>9, <1>10, <2>1 DEF LastOf
    <3> QED BY <1>2, <2>1, <3>1
  <2>2. CASE all[i].keypath # k
    <3>1. i \in 1..n
      BY <1>1, <1>2, <1>5, <2>2
    <3>2. LastOf(queue, i) /\ all[i] = queue[i]
      BY <1>0, <1>1, <1>6, <1>10, <3>1 DEF LastOf
    <3>3. Final(queue[i]) /\ queue[i].keypath \in Keys
      BY <1>0, <1>7, <3>1, <3>2 DEF QueueInv
    <3> QED BY <2>2, <3>2, <3>3 DEF Final
  <2> QED BY <2>1, <2>2
<1>11. QueueInv'
  <2>1. DOMAIN queue' = 1..(n + m)
    BY <1>1, <1>3
  <2>2. InTurn(all)
    BY <1>1, <1>8, InTurnAt
  <2> QED BY <1>1, <1>3, <1>10, <2>2 DEF QueueInv, Final
<1>12. /\ \A x : Mentions(all, x) <=> Mentions(queue, x) \/ x = k
       /\ \A x : CreatedLater(x) => \E j \in DOMAIN all : all[j].keypath = x /\ all[j].op = "created"
       /\ m = 2 => \E j \in DOMAIN all : all[j].keypath = k /\ all[j].op = "created"
  <2>1. ASSUME NEW x, NEW j \in 1..n, queue[j].keypath = x
        PROVE  j \in DOMAIN all /\ all[j] = queue[j]
    BY <1>1, <1>6
  <2>2. 1 \in 1..m /\ n + 1 \in DOMAIN all /\ all[n + 1] = cs[1] /\ cs[1].keypath = k
    BY <1>1, <1>2, <1>6
  <2>3. ASSUME NEW x, NEW j \in DOMAIN all, all[j].keypath = x
        PROVE  x = k \/ Mentions(queue, x)
    <3>1. CASE j \in 1..n
      BY <1>0, <1>1, <2>3, <3>1 DEF Mentions
    <3>2. CASE \E b \in 1..m : j = n + b
      BY <1>1, <1>2, <2>3, <3>2
    <3> QED BY <1>1, <1>5, <3>1, <3>2
  <2>4. \A x : Mentions(all, x) <=> Mentions(queue, x) \/ x = k
    BY <1>0, <2>1, <2>2, <2>3 DEF Mentions
  <2>5. \A x : CreatedLater(x) => \E j \in DOMAIN all : all[j].keypath = x /\ all[j].op = "created"
    BY <1>0, <2>1 DEF CreatedLater
  <2> QED BY <1>2, <2>2, <2>4, <2>5
<1>13. BatchInv'
  <2> SUFFICES ASSUME comet.state = "answered", NEW i \in DOMAIN comet.batch, LastOf(comet.batch, i)
               PROVE  LET c == comet.batch[i]
                      IN /\ InTurn(comet.batch)
                         /\ Mentions(all, c.keypath) /\ c.op = "deleted" =>
                              \E j \in DOMAIN all : all[j].keypath = c.keypath /\ all[j].op = "created"
                         /\ ~Mentions(all, c.keypath) =>
                              /\ c.op # "created"
                              /\ c.op = "deleted" => stored'[c.keypath] = Absent
                              /\ c.op = "value_set" => stored'[c.keypath] = c.value
    BY <1>0, <1>3 DEF BatchInv, CreatedLater, Final
  <2> DEFINE c == comet.batch[i]
  <2>1. /\ InTurn(comet.batch)
        /\ Mentions(queue, c.keypath) /\ c.op = "deleted" => CreatedLater(c.keypath)
        /\ ~Mentions(queue, c.keypath) => Final(c)
    BY <1>0 DEF BatchInv
  <2>2. c.keypath \in Keys
    BY <1>0, NoticeShape DEF Types
  <2> HIDE DEF c
  <2>3. ASSUME Mentions(all, c.keypath), c.op = "deleted"
        PROVE  \E j \in DOMAIN all : all[j].keypath = c.keypath /\ all[j].op = "created"
    <3>1. CASE Mentions(queue, c.keypath)
      BY <1>12, <2>1, <2>3, <3>1
    <3>2. CASE ~Mentions(queue, c.keypath)
      <4>1. c.keypath = k /\ stored[k] = Absent
        BY <1>12, <2>1, <2>3, <3>2 DEF Final
      <4> QED BY <1>2, <1>12, <4>1
    <3> QED BY <3>1, <3>2
  <2>4. ASSUME ~Mentions(all, c.keypath)
        PROVE  /\ c.op # "created"
               /\ c.op = "deleted" => stored'[c.keypath] = Absent
               /\ c.op = "value_set" => stored'[c.keypath] = c.value
    BY <1>12, <2>1, <2>2, <2>4 DEF Final
  <2> QED BY <2>1, <2>3, <2>4 DEF c
<1> QED BY <1>11, <1>13 DEF PendingInv
LEMMA MentionsConcat ==
  ASSUME NEW a \in Seq(Notice), NEW b \in Seq(Notice), NEW k,
         Mentions(a, k) \/ Mentions(b, k)
  PROVE  Mentions(a \o b, k)
<1> DEFINE n == Len(a)
           m == Len(b)
           all == a \o b
<1>1. /\ all \in Seq(Notice) /\ Len(all) = n + m
      /\ \A i \in 1..(n + m) : all[i] = IF i <= n THEN a[i] ELSE b[i - n]
  BY ConcatProperties
<1>2. n \in Nat /\ m \in Nat /\ DOMAIN a = 1..n /\ DOMAIN b = 1..m /\ DOMAIN all = 1..(n + m)
  BY <1>1, LenProperties
<1> HIDE DEF all, n, m
<1>3. CASE Mentions(a, k)
  <2>1. PICK i \in 1..n : a[i].keypath = k
    BY <1>2, <1>3 DEF Mentions
  <2>2. i \in 1..(n + m) /\ i <= n
    BY <1>2
  <2> QED BY <1>1, <1>2, <2>1, <2>2 DEF Mentions, all
<1>4. CASE Mentions(b, k)
  <2>1. PICK i \in 1..m : b[i].keypath = k
    BY <1>2, <1>4 DEF Mentions
  <2>2. n + i \in 1..(n + m) /\ ~(n + i <= n) /\ (n + i) - n = i
    BY <1>2
  <2>3. all[n + i] = b[i]
    BY <1>1, <2>2
  <2>4. n + i \in DOMAIN all /\ all[n + i].keypath = k
    BY <1>2, <2>1, <2>2, <2>3
  <2> QED BY <2>4 DEF Mentions, all
<1> QED BY <1>3, <1>4

\* A change of others is notified, or nothing is cached that it could concern.
LEMMA OtherChangeKeeps ==
  ASSUME Settled, NEW k \in Keys, OtherChange(k), raced = {}, raced' = {}
  PROVE  Settled'
<1>0. Types /\ Lifecycle /\ EditsInv /\ FetchInv /\ DataInv /\ PendingInv
  BY DEF Settled
<1>1. /\ entry = "loaded" => handle = "started"
      /\ fetch.state # "answered" /\ \A e \in Edits : ~InFlight(e)
      /\ UNCHANGED <<handle, data, entry, fetch, subscription, comet, unsubscribes, edits, shown>>
  BY DEF OtherChange, Raced, ui
<1>2. PICK cs :
        /\ queue' = IF handle = "started" THEN queue \o cs ELSE queue
        /\ \/ \E v \in Values :
                /\ cs = <<ChangeOf("created", k, Absent), ChangeOf("value_set", k, v)>>
                /\ stored' = [stored EXCEPT ![k] = v]
           \/ \E v \in Values :
                /\ cs = <<ChangeOf("value_set", k, v)>>
                /\ stored' = [stored EXCEPT ![k] = v] /\ stored[k] # Absent
           \/ /\ cs = <<ChangeOf("deleted", k, Absent)>>
              /\ stored' = [stored EXCEPT ![k] = Absent] /\ stored[k] # Absent
  <2>1. CASE \E v \in Values \ {stored[k]} :
               /\ stored' = [stored EXCEPT ![k] = v]
               /\ Notify(IF stored[k] = Absent
                         THEN <<ChangeOf("created", k, Absent), ChangeOf("value_set", k, v)>>
                         ELSE <<ChangeOf("value_set", k, v)>>)
    <3>1. PICK v \in Values :
               /\ stored' = [stored EXCEPT ![k] = v]
               /\ Notify(IF stored[k] = Absent
                         THEN <<ChangeOf("created", k, Absent), ChangeOf("value_set", k, v)>>
                         ELSE <<ChangeOf("value_set", k, v)>>)
      BY <2>1
    <3>2. CASE stored[k] = Absent
      <4> DEFINE cs == <<ChangeOf("created", k, Absent), ChangeOf("value_set", k, v)>>
      <4>1. Notify(cs)
        BY <3>1, <3>2
      <4>2. queue' = IF handle = "started" THEN queue \o cs ELSE queue
        BY <4>1 DEF Notify
      <4> QED BY <3>1, <4>2
    <3>3. CASE stored[k] # Absent
      <4> DEFINE cs == <<ChangeOf("value_set", k, v)>>
      <4>1. Notify(cs)
        BY <3>1, <3>3
      <4>2. queue' = IF handle = "started" THEN queue \o cs ELSE queue
        BY <4>1 DEF Notify
      <4> QED BY <3>1, <3>3, <4>2
    <3> QED BY <3>2, <3>3
  <2>2. CASE /\ stored[k] # Absent
             /\ stored' = [stored EXCEPT ![k] = Absent]
             /\ Notify(<<ChangeOf("deleted", k, Absent)>>)
    BY <2>2 DEF Notify
  <2> QED BY <2>1, <2>2 DEF OtherChange
<1>3. /\ stored' \in [Keys -> Values \cup {Absent}]
      /\ \A j \in Keys \ {k} : stored'[j] = stored[j]
  BY <1>0, <1>2 DEF Types
<1>4. cs \in Seq(Notice) /\ Mentions(cs, k)
  <2>1. /\ ChangeOf("created", k, Absent) \in Notice /\ ChangeOf("deleted", k, Absent) \in Notice
        /\ \A v \in Values : ChangeOf("value_set", k, v) \in Notice
        /\ \A op, v : ChangeOf(op, k, v).keypath = k
    BY DEF ChangeOf, Notice, Change
  <2>2. \A c, d \in Notice : c.keypath = k =>
          /\ <<c, d>> \in Seq(Notice) /\ <<c>> \in Seq(Notice)
          /\ Mentions(<<c, d>>, k) /\ Mentions(<<c>>, k)
    BY DEF Mentions
  <2>3. PICK v : \/ /\ v \in Values
                    /\ \/ cs = <<ChangeOf("created", k, Absent), ChangeOf("value_set", k, v)>>
                       \/ cs = <<ChangeOf("value_set", k, v)>>
                 \/ cs = <<ChangeOf("deleted", k, Absent)>>
    BY <1>2
  <2>4. CASE v \in Values /\ cs = <<ChangeOf("created", k, Absent), ChangeOf("value_set", k, v)>>
    BY <2>1, <2>2, <2>4
  <2>5. CASE v \in Values /\ cs = <<ChangeOf("value_set", k, v)>>
    BY <2>1, <2>2, <2>5
  <2>6. CASE cs = <<ChangeOf("deleted", k, Absent)>>
    BY <2>1, <2>2, <2>6
  <2> QED BY <2>3, <2>4, <2>5, <2>6
<1>5. queue' \in Seq(Notice)
  BY <1>0, <1>2, <1>4, ConcatProperties DEF Types
<1>6. Types' /\ Lifecycle'
  <2>1. Types'
    BY <1>0, <1>1, <1>3, <1>5 DEF Types
  <2>2. handle # "started" => queue' = queue
    BY <1>2
  <2>3. Lifecycle'
    BY <1>0, <1>1, <2>2 DEF Lifecycle
  <2> QED BY <2>1, <2>3
<1>7. EditsInv' /\ FetchInv'
  BY <1>1 DEF EditsInv, InFlight, FetchInv
<1>8. CASE entry # "loaded"
  <2>1. DataInv' /\ PendingInv'
    BY <1>1, <1>8 DEF DataInv, PendingInv
  <2> QED BY <1>6, <1>7, <2>1 DEF Settled
<1>9. CASE entry = "loaded"
  <2>1. queue' = queue \o cs /\ queue \in Seq(Notice)
    BY <1>0, <1>1, <1>2, <1>9 DEF Types
  <2>2. \A x : Mentions(queue, x) \/ x = k => Mentions(queue', x)
    BY <1>4, <2>1, MentionsConcat
  <2>3. DataInv'
    BY <1>0, <1>1, <1>3, <1>9, <2>2 DEF DataInv
  <2>4. \/ \E v \in Values : cs = <<ChangeOf("created", k, Absent), ChangeOf("value_set", k, v)>>
                          /\ stored'[k] = v
        \/ \E v \in Values : cs = <<ChangeOf("value_set", k, v)>>
                          /\ stored'[k] = v /\ stored[k] # Absent
        \/ cs = <<ChangeOf("deleted", k, Absent)>> /\ stored'[k] = Absent /\ stored[k] # Absent
    <3>1. stored \in [Keys -> Values \cup {Absent}]
      BY <1>0 DEF Types
    <3>2. \A v : [stored EXCEPT ![k] = v][k] = v
      BY <3>1
    <3> QED BY <1>2, <3>2
  <2>5. PendingInv'
    BY <1>1, <1>3, <1>4, <1>9, <2>1, <2>4, NotifiedKeeps
  <2> QED BY <1>6, <1>7, <2>3, <2>5 DEF Settled
<1> QED BY <1>8, <1>9
------------------------------------------------------------------------------
(* Edits.                                                                    *)

LEMMA BeginEditKeeps ==
  ASSUME Settled, NEW e \in Edits, NEW k \in Keys, NEW v \in Values \cup {Absent},
         NEW op \in {"set", "create", "delete"}, BeginEdit(e, op, k, v), raced = {}, raced' = {}
  PROVE  Settled'
<1>0. Types /\ Lifecycle /\ EditsInv /\ FetchInv /\ DataInv /\ PendingInv
  BY DEF Settled
<1> DEFINE new == [state |-> "sent", op |-> op, keypath |-> k, value |-> v]
<1>1. /\ edits[e].state = "none" /\ entry = "loaded"
      /\ op = "create" <=> ~Has(data, k)
      /\ op = "delete" <=> v = Absent
      /\ edits' = [edits EXCEPT ![e] = new]
      /\ queue = <<>> /\ comet.state # "answered" /\ fetch.state = "none"
      /\ \A f \in Edits : InFlight(f) => edits[f].keypath # k
      /\ UNCHANGED <<stored, queue, handle, data, entry, fetch, subscription, comet,
                     unsubscribes, shown>>
  BY DEF BeginEdit, Raced, srv, ui
<1>2. /\ new.state = "sent" /\ new.op = op /\ new.keypath = k /\ new.value = v
      /\ new \in [state: {"none", "sent", "answered", "done"},
                   op: {"set", "create", "delete"}, keypath: Keys, value: Values \cup {Absent}]
  OBVIOUS
<1> HIDE DEF new
<1>3. edits'[e] = new /\ \A f \in Edits : f # e => edits'[f] = edits[f]
  BY <1>0, <1>1 DEF Types
<1>4. Types' /\ Lifecycle'
  BY <1>0, <1>1, <1>2 DEF Types, Lifecycle
<1>5. \A f \in Edits : f # e => (InFlight(f)' <=> InFlight(f))
  BY <1>3 DEF InFlight
<1>6. EditsInv'
  <2> SUFFICES ASSUME NEW f \in Edits, InFlight(f)'
               PROVE  /\ entry = "loaded" /\ fetch.state = "none" /\ queue = <<>>
                      /\ comet.state # "answered"
                      /\ edits'[f].op = "create" <=> ~Has(data, edits'[f].keypath)
                      /\ edits'[f].op = "delete" <=> edits'[f].value = Absent
                      /\ edits'[f].state = "answered" =>
                           stored[edits'[f].keypath] = edits'[f].value
                      /\ \A g \in Edits : InFlight(g)' /\ g # f =>
                           edits'[g].keypath # edits'[f].keypath
    BY <1>1 DEF EditsInv
  <2>1. CASE f = e
    <3>1. \A g \in Edits : InFlight(g)' /\ g # f => edits'[g].keypath # edits'[f].keypath
      BY <1>1, <1>2, <1>3, <1>5, <2>1
    <3> QED BY <1>1, <1>2, <1>3, <2>1, <3>1
  <2>2. CASE f # e
    <3>1. InFlight(f) /\ edits'[f] = edits[f]
      BY <1>3, <1>5, <2>2
    <3>2. \A g \in Edits : InFlight(g)' /\ g # f => edits'[g].keypath # edits'[f].keypath
      <4> TAKE g \in Edits
      <4> HAVE InFlight(g)' /\ g # f
      <4>1. CASE g = e
        BY <1>1, <1>2, <1>3, <3>1, <4>1
      <4>2. CASE g # e
        BY <1>0, <1>3, <1>5, <3>1, <4>2 DEF EditsInv
      <4> QED BY <4>1, <4>2
    <3> QED BY <1>0, <1>1, <3>1, <3>2 DEF EditsInv
  <2> QED BY <2>1, <2>2
<1>7. FetchInv'
  BY <1>1 DEF FetchInv
<1>8. DataInv'
  BY <1>0, <1>1, <1>3 DEF DataInv
<1>9. PendingInv'
  BY <1>0, <1>1 DEF PendingInv, QueueInv, BatchInv, CreatedLater, Final
<1> QED BY <1>4, <1>6, <1>7, <1>8, <1>9 DEF Settled

LEMMA ServeEditKeeps ==
  ASSUME Settled, NEW e \in Edits, ServeEdit(e)
  PROVE  Settled'
<1>0. Types /\ Lifecycle /\ EditsInv /\ FetchInv /\ DataInv /\ PendingInv
  BY DEF Settled
<1> DEFINE k == edits[e].keypath
           v == edits[e].value
<1>1. /\ edits[e].state = "sent"
      /\ edits' = [edits EXCEPT ![e].state = "answered"]
      /\ stored' = [stored EXCEPT ![k] = v]
      /\ UNCHANGED <<queue, handle, data, entry, fetch, subscription, comet, unsubscribes, shown>>
  BY DEF ServeEdit, ui
<1>2. k \in Keys /\ v \in Values \cup {Absent}
  BY <1>0 DEF Types
<1>3. /\ edits'[e].state = "answered" /\ edits'[e].op = edits[e].op
      /\ edits'[e].keypath = k /\ edits'[e].value = v
      /\ \A f \in Edits : f # e => edits'[f] = edits[f]
  BY <1>0, <1>1 DEF Types
<1>4. /\ stored' \in [Keys -> Values \cup {Absent}] /\ stored'[k] = v
      /\ \A j \in Keys : j # k => stored'[j] = stored[j]
  BY <1>0, <1>1, <1>2 DEF Types
<1>5. edits' \in [Edits -> [state: {"none", "sent", "answered", "done"},
                            op: {"set", "create", "delete"}, keypath: Keys,
                            value: Values \cup {Absent}]]
  BY <1>0, <1>1 DEF Types
<1>6. Types' /\ Lifecycle'
  BY <1>0, <1>1, <1>4, <1>5 DEF Types, Lifecycle
<1>7. /\ InFlight(e) /\ entry = "loaded" /\ fetch.state = "none" /\ queue = <<>>
      /\ comet.state # "answered"
      /\ \A f \in Edits : InFlight(f)' <=> InFlight(f)
  <2>1. InFlight(e)
    BY <1>1 DEF InFlight
  <2>2. \A f \in Edits : InFlight(f)' <=> InFlight(f)
    BY <1>3, <2>1 DEF InFlight
  <2> QED BY <1>0, <2>1, <2>2 DEF EditsInv
<1>8. EditsInv'
  <2> SUFFICES ASSUME NEW f \in Edits, InFlight(f)'
               PROVE  /\ entry = "loaded" /\ fetch.state = "none" /\ queue = <<>>
                      /\ comet.state # "answered"
                      /\ edits'[f].op = "create" <=> ~Has(data, edits'[f].keypath)
                      /\ edits'[f].op = "delete" <=> edits'[f].value = Absent
                      /\ edits'[f].state = "answered" =>
                           stored'[edits'[f].keypath] = edits'[f].value
                      /\ \A g \in Edits : InFlight(g)' /\ g # f =>
                           edits'[g].keypath # edits'[f].keypath
    BY <1>1 DEF EditsInv
  <2>1. /\ \A g \in Edits : /\ edits'[g].keypath = edits[g].keypath
                            /\ edits'[g].op = edits[g].op
                            /\ edits'[g].value = edits[g].value
    BY <1>3
  <2>2. /\ InFlight(f)
        /\ edits[f].op = "create" <=> ~Has(data, edits[f].keypath)
        /\ edits[f].op = "delete" <=> edits[f].value = Absent
        /\ edits[f].state = "answered" => stored[edits[f].keypath] = edits[f].value
        /\ \A g \in Edits : InFlight(g) /\ g # f => edits[g].keypath # edits[f].keypath
    BY <1>0, <1>7 DEF EditsInv
  <2>3. edits'[f].state = "answered" => stored'[edits[f].keypath] = edits[f].value
    <3>1. CASE f = e
      BY <1>4, <3>1
    <3>2. CASE f # e
      <4>1. edits[f].keypath # k /\ edits[f].keypath \in Keys
        BY <1>0, <1>7, <2>2, <3>2 DEF Types
      <4> QED BY <1>3, <1>4, <2>2, <3>2, <4>1
    <3> QED BY <3>1, <3>2
  <2> QED BY <1>7, <2>1, <2>2, <2>3
<1>9. FetchInv'
  BY <1>1, <1>7 DEF FetchInv
<1>10. DataInv'
  <2> SUFFICES ASSUME NEW j \in Keys
               PROVE  \/ Shows(data, j) = stored'[j]
                      \/ Mentions(queue, j)
                      \/ comet.state = "answered" /\ Mentions(comet.batch, j)
                      \/ \E f \in Edits : edits'[f].state = "answered" /\ edits'[f].keypath = j
    BY <1>1 DEF DataInv
  <2>1. CASE j = k
    BY <1>3, <2>1
  <2>2. CASE j # k
    BY <1>0, <1>3, <1>4, <1>7, <2>2 DEF DataInv
  <2> QED BY <2>1, <2>2
<1>11. PendingInv'
  BY <1>1, <1>7, NoneMentioned DEF PendingInv, QueueInv, BatchInv
<1> QED BY <1>6, <1>8, <1>9, <1>10, <1>11 DEF Settled
LEMMA NoEditType ==
  /\ NoEdit.state = "none"
  /\ \A st \in {"none", "done"} :
       /\ [NoEdit EXCEPT !.state = st] \in
            [state: {"none", "sent", "answered", "done"}, op: {"set", "create", "delete"},
             keypath: Keys, value: Values \cup {Absent}]
       /\ [NoEdit EXCEPT !.state = st].state = st
  /\ NoEdit \in [state: {"none", "sent", "answered", "done"}, op: {"set", "create", "delete"},
                 keypath: Keys, value: Values \cup {Absent}]
<1>1. Keypaths \in Seq(Keys) /\ Keypaths # <<>>
  BY CometCacheAssumption
<1>2. 1 \in 1..Len(Keypaths)
  BY <1>1, EmptySeq
<1>3. Keypaths[1] \in Keys
  BY <1>1, <1>2, ElementOfSeq
<1> QED BY <1>3 DEF NoEdit

\* What an edit that is answered does to the list, once its answer is there.
LEMMA EditShows ==
  ASSUME Settled, NEW e \in Edits, ReceiveEdit(e)
  PROVE  /\ InFlight(e) /\ edits[e].state = "answered" /\ entry = "loaded"
         /\ edits[e].keypath \in Keys /\ stored[edits[e].keypath] = edits[e].value
         /\ edits[e].op # "delete" => edits[e].value # Absent
         /\ edits[e].op = "delete" <=> edits[e].value = Absent
         /\ UNCHANGED <<entry, fetch, unsubscribes>>
         /\ IsList(data')
         /\ Shows(data', edits[e].keypath) = edits[e].value
         /\ \A j : j # edits[e].keypath => Shows(data', j) = Shows(data, j)
<1> DEFINE k == edits[e].keypath
           v == edits[e].value
<1>0. Types /\ EditsInv /\ IsList(data)
  BY DEF Settled, Types
<1>1. edits[e].state = "answered" /\ InFlight(e)
  BY DEF ReceiveEdit, InFlight
<1>2. /\ entry = "loaded" /\ stored[k] = v
      /\ edits[e].op = "create" <=> ~Has(data, k)
      /\ edits[e].op = "delete" <=> v = Absent
  BY <1>0, <1>1 DEF EditsInv
<1>3. /\ k \in Keys /\ v \in Values \cup {Absent}
      /\ edits[e].op \in {"set", "create", "delete"}
  BY <1>0 DEF Types
<1>4. /\ data' = CASE edits[e].op = "set"    -> Assigned(data, k, v)
                   [] edits[e].op = "create" -> Created(data, k, v)
                   [] edits[e].op = "delete" -> Removed(data, k)
      /\ IF edits[e].op = "set" /\ ~Has(data, k)
         THEN Invalidate ELSE UNCHANGED <<entry, fetch>>
      /\ unsubscribes' = IF edits[e].op = "set" /\ ~Has(data, k) /\ ~shown
                         THEN unsubscribes + 1 ELSE unsubscribes
  BY <1>2 DEF ReceiveEdit
<1>5. UNCHANGED <<entry, fetch, unsubscribes>>
  BY <1>2, <1>4
<1> HIDE DEF k, v
<1>6. CASE edits[e].op = "set"
  <2>1. data' = Assigned(data, k, v) /\ Has(data, k) /\ v \in Values
    BY <1>2, <1>3, <1>4, <1>6
  <2>2. /\ IsList(Assigned(data, k, v))
        /\ \A j : Shows(Assigned(data, k, v), j) = IF j = k THEN v ELSE Shows(data, j)
    BY <1>0, <2>1, AssignedList
  <2> QED BY <1>1, <1>2, <1>3, <1>5, <2>1, <2>2 DEF k, v
<1>7. CASE edits[e].op = "create"
  <2>1. data' = Created(data, k, v) /\ ~Has(data, k) /\ v \in Values
    BY <1>2, <1>3, <1>4, <1>7
  <2>2. /\ IsList(Created(data, k, v))
        /\ \A j : Shows(Created(data, k, v), j) = IF j = k THEN v ELSE Shows(data, j)
    BY <1>0, <1>3, <2>1, CreatedList
  <2> QED BY <1>1, <1>2, <1>3, <1>5, <2>1, <2>2 DEF k, v
<1>8. CASE edits[e].op = "delete"
  <2>1. data' = Removed(data, k) /\ Has(data, k) /\ v = Absent
    BY <1>2, <1>4, <1>8
  <2>2. /\ IsList(Removed(data, k))
        /\ \A j : Shows(Removed(data, k), j) = IF j = k THEN Absent ELSE Shows(data, j)
    BY <1>0, <2>1, RemovedList
  <2> QED BY <1>1, <1>2, <1>3, <1>5, <2>1, <2>2 DEF k, v
<1> QED BY <1>3, <1>6, <1>7, <1>8

LEMMA ReceiveEditKeeps ==
  ASSUME Settled, NEW e \in Edits, ReceiveEdit(e)
  PROVE  Settled'
<1> DEFINE k == edits[e].keypath
           v == edits[e].value
           done == [NoEdit EXCEPT !.state = "done"]
<1>0. Types /\ Lifecycle /\ EditsInv /\ FetchInv /\ DataInv /\ PendingInv
  BY DEF Settled
<1>1. /\ edits' = [edits EXCEPT ![e] = done]
      /\ UNCHANGED <<stored, queue, handle, subscription, comet, shown>>
  BY DEF ReceiveEdit, srv, ui
<1>2. /\ InFlight(e) /\ entry = "loaded" /\ k \in Keys /\ stored[k] = v
      /\ UNCHANGED <<entry, fetch, unsubscribes>>
      /\ IsList(data') /\ IsList(data)
      /\ Shows(data', k) = v
      /\ \A j : j # k => Shows(data', j) = Shows(data, j)
  BY <1>0, EditShows DEF Types
<1>3. /\ fetch.state = "none" /\ queue = <<>> /\ comet.state # "answered"
      /\ \A f \in Edits : InFlight(f) /\ f # e => edits[f].keypath # k
  BY <1>0, <1>2 DEF EditsInv
<1>4. /\ done.state = "done"
      /\ done \in [state: {"none", "sent", "answered", "done"},
                    op: {"set", "create", "delete"}, keypath: Keys, value: Values \cup {Absent}]
  BY NoEditType
<1> HIDE DEF done
<1>5. edits'[e] = done /\ \A f \in Edits : f # e => edits'[f] = edits[f]
  BY <1>0, <1>1 DEF Types
<1>6. ~InFlight(e)' /\ \A f \in Edits : f # e => (InFlight(f)' <=> InFlight(f))
  BY <1>4, <1>5 DEF InFlight
<1>7. Types' /\ Lifecycle'
  BY <1>0, <1>1, <1>2, <1>4 DEF Types, Lifecycle
<1>8. \A j : j # k => (Has(data', j) <=> Has(data, j))
  BY <1>2, HasShows
<1>9. EditsInv'
  <2> SUFFICES ASSUME NEW f \in Edits, InFlight(f)'
               PROVE  /\ entry = "loaded" /\ fetch.state = "none" /\ queue = <<>>
                      /\ comet.state # "answered"
                      /\ edits'[f].op = "create" <=> ~Has(data', edits'[f].keypath)
                      /\ edits'[f].op = "delete" <=> edits'[f].value = Absent
                      /\ edits'[f].state = "answered" =>
                           stored[edits'[f].keypath] = edits'[f].value
                      /\ \A g \in Edits : InFlight(g)' /\ g # f =>
                           edits'[g].keypath # edits'[f].keypath
    BY <1>1, <1>2 DEF EditsInv
  <2>1. f # e /\ InFlight(f) /\ edits'[f] = edits[f] /\ edits[f].keypath # k
    BY <1>3, <1>5, <1>6
  <2>2. \A g \in Edits : InFlight(g)' /\ g # f => edits'[g].keypath # edits'[f].keypath
    <3> TAKE g \in Edits
    <3> HAVE InFlight(g)' /\ g # f
    <3>1. g # e /\ InFlight(g) /\ edits'[g] = edits[g]
      BY <1>5, <1>6
    <3> QED BY <1>0, <2>1, <3>1 DEF EditsInv
  <2>3. /\ edits[f].op = "create" <=> ~Has(data, edits[f].keypath)
        /\ edits[f].op = "delete" <=> edits[f].value = Absent
        /\ edits[f].state = "answered" => stored[edits[f].keypath] = edits[f].value
    BY <1>0, <2>1 DEF EditsInv
  <2> QED BY <1>2, <1>3, <1>8, <2>1, <2>2, <2>3
<1>10. FetchInv'
  BY <1>2, <1>3 DEF FetchInv
<1>11. DataInv'
  <2> SUFFICES ASSUME NEW j \in Keys
               PROVE  \/ Shows(data', j) = stored[j]
                      \/ \E f \in Edits : edits'[f].state = "answered" /\ edits'[f].keypath = j
    BY <1>1 DEF DataInv
  <2>1. CASE j = k
    BY <1>2, <2>1
  <2>2. CASE j # k
    <3>1. \/ Shows(data, j) = stored[j]
          \/ \E f \in Edits : edits[f].state = "answered" /\ edits[f].keypath = j
      BY <1>0, <1>2, <1>3, NoneMentioned DEF DataInv
    <3> QED BY <1>2, <1>5, <2>2, <3>1
  <2> QED BY <2>1, <2>2
<1>12. PendingInv'
  BY <1>1, <1>3, NoneMentioned DEF PendingInv, QueueInv, BatchInv
<1> QED BY <1>7, <1>9, <1>10, <1>11, <1>12 DEF Settled

------------------------------------------------------------------------------
(* The theorems.                                                             *)

LEMMA CacheInit == Init => CacheInv
<1> SUFFICES ASSUME Init
             PROVE  Settled
  BY DEF CacheInv
<1>1. /\ stored \in [Keys -> Initial] /\ queue = <<>> /\ handle = "none" /\ data = <<>>
      /\ entry = "absent" /\ fetch.state = "none" /\ subscription = "none"
      /\ comet = [state |-> "none", batch |-> <<>>] /\ unsubscribes = 0
      /\ edits = [e \in Edits |-> NoEdit] /\ shown = FALSE
  BY DEF Init, Idle
<1>2. stored \in [Keys -> Values \cup {Absent}]
  BY <1>1, CometCacheAssumption
<1>3. \A e \in Edits : ~InFlight(e)
  BY <1>1, NoEditType DEF InFlight
<1>4. edits \in [Edits -> [state: {"none", "sent", "answered", "done"},
                           op: {"set", "create", "delete"}, keypath: Keys,
                           value: Values \cup {Absent}]]
  BY <1>1, NoEditType
<1>5. Types
  BY <1>1, <1>2, <1>4, EmptyList, NoneMentioned DEF Types
<1>6. Lifecycle
  BY <1>1 DEF Lifecycle
<1>7. EditsInv /\ FetchInv /\ DataInv /\ PendingInv
  BY <1>1, <1>3 DEF EditsInv, FetchInv, DataInv, PendingInv
<1> QED BY <1>5, <1>6, <1>7 DEF Settled

\* What has crossed is not forgotten, and a logout is not taken back.
LEMMA RaceStays ==
  ASSUME Next, ~Logout, ~LoggedOut
  PROVE  raced \subseteq raced' /\ logout' = logout
<1>1. CASE Serve
  BY <1>1 DEF Serve, ServeQuery, ServeSubscribe, ServeUnsubscribe, ServeComet, ui
<1>2. CASE Receive
  BY <1>2 DEF Receive, ReceiveQuery, ReceiveSubscribe, ReceiveComet, Raced, ui
<1>3. CASE \E e \in Edits : ServeEdit(e) \/ ReceiveEdit(e)
  BY <1>3 DEF ServeEdit, ReceiveEdit, Raced, ui
<1>4. CASE Show \/ Hide \/ Expire \/ Forget
  BY <1>4 DEF Show, Hide, Expire, Forget, Raced, ui
<1>5. CASE \E k \in Keys : OtherChange(k)
  BY <1>5 DEF OtherChange, Raced, ui
<1>6. CASE \E e \in Edits, k \in Keys, v \in Values \cup {Absent} :
             \E op \in {"set", "create", "delete"} : BeginEdit(e, op, k, v)
  BY <1>6 DEF BeginEdit, Raced, ui
<1> QED BY <1>1, <1>2, <1>3, <1>4, <1>5, <1>6 DEF Next

LEMMA CacheNext == CacheInv /\ [Next]_vars => CacheInv'
<1> SUFFICES ASSUME CacheInv, [Next]_vars, raced' = {}, logout' = "no"
             PROVE  Settled'
  BY DEF CacheInv
<1>1. CASE UNCHANGED vars
  <2>1. /\ UNCHANGED <<stored, queue, handle, data, entry, fetch, subscription, comet,
                       unsubscribes, edits, shown, raced, logout>>
    BY <1>1 DEF vars, srv, ui
  <2>2. Types /\ Lifecycle /\ EditsInv /\ FetchInv /\ DataInv /\ PendingInv
    BY <2>1 DEF CacheInv, Settled
  <2>3. Types' /\ Lifecycle'
    BY <2>1, <2>2 DEF Types, Lifecycle
  <2>4. EditsInv' /\ FetchInv' /\ DataInv'
    BY <2>1, <2>2 DEF EditsInv, InFlight, FetchInv, Answer, DataInv
  <2>5. PendingInv'
    BY <2>1, <2>2 DEF PendingInv, QueueInv, BatchInv, CreatedLater, Final
  <2> QED BY <2>3, <2>4, <2>5 DEF Settled
<1>2. CASE Logout
  BY <1>2 DEF Logout
<1>3. CASE LoggedOut
  BY <1>3 DEF LoggedOut
<1>4. CASE Next /\ ~Logout /\ ~LoggedOut
  <2>1. raced = {} /\ logout = "no"
    BY <1>4, RaceStays
  <2>2. Settled
    BY <2>1 DEF CacheInv
  <2>3. CASE Serve
    BY <2>2, <2>3, ServeQueryKeeps, SubscribeKeeps, ServeUnsubscribeKeeps, ServeCometKeeps
       DEF Serve
  <2>4. CASE Receive
    BY <2>1, <2>2, <2>4, ReceiveQueryKeeps, SubscribeKeeps, ReceiveCometKeeps DEF Receive
  <2>5. CASE \E e \in Edits : ServeEdit(e) \/ ReceiveEdit(e)
    BY <2>2, <2>5, ServeEditKeeps, ReceiveEditKeeps
  <2>6. CASE Show \/ Hide \/ Expire \/ Forget
    BY <2>1, <2>2, <2>6, ShowKeeps, HideKeeps, ExpireKeeps, ForgetKeeps
  <2>7. CASE \E k \in Keys : OtherChange(k)
    BY <2>1, <2>2, <2>7, OtherChangeKeeps
  <2>8. ASSUME NEW e \in Edits, NEW k \in Keys, NEW v \in Values \cup {Absent},
               NEW op \in {"set", "create", "delete"}, BeginEdit(e, op, k, v)
        PROVE  Settled'
    BY <2>1, <2>2, <2>8, BeginEditKeeps
  <2> QED BY <1>4, <2>3, <2>4, <2>5, <2>6, <2>7, <2>8 DEF Next
<1> QED BY <1>1, <1>2, <1>3, <1>4

\* The inductive invariant holds in every reachable state.
THEOREM CacheInvariant == Spec => []CacheInv
BY CacheInit, CacheNext, PTL DEF Spec

\* For any number of entries, edits and changes: when nothing is on its way
\* the cached list holds what the server has, unless a query, a notification
\* and an edit have crossed or the user logs out.
THEOREM CacheIsServer == Spec => []CacheFollows
<1>1. CacheInv => CacheFollows
  <2> SUFFICES ASSUME CacheInv, AtRest, entry = "loaded", logout = "no", raced = {}
               PROVE  {data[i] : i \in DOMAIN data} = {Answer[i] : i \in DOMAIN Answer}
    BY DEF CacheFollows
  <2>1. Types /\ DataInv
    BY DEF CacheInv, Settled
  <2>2. /\ IsList(data) /\ IsList(Answer)
        /\ \A k \in Keys : Shows(Answer, k) = stored[k]
    BY <2>1, AnswerShows DEF Types
  <2>3. \A e \in Edits : edits[e].state # "answered"
    BY DEF AtRest, InFlight
  <2>4. \A k \in Keys : Shows(data, k) = stored[k]
    BY <2>1, <2>3, NoneMentioned DEF DataInv, AtRest
  <2> QED BY <2>2, <2>4, SameItems
<1> QED BY <1>1, CacheInvariant, PTL

\* For any number of entries, edits and changes: an item that goes from a list
\* being shown, other than by the answer of a query, is one that the server
\* has removed or that is being created there.
THEOREM NothingForeign == Spec => NoForeignDeletion
<1> DEFINE A == raced' = {} /\ shown /\ logout = "no" /\ fetch.state # "answered" =>
                 \A k \in Keys : Has(data, k) /\ ~Has(data', k) =>
                   \/ stored[k] = Absent
                   \/ \E i \in DOMAIN queue : queue[i].keypath = k /\ queue[i].op = "created"
<1>1. CacheInv /\ [Next]_vars => [A]_vars
  <2> SUFFICES ASSUME CacheInv, Next, raced' = {}, shown, logout = "no",
                      fetch.state # "answered", NEW k \in Keys, Has(data, k), ~Has(data', k)
               PROVE  stored[k] = Absent \/ CreatedLater(k)
    BY DEF CreatedLater
  <2>1. raced = {}
    BY RaceStays DEF Logout, LoggedOut
  <2>2. Settled /\ Types /\ Lifecycle /\ EditsInv /\ PendingInv /\ IsList(data)
    BY <2>1 DEF CacheInv, Settled, Types
  <2>3. data' # data
    OBVIOUS
  <2>4. CASE ReceiveComet
    <3> DEFINE batch == comet.batch
               items == processCometUpdates(comet.batch, data)
    <3>1. /\ comet.state = "answered" /\ entry = "loaded" /\ data' = items
          /\ ~Recreated(batch)
      BY <2>3, <2>4 DEF ReceiveComet, Raced
    <3>2. /\ batch \in Seq(Notice) /\ InTurn(batch) /\ BatchInv
          /\ DOMAIN batch = 1..Len(batch) /\ Len(batch) \in Nat
      BY <2>2, <3>1, NoticeShape DEF Types, PendingInv, BatchInv
    <3>3. Clean(batch)
      BY <3>1, <3>2, InTurnIsClean
    <3>4. Effects(batch, data, Len(batch), items)
      BY <2>2, <3>2, <3>3, BatchEffects
    <3>5. PICK i \in DOMAIN batch : batch[i].keypath = k /\ batch[i].op = "deleted"
      BY <3>1, <3>2, <3>4 DEF Effects
    <3>6. LastOf(batch, i)
      BY <3>2, <3>3, <3>5 DEF Clean, LastOf
    <3> QED BY <3>1, <3>2, <3>5, <3>6 DEF BatchInv, Final
  <2>5. ASSUME NEW e \in Edits, ReceiveEdit(e)
        PROVE  stored[k] = Absent
    <3>1. /\ IsList(data') /\ stored[edits[e].keypath] = edits[e].value
          /\ Shows(data', edits[e].keypath) = edits[e].value
          /\ \A j : j # edits[e].keypath => Shows(data', j) = Shows(data, j)
      BY <2>2, <2>5, EditShows
    <3>2. Shows(data', k) = Absent /\ Shows(data, k) # Absent
      BY <2>2, <3>1, HasShows
    <3> QED BY <3>1, <3>2
  <2>6. CASE ReceiveQuery
    BY <2>6 DEF ReceiveQuery
  <2>7. CASE Show \/ Expire
    BY <2>7 DEF Show, Expire
  <2>8. CASE Hide \/ Forget \/ Logout \/ LoggedOut
    BY <2>3, <2>8 DEF Hide, Forget, Logout, LoggedOut
  <2>9. CASE Serve \/ ReceiveSubscribe
    BY <2>3, <2>9 DEF Serve, ServeQuery, ServeSubscribe, ServeUnsubscribe, ServeComet,
                      ReceiveSubscribe
  <2>10. CASE \E e \in Edits : ServeEdit(e)
    BY <2>3, <2>10 DEF ServeEdit
  <2>11. CASE \E j \in Keys : OtherChange(j)
    BY <2>3, <2>11 DEF OtherChange
  <2>12. CASE \E e \in Edits, j \in Keys, v \in Values \cup {Absent} :
                \E op \in {"set", "create", "delete"} : BeginEdit(e, op, j, v)
    BY <2>3, <2>12 DEF BeginEdit
  <2> QED BY <2>4, <2>5, <2>6, <2>7, <2>8, <2>9, <2>10, <2>11, <2>12 DEF Next, Receive
<1>2. Spec => [][A]_vars
  BY <1>1, CacheInvariant, PTL DEF Spec
<1> QED BY <1>2 DEF NoForeignDeletion
==============================================================================
