------------------------------ MODULE KernelProofs ------------------------------
(***************************************************************************)
(* The kernel's lists agree with each other and with its tasks, priorities *)
(* are inherited and given back, pends are answered, the best task runs    *)
(* and the mutexes keep their promise, for any number of tasks, mutexes,   *)
(* priorities, delays and timeouts.                                        *)
(*                                                                         *)
(* Bottom up: lists, then each C function of the kernel as a relation of   *)
(* what it leaves to what it was given (r to s), then what each call of a  *)
(* task leaves, then the inductive invariant IInv, that each step keeps    *)
(* it, and what it says of the properties.                                 *)
(***************************************************************************)
EXTENDS Kernel, FiniteSetTheorems, WellFoundedInduction, TLAPS

-----------------------------------------------------------------------------
(* Lists.                                                                  *)

\* A list of the members of S, each of them once.
ListOf(list, S) ==
  /\ list \in Seq(S)
  /\ \A i, j \in DOMAIN list : list[i] = list[j] => i = j
  /\ \A x \in S : \E i \in DOMAIN list : list[i] = x

\* The tasks of list a, in the order they have in list b.
InOrderOf(a, b) ==
  \A i, j \in DOMAIN a : i < j =>
    \E v, w \in DOMAIN b : v < w /\ b[v] = a[i] /\ b[w] = a[j]

\* A set of natural numbers that is not empty has a least element.
LEMMA Least ==
  ASSUME NEW T \in SUBSET Nat, T # {}
  PROVE  Min(T) \in T /\ \A y \in T : Min(T) <= y
<1>1. \E x \in T : \A y \in T : ~(<<y, x>> \in OpToRel(<, Nat))
  BY WFMin, NatLessThanWellFounded
<1>2. PICK x \in T : \A y \in T : ~(<<y, x>> \in OpToRel(<, Nat))
  BY <1>1
<1>3. \A y \in T : ~(y < x)
  BY <1>2 DEF OpToRel
<1>4. \E z \in T : \A y \in T : z =< y
  BY <1>3
<1> QED
  BY <1>4 DEF Min

\* A lower bound that is a member is the least element.
LEMMA LeastIs ==
  ASSUME NEW T \in SUBSET Nat, NEW x \in T, \A y \in T : x <= y
  PROVE  Min(T) = x
<1> DEFINE z == Min(T)
<1>1. z \in T /\ \A y \in T : z <= y
  BY Least
<1>2. z \in Nat /\ x \in Nat /\ z <= x /\ x <= z
  BY <1>1
<1> HIDE DEF z
<1>3. z = x
  BY <1>2
<1> QED
  BY <1>3 DEF z

\* The list of nothing is the empty one.
LEMMA EmptyList ==
  ASSUME NEW S
  PROVE  /\ ListOf(<<>>, {})
         /\ \A list : ListOf(list, S) => (list = <<>> <=> S = {})
<1>1. ListOf(<<>>, {})
  <2>1. <<>> \in Seq({}) /\ DOMAIN <<>> = {}
    OBVIOUS
  <2> QED
    BY <2>1 DEF ListOf
<1>2. ASSUME NEW list, ListOf(list, S) PROVE list = <<>> <=> S = {}
  <2>1. list \in Seq(S) /\ DOMAIN list = 1..Len(list) /\ Len(list) \in Nat
    BY <1>2 DEF ListOf
  <2>2. ASSUME list = <<>>, NEW x \in S PROVE FALSE
    <3>1. DOMAIN list = {}
      BY <2>2
    <3> QED
      BY <1>2, <3>1 DEF ListOf
  <2>3. ASSUME list # <<>> PROVE S # {}
    <3>1. Len(list) # 0
      BY <2>1, <2>3
    <3>2. 1 \in DOMAIN list /\ list[1] \in S
      BY <2>1, <3>1
    <3> QED
      BY <3>2
  <2> QED
    BY <2>2, <2>3
<1> QED
  BY <1>1, <1>2

\* What there is to know of a list.
LEMMA ListType ==
  ASSUME NEW S, NEW list, ListOf(list, S)
  PROVE  /\ list \in Seq(S) /\ Len(list) \in Nat /\ DOMAIN list = 1..Len(list)
         /\ \A i \in DOMAIN list : list[i] \in S
         /\ \A x : Contains(list, x) <=> x \in S
<1>1. list \in Seq(S) /\ Len(list) \in Nat /\ DOMAIN list = 1..Len(list)
  BY DEF ListOf
<1>2. \A i \in DOMAIN list : list[i] \in S
  BY <1>1
<1>3. \A x : Contains(list, x) <=> x \in S
  BY <1>1, <1>2 DEF ListOf, Contains
<1> QED
  BY <1>1, <1>2, <1>3

\* A list of something has a head, which is a member.
LEMMA HeadOfList ==
  ASSUME NEW S, NEW list, ListOf(list, S), S # {}
  PROVE  /\ list # <<>> /\ 1 \in DOMAIN list
         /\ Head(list) = list[1] /\ Head(list) \in S
<1>1. list # <<>>
  BY EmptyList
<1>2. list \in Seq(S) /\ Len(list) \in Nat /\ DOMAIN list = 1..Len(list)
  BY ListType
<1>3. Len(list) # 0 /\ Head(list) = list[1]
  BY <1>1, <1>2
<1> QED
  BY <1>1, <1>2, <1>3

\* tos_list_add.
LEMMA PushList ==
  ASSUME NEW S, NEW list, ListOf(list, S), NEW x, x \notin S
  PROVE  ListOf(<<x>> \o list, S \cup {x})
<1> DEFINE T == S \cup {x}
           new == <<x>> \o list
           N == Len(list)
<1>1. list \in Seq(T) /\ N \in Nat /\ DOMAIN list = 1..N
  BY ListType
<1>2. <<x>> \in Seq(T) /\ Len(<<x>>) = 1
  OBVIOUS
<1>3. new \in Seq(T) /\ Len(new) = N + 1
  BY <1>1, <1>2
<1>4. new[1] = x /\ \A i \in 2..N + 1 : new[i] = list[i - 1]
  BY <1>1, <1>2
<1>5. DOMAIN new = 1..N + 1
  BY <1>1, <1>3
<1> HIDE DEF new, N
<1>6. \A i \in 1..N : list[i] \in S
  BY <1>1, ListType
<1>7. ASSUME NEW i \in DOMAIN new, NEW j \in DOMAIN new, new[i] = new[j] PROVE i = j
  <2>1. \A v, w \in 1..N : list[v] = list[w] => v = w
    BY <1>1 DEF ListOf
  <2>2. CASE i = 1 \/ j = 1
    <3>1. \A v \in 2..N + 1 : new[v] # x
      BY <1>1, <1>4, <1>6
    <3> QED
      BY <1>1, <1>4, <1>5, <1>7, <2>2, <3>1
  <2>3. CASE i # 1 /\ j # 1
    <3>1. i - 1 \in 1..N /\ j - 1 \in 1..N /\ list[i - 1] = list[j - 1]
      BY <1>1, <1>4, <1>5, <1>7, <2>3
    <3>2. i - 1 = j - 1
      BY <2>1, <3>1
    <3> QED
      BY <1>1, <1>5, <3>2
  <2> QED
    BY <2>2, <2>3
<1>8. \A y \in T : \E i \in DOMAIN new : new[i] = y
  <2>1. 1 \in DOMAIN new
    BY <1>1, <1>5
  <2>2. ASSUME NEW y \in S PROVE \E i \in DOMAIN new : new[i] = y
    <3>1. PICK i \in 1..N : list[i] = y
      BY <1>1 DEF ListOf
    <3>2. i + 1 \in DOMAIN new /\ new[i + 1] = y
      BY <1>1, <1>4, <1>5, <3>1
    <3> QED
      BY <3>2
  <2> QED
    BY <1>4, <2>1, <2>2
<1> QED
  BY <1>3, <1>7, <1>8 DEF ListOf, new

\* tos_list_add_tail.
LEMMA AppendList ==
  ASSUME NEW S, NEW list, ListOf(list, S), NEW x, x \notin S
  PROVE  ListOf(Append(list, x), S \cup {x})
<1> DEFINE T == S \cup {x}
           new == Append(list, x)
           N == Len(list)
<1>1. list \in Seq(T) /\ N \in Nat /\ DOMAIN list = 1..N
  BY ListType
<1>2. new \in Seq(T) /\ Len(new) = N + 1
  BY <1>1
<1>3. new[N + 1] = x /\ \A i \in 1..N : new[i] = list[i]
  BY <1>1
<1>4. DOMAIN new = 1..N + 1
  BY <1>1, <1>2
<1> HIDE DEF new, N
<1>5. \A i \in 1..N : list[i] \in S
  BY <1>1, ListType
<1>6. \A i, j \in DOMAIN new : new[i] = new[j] => i = j
  BY <1>1, <1>3, <1>4, <1>5 DEF ListOf
<1>7. \A y \in T : \E i \in DOMAIN new : new[i] = y
  <2>1. N + 1 \in DOMAIN new
    BY <1>1, <1>4
  <2>2. ASSUME NEW y \in S PROVE \E i \in DOMAIN new : new[i] = y
    <3>1. PICK i \in 1..N : list[i] = y
      BY <1>1 DEF ListOf
    <3>2. i \in DOMAIN new /\ new[i] = y
      BY <1>1, <1>3, <1>4, <3>1
    <3> QED
      BY <3>2
  <2> QED
    BY <1>3, <2>1, <2>2
<1> QED
  BY <1>2, <1>6, <1>7 DEF ListOf, new

\* RemoveAt and InsertAt, element by element.
LEMMA RemoveAtIs ==
  ASSUME NEW S, NEW list \in Seq(S), NEW at \in 1..Len(list)
  PROVE  /\ RemoveAt(list, at) \in Seq(S)
         /\ Len(RemoveAt(list, at)) = Len(list) - 1
         /\ DOMAIN RemoveAt(list, at) = 1..Len(list) - 1
         /\ \A i \in 1..at - 1 : RemoveAt(list, at)[i] = list[i]
         /\ \A i \in at..Len(list) - 1 : RemoveAt(list, at)[i] = list[i + 1]
<1> DEFINE N == Len(list)
           u == SubSeq(list, 1, at - 1)
           v == SubSeq(list, at + 1, N)
<1>1. N \in Nat /\ at \in Nat /\ 1 <= at /\ at <= N
  OBVIOUS
<1>2. u \in Seq(S) /\ Len(u) = at - 1 /\ \A i \in 1..at - 1 : u[i] = list[i]
  BY <1>1
<1>3. v \in Seq(S) /\ Len(v) = N - at /\ \A i \in 1..N - at : v[i] = list[at + i]
  BY <1>1
<1>4. RemoveAt(list, at) = u \o v
  BY DEF RemoveAt
<1> HIDE DEF u, v, N
<1>5. u \o v \in Seq(S) /\ Len(u \o v) = N - 1
  <2>1. u \o v \in Seq(S) /\ Len(u \o v) = Len(u) + Len(v)
    <3>1. u \in Seq(S) /\ v \in Seq(S)
      BY <1>2, <1>3
    <3> QED
      BY <3>1
  <2> QED
    BY <1>1, <1>2, <1>3, <2>1
<1>6. DOMAIN (u \o v) = 1..N - 1
  BY <1>1, <1>5
<1>7. \A i \in 1..at - 1 : (u \o v)[i] = list[i]
  BY <1>1, <1>2, <1>3
<1>8. ASSUME NEW i \in at..N - 1 PROVE (u \o v)[i] = list[i + 1]
  <2>1. (u \o v)[i] = v[i - (at - 1)]
    BY <1>1, <1>2, <1>3
  <2>2. i - (at - 1) \in 1..N - at /\ at + (i - (at - 1)) = i + 1
    BY <1>1
  <2> QED
    BY <1>3, <2>1, <2>2
<1> QED
  BY <1>4, <1>5, <1>6, <1>7, <1>8 DEF N

LEMMA InsertAtIs ==
  ASSUME NEW S, NEW list \in Seq(S), NEW at \in 1..Len(list) + 1, NEW x \in S
  PROVE  /\ InsertAt(list, at, x) \in Seq(S)
         /\ Len(InsertAt(list, at, x)) = Len(list) + 1
         /\ DOMAIN InsertAt(list, at, x) = 1..Len(list) + 1
         /\ \A i \in 1..at - 1 : InsertAt(list, at, x)[i] = list[i]
         /\ InsertAt(list, at, x)[at] = x
         /\ \A i \in at + 1..Len(list) + 1 : InsertAt(list, at, x)[i] = list[i - 1]
<1> DEFINE N == Len(list)
           u == SubSeq(list, 1, at - 1)
           v == SubSeq(list, at, N)
           ux == u \o <<x>>
<1>1. N \in Nat /\ at \in Nat /\ 1 <= at /\ at <= N + 1
  OBVIOUS
<1>2. u \in Seq(S) /\ Len(u) = at - 1 /\ \A i \in 1..at - 1 : u[i] = list[i]
  BY <1>1
<1>3. v \in Seq(S) /\ Len(v) = N - at + 1 /\ \A i \in 1..N - at + 1 : v[i] = list[at + i - 1]
  BY <1>1
<1>4. InsertAt(list, at, x) = ux \o v
  BY DEF InsertAt
<1>5. ux \in Seq(S) /\ Len(ux) = at /\ ux[at] = x /\ \A i \in 1..at - 1 : ux[i] = u[i]
  <2>1. <<x>> \in Seq(S) /\ Len(<<x>>) = 1 /\ <<x>>[1] = x
    OBVIOUS
  <2> HIDE DEF u, v, N
  <2> QED
    BY <1>1, <1>2, <2>1
<1> HIDE DEF u, v, N, ux
<1>6. ux \o v \in Seq(S) /\ Len(ux \o v) = N + 1
  BY <1>1, <1>3, <1>5
<1>7. DOMAIN (ux \o v) = 1..N + 1
  BY <1>1, <1>6
<1>8. \A i \in 1..at : (ux \o v)[i] = ux[i]
  BY <1>1, <1>3, <1>5
<1>9. ASSUME NEW i \in at + 1..N + 1 PROVE (ux \o v)[i] = list[i - 1]
  <2>1. (ux \o v)[i] = v[i - at]
    BY <1>1, <1>3, <1>5
  <2>2. i - at \in 1..N - at + 1 /\ at + (i - at) - 1 = i - 1
    BY <1>1
  <2> QED
    BY <1>3, <2>1, <2>2
<1> QED
  BY <1>1, <1>2, <1>4, <1>5, <1>6, <1>7, <1>8, <1>9 DEF N

\* tos_list_del takes out the one entry and keeps the order of the others.
LEMMA UnlinkList ==
  ASSUME NEW S, NEW list, ListOf(list, S), NEW x \in S
  PROVE  /\ ListOf(Unlink(list, x), S \ {x})
         /\ InOrderOf(Unlink(list, x), list)
         /\ Len(Unlink(list, x)) = Len(list) - 1
<1> DEFINE N == Len(list)
           at == CHOOSE i \in DOMAIN list : list[i] = x
           new == RemoveAt(list, at)
           From(i) == IF i < at THEN i ELSE i + 1
<1>1. list \in Seq(S) /\ N \in Nat /\ DOMAIN list = 1..N
  BY ListType
<1>2. at \in 1..N /\ list[at] = x
  <2>1. \E i \in DOMAIN list : list[i] = x
    BY DEF ListOf
  <2> QED
    BY <1>1, <2>1
<1>3. Unlink(list, x) = new
  BY DEF Unlink
<1> HIDE DEF at
<1>4. /\ new \in Seq(S) /\ DOMAIN new = 1..N - 1 /\ Len(new) = N - 1
      /\ \A i \in 1..at - 1 : new[i] = list[i]
      /\ \A i \in at..N - 1 : new[i] = list[i + 1]
  BY <1>1, <1>2, RemoveAtIs
<1> HIDE DEF new, N
<1>5. \A v, w \in 1..N : list[v] = list[w] => v = w
  BY <1>1 DEF ListOf
<1>6. ASSUME NEW i \in 1..N - 1
      PROVE  From(i) \in 1..N /\ From(i) # at /\ new[i] = list[From(i)]
  BY <1>1, <1>2, <1>4
<1>7. \A i, j \in 1..N - 1 : i < j => From(i) < From(j)
  BY <1>1, <1>2
<1>8. \A i, j \in 1..N - 1 : From(i) = From(j) => i = j
  BY <1>1, <1>2
<1> HIDE DEF From
<1>9. \A i, j \in DOMAIN new : new[i] = new[j] => i = j
  BY <1>4, <1>5, <1>6, <1>8
<1>10. \A i \in DOMAIN new : new[i] \in S \ {x}
  <2>1. \A i \in 1..N - 1 : new[i] # x
    BY <1>2, <1>5, <1>6
  <2>2. \A i \in 1..N - 1 : list[From(i)] \in S
    BY <1>1, <1>6
  <2> QED
    BY <1>4, <1>6, <2>1, <2>2
<1>11. new \in Seq(S \ {x})
  <2>1. N - 1 \in Nat
    BY <1>1, <1>2
  <2>2. new = [i \in 1..N - 1 |-> new[i]]
    BY <1>4
  <2> QED
    BY <1>4, <1>10, <2>1, <2>2
<1>12. ASSUME NEW y \in S \ {x} PROVE \E i \in DOMAIN new : new[i] = y
  <2>1. PICK v \in 1..N : list[v] = y
    BY <1>1 DEF ListOf
  <2>2. v # at
    BY <1>2, <2>1
  <2>3. CASE v < at
    <3>1. v \in 1..N - 1 /\ v \in 1..at - 1
      BY <1>1, <1>2, <2>3
    <3> QED
      BY <1>4, <2>1, <3>1
  <2>4. CASE v > at
    <3>1. v - 1 \in 1..N - 1 /\ v - 1 \in at..N - 1 /\ v - 1 + 1 = v
      BY <1>1, <1>2, <2>4
    <3> QED
      BY <1>4, <2>1, <3>1
  <2> QED
    BY <1>1, <1>2, <2>2, <2>3, <2>4
<1>13. ListOf(new, S \ {x})
  BY <1>9, <1>11, <1>12 DEF ListOf
<1>14. InOrderOf(new, list)
  BY <1>1, <1>4, <1>6, <1>7 DEF InOrderOf
<1> QED
  BY <1>3, <1>4, <1>13, <1>14 DEF N

\* A list in the order of its tasks' priorities.
Ranked(list, prio) ==
  \A i, j \in DOMAIN list : i < j => prio[list[i]] <= prio[list[j]]

\* Where a task of priority p goes in a pend list.
Rank(list, prio, p) ==
  Min({i \in DOMAIN list : p < prio[list[i]]} \cup {Len(list) + 1})

\* A list keeps its order when entries leave it.
LEMMA RankedInOrder ==
  ASSUME NEW a, NEW b, NEW prio, InOrderOf(a, b), Ranked(b, prio)
  PROVE  Ranked(a, prio)
BY DEF InOrderOf, Ranked

\* A task that is inserted changes nobody else's order.
LEMMA InsertList ==
  ASSUME NEW S, NEW list, ListOf(list, S), NEW x, x \notin S,
         NEW at \in 1..Len(list) + 1
  PROVE  /\ ListOf(InsertAt(list, at, x), S \cup {x})
         /\ InOrderOf(list, InsertAt(list, at, x))
<1> DEFINE N == Len(list)
           T == S \cup {x}
           new == InsertAt(list, at, x)
           To(i) == IF i < at THEN i ELSE i + 1
<1>1. list \in Seq(T) /\ N \in Nat /\ DOMAIN list = 1..N
  BY ListType
<1>2. at \in Nat /\ 1 <= at /\ at <= N + 1 /\ x \in T
  BY <1>1
<1>3. /\ new \in Seq(T) /\ DOMAIN new = 1..N + 1
      /\ \A i \in 1..at - 1 : new[i] = list[i]
      /\ new[at] = x
      /\ \A i \in at + 1..N + 1 : new[i] = list[i - 1]
  <2>1. list \in Seq(T) /\ x \in T
    BY <1>1, <1>2
  <2> HIDE DEF T
  <2> QED
    BY <2>1, InsertAtIs
<1> HIDE DEF new
<1>4. \A v, w \in 1..N : list[v] = list[w] => v = w
  BY <1>1 DEF ListOf
<1>5. \A v \in 1..N : list[v] \in S /\ list[v] # x
  BY <1>1, ListType
<1> HIDE DEF N, T
<1>6. ASSUME NEW v \in 1..N
      PROVE  To(v) \in 1..N + 1 /\ new[To(v)] = list[v]
  <2>1. CASE v < at
    <3>1. v \in 1..at - 1 /\ v \in 1..N + 1 /\ To(v) = v
      BY <1>1, <1>2, <2>1
    <3> QED
      BY <1>3, <3>1
  <2>2. CASE v >= at
    <3>1. v + 1 \in at + 1..N + 1 /\ v + 1 \in 1..N + 1 /\ To(v) = v + 1 /\ v + 1 - 1 = v
      BY <1>1, <1>2, <2>2
    <3> QED
      BY <1>3, <3>1
  <2> QED
    BY <1>1, <1>2, <2>1, <2>2
<1>7. ASSUME NEW i \in 1..N + 1, i # at
      PROVE  \E v \in 1..N : To(v) = i /\ new[i] = list[v]
  <2>1. CASE i < at
    <3>1. i \in 1..N /\ To(i) = i
      BY <1>1, <1>2, <2>1
    <3> QED
      BY <1>6, <3>1
  <2>2. CASE i > at
    <3>1. i - 1 \in 1..N /\ To(i - 1) = i
      BY <1>1, <1>2, <2>2
    <3> QED
      BY <1>6, <3>1
  <2> QED
    BY <1>1, <1>2, <1>7, <2>1, <2>2
<1>8. \A v, w \in 1..N : v < w => To(v) < To(w)
  BY <1>1, <1>2
<1> HIDE DEF To
<1>9. ASSUME NEW i \in 1..N + 1, NEW j \in 1..N + 1, new[i] = new[j] PROVE i = j
  <2>1. CASE i = at \/ j = at
    BY <1>3, <1>5, <1>7, <1>9, <2>1
  <2>2. CASE i # at /\ j # at
    <3>1. PICK v \in 1..N : To(v) = i /\ new[i] = list[v]
      BY <1>7, <2>2
    <3>2. PICK w \in 1..N : To(w) = j /\ new[j] = list[w]
      BY <1>7, <2>2
    <3> QED
      BY <1>4, <1>9, <3>1, <3>2
  <2> QED
    BY <2>1, <2>2
<1>10. ASSUME NEW y \in T PROVE \E i \in 1..N + 1 : new[i] = y
  <2>1. CASE y = x
    <3>1. at \in 1..N + 1
      BY <1>1, <1>2
    <3> QED
      BY <1>3, <2>1, <3>1
  <2>2. CASE y \in S
    <3>1. PICK v \in 1..N : list[v] = y
      BY <1>1, <2>2 DEF ListOf
    <3> QED
      BY <1>6, <3>1
  <2> QED
    BY <1>10, <2>1, <2>2 DEF T
<1>11. ListOf(new, T)
  BY <1>3, <1>9, <1>10 DEF ListOf
<1>12. InOrderOf(list, new)
  BY <1>1, <1>3, <1>6, <1>8 DEF InOrderOf
<1> QED
  BY <1>11, <1>12 DEF T, new

\* A task that is inserted at its rank keeps the list in order.
LEMMA InsertRanked ==
  ASSUME NEW S, S \subseteq Thread, NEW list, ListOf(list, S),
         NEW prio \in [Thread -> Nat], Ranked(list, prio),
         NEW x \in Thread, x \notin S
  PROVE  /\ Rank(list, prio, prio[x]) \in 1..Len(list) + 1
         /\ Ranked(InsertAt(list, Rank(list, prio, prio[x]), x), prio)
<1> DEFINE N == Len(list)
           behind == {i \in DOMAIN list : prio[x] < prio[list[i]]}
           at == Rank(list, prio, prio[x])
           new == InsertAt(list, at, x)
<1>1. list \in Seq(Thread) /\ N \in Nat /\ DOMAIN list = 1..N
  BY ListType
<1>2. at \in behind \cup {N + 1} /\ \A i \in behind \cup {N + 1} : at <= i
  <2>1. behind \cup {N + 1} \in SUBSET Nat /\ behind \cup {N + 1} # {}
    BY <1>1
  <2>2. at = Min(behind \cup {N + 1})
    BY DEF Rank
  <2> HIDE DEF behind, at
  <2> QED
    BY <2>1, <2>2, Least
<1>3. at \in 1..N + 1
  BY <1>1, <1>2
<1>4. \A i \in 1..N : list[i] \in Thread /\ prio[list[i]] \in Nat
  BY <1>1
<1>5. prio[x] \in Nat
  OBVIOUS
<1>6. \A i \in 1..N : i < at => prio[list[i]] <= prio[x]
  <2>1. ASSUME NEW i \in 1..N, i < at PROVE ~(prio[x] < prio[list[i]])
    <3>1. i \notin behind
      BY <1>1, <1>2, <1>3, <2>1
    <3> QED
      BY <1>1, <3>1
  <2> QED
    BY <1>4, <1>5, <2>1
<1>7. \A i \in 1..N : i >= at => prio[x] <= prio[list[i]]
  <2>1. ASSUME NEW i \in 1..N, i >= at PROVE prio[x] <= prio[list[i]]
    <3>1. at \in behind
      BY <1>1, <1>2, <2>1
    <3>2. at \in 1..N /\ prio[x] < prio[list[at]]
      BY <1>1, <3>1
    <3>3. prio[list[at]] <= prio[list[i]]
      <4>1. CASE i = at
        BY <1>4, <3>2, <4>1
      <4>2. CASE i # at
        BY <1>1, <2>1, <3>2, <4>2 DEF Ranked
      <4> QED
        BY <4>1, <4>2
    <3> QED
      BY <1>4, <1>5, <3>2, <3>3
  <2> QED
    BY <2>1
<1>8. /\ DOMAIN new = 1..N + 1
      /\ \A i \in 1..at - 1 : new[i] = list[i]
      /\ new[at] = x
      /\ \A i \in at + 1..N + 1 : new[i] = list[i - 1]
  <2>1. list \in Seq(Thread) /\ at \in 1..Len(list) + 1
    BY <1>1, <1>3
  <2> HIDE DEF at
  <2> QED
    BY <2>1, InsertAtIs
<1> HIDE DEF at, new, behind, N
<1>9. ASSUME NEW i \in 1..N + 1, NEW j \in 1..N + 1, i < j
      PROVE  prio[new[i]] <= prio[new[j]]
  <2>1. \A v, w \in 1..N : v < w => prio[list[v]] <= prio[list[w]]
    BY <1>1 DEF Ranked
  <2>2. CASE j < at
    BY <1>1, <1>3, <1>8, <1>9, <2>1, <2>2
  <2>3. CASE j = at
    BY <1>1, <1>3, <1>6, <1>8, <1>9, <2>3
  <2>4. CASE j > at
    <3>1. j \in at + 1..N + 1 /\ j - 1 \in 1..N /\ new[j] = list[j - 1]
      BY <1>1, <1>3, <1>8, <2>4
    <3>2. CASE i < at
      <4>1. i \in 1..N /\ i < j - 1 /\ new[i] = list[i]
        BY <1>1, <1>3, <1>8, <2>4, <3>2
      <4> QED
        BY <2>1, <3>1, <4>1
    <3>3. CASE i = at
      BY <1>3, <1>7, <1>8, <2>4, <3>1, <3>3
    <3>4. CASE i > at
      <4>1. i - 1 \in 1..N /\ i - 1 < j - 1 /\ new[i] = list[i - 1]
        BY <1>1, <1>3, <1>8, <1>9, <3>4
      <4> QED
        BY <2>1, <3>1, <4>1
    <3> QED
      BY <1>3, <3>2, <3>3, <3>4
  <2> QED
    BY <1>3, <2>2, <2>3, <2>4
<1>10. Ranked(new, prio)
  BY <1>8, <1>9 DEF Ranked
<1> QED
  BY <1>3, <1>10 DEF N, at, new

\* What robin_sched does to a list.
LEMMA RotateList ==
  ASSUME NEW S, NEW list, ListOf(list, S), S # {}
  PROVE  ListOf(Append(Tail(list), list[1]), S)
<1> DEFINE N == Len(list)
           rest == Tail(list)
           new == Append(rest, list[1])
<1>1. list \in Seq(S) /\ N \in Nat /\ DOMAIN list = 1..N /\ list # <<>> /\ list[1] \in S
  BY ListType, HeadOfList
<1>2. N >= 1
  BY <1>1
<1>3. rest \in Seq(S) /\ Len(rest) = N - 1 /\ \A i \in 1..N - 1 : rest[i] = list[i + 1]
  BY <1>1, <1>2
<1> HIDE DEF rest
<1>4. new \in Seq(S) /\ Len(new) = N
  <2>1. new \in Seq(S) /\ Len(new) = Len(rest) + 1
    <3>1. rest \in Seq(S) /\ list[1] \in S
      BY <1>1, <1>3
    <3> QED
      BY <3>1
  <2> QED
    BY <1>1, <1>3, <2>1
<1>5. DOMAIN new = 1..N
  <2>1. DOMAIN new = 1..Len(new)
    BY <1>4
  <2> QED
    BY <1>4, <2>1
<1>6. /\ new[N] = list[1]
      /\ \A i \in 1..N - 1 : new[i] = list[i + 1]
  BY <1>1, <1>2, <1>3
<1> HIDE DEF N, new
<1>7. \A v, w \in 1..N : list[v] = list[w] => v = w
  BY <1>1 DEF ListOf
<1> DEFINE From(i) == IF i = N THEN 1 ELSE i + 1
<1>8. ASSUME NEW i \in 1..N PROVE From(i) \in 1..N /\ new[i] = list[From(i)]
  <2>1. CASE i = N
    BY <1>1, <1>2, <1>6, <2>1
  <2>2. CASE i # N
    <3>1. i \in 1..N - 1
      BY <1>1, <2>2
    <3> QED
      BY <1>1, <1>6, <3>1
  <2> QED
    BY <2>1, <2>2
<1>9. \A i, j \in 1..N : From(i) = From(j) => i = j
  BY <1>1, <1>2
<1>10. \A v \in 1..N : \E i \in 1..N : From(i) = v
  <2>1. ASSUME NEW v \in 1..N PROVE \E i \in 1..N : From(i) = v
    <3>1. CASE v = 1
      BY <1>1, <1>2, <3>1
    <3>2. CASE v # 1
      <4>1. v - 1 \in 1..N /\ From(v - 1) = v
        BY <1>1, <3>2
      <4> QED
        BY <4>1
    <3> QED
      BY <3>1, <3>2
  <2> QED
    BY <2>1
<1> HIDE DEF From
<1>11. \A i, j \in 1..N : new[i] = new[j] => i = j
  BY <1>7, <1>8, <1>9
<1>12. ASSUME NEW y \in S PROVE \E i \in 1..N : new[i] = y
  <2>1. PICK v \in 1..N : list[v] = y
    BY <1>1 DEF ListOf
  <2>2. PICK i \in 1..N : From(i) = v
    BY <1>10
  <2> QED
    BY <1>8, <2>1, <2>2
<1>13. ListOf(new, S)
  BY <1>4, <1>5, <1>11, <1>12 DEF ListOf
<1> QED
  BY <1>13 DEF new, rest

-----------------------------------------------------------------------------
(* The kernel's state.                                                     *)

PendState == {"NONE", "POST", "TIMEOUT", "OWNER_DIE"}

KState ==
  [task_list : [Prio -> Seq(Thread)], highest_prio : Prio,
   prio : [Thread -> Prio], prio_pending : [Thread -> 0..INVALID],
   pending_obj : [Thread -> Mutex \cup {NoMutex}],
   pend_state : [Thread -> PendState],
   tick_list : Seq(Task), tick_expires : [Task -> Int],
   owner : [Mutex -> Task \cup {NoTask}], pend_nesting : [Mutex -> Nat],
   owner_orig_prio : [Mutex -> 0..INVALID],
   pend_list : [Mutex -> Seq(Task)], mutex_own_list : [Thread -> Seq(Mutex)],
   curr : Thread, next : Thread, pendsv : BOOLEAN, sched_locked : BOOLEAN,
   deleted : SUBSET Task]

\* The types of the fields that proofs below need one at a time.
LEMMA Fields ==
  ASSUME NEW s \in KState
  PROVE  /\ s.prio \in [Thread -> Prio] /\ s.prio_pending \in [Thread -> 0..INVALID]
         /\ s.pend_state \in [Thread -> PendState]
         /\ s.tick_list \in Seq(Task) /\ s.tick_expires \in [Task -> Int]
         /\ s.owner \in [Mutex -> Task \cup {NoTask}] /\ s.pend_nesting \in [Mutex -> Nat]
  BY DEF KState

\* What a step of the kernel may leave alone.
SamePrios(r, s) == r.prio = s.prio /\ r.prio_pending = s.prio_pending
SameQueue(r, s) == r.task_list = s.task_list /\ r.highest_prio = s.highest_prio
SameWaits(r, s) == r.pending_obj = s.pending_obj /\ r.pend_list = s.pend_list
SameTimes(r, s) == r.tick_list = s.tick_list /\ r.tick_expires = s.tick_expires
SameOwners(r, s) ==
  /\ r.owner = s.owner /\ r.pend_nesting = s.pend_nesting
  /\ r.owner_orig_prio = s.owner_orig_prio
  /\ r.mutex_own_list = s.mutex_own_list
SameNext(r, s) == r.next = s.next /\ r.pendsv = s.pendsv
SameRest(r, s) ==
  r.curr = s.curr /\ r.sched_locked = s.sched_locked /\ r.deleted = s.deleted

\* What there is to know of the priorities.
LEMMA PrioFacts ==
  /\ PrioIdle \in Nat /\ PrioIdle >= 1 /\ INVALID = PrioIdle + 1 /\ INVALID \in Nat
  /\ PrioIdle \in Prio
  /\ \A p : p \in Prio <=> p \in Nat /\ p <= PrioIdle
BY ConstantsAssumption DEF PrioIdle, INVALID, Prio

\* The ready queue holds the threads in R, each in the list of its priority.
QueueOK(s, R) ==
  /\ \A p \in Prio : ListOf(s.task_list[p], {t \in R : s.prio[t] = p})
  /\ s.highest_prio \in Prio
  /\ s.task_list[s.highest_prio] # <<>>
  /\ \A p \in Prio : s.task_list[p] # <<>> => s.highest_prio <= p

\* The list of a task's priority is extended, and highest_prio with it.
LEMMA AddAtRight ==
  ASSUME NEW s \in KState, NEW R \in SUBSET Thread, QueueOK(s, R),
         NEW t \in Thread, t \notin R, NEW list,
         ListOf(list, {u \in R : s.prio[u] = s.prio[t]} \cup {t})
  PROVE  LET r == AddAt(s, t, list) IN
         /\ r \in KState /\ QueueOK(r, R \cup {t})
         /\ SamePrios(r, s) /\ SameWaits(r, s) /\ SameTimes(r, s)
         /\ SameOwners(r, s) /\ SameNext(r, s) /\ SameRest(r, s)
         /\ r.pend_state = s.pend_state
<1> DEFINE p == s.prio[t]
           r == AddAt(s, t, list)
           lists == [s.task_list EXCEPT ![p] = list]
           best == IF s.task_list[p] = <<>> /\ p < s.highest_prio
                     THEN p ELSE s.highest_prio
<1>1. p \in Prio /\ s.task_list \in [Prio -> Seq(Thread)] /\ s.highest_prio \in Prio
      /\ s.prio \in [Thread -> Prio]
  BY DEF KState
<1>2. r = [s EXCEPT !.task_list = lists, !.highest_prio = best]
  BY DEF AddAt, KState
<1>3. list \in Seq(Thread)
  <2>1. list \in Seq({u \in R : s.prio[u] = s.prio[t]} \cup {t})
    BY DEF ListOf
  <2> QED
    BY <2>1
<1>4. lists \in [Prio -> Seq(Thread)] /\ best \in Prio
  BY <1>1, <1>3
<1> HIDE DEF lists, best, r
<1>5. /\ r \in KState /\ r.task_list = lists /\ r.highest_prio = best
      /\ SamePrios(r, s) /\ SameWaits(r, s) /\ SameTimes(r, s)
      /\ SameOwners(r, s) /\ SameNext(r, s) /\ SameRest(r, s)
      /\ r.pend_state = s.pend_state
  BY <1>2, <1>4 DEF KState, SamePrios, SameWaits, SameTimes, SameOwners, SameNext, SameRest
<1>6. \A q \in Prio : lists[q] = IF q = p THEN list ELSE s.task_list[q]
  BY <1>1 DEF lists
<1>7. list # <<>>
  BY EmptyList
<1>8. QueueOK(r, R \cup {t})
  <2>1. ASSUME NEW q \in Prio
        PROVE  ListOf(lists[q], {u \in R \cup {t} : s.prio[u] = q})
    <3>1. CASE q = p
      <4>1. {u \in R \cup {t} : s.prio[u] = q} = {u \in R : s.prio[u] = s.prio[t]} \cup {t}
        BY <3>1
      <4> QED
        BY <1>6, <3>1, <4>1
    <3>2. CASE q # p
      <4>1. {u \in R \cup {t} : s.prio[u] = q} = {u \in R : s.prio[u] = q}
        BY <3>2
      <4> QED
        BY <1>6, <3>2, <4>1 DEF QueueOK
    <3> QED
      BY <3>1, <3>2
  <2>2. lists[best] # <<>>
    BY <1>1, <1>6, <1>7 DEF best, QueueOK
  <2>3. ASSUME NEW q \in Prio, lists[q] # <<>> PROVE best <= q
    <3>1. s.highest_prio \in Nat /\ p \in Nat /\ q \in Nat
      BY <1>1, PrioFacts
    <3>2. CASE q = p
      BY <3>1, <3>2 DEF best, QueueOK
    <3>3. CASE q # p
      <4>1. s.highest_prio <= q
        BY <1>6, <2>3, <3>3 DEF QueueOK
      <4> QED
        BY <3>1, <4>1 DEF best
    <3> QED
      BY <3>2, <3>3
  <2> QED
    BY <1>4, <1>5, <2>1, <2>2, <2>3 DEF QueueOK, SamePrios
<1> QED
  BY <1>5, <1>8 DEF r

\* What a readyqueue_add leaves.
QueueAdds(r, s, R) ==
  /\ r \in KState /\ QueueOK(r, R)
  /\ SamePrios(r, s) /\ SameWaits(r, s) /\ SameTimes(r, s)
  /\ SameOwners(r, s) /\ SameNext(r, s) /\ SameRest(r, s)
  /\ r.pend_state = s.pend_state

\* A thread that was not in the queue is in it.
LEMMA ReadyQueueAdd ==
  ASSUME NEW s \in KState, NEW R \in SUBSET Thread, QueueOK(s, R),
         NEW t \in Thread, t \notin R
  PROVE  /\ QueueAdds(readyqueue_add_head(s, t), s, R \cup {t})
         /\ QueueAdds(readyqueue_add_tail(s, t), s, R \cup {t})
         /\ QueueAdds(readyqueue_add(s, t), s, R \cup {t})
<1> DEFINE S == {u \in R : s.prio[u] = s.prio[t]}
           list == s.task_list[s.prio[t]]
<1>1. ListOf(list, S) /\ t \notin S
  BY DEF QueueOK, KState
<1>2. ListOf(<<t>> \o list, S \cup {t}) /\ ListOf(Append(list, t), S \cup {t})
  <2> HIDE DEF S, list
  <2> QED
    BY <1>1, PushList, AppendList
<1>3. QueueAdds(readyqueue_add_head(s, t), s, R \cup {t})
  BY <1>2, AddAtRight DEF readyqueue_add_head, QueueAdds
<1>4. QueueAdds(readyqueue_add_tail(s, t), s, R \cup {t})
  BY <1>2, AddAtRight DEF readyqueue_add_tail, QueueAdds
<1> QED
  BY <1>3, <1>4 DEF readyqueue_add

\* The queue without a thread, when it is not the last.
LEMMA ReadyQueueRemove ==
  ASSUME NEW s \in KState, NEW R \in SUBSET Thread, QueueOK(s, R),
         NEW t \in R, R \ {t} # {}
  PROVE  QueueAdds(readyqueue_remove(s, t), s, R \ {t})
<1> DEFINE p == s.prio[t]
           r == readyqueue_remove(s, t)
           lists == [s.task_list EXCEPT ![p] = Unlink(@, t)]
           filled == {q \in Prio : lists[q] # <<>>}
           best == IF p = s.highest_prio THEN Min(filled) ELSE s.highest_prio
<1>1. p \in Prio /\ s.task_list \in [Prio -> Seq(Thread)] /\ s.highest_prio \in Prio
      /\ s.prio \in [Thread -> Prio]
  BY DEF KState
<1>2. r = [s EXCEPT !.task_list = lists, !.highest_prio = best]
  BY DEF readyqueue_remove, KState
<1>3. ListOf(Unlink(s.task_list[p], t), {u \in R : s.prio[u] = p} \ {t})
  <2>1. ListOf(s.task_list[p], {u \in R : s.prio[u] = p}) /\ t \in {u \in R : s.prio[u] = p}
    BY <1>1 DEF QueueOK
  <2> HIDE DEF p
  <2> QED
    BY <2>1, UnlinkList
<1>4. Unlink(s.task_list[p], t) \in Seq(Thread)
  <2>1. Unlink(s.task_list[p], t) \in Seq({u \in R : s.prio[u] = p} \ {t})
    BY <1>3 DEF ListOf
  <2> HIDE DEF p
  <2> QED
    BY <2>1
<1>5. \A q \in Prio : lists[q] = IF q = p THEN Unlink(s.task_list[p], t) ELSE s.task_list[q]
  BY <1>1
<1>6. lists \in [Prio -> Seq(Thread)]
  BY <1>1, <1>4
<1> HIDE DEF lists
<1>7. ASSUME NEW q \in Prio
      PROVE  ListOf(lists[q], {u \in R \ {t} : s.prio[u] = q})
  <2>1. CASE q = p
    <3>1. {u \in R \ {t} : s.prio[u] = q} = {u \in R : s.prio[u] = p} \ {t}
      BY <2>1
    <3> QED
      BY <1>3, <1>5, <2>1, <3>1
  <2>2. CASE q # p
    <3>1. {u \in R \ {t} : s.prio[u] = q} = {u \in R : s.prio[u] = q}
      BY <2>2
    <3> QED
      BY <1>5, <2>2, <3>1 DEF QueueOK
  <2> QED
    BY <2>1, <2>2
<1>8. filled \in SUBSET Nat /\ filled # {}
  <2>1. PICK u \in R \ {t} : TRUE
    OBVIOUS
  <2>2. s.prio[u] \in Prio
    BY <1>1
  <2>3. lists[s.prio[u]] # <<>>
    <3>1. u \in {v \in R \ {t} : s.prio[v] = s.prio[u]}
      BY <2>1
    <3> QED
      BY <1>7, <2>2, <3>1, EmptyList
  <2> QED
    BY <2>2, <2>3, PrioFacts
<1>9. Min(filled) \in filled /\ \A q \in filled : Min(filled) <= q
  <2> HIDE DEF filled
  <2> QED
    BY <1>8, Least
<1>10. best \in Prio /\ lists[best] # <<>> /\ \A q \in Prio : lists[q] # <<>> => best <= q
  <2>1. CASE p = s.highest_prio
    BY <1>9, <2>1
  <2>2. CASE p # s.highest_prio
    <3>1. \A q \in Prio : lists[q] # <<>> => s.task_list[q] # <<>>
      <4>1. ASSUME NEW q \in Prio, s.task_list[q] = <<>> PROVE lists[q] = <<>>
        <5>1. {u \in R : s.prio[u] = q} = {}
          BY <4>1, EmptyList DEF QueueOK
        <5>2. {u \in R \ {t} : s.prio[u] = q} = {}
          BY <5>1
        <5>3. ListOf(lists[q], {})
          BY <1>7, <5>2
        <5> QED
          BY <5>3, EmptyList
      <4> QED
        BY <4>1
    <3> QED
      BY <1>1, <1>5, <2>2, <3>1 DEF QueueOK
  <2> QED
    BY <2>1, <2>2
<1> HIDE DEF best, r, filled
<1>11. /\ r \in KState /\ r.task_list = lists /\ r.highest_prio = best
       /\ SamePrios(r, s) /\ SameWaits(r, s) /\ SameTimes(r, s)
       /\ SameOwners(r, s) /\ SameNext(r, s) /\ SameRest(r, s)
       /\ r.pend_state = s.pend_state
  BY <1>2, <1>6, <1>10 DEF KState, SamePrios, SameWaits, SameTimes, SameOwners, SameNext, SameRest
<1>12. QueueOK(r, R \ {t})
  BY <1>7, <1>10, <1>11 DEF QueueOK, SamePrios
<1> QED
  BY <1>11, <1>12 DEF QueueAdds, r

\* The queue depends on nothing but its lists and their threads' priorities.
LEMMA QueueSame ==
  ASSUME NEW s, NEW r, NEW R, QueueOK(s, R), SameQueue(r, s),
         \A t \in R : r.prio[t] = s.prio[t]
  PROVE  QueueOK(r, R)
<1>1. \A p \in Prio : {t \in R : r.prio[t] = p} = {t \in R : s.prio[t] = p}
  OBVIOUS
<1> QED
  BY <1>1 DEF QueueOK, SameQueue

\* k_next_task is a ready thread of the best priority.
LEMMA HighestReady ==
  ASSUME NEW s \in KState, NEW R \in SUBSET Thread, QueueOK(s, R)
  PROVE  /\ highest_ready_task(s) \in R
         /\ s.prio[highest_ready_task(s)] = s.highest_prio
         /\ \A t \in R : s.highest_prio <= s.prio[t]
<1> DEFINE S == {t \in R : s.prio[t] = s.highest_prio}
<1>1. ListOf(s.task_list[s.highest_prio], S) /\ s.task_list[s.highest_prio] # <<>>
  BY DEF QueueOK
<1>2. S # {}
  <2> HIDE DEF S
  <2> QED
    BY <1>1, EmptyList
<1>3. Head(s.task_list[s.highest_prio]) \in S
  <2> HIDE DEF S
  <2> QED
    BY <1>1, <1>2, HeadOfList
<1>4. ASSUME NEW t \in R PROVE s.highest_prio <= s.prio[t]
  <2>1. s.prio[t] \in Prio
    BY DEF KState
  <2>2. t \in {u \in R : s.prio[u] = s.prio[t]}
    OBVIOUS
  <2>3. s.task_list[s.prio[t]] # <<>>
    BY <2>1, <2>2, EmptyList DEF QueueOK
  <2> QED
    BY <2>1, <2>3 DEF QueueOK
<1> QED
  BY <1>3, <1>4 DEF highest_ready_task

-----------------------------------------------------------------------------
(* Loops.                                                                  *)

\* Induction, for a property that is a set.
LEMMA Induction ==
  ASSUME NEW T, 0 \in T, \A n \in Nat : n \in T => n + 1 \in T
  PROVE  Nat \subseteq T
<1> DEFINE Out == Nat \ T
<1> SUFFICES ASSUME Out # {} PROVE FALSE
  OBVIOUS
<1>1. Min(Out) \in Out /\ \A y \in Out : Min(Out) <= y
  <2> Out \in SUBSET Nat
    OBVIOUS
  <2> HIDE DEF Out
  <2> QED
    BY Least
<1> DEFINE x == Min(Out)
<1> HIDE DEF x
<1>2. x \in Out /\ \A y \in Out : x <= y
  BY <1>1 DEF x
<1>3. x # 0 /\ x - 1 \in Nat /\ x - 1 \notin Out
  BY <1>2
<1> QED
  BY <1>2, <1>3

\* The bodies of the kernel's loops: round i takes x to LoopStep.
LoopStep(loop, s, a, state, i, x) ==
  CASE loop = "Due" -> x + s.tick_expires[s.tick_list[i]]
    [] loop = "pend_wakeup_all" ->
         pend_task_wakeup(x, Head(x.pend_list[a]), state)
    [] loop = "task_mutex_release" ->
         mutex_release(x, Head(x.mutex_own_list[a]))
    [] loop = "WakeDue" -> WakeFirst(x)

\* A loop of n rounds from start, as a function of what it has after each.
Loop(loop, s, a, state, start, n, f) ==
  [i \in 0..n |-> IF i = 0 THEN start
                  ELSE LoopStep(loop, s, a, state, i, f[i - 1])]

\* Such a function exists, so a loop that is declared with it is that function.
LEMMA LoopDefined ==
  ASSUME NEW loop, NEW s, NEW a, NEW state, NEW start
  PROVE  \A n \in Nat : \E f : f = Loop(loop, s, a, state, start, n, f)
<1> DEFINE Is(f, i) == IF i = 0 THEN start
                       ELSE LoopStep(loop, s, a, state, i, f[i - 1])
           T == {n \in Nat : \E f : f = [i \in 0..n |-> Is(f, i)]}
<1>1. 0 \in T
  <2> DEFINE f == [i \in 0..0 |-> start]
  <2>1. f = [i \in 0..0 |-> Is(f, i)]
    OBVIOUS
  <2> QED
    BY <2>1
<1>2. ASSUME NEW n \in Nat, n \in T PROVE n + 1 \in T
  <2>1. PICK f : f = [i \in 0..n |-> Is(f, i)]
    BY <1>2
  <2> DEFINE g == [i \in 0..n + 1 |-> IF i <= n THEN f[i] ELSE Is(f, n + 1)]
  <2>2. ASSUME NEW i \in 0..n + 1 PROVE g[i] = Is(g, i)
    <3>1. CASE i <= n
      <4>1. g[i] = Is(f, i)
        BY <2>1, <3>1
      <4>2. i # 0 => g[i - 1] = f[i - 1]
        BY <3>1
      <4> QED
        BY <4>1, <4>2
    <3>2. CASE i = n + 1
      <4>1. g[i] = Is(f, i) /\ g[i - 1] = f[i - 1]
        BY <3>2
      <4> QED
        BY <4>1
    <3> QED
      BY <3>1, <3>2
  <2>3. g = [i \in 0..n + 1 |-> Is(g, i)]
    <3>1. g = [i \in 0..n + 1 |-> g[i]]
      OBVIOUS
    <3> HIDE DEF g, Is
    <3> QED
      BY <2>2, <3>1, Zenon
  <2>4. \E h : h = [i \in 0..n + 1 |-> Is(h, i)]
    <3> HIDE DEF g
    <3> QED
      BY <2>3
  <2> QED
    BY <2>4
<1>3. Nat \subseteq T
  <2> HIDE DEF T
  <2> QED
    BY <1>1, <1>2, Induction
<1> QED
  BY <1>3 DEF Loop

\* A prefix sum of the tick list, one task at a time.
LEMMA DueIs ==
  ASSUME NEW s \in KState
  PROVE  /\ Due(s, 0) = 0
         /\ \A i \in 1..Len(s.tick_list) :
              Due(s, i) = Due(s, i - 1) + s.tick_expires[s.tick_list[i]]
         /\ \A i \in 0..Len(s.tick_list) : Due(s, i) \in Int
<1> DEFINE N == Len(s.tick_list)
           e(i) == s.tick_expires[s.tick_list[i]]
           Is(f) == [i \in 0..N |-> IF i = 0 THEN 0 ELSE f[i - 1] + e(i)]
           due == CHOOSE f : f = Is(f)
<1>1. N \in Nat /\ \A i \in 1..N : e(i) \in Int
  BY Fields
<1>2. due = Is(due)
  <2>1. \A f, i : LoopStep("Due", s, 0, 0, i, f[i - 1]) = f[i - 1] + e(i)
    BY DEF LoopStep
  <2>2. \E f : f = Is(f)
    <3>1. PICK f : f = Loop("Due", s, 0, 0, 0, N, f)
      <4> HIDE DEF N
      <4> QED
        BY <1>1, LoopDefined
    <3>2. f = Is(f)
      <4> HIDE DEF N, e
      <4> QED
        BY <2>1, <3>1 DEF Loop
    <3> QED
      BY <3>2
  <2> HIDE DEF Is
  <2> QED
    BY <2>2
<1>3. \A i : Due(s, i) = due[i]
  BY DEF Due
<1> HIDE DEF due, e, N
<1>4. due[0] = 0
  BY <1>1, <1>2
<1>5. \A i \in 1..N : due[i] = due[i - 1] + e(i)
  BY <1>1, <1>2
<1> DEFINE T == {i \in Nat : i <= N => due[i] \in Int}
<1>6. Nat \subseteq T
  <2>1. 0 \in T
    BY <1>4
  <2>2. ASSUME NEW n \in Nat, n \in T PROVE n + 1 \in T
    <3>1. n + 1 <= N => n + 1 \in 1..N /\ n + 1 - 1 = n
      BY <1>1
    <3> QED
      BY <1>1, <1>5, <2>2, <3>1
  <2> HIDE DEF T
  <2> QED
    BY <2>1, <2>2, Induction
<1>7. \A i \in 0..N : due[i] \in Int
  BY <1>1, <1>6
<1> QED
  BY <1>3, <1>4, <1>5, <1>7 DEF N, e

-----------------------------------------------------------------------------
(* The tick list.                                                          *)

Sleeping(s) == {t \in Task : IsSleeping(s, t)}

\* What a change of the tick list leaves.
OnlyTimes(r, s) ==
  /\ r \in KState
  /\ SamePrios(r, s) /\ SameQueue(r, s) /\ SameWaits(r, s)
  /\ SameOwners(r, s) /\ SameNext(r, s) /\ SameRest(r, s)
  /\ r.pend_state = s.pend_state

LEMMA SleepingIs ==
  ASSUME NEW s, NEW S \in SUBSET Task, ListOf(s.tick_list, S)
  PROVE  Sleeping(s) = S
BY ListType DEF Sleeping, IsSleeping

\* One more task sleeps, and nothing but the tick list differs.
LEMMA TickTaskPlace ==
  ASSUME NEW s \in KState, ListOf(s.tick_list, Sleeping(s)),
         NEW t \in Task, t \notin Sleeping(s), NEW timeout \in Nat
  PROVE  LET r == tick_task_place(s, t, timeout) IN
         /\ OnlyTimes(r, s)
         /\ ListOf(r.tick_list, Sleeping(r)) /\ Sleeping(r) = Sleeping(s) \cup {t}
<1> DEFINE r == tick_task_place(s, t, timeout)
           len == Len(s.tick_list)
           later == {i \in 1..len :
                       \/ timeout < Due(s, i)
                       \/ timeout = Due(s, i) /\ s.prio[t] < s.prio[s.tick_list[i]]}
           at == Min(later \cup {len + 1})
           ticks == timeout - Due(s, at - 1)
           list == InsertAt(s.tick_list, at, t)
           expires == [u \in Task |->
            CASE u = t -> ticks
              [] at <= len /\ u = s.tick_list[at] -> s.tick_expires[u] - ticks
              [] OTHER -> s.tick_expires[u]]
<1>1. len \in Nat /\ s.tick_list \in Seq(Task) /\ s.tick_expires \in [Task -> Int]
  BY DEF KState
<1>2. r = [s EXCEPT !.tick_list = list, !.tick_expires = expires]
  BY DEF tick_task_place, KState
<1>3. at \in 1..len + 1
  <2>1. later \cup {len + 1} \in SUBSET Nat /\ later \cup {len + 1} # {}
    BY <1>1
  <2>2. at \in later \cup {len + 1}
    <3> HIDE DEF later
    <3> QED
      BY <2>1, Least
  <2> HIDE DEF at
  <2> QED
    BY <1>1, <2>2
<1> HIDE DEF later, at
<1>4. ticks \in Int
  <2>1. at - 1 \in 0..len
    BY <1>1, <1>3
  <2>2. Due(s, at - 1) \in Int
    BY <2>1, DueIs
  <2> QED
    BY <2>2
<1> HIDE DEF ticks
<1>5. expires \in [Task -> Int]
  BY <1>1, <1>4
<1>6. ListOf(list, Sleeping(s) \cup {t})
  BY <1>3, InsertList
<1>7. list \in Seq(Task)
  <2>1. list \in Seq(Sleeping(s) \cup {t})
    BY <1>6 DEF ListOf
  <2>2. Sleeping(s) \cup {t} \subseteq Task
    BY DEF Sleeping
  <2> HIDE DEF list
  <2> QED
    BY <2>1, <2>2
<1> HIDE DEF list, expires, r
<1>8. OnlyTimes(r, s) /\ r.tick_list = list
  BY <1>2, <1>5, <1>7 DEF KState, OnlyTimes, SamePrios, SameQueue, SameWaits, SameOwners, SameNext, SameRest
<1>9. Sleeping(r) = Sleeping(s) \cup {t}
  <2>1. Sleeping(s) \cup {t} \in SUBSET Task
    BY DEF Sleeping
  <2> QED
    BY <1>6, <1>8, <2>1, SleepingIs
<1> QED
  BY <1>6, <1>8, <1>9 DEF r

\* One task sleeps no longer, and nothing but the tick list differs.
LEMMA TickListRemove ==
  ASSUME NEW s \in KState, ListOf(s.tick_list, Sleeping(s)), NEW t \in Sleeping(s)
  PROVE  LET r == tick_list_remove(s, t) IN
         /\ OnlyTimes(r, s)
         /\ ListOf(r.tick_list, Sleeping(r)) /\ Sleeping(r) = Sleeping(s) \ {t}
         /\ r.tick_list = Unlink(s.tick_list, t)
<1> DEFINE r == tick_list_remove(s, t)
           at == CHOOSE j \in DOMAIN s.tick_list : s.tick_list[j] = t
           list == RemoveAt(s.tick_list, at)
           expires == [u \in Task |->
            CASE u = t -> 0
              [] at <= Len(list) /\ u = list[at] -> s.tick_expires[u] + s.tick_expires[t]
              [] OTHER -> s.tick_expires[u]]
<1>1. t \in Task /\ s.tick_expires \in [Task -> Int]
  BY DEF KState, Sleeping
<1>2. r = [s EXCEPT !.tick_list = list, !.tick_expires = expires]
  BY DEF tick_list_remove, KState
<1>3. list = Unlink(s.tick_list, t)
  BY DEF Unlink
<1> HIDE DEF at, list
<1>4. expires \in [Task -> Int]
  BY <1>1
<1>5. ListOf(list, Sleeping(s) \ {t})
  BY <1>3, UnlinkList
<1>6. list \in Seq(Task)
  <2>1. list \in Seq(Sleeping(s) \ {t})
    BY <1>5 DEF ListOf
  <2>2. Sleeping(s) \ {t} \subseteq Task
    BY DEF Sleeping
  <2> QED
    BY <2>1, <2>2
<1> HIDE DEF expires, r
<1>7. OnlyTimes(r, s) /\ r.tick_list = list
  BY <1>2, <1>4, <1>6 DEF KState, OnlyTimes, SamePrios, SameQueue, SameWaits, SameOwners, SameNext, SameRest
<1>8. Sleeping(r) = Sleeping(s) \ {t}
  <2>1. Sleeping(s) \ {t} \in SUBSET Task
    BY DEF Sleeping
  <2> QED
    BY <1>5, <1>7, <2>1, SleepingIs
<1> QED
  BY <1>3, <1>5, <1>7, <1>8 DEF r

-----------------------------------------------------------------------------
(* The pend lists.                                                         *)

Waiters(s, m) == {t \in Task : s.pending_obj[t] = m}

PendOK(s) ==
  \A m \in Mutex : /\ ListOf(s.pend_list[m], Waiters(s, m))
                   /\ Ranked(s.pend_list[m], s.prio)

\* What a change of the pend lists leaves.
OnlyWaits(r, s) ==
  /\ r \in KState
  /\ SamePrios(r, s) /\ SameQueue(r, s) /\ SameTimes(r, s)
  /\ SameOwners(r, s) /\ SameNext(r, s) /\ SameRest(r, s)

\* tos_list_del and pend_list_add agree on a list that has lost its task.
LEMMA RankedWithout ==
  ASSUME NEW S \in SUBSET Task, NEW list, ListOf(list, S), NEW x,
         NEW prio, Ranked(list, prio), NEW new,
         \A u \in S : u # x => new[u] = prio[u], x \notin S
  PROVE  Ranked(list, new)
<1>1. \A i \in DOMAIN list : list[i] \in S
  BY ListType
<1> QED
  BY <1>1 DEF Ranked

\* What pend_list_add leaves.
Inserted(r, s, t, m, S) ==
  /\ OnlyWaits(r, s) /\ r.pend_state = s.pend_state
  /\ r.pending_obj = [s.pending_obj EXCEPT ![t] = m]
  /\ ListOf(r.pend_list[m], S \cup {t}) /\ Ranked(r.pend_list[m], s.prio)
  /\ \A o \in Mutex : o # m => r.pend_list[o] = s.pend_list[o]

\* A task is put into a pend list that it is not in.
LEMMA PendListInsert ==
  ASSUME NEW s \in KState, NEW m \in Mutex, NEW t \in Task, NEW S \in SUBSET Task,
         ListOf(s.pend_list[m], S), Ranked(s.pend_list[m], s.prio), t \notin S
  PROVE  Inserted(pend_list_add(s, t, m), s, t, m, S)
<1> DEFINE r == pend_list_add(s, t, m)
           list == s.pend_list[m]
           at == Rank(list, s.prio, s.prio[t])
           new == InsertAt(list, at, t)
<1>1. s.prio \in [Thread -> Nat]
  BY PrioFacts DEF KState
<1>2. t \in Thread /\ S \subseteq Thread
  BY DEF Thread
<1>3. at \in 1..Len(list) + 1 /\ Ranked(new, s.prio)
  <2>1. ListOf(list, S) /\ Ranked(list, s.prio)
    OBVIOUS
  <2> HIDE DEF list
  <2> QED
    BY <1>1, <1>2, <2>1, InsertRanked
<1>4. ListOf(new, S \cup {t})
  <2>1. ListOf(list, S)
    OBVIOUS
  <2> HIDE DEF at, list
  <2> QED
    BY <1>3, <2>1, InsertList
<1>5. new \in Seq(Task)
  <2>1. new \in Seq(S \cup {t})
    BY <1>4 DEF ListOf
  <2> HIDE DEF new
  <2> QED
    BY <2>1
<1>6. r = [s EXCEPT !.pend_list[m] = new, !.pending_obj[t] = m]
  BY DEF pend_list_add, KState, Rank
<1> HIDE DEF new, r
<1>7. /\ OnlyWaits(r, s) /\ r.pend_state = s.pend_state
      /\ r.pend_list = [s.pend_list EXCEPT ![m] = new]
      /\ r.pending_obj = [s.pending_obj EXCEPT ![t] = m]
  BY <1>2, <1>5, <1>6
     DEF KState, OnlyWaits, SamePrios, SameQueue, SameTimes, SameOwners, SameNext, SameRest
<1>8. r.pend_list[m] = new /\ \A o \in Mutex : o # m => r.pend_list[o] = s.pend_list[o]
  BY <1>7 DEF KState
<1> QED
  BY <1>3, <1>4, <1>7, <1>8 DEF r, new, Inserted

\* One more task waits for m, at its rank.
LEMMA PendListAdd ==
  ASSUME NEW s \in KState, PendOK(s), NEW m \in Mutex,
         NEW t \in Task, s.pending_obj[t] = NoMutex
  PROVE  LET r == pend_list_add(s, t, m) IN
         /\ OnlyWaits(r, s) /\ r.pend_state = s.pend_state /\ PendOK(r)
         /\ r.pending_obj = [s.pending_obj EXCEPT ![t] = m]
<1> DEFINE r == pend_list_add(s, t, m)
<1>1. t \notin Waiters(s, m) /\ Waiters(s, m) \in SUBSET Task
  BY ConstantsAssumption DEF Waiters
<1>2. Inserted(r, s, t, m, Waiters(s, m))
  BY <1>1, PendListInsert DEF PendOK
<1> HIDE DEF r
<1>3. ASSUME NEW o \in Mutex
      PROVE  Waiters(r, o) = IF o = m THEN Waiters(s, m) \cup {t} ELSE Waiters(s, o)
  <2>1. \A u \in Task : r.pending_obj[u] = IF u = t THEN m ELSE s.pending_obj[u]
    BY <1>2 DEF Inserted, KState, Thread
  <2> QED
    BY <2>1, ConstantsAssumption DEF Waiters
<1>4. PendOK(r)
  BY <1>2, <1>3 DEF PendOK, OnlyWaits, SamePrios, Inserted
<1> QED
  BY <1>2, <1>4 DEF r, Inserted

\* A waiter whose priority has changed is put at its new rank.
LEMMA PendListAdjust ==
  ASSUME NEW s \in KState, PendOK(s), NEW t \in Task, s.pending_obj[t] # NoMutex,
         NEW q \in KState, SameWaits(q, s),
         \A u \in Task : u # t => q.prio[u] = s.prio[u]
  PROVE  LET r == pend_list_adjust(q, t) IN
         /\ OnlyWaits(r, q) /\ r.pend_state = q.pend_state /\ PendOK(r)
         /\ r.pending_obj = s.pending_obj
<1> DEFINE m == s.pending_obj[t]
           q1 == [q EXCEPT !.pend_list[m] = Unlink(@, t)]
           r == pend_list_adjust(q, t)
           S == Waiters(s, m) \ {t}
<1>1. m \in Mutex /\ q.pending_obj = s.pending_obj /\ q.pend_list = s.pend_list
  BY DEF KState, SameWaits, Thread
<1>2. r = pend_list_add(q1, t, m)
  BY <1>1 DEF pend_list_adjust
<1>3. t \in Waiters(s, m) /\ ListOf(s.pend_list[m], Waiters(s, m)) /\ Ranked(s.pend_list[m], s.prio)
  BY <1>1 DEF Waiters, PendOK
<1>4. ListOf(Unlink(s.pend_list[m], t), S) /\ InOrderOf(Unlink(s.pend_list[m], t), s.pend_list[m])
  <2> HIDE DEF m
  <2> QED
    BY <1>3, UnlinkList
<1>5. S \in SUBSET Task /\ t \notin S
  BY DEF Waiters
<1>6. Ranked(Unlink(s.pend_list[m], t), q.prio)
  <2>1. Ranked(Unlink(s.pend_list[m], t), s.prio)
    BY <1>3, <1>4, RankedInOrder
  <2>2. \A u \in S : u # t => q.prio[u] = s.prio[u]
    BY <1>5
  <2> HIDE DEF S, m
  <2> QED
    BY <1>4, <1>5, <2>1, <2>2, RankedWithout
<1>7. Unlink(s.pend_list[m], t) \in Seq(Task)
  <2>1. Unlink(s.pend_list[m], t) \in Seq(S)
    BY <1>4 DEF ListOf
  <2> HIDE DEF S, m
  <2> QED
    BY <1>5, <2>1
<1> DEFINE rest == Unlink(s.pend_list[m], t)
<1>8. q1 = [q EXCEPT !.pend_list = [q.pend_list EXCEPT ![m] = rest]]
  BY <1>1 DEF KState
<1> HIDE DEF rest, q1, r, m
<1>9. /\ OnlyWaits(q1, q) /\ q1.pend_state = q.pend_state /\ q1.pending_obj = q.pending_obj
      /\ q1.pend_list = [q.pend_list EXCEPT ![m] = rest]
  BY <1>1, <1>7, <1>8
     DEF KState, OnlyWaits, SamePrios, SameQueue, SameTimes, SameOwners, SameNext, SameRest, rest
<1>10. /\ q1.pend_list[m] = rest
       /\ \A o \in Mutex : o # m => q1.pend_list[o] = s.pend_list[o]
  BY <1>1, <1>9 DEF KState
<1>11. q1 \in KState /\ q1.prio = q.prio
  BY <1>9 DEF OnlyWaits, SamePrios
<1>12. Inserted(r, q1, t, m, S)
  <2> HIDE DEF S
  <2>1. ListOf(q1.pend_list[m], S) /\ Ranked(q1.pend_list[m], q1.prio)
    BY <1>4, <1>6, <1>10, <1>11 DEF rest
  <2> QED
    BY <1>1, <1>2, <1>5, <1>11, <2>1, PendListInsert
<1>13. r.pending_obj = s.pending_obj
  BY <1>1, <1>9, <1>12 DEF KState, m, Thread, Inserted
<1>14. OnlyWaits(r, q) /\ r.pend_state = q.pend_state
  BY <1>9, <1>12
     DEF Inserted, OnlyWaits, SamePrios, SameQueue, SameTimes, SameOwners, SameNext, SameRest
<1>15. PendOK(r)
  <2>1. ASSUME NEW o \in Mutex
        PROVE  ListOf(r.pend_list[o], Waiters(r, o)) /\ Ranked(r.pend_list[o], r.prio)
    <3>1. Waiters(r, o) = Waiters(s, o)
      BY <1>13 DEF Waiters
    <3>2. r.prio = q.prio
      BY <1>14 DEF OnlyWaits, SamePrios
    <3>3. CASE o = m
      <4>1. Waiters(s, m) = S \cup {t}
        BY <1>3
      <4> QED
        BY <1>11, <1>12, <3>1, <3>2, <3>3, <4>1 DEF Inserted
    <3>4. CASE o # m
      <4>1. r.pend_list[o] = s.pend_list[o]
        BY <1>10, <1>12, <3>4 DEF Inserted
      <4>2. t \notin Waiters(s, o) /\ Waiters(s, o) \in SUBSET Task
        BY <3>4 DEF Waiters, m
      <4>3. \A u \in Waiters(s, o) : u # t => q.prio[u] = s.prio[u]
        BY <4>2
      <4>4. ListOf(s.pend_list[o], Waiters(s, o)) /\ Ranked(s.pend_list[o], s.prio)
        BY DEF PendOK
      <4>5. Ranked(s.pend_list[o], q.prio)
        BY <4>2, <4>3, <4>4, RankedWithout
      <4> QED
        BY <3>1, <3>2, <4>1, <4>4, <4>5
    <3> QED
      BY <3>3, <3>4
  <2> QED
    BY <2>1 DEF PendOK
<1> QED
  BY <1>13, <1>14, <1>15 DEF r

\* A task waits no longer.
LEMMA PendListRemove ==
  ASSUME NEW s \in KState, PendOK(s), NEW t \in Task, s.pending_obj[t] # NoMutex
  PROVE  LET r == pend_list_remove(s, t) IN
         /\ OnlyWaits(r, s) /\ r.pend_state = s.pend_state /\ PendOK(r)
         /\ r.pending_obj = [s.pending_obj EXCEPT ![t] = NoMutex]
<1> DEFINE m == s.pending_obj[t]
           r == pend_list_remove(s, t)
           rest == Unlink(s.pend_list[m], t)
<1>1. m \in Mutex
  BY DEF KState, Thread
<1>2. t \in Waiters(s, m) /\ ListOf(s.pend_list[m], Waiters(s, m)) /\ Ranked(s.pend_list[m], s.prio)
  BY <1>1 DEF Waiters, PendOK
<1>3. ListOf(rest, Waiters(s, m) \ {t}) /\ InOrderOf(rest, s.pend_list[m])
  <2> HIDE DEF m
  <2> QED
    BY <1>2, UnlinkList
<1>4. Ranked(rest, s.prio)
  BY <1>2, <1>3, RankedInOrder
<1>5. rest \in Seq(Task)
  <2>1. rest \in Seq(Waiters(s, m) \ {t})
    BY <1>3 DEF ListOf
  <2>2. Waiters(s, m) \ {t} \subseteq Task
    BY DEF Waiters
  <2> HIDE DEF rest, m
  <2> QED
    BY <2>1, <2>2
<1>6. r = [s EXCEPT !.pend_list = [s.pend_list EXCEPT ![m] = rest],
                    !.pending_obj = [s.pending_obj EXCEPT ![t] = NoMutex]]
  BY <1>1 DEF KState, pend_list_remove
<1> HIDE DEF rest, r, m
<1>7. /\ OnlyWaits(r, s) /\ r.pend_state = s.pend_state
      /\ r.pend_list = [s.pend_list EXCEPT ![m] = rest]
      /\ r.pending_obj = [s.pending_obj EXCEPT ![t] = NoMutex]
  BY <1>1, <1>5, <1>6
     DEF KState, OnlyWaits, SamePrios, SameQueue, SameTimes, SameOwners, SameNext, SameRest, Thread
<1>8. ASSUME NEW o \in Mutex
      PROVE  /\ Waiters(r, o) = IF o = m THEN Waiters(s, m) \ {t} ELSE Waiters(s, o)
             /\ r.pend_list[o] = IF o = m THEN rest ELSE s.pend_list[o]
  <2>1. Waiters(r, o) = IF o = m THEN Waiters(s, m) \ {t} ELSE Waiters(s, o)
    <3>1. \A u \in Task : r.pending_obj[u] = IF u = t THEN NoMutex ELSE s.pending_obj[u]
      BY <1>7 DEF KState, Thread
    <3> QED
      BY <3>1, ConstantsAssumption DEF Waiters, m
  <2>2. r.pend_list[o] = IF o = m THEN rest ELSE s.pend_list[o]
    BY <1>7 DEF KState
  <2> QED
    BY <2>1, <2>2
<1>9. PendOK(r)
  BY <1>3, <1>4, <1>7, <1>8 DEF PendOK, OnlyWaits, SamePrios
<1> QED
  BY <1>7, <1>9 DEF r

\* The pend lists depend on nothing but themselves and the waiters' priorities.
LEMMA PendSame ==
  ASSUME NEW s, NEW r, PendOK(s), SameWaits(r, s),
         \A t \in Task : s.pending_obj[t] \in Mutex => r.prio[t] = s.prio[t]
  PROVE  PendOK(r)
<1>1. ASSUME NEW m \in Mutex
      PROVE  ListOf(r.pend_list[m], Waiters(r, m)) /\ Ranked(r.pend_list[m], r.prio)
  <2>1. Waiters(r, m) = Waiters(s, m) /\ r.pend_list[m] = s.pend_list[m]
    BY DEF SameWaits, Waiters
  <2>2. ListOf(s.pend_list[m], Waiters(s, m)) /\ Ranked(s.pend_list[m], s.prio)
    BY DEF PendOK
  <2>3. \A i \in DOMAIN s.pend_list[m] : s.pend_list[m][i] \in Waiters(s, m)
    BY <2>2, ListType
  <2>4. \A t \in Waiters(s, m) : r.prio[t] = s.prio[t]
    BY DEF Waiters
  <2> QED
    BY <2>1, <2>2, <2>3, <2>4 DEF Ranked
<1> QED
  BY <1>1 DEF PendOK

\* The head of a pend list is its best waiter.
LEMMA HeadIsBest ==
  ASSUME NEW s \in KState, PendOK(s), NEW m \in Mutex, Waiters(s, m) # {}
  PROVE  /\ s.pend_list[m] # <<>>
         /\ Head(s.pend_list[m]) \in Waiters(s, m)
         /\ \A w \in Waiters(s, m) : s.prio[Head(s.pend_list[m])] <= s.prio[w]
<1> DEFINE list == s.pend_list[m]
<1>1. ListOf(list, Waiters(s, m)) /\ Ranked(list, s.prio)
  BY DEF PendOK
<1> HIDE DEF list
<1>2. list # <<>> /\ 1 \in DOMAIN list /\ Head(list) = list[1] /\ Head(list) \in Waiters(s, m)
  BY <1>1, HeadOfList
<1>3. ASSUME NEW w \in Waiters(s, m) PROVE s.prio[list[1]] <= s.prio[w]
  <2>1. PICK i \in DOMAIN list : list[i] = w
    BY <1>1 DEF ListOf
  <2>2. DOMAIN list = 1..Len(list) /\ Len(list) \in Nat
    BY <1>1, ListType
  <2>3. CASE i = 1
    <3>1. s.prio[w] \in Nat
      BY PrioFacts DEF KState, Waiters, Thread
    <3> QED
      BY <2>1, <2>3, <3>1
  <2>4. CASE i # 1
    BY <1>1, <1>2, <2>1, <2>2, <2>4 DEF Ranked
  <2> QED
    BY <2>3, <2>4
<1> QED
  BY <1>2, <1>3 DEF list

-----------------------------------------------------------------------------
(* The lists agree with each other.                                        *)

Ready(s) == {t \in Thread : IsReady(s, t)}

Struct(s) ==
  /\ s \in KState
  /\ s.prio[Idle] = PrioIdle /\ \A t \in Task : s.prio[t] < PrioIdle
  /\ s.pending_obj[Idle] = NoMutex
  /\ QueueOK(s, Ready(s))
  /\ PendOK(s)
  /\ ListOf(s.tick_list, Sleeping(s))
  /\ \A t \in s.deleted : s.pending_obj[t] = NoMutex /\ t \notin Sleeping(s)

\* What Struct is about.
SameStruct(r, s) ==
  /\ r.prio = s.prio /\ r.deleted = s.deleted /\ r.tick_list = s.tick_list
  /\ SameQueue(r, s) /\ SameWaits(r, s)

\* IsReady, by what the thread waits for.
LEMMA ReadyIs ==
  ASSUME NEW s, Struct(s)
  PROVE  /\ Ready(s) = {t \in Thread : /\ s.pending_obj[t] = NoMutex
                                       /\ t \notin Sleeping(s) /\ t \notin s.deleted}
         /\ Idle \in Ready(s) /\ Ready(s) \in SUBSET Thread
         /\ \A t \in Thread : IsSleeping(s, t) <=> t \in Sleeping(s)
<1>1. \A t : IsSleeping(s, t) <=> t \in Sleeping(s)
  BY ListType DEF Struct, IsSleeping
<1>2. Idle \notin Sleeping(s) /\ Idle \notin s.deleted
  BY ConstantsAssumption DEF Sleeping, Struct, KState
<1> QED
  BY <1>1, <1>2 DEF Ready, IsReady, IsPending, Struct, Thread

\* The lists still agree when nothing they are about differs.
LEMMA StructSame ==
  ASSUME NEW s, Struct(s), NEW r \in KState, SameStruct(r, s)
  PROVE  /\ Struct(r)
         /\ Ready(r) = Ready(s) /\ Sleeping(r) = Sleeping(s)
         /\ \A m \in Mutex : Waiters(r, m) = Waiters(s, m)
<1>1. Sleeping(r) = Sleeping(s)
  BY DEF Sleeping, IsSleeping, SameStruct
<1>2. Ready(r) = Ready(s)
  BY DEF Ready, IsReady, IsPending, IsSleeping, SameStruct, SameWaits
<1>3. QueueOK(r, Ready(r))
  BY <1>2, QueueSame DEF Struct, SameStruct
<1>4. PendOK(r)
  BY PendSame DEF Struct, SameStruct
<1>5. \A m \in Mutex : Waiters(r, m) = Waiters(s, m)
  BY DEF Waiters, SameStruct, SameWaits
<1> QED
  BY <1>1, <1>2, <1>3, <1>4, <1>5 DEF Struct, SameStruct, SameWaits

\* What knl_sched leaves.
Scheduled(r, s) ==
  /\ r \in KState
  /\ SamePrios(r, s) /\ SameQueue(r, s) /\ SameWaits(r, s) /\ SameTimes(r, s)
  /\ SameOwners(r, s) /\ SameRest(r, s) /\ r.pend_state = s.pend_state
  /\ IF s.sched_locked THEN SameNext(r, s)
     ELSE /\ r.next = highest_ready_task(s)
          /\ r.pendsv <=> s.pendsv \/ r.next # s.curr

\* knl_sched changes k_next_task and nothing else.
LEMMA KnlSched ==
  ASSUME NEW s, Struct(s)
  PROVE  /\ Scheduled(knl_sched(s), s) /\ Struct(knl_sched(s))
         /\ Ready(knl_sched(s)) = Ready(s) /\ Sleeping(knl_sched(s)) = Sleeping(s)
<1> DEFINE r == knl_sched(s)
           n == highest_ready_task(s)
           sv == (s.pendsv \/ n # s.curr)
<1>1. s \in KState /\ n \in Thread
  BY HighestReady, ReadyIs DEF Struct
<1>2. sv \in BOOLEAN
  OBVIOUS
<1> HIDE DEF n, sv
<1>3. CASE s.sched_locked
  <2>1. r = s
    BY <1>3 DEF knl_sched
  <2> HIDE DEF r
  <2>2. Scheduled(r, s)
    BY <1>1, <1>3, <2>1 DEF Scheduled, SamePrios, SameQueue, SameWaits, SameTimes, SameOwners, SameNext, SameRest
  <2> QED
    BY <2>1, <2>2 DEF r
<1>4. CASE ~s.sched_locked
  <2>1. r = [s EXCEPT !.next = n, !.pendsv = sv]
    BY <1>1, <1>4 DEF knl_sched, SwitchTo, KState, n, sv
  <2> HIDE DEF r
  <2>2. /\ r \in KState /\ r.next = n /\ r.pendsv = sv
        /\ SamePrios(r, s) /\ SameQueue(r, s) /\ SameWaits(r, s) /\ SameTimes(r, s)
        /\ SameOwners(r, s) /\ SameRest(r, s) /\ r.pend_state = s.pend_state
    BY <1>1, <1>2, <2>1 DEF KState, SamePrios, SameQueue, SameWaits, SameTimes, SameOwners, SameRest
  <2>3. Scheduled(r, s)
    BY <1>4, <2>2 DEF Scheduled, n, sv
  <2>4. SameStruct(r, s)
    BY <2>2 DEF SameStruct, SamePrios, SameTimes, SameRest
  <2> QED
    BY <2>2, <2>3, <2>4, StructSame DEF r
<1> QED
  BY <1>3, <1>4

-----------------------------------------------------------------------------
(* tos_task_prio_change.                                                   *)

\* The best priority among those who wait for a task's mutexes.
LEMMA TopIs ==
  ASSUME NEW s, Struct(s), NEW t \in Thread
  PROVE  /\ task_highest_pending_prio_get(s, t) \in 0..INVALID
         /\ \A m \in ToSet(s.mutex_own_list[t]) : \A w \in Waiters(s, m) :
              task_highest_pending_prio_get(s, t) <= s.prio[w]
<1> DEFINE own == ToSet(s.mutex_own_list[t])
           P == {pend_highest_pending_prio_get(s, m) : m \in own}
           top == Min({INVALID} \cup P)
<1>1. own \subseteq Mutex /\ s \in KState /\ PendOK(s)
  <2>1. s.mutex_own_list[t] \in Seq(Mutex)
    BY DEF Struct, KState
  <2> QED
    BY <2>1 DEF ToSet, Struct
<1>2. ASSUME NEW m \in Mutex
      PROVE  /\ pend_highest_pending_prio_get(s, m) \in 0..INVALID
             /\ \A w \in Waiters(s, m) : pend_highest_pending_prio_get(s, m) <= s.prio[w]
  <2>1. CASE Waiters(s, m) = {}
    <3>1. s.pend_list[m] = <<>>
      BY <1>1, <2>1, EmptyList DEF PendOK
    <3> QED
      BY <2>1, <3>1, PrioFacts DEF pend_highest_pending_prio_get
  <2>2. CASE Waiters(s, m) # {}
    <3>1. /\ s.pend_list[m] # <<>> /\ Head(s.pend_list[m]) \in Waiters(s, m)
          /\ \A w \in Waiters(s, m) : s.prio[Head(s.pend_list[m])] <= s.prio[w]
      BY <1>1, <2>2, HeadIsBest
    <3>2. s.prio[Head(s.pend_list[m])] \in Prio
      BY <1>1, <3>1 DEF Waiters, KState, Thread
    <3> QED
      BY <3>1, <3>2, PrioFacts DEF pend_highest_pending_prio_get
  <2> QED
    BY <2>1, <2>2
<1>3. top \in {INVALID} \cup P /\ \A q \in {INVALID} \cup P : top <= q
  <2>1. {INVALID} \cup P \in SUBSET Nat /\ {INVALID} \cup P # {}
    BY <1>1, <1>2, PrioFacts
  <2> HIDE DEF P
  <2> QED
    BY <2>1, Least
<1>4. top \in 0..INVALID
  BY <1>1, <1>2, <1>3, PrioFacts
<1>5. ASSUME NEW m \in own, NEW w \in Waiters(s, m) PROVE top <= s.prio[w]
  <2>1. top <= pend_highest_pending_prio_get(s, m)
    BY <1>3
  <2>2. pend_highest_pending_prio_get(s, m) \in 0..INVALID /\ pend_highest_pending_prio_get(s, m) <= s.prio[w]
    BY <1>1, <1>2
  <2>3. s.prio[w] \in Prio
    BY <1>1 DEF Waiters, KState, Thread
  <2> HIDE DEF top
  <2> QED
    BY <1>4, <2>1, <2>2, <2>3, PrioFacts
<1> QED
  BY <1>4, <1>5 DEF task_highest_pending_prio_get

\* What a change of a task's priority leaves.
OnlyPrio(r, s, t) ==
  /\ r \in KState
  /\ SameTimes(r, s) /\ SameOwners(r, s) /\ SameRest(r, s)
  /\ r.pend_state = s.pend_state /\ r.pending_obj = s.pending_obj
  /\ \A u \in Thread : u # t =>
       r.prio[u] = s.prio[u] /\ r.prio_pending[u] = s.prio_pending[u]

\* The queue and the lists follow a task to its new priority p.
LEMMA MovesWithPrio ==
  ASSUME NEW s, Struct(s), NEW t \in Task, NEW s1 \in KState,
         NEW p \in Prio, p < PrioIdle,
         OnlyPrio(s1, s, t), s1.prio = s.prio,
         SameQueue(s1, s), SameWaits(s1, s), SameNext(s1, s)
  PROVE  LET ranked == [s1 EXCEPT !.prio[t] = p]
             unready == [readyqueue_remove(s1, t) EXCEPT !.prio[t] = p]
             Moved(r) == /\ Struct(r) /\ OnlyPrio(r, s, t) /\ SameNext(r, s)
                         /\ r.prio[t] = p /\ r.prio_pending = s1.prio_pending
         IN /\ IsPending(s, t) => Moved(pend_list_adjust(ranked, t))
            /\ ~IsPending(s, t) /\ IsSleeping(s, t) => Moved(ranked)
            /\ IsReady(s, t) => /\ Moved(readyqueue_add_head(unready, t))
                                /\ Moved(readyqueue_add_tail(unready, t))
<1> DEFINE prio == [s.prio EXCEPT ![t] = p]
           ranked == [s1 EXCEPT !.prio[t] = p]
           unready == [readyqueue_remove(s1, t) EXCEPT !.prio[t] = p]
           R == Ready(s)
           Moved(r) == /\ Struct(r) /\ OnlyPrio(r, s, t) /\ SameNext(r, s)
                       /\ r.prio[t] = p /\ r.prio_pending = s1.prio_pending
<1>1. /\ s \in KState /\ t \in Thread /\ t # Idle
      /\ R \in SUBSET Thread /\ Idle \in R
  BY ReadyIs, ConstantsAssumption DEF Struct, Thread
<1>2. /\ prio \in [Thread -> Prio] /\ prio[t] = p
      /\ \A u \in Thread : u # t => prio[u] = s.prio[u]
  BY <1>1 DEF KState
<1>3. prio[Idle] = PrioIdle /\ \A u \in Task : prio[u] < PrioIdle
  BY <1>1, <1>2 DEF Struct, Thread
<1>4. /\ ranked \in KState /\ ranked.prio = prio
      /\ SameQueue(ranked, s) /\ SameWaits(ranked, s) /\ SameTimes(ranked, s)
      /\ SameOwners(ranked, s) /\ SameNext(ranked, s) /\ SameRest(ranked, s)
      /\ ranked.prio_pending = s1.prio_pending /\ ranked.pend_state = s.pend_state
  <2>1. ranked = [s1 EXCEPT !.prio = prio]
    BY DEF KState
  <2> HIDE DEF ranked, prio
  <2> QED
    BY <1>2, <2>1 DEF KState, OnlyPrio, SameQueue, SameWaits, SameTimes, SameOwners, SameNext, SameRest
<1> HIDE DEF ranked, prio
\* A state with the lists of s, the task's new priority and the queue in order.
<1>5. ASSUME NEW r \in KState, r.prio = prio, QueueOK(r, R), PendOK(r),
             r.pending_obj = s.pending_obj, SameTimes(r, s), SameOwners(r, s),
             SameRest(r, s), SameNext(r, s), r.pend_state = s.pend_state,
             r.prio_pending = s1.prio_pending
      PROVE  Moved(r)
  <2>1. Sleeping(r) = Sleeping(s)
    BY <1>5 DEF Sleeping, IsSleeping, SameTimes
  <2>2. Ready(r) = R
    BY <1>5 DEF Ready, IsReady, IsPending, IsSleeping, SameTimes, SameRest
  <2>3. Struct(r)
    BY <1>3, <1>5, <2>1, <2>2 DEF Struct, SameTimes, SameRest
  <2>4. OnlyPrio(r, s, t)
    BY <1>2, <1>5 DEF OnlyPrio
  <2> QED
    BY <1>2, <1>5, <2>3, <2>4
<1>6. ASSUME t \notin R PROVE QueueOK(ranked, R)
  BY <1>1, <1>2, <1>4, <1>6, QueueSame DEF Struct
<1>7. ASSUME ~IsPending(s, t), NEW r, SameWaits(r, s), r.prio = prio PROVE PendOK(r)
  <2>1. \A u \in Task : s.pending_obj[u] \in Mutex => r.prio[u] = s.prio[u]
    BY <1>2, <1>7, ConstantsAssumption DEF IsPending, Thread
  <2> QED
    BY <1>7, <2>1, PendSame DEF Struct
<1>8. ASSUME IsPending(s, t) PROVE Moved(pend_list_adjust(ranked, t))
  <2> DEFINE r == pend_list_adjust(ranked, t)
  <2>1. \A u \in Task : u # t => ranked.prio[u] = s.prio[u]
    BY <1>2, <1>4 DEF Thread
  <2>2. /\ OnlyWaits(r, ranked) /\ r.pend_state = ranked.pend_state /\ PendOK(r)
        /\ r.pending_obj = s.pending_obj
    BY <1>1, <1>4, <1>8, <2>1, PendListAdjust DEF Struct, IsPending
  <2> HIDE DEF r
  <2>3. t \notin R
    BY <1>8 DEF Ready, IsReady
  <2>4. QueueOK(r, R)
    BY <1>6, <2>2, <2>3, QueueSame DEF OnlyWaits, SamePrios
  <2>5. Moved(r)
    <3> HIDE DEF Moved
    <3> QED
      BY <1>4, <1>5, <2>2, <2>4
         DEF OnlyWaits, SamePrios, SameTimes, SameOwners, SameNext, SameRest
  <2> QED
    BY <2>5 DEF r
<1>9. ASSUME ~IsPending(s, t), IsSleeping(s, t) PROVE Moved(ranked)
  <2>1. t \notin R
    BY <1>9 DEF Ready, IsReady
  <2>2. QueueOK(ranked, R) /\ PendOK(ranked)
    BY <1>4, <1>6, <1>7, <1>9, <2>1
  <2> HIDE DEF Moved
  <2> QED
    BY <1>4, <1>5, <2>2 DEF SameWaits
<1>10. ASSUME IsReady(s, t)
       PROVE  Moved(readyqueue_add_head(unready, t)) /\ Moved(readyqueue_add_tail(unready, t))
  <2> DEFINE gone == readyqueue_remove(s1, t)
  <2>1. t \in R /\ R \ {t} # {}
    BY <1>1, <1>10 DEF Ready
  <2>2. QueueOK(s1, R)
    BY QueueSame DEF Struct
  <2>3. QueueAdds(gone, s1, R \ {t})
    <3> HIDE DEF gone
    <3> QED
      BY <1>1, <2>1, <2>2, ReadyQueueRemove DEF gone
  <2> HIDE DEF gone
  <2>4. /\ unready \in KState /\ unready.prio = prio
        /\ SameQueue(unready, gone) /\ SameWaits(unready, gone) /\ SameTimes(unready, gone)
        /\ SameOwners(unready, gone) /\ SameNext(unready, gone) /\ SameRest(unready, gone)
        /\ unready.prio_pending = gone.prio_pending /\ unready.pend_state = gone.pend_state
    <3>1. unready = [gone EXCEPT !.prio = prio]
      BY <2>3 DEF KState, gone, prio, QueueAdds, SamePrios
    <3> HIDE DEF unready
    <3> QED
      BY <1>2, <2>3, <3>1 DEF KState, QueueAdds, SameQueue, SameWaits, SameTimes, SameOwners, SameNext, SameRest
  <2> HIDE DEF unready
  <2>5. QueueOK(unready, R \ {t})
    <3>1. \A u \in R \ {t} : unready.prio[u] = gone.prio[u]
      BY <1>1, <1>2, <2>3, <2>4 DEF QueueAdds, SamePrios
    <3> QED
      BY <2>3, <2>4, <3>1, QueueSame DEF QueueAdds
  <2>6. ASSUME NEW r, QueueAdds(r, unready, R) PROVE Moved(r)
    <3>1. /\ r \in KState /\ r.prio = prio /\ QueueOK(r, R) /\ SameWaits(r, s)
          /\ SameTimes(r, s) /\ SameOwners(r, s) /\ SameRest(r, s)
          /\ SameNext(r, s) /\ r.pend_state = s.pend_state /\ r.prio_pending = s1.prio_pending
      BY <2>3, <2>4, <2>6 DEF QueueAdds, OnlyPrio, SamePrios, SameWaits, SameTimes, SameOwners, SameNext, SameRest
    <3>2. PendOK(r)
      BY <1>7, <1>10, <3>1 DEF IsReady
    <3> HIDE DEF Moved
    <3> QED
      BY <1>5, <3>1, <3>2 DEF SameWaits
  <2>7. (R \ {t}) \cup {t} = R /\ t \notin R \ {t} /\ R \ {t} \in SUBSET Thread
    BY <1>1, <2>1
  <2>8. /\ QueueAdds(readyqueue_add_head(unready, t), unready, (R \ {t}) \cup {t})
        /\ QueueAdds(readyqueue_add_tail(unready, t), unready, (R \ {t}) \cup {t})
    BY <1>1, <2>4, <2>5, <2>7, ReadyQueueAdd
  <2> HIDE DEF Moved
  <2> QED
    BY <2>6, <2>7, <2>8
<1> QED
  BY <1>8, <1>9, <1>10 DEF ranked, unready

\* What tos_task_prio_change leaves.
PrioChanged(r, s, t, new) ==
  /\ Struct(r) /\ OnlyPrio(r, s, t)
  /\ new >= PrioIdle => r = s
  /\ r.prio_pending[t] # s.prio_pending[t] =>
       r.prio_pending[t] = new /\ s.mutex_own_list[t] # <<>>
  /\ new < PrioIdle /\ t \notin s.deleted =>
       /\ r.prio[t] <= new
       /\ s.mutex_own_list[t] = <<>> => r.prio[t] = new
       /\ \A m \in ToSet(s.mutex_own_list[t]) : \A w \in Waiters(s, m) :
            r.prio[t] = s.prio[t] \/ r.prio[t] <= s.prio[w]
  /\ IF s.sched_locked \/ new >= PrioIdle THEN SameNext(r, s)
     ELSE /\ r.next = highest_ready_task(r)
          /\ r.pendsv <=> s.pendsv \/ r.next # s.curr

\* A knl_sched after a change of a task's priority.
LEMMA SchedAfter ==
  ASSUME NEW s, NEW q, NEW t \in Task, Struct(q), OnlyPrio(q, s, t), SameNext(q, s)
  PROVE  /\ Struct(knl_sched(q)) /\ OnlyPrio(knl_sched(q), s, t)
         /\ knl_sched(q).prio = q.prio /\ knl_sched(q).prio_pending = q.prio_pending
         /\ IF s.sched_locked THEN SameNext(knl_sched(q), s)
            ELSE /\ knl_sched(q).next = highest_ready_task(knl_sched(q))
                 /\ knl_sched(q).pendsv <=> s.pendsv \/ knl_sched(q).next # s.curr
<1> DEFINE r == knl_sched(q)
<1>1. Scheduled(r, q) /\ Struct(r)
  BY KnlSched
<1> HIDE DEF r
<1>2. highest_ready_task(r) = highest_ready_task(q)
  BY <1>1 DEF Scheduled, SameQueue, highest_ready_task
<1>3. OnlyPrio(r, s, t)
  BY <1>1 DEF Scheduled, OnlyPrio, SamePrios, SameWaits, SameTimes, SameOwners, SameRest
<1> QED
  BY <1>1, <1>2, <1>3 DEF r, Scheduled, OnlyPrio, SamePrios, SameRest, SameNext

\* tos_task_prio_change, in each state of the task.
LEMMA PrioChange ==
  ASSUME NEW s, Struct(s), NEW t \in Task, NEW new \in Nat
  PROVE  PrioChanged(tos_task_prio_change(s, t, new), s, t, new)
<1> DEFINE r == tos_task_prio_change(s, t, new)
           own == s.mutex_own_list[t]
           top == task_highest_pending_prio_get(s, t)
           held == own # <<>> /\ new > top
           p == IF held THEN top ELSE new
           s1 == IF held THEN [s EXCEPT !.prio_pending[t] = new] ELSE s
           ranked == [s1 EXCEPT !.prio[t] = p]
           unready == [readyqueue_remove(s1, t) EXCEPT !.prio[t] = p]
           waiting == \A m \in ToSet(own) : \A w \in Waiters(s, m) : top <= s.prio[w]
<1>1. s \in KState /\ t \in Thread /\ OnlyPrio(s, s, t) /\ SameNext(s, s)
  BY DEF Struct, Thread, OnlyPrio, SameTimes, SameOwners, SameRest, SameNext
<1>2. top \in 0..INVALID /\ waiting /\ s.prio[t] \in Prio
  BY <1>1, TopIs DEF KState
<1> HIDE DEF top
<1>3. CASE new >= PrioIdle
  <2>1. r = s
    BY <1>3 DEF tos_task_prio_change
  <2>2. ~(new < PrioIdle)
    BY <1>3, PrioFacts
  <2> HIDE DEF r
  <2> QED
    BY <1>1, <1>3, <2>1, <2>2 DEF PrioChanged, r
<1>4. CASE ~(new >= PrioIdle) /\ s.prio[t] = new
  <2>1. r = knl_sched(s)
    BY <1>4 DEF tos_task_prio_change
  <2> HIDE DEF r
  <2>2. r.prio = s.prio /\ r.prio_pending = s.prio_pending
    BY <1>1, <2>1, SchedAfter
  <2>3. r.prio[t] <= new
    BY <1>4, <2>2
  <2> QED
    BY <1>1, <1>4, <2>1, <2>2, <2>3, SchedAfter DEF PrioChanged, r
<1>5. CASE ~(new >= PrioIdle) /\ s.prio[t] # new
  <2>1. new < PrioIdle /\ p \in Prio /\ p < PrioIdle /\ p <= new
    BY <1>2, <1>5, PrioFacts
  <2>2. /\ s1 \in KState /\ OnlyPrio(s1, s, t) /\ s1.prio = s.prio
        /\ SameQueue(s1, s) /\ SameWaits(s1, s) /\ SameNext(s1, s)
        /\ s1.prio_pending[t] = IF held THEN new ELSE s.prio_pending[t]
    <3> DEFINE pending == [s.prio_pending EXCEPT ![t] = new]
    <3>1. pending \in [Thread -> 0..INVALID]
      BY <1>1, <2>1, PrioFacts DEF KState
    <3>2. /\ pending[t] = new
          /\ \A u \in Thread : u # t => pending[u] = s.prio_pending[u]
      BY <1>1 DEF KState
    <3>3. held => s1 = [s EXCEPT !.prio_pending = pending]
      BY <1>1 DEF KState
    <3>4. ~held => s1 = s
      OBVIOUS
    <3> HIDE DEF pending, s1, held
    <3>5. CASE ~held
      BY <1>1, <3>4, <3>5 DEF SameQueue, SameWaits
    <3>6. CASE held
      <4>1. s1 \in KState /\ s1.prio_pending = pending
        BY <1>1, <3>1, <3>3, <3>6 DEF KState
      <4>2. /\ s1.prio = s.prio /\ s1.pend_state = s.pend_state
            /\ SameTimes(s1, s) /\ SameOwners(s1, s) /\ SameRest(s1, s)
        BY <1>1, <3>3, <3>6 DEF KState, SameTimes, SameOwners, SameRest
      <4>3. SameQueue(s1, s) /\ SameWaits(s1, s) /\ SameNext(s1, s)
        BY <1>1, <3>3, <3>6 DEF KState, SameQueue, SameWaits, SameNext
      <4>4. OnlyPrio(s1, s, t)
        BY <3>2, <4>1, <4>2, <4>3 DEF OnlyPrio, SameWaits
      <4> QED
        BY <3>2, <3>6, <4>1, <4>2, <4>3, <4>4
    <3> QED
      BY <3>5, <3>6
  <2> DEFINE Moved(q) == /\ Struct(q) /\ OnlyPrio(q, s, t) /\ SameNext(q, s)
                         /\ q.prio[t] = p /\ q.prio_pending = s1.prio_pending
             moved == CASE IsPending(s, t) -> pend_list_adjust(ranked, t)
                        [] ~IsPending(s, t) /\ IsSleeping(s, t) -> ranked
                        [] IsReady(s, t) /\ t = s.curr -> readyqueue_add_head(unready, t)
                        [] IsReady(s, t) /\ t # s.curr -> readyqueue_add_tail(unready, t)
                        [] OTHER -> s1
  <2>3. r = knl_sched(moved)
    BY <1>5 DEF tos_task_prio_change, top
  <2>4. /\ IsPending(s, t) => Moved(pend_list_adjust(ranked, t))
        /\ ~IsPending(s, t) /\ IsSleeping(s, t) => Moved(ranked)
        /\ IsReady(s, t) => /\ Moved(readyqueue_add_head(unready, t))
                            /\ Moved(readyqueue_add_tail(unready, t))
    <3> HIDE DEF p, s1
    <3> QED
      BY <2>1, <2>2, MovesWithPrio
  <2> DEFINE a == pend_list_adjust(ranked, t)
             b == readyqueue_add_head(unready, t)
             c == readyqueue_add_tail(unready, t)
             d == ranked
  <2>5. \/ moved = a /\ IsPending(s, t)
        \/ moved = d /\ ~IsPending(s, t) /\ IsSleeping(s, t)
        \/ moved = b /\ IsReady(s, t)
        \/ moved = c /\ IsReady(s, t)
        \/ moved = s1 /\ ~IsPending(s, t) /\ ~IsSleeping(s, t) /\ ~IsReady(s, t)
    <3>1. IsReady(s, t) => ~IsPending(s, t) /\ ~IsSleeping(s, t)
      BY DEF IsReady
    <3> HIDE DEF a, b, c, d, s1, ranked, unready
    <3>2. moved = CASE IsPending(s, t) -> a
                        [] ~IsPending(s, t) /\ IsSleeping(s, t) -> d
                        [] IsReady(s, t) /\ t = s.curr -> b
                        [] IsReady(s, t) /\ t # s.curr -> c
                        [] OTHER -> s1
      BY DEF a, b, c, d
    <3> HIDE DEF moved
    <3> QED
      BY <3>1, <3>2
  <2>6. \/ Moved(moved)
        \/ moved = s1 /\ t \in s.deleted
    <3>1. ~IsPending(s, t) /\ ~IsSleeping(s, t) /\ ~IsReady(s, t) => t \in s.deleted
      BY DEF IsReady
    <3> HIDE DEF a, b, c, d, s1, ranked, unready, moved, Moved
    <3>2. /\ IsPending(s, t) => Moved(a)
          /\ ~IsPending(s, t) /\ IsSleeping(s, t) => Moved(d)
          /\ IsReady(s, t) => Moved(b) /\ Moved(c)
      BY <2>4 DEF a, b, c, d
    <3> QED
      BY <2>5, <3>1, <3>2
  <2> HIDE DEF moved, s1, r
  <2>7. SameStruct(s1, s)
    BY <2>2 DEF SameStruct, OnlyPrio, SameRest, SameTimes
  <2>8. Struct(moved) /\ OnlyPrio(moved, s, t) /\ SameNext(moved, s) /\ moved.prio_pending = s1.prio_pending
    BY <2>2, <2>6, <2>7, StructSame
  <2>9. /\ Struct(r) /\ OnlyPrio(r, s, t)
        /\ r.prio = moved.prio /\ r.prio_pending = moved.prio_pending
        /\ IF s.sched_locked THEN SameNext(r, s)
           ELSE /\ r.next = highest_ready_task(r)
                /\ r.pendsv <=> s.pendsv \/ r.next # s.curr
    BY <1>1, <2>3, <2>8, SchedAfter
  <2>10. r.prio_pending[t] # s.prio_pending[t] => r.prio_pending[t] = new /\ own # <<>>
    BY <2>2, <2>8, <2>9
  <2>11. ASSUME t \notin s.deleted
         PROVE  /\ r.prio[t] <= new
                /\ own = <<>> => r.prio[t] = new
                /\ \A m \in ToSet(own) : \A w \in Waiters(s, m) :
                     r.prio[t] = s.prio[t] \/ r.prio[t] <= s.prio[w]
    <3>1. r.prio[t] = p
      BY <2>6, <2>9, <2>11
    <3>2. p <= top \/ own = <<>>
      BY <1>2, <2>1, PrioFacts
    <3>3. ASSUME NEW m \in ToSet(own), NEW w \in Waiters(s, m) PROVE r.prio[t] <= s.prio[w]
      <4>1. own # <<>>
        <5>1. DOMAIN own # {}
          BY <3>3 DEF ToSet
        <5> QED
          BY <5>1
      <4>2. top <= s.prio[w]
        BY <1>2
      <4>3. s.prio[w] \in Nat /\ top \in Nat /\ p \in Nat
        BY <1>1, <1>2, <2>1, PrioFacts DEF Waiters, KState, Thread
      <4> HIDE DEF p, own
      <4> QED
        BY <3>1, <3>2, <4>1, <4>2, <4>3
    <3> QED
      BY <2>1, <3>1, <3>3
  <2> HIDE DEF own
  <2> QED
    BY <1>5, <2>1, <2>9, <2>10, <2>11 DEF PrioChanged, r, own
<1> QED
  BY <1>3, <1>4, <1>5

-----------------------------------------------------------------------------
(* Tasks that stop being ready and become ready.                           *)

\* The tick list of r is the one that tick_list_remove or tick_task_place
\* leaves, which is q.
TimesOf(r, q) == r.tick_list = q.tick_list /\ r.tick_expires = q.tick_expires

\* They depend on nothing but the times, and the latter on priorities.
LEMMA TimesAlone ==
  ASSUME NEW s \in KState, NEW r \in KState, SameTimes(r, s), NEW t, NEW timeout
  PROVE  /\ TimesOf(tick_list_remove(r, t), tick_list_remove(s, t))
         /\ r.prio = s.prio =>
              TimesOf(tick_task_place(r, t, timeout), tick_task_place(s, t, timeout))
<1>1. \A i : Due(r, i) = Due(s, i)
  BY DEF Due, SameTimes
<1>2. TimesOf(tick_list_remove(r, t), tick_list_remove(s, t))
  BY DEF TimesOf, tick_list_remove, SameTimes, KState
<1>3. ASSUME r.prio = s.prio
      PROVE  TimesOf(tick_task_place(r, t, timeout), tick_task_place(s, t, timeout))
  <2> DEFINE len(x) == Len(x.tick_list)
             later(x) == {i \in 1..len(x) :
                            \/ timeout < Due(x, i)
                            \/ timeout = Due(x, i) /\ x.prio[t] < x.prio[x.tick_list[i]]}
             at(x) == Min(later(x) \cup {len(x) + 1})
             ticks(x) == timeout - Due(x, at(x) - 1)
             expires(x) == [u \in Task |->
                CASE u = t -> ticks(x)
                  [] at(x) <= len(x) /\ u = x.tick_list[at(x)] -> x.tick_expires[u] - ticks(x)
                  [] OTHER -> x.tick_expires[u]]
  <2>1. ASSUME NEW x \in KState
        PROVE  /\ tick_task_place(x, t, timeout).tick_list = InsertAt(x.tick_list, at(x), t)
               /\ tick_task_place(x, t, timeout).tick_expires = expires(x)
    <3>1. tick_task_place(x, t, timeout)
            = [x EXCEPT !.tick_list = InsertAt(x.tick_list, at(x), t),
                        !.tick_expires = expires(x)]
      BY DEF tick_task_place, KState
    <3> HIDE DEF at, expires
    <3> QED
      BY <3>1 DEF KState
  <2>2. len(r) = len(s) /\ r.tick_list = s.tick_list /\ r.tick_expires = s.tick_expires
    BY DEF SameTimes
  <2>3. later(r) = later(s)
    BY <1>1, <1>3, <2>2
  <2> HIDE DEF len, later
  <2>4. at(r) = at(s)
    BY <2>2, <2>3
  <2> HIDE DEF at
  <2>5. ticks(r) = ticks(s)
    BY <1>1, <2>4
  <2> HIDE DEF ticks
  <2>6. expires(r) = expires(s)
    BY <2>2, <2>4, <2>5
  <2> HIDE DEF expires
  <2> QED
    BY <2>1, <2>2, <2>4, <2>6 DEF TimesOf
<1> QED
  BY <1>2, <1>3

\* What pend_task_wakeup leaves.
Woken(r, s, t, state) ==
  /\ Struct(r)
  /\ SamePrios(r, s) /\ SameOwners(r, s) /\ SameNext(r, s) /\ SameRest(r, s)
  /\ r.pending_obj = [s.pending_obj EXCEPT ![t] = NoMutex]
  /\ r.pend_state = IF s.pending_obj[t] # NoMutex
                      THEN [s.pend_state EXCEPT ![t] = state] ELSE s.pend_state
  /\ Sleeping(r) = Sleeping(s) \ {t}
  /\ Ready(r) = Ready(s) \cup {t}
  /\ IF t \in Sleeping(s) THEN TimesOf(r, tick_list_remove(s, t)) ELSE SameTimes(r, s)

\* pend_task_wakeup of a task that waits or sleeps.
LEMMA Wakeup ==
  ASSUME NEW s, Struct(s), NEW t \in Task, t \notin Ready(s), t \notin s.deleted,
         NEW state \in PendState
  PROVE  Woken(pend_task_wakeup(s, t, state), s, t, state)
<1> DEFINE s0 == [s EXCEPT !.pend_state[t] = state]
           s1 == IF IsPending(s, t) THEN pend_list_remove(s0, t) ELSE s
           s2 == IF IsSleeping(s1, t) THEN tick_list_remove(s1, t) ELSE s1
           r == pend_task_wakeup(s, t, state)
           R == Ready(s)
<1>1. /\ s \in KState /\ t \in Thread /\ R \in SUBSET Thread
      /\ R = {u \in Thread : /\ s.pending_obj[u] = NoMutex
                             /\ u \notin Sleeping(s) /\ u \notin s.deleted}
      /\ \A u \in Thread : IsSleeping(s, u) <=> u \in Sleeping(s)
  BY ReadyIs DEF Struct, Thread
<1>2. r = readyqueue_add(s2, t)
  BY DEF pend_task_wakeup
<1> DEFINE After1 ==
             /\ s1 \in KState /\ PendOK(s1)
             /\ SamePrios(s1, s) /\ SameQueue(s1, s) /\ SameTimes(s1, s)
             /\ SameOwners(s1, s) /\ SameNext(s1, s) /\ SameRest(s1, s)
             /\ s1.pending_obj = [s.pending_obj EXCEPT ![t] = NoMutex]
             /\ s1.pend_state = IF s.pending_obj[t] # NoMutex
                                  THEN [s.pend_state EXCEPT ![t] = state] ELSE s.pend_state
<1>3. After1
  <2>1. CASE IsPending(s, t)
    <3> DEFINE states == [s.pend_state EXCEPT ![t] = state]
    <3>1. s0 = [s EXCEPT !.pend_state = states] /\ states \in [Thread -> PendState]
      BY <1>1 DEF KState
    <3> HIDE DEF s0, states
    <3>2. /\ s0 \in KState /\ s0.pend_state = states
          /\ SamePrios(s0, s) /\ SameQueue(s0, s) /\ SameTimes(s0, s) /\ SameWaits(s0, s)
          /\ SameOwners(s0, s) /\ SameNext(s0, s) /\ SameRest(s0, s)
      BY <1>1, <3>1 DEF KState, SamePrios, SameQueue, SameTimes, SameWaits, SameOwners, SameNext, SameRest
    <3>3. PendOK(s0)
      BY <3>2, PendSame DEF Struct, SamePrios
    <3>4. s0.pending_obj[t] # NoMutex
      BY <2>1, <3>2 DEF IsPending, SameWaits
    <3> DEFINE q == pend_list_remove(s0, t)
    <3>5. /\ OnlyWaits(q, s0) /\ q.pend_state = s0.pend_state /\ PendOK(q)
          /\ q.pending_obj = [s0.pending_obj EXCEPT ![t] = NoMutex]
      <4> HIDE DEF q
      <4> QED
        BY <3>2, <3>3, <3>4, PendListRemove DEF q
    <3>6. s1 = q
      BY <2>1
    <3> HIDE DEF s1, q
    <3> QED
      BY <2>1, <3>2, <3>5, <3>6
         DEF OnlyWaits, SamePrios, SameQueue, SameTimes, SameWaits, SameOwners, SameNext, SameRest, IsPending, states
  <2>2. CASE ~IsPending(s, t)
    <3>1. s1 = s
      BY <2>2
    <3>2. s.pending_obj = [s.pending_obj EXCEPT ![t] = NoMutex]
      BY <1>1, <2>2 DEF KState, IsPending
    <3> HIDE DEF s1
    <3> QED
      BY <1>1, <2>2, <3>1, <3>2 DEF SamePrios, SameQueue, SameTimes, SameOwners, SameNext, SameRest, IsPending, Struct
  <2> QED
    BY <2>1, <2>2
<1> HIDE DEF s0, s1
<1>4. /\ Sleeping(s1) = Sleeping(s) /\ ListOf(s1.tick_list, Sleeping(s1))
      /\ IsSleeping(s1, t) <=> t \in Sleeping(s)
  BY <1>1, <1>3 DEF Sleeping, IsSleeping, SameTimes, Struct
<1> DEFINE After2 ==
             /\ OnlyTimes(s2, s1) /\ ListOf(s2.tick_list, Sleeping(s2))
             /\ Sleeping(s2) = Sleeping(s) \ {t}
             /\ IF t \in Sleeping(s) THEN TimesOf(s2, tick_list_remove(s, t))
                ELSE SameTimes(s2, s)
<1>5. After2
  <2>1. CASE t \in Sleeping(s)
    <3> DEFINE q == tick_list_remove(s1, t)
    <3>1. /\ OnlyTimes(q, s1) /\ ListOf(q.tick_list, Sleeping(q))
          /\ Sleeping(q) = Sleeping(s1) \ {t}
      <4> HIDE DEF q
      <4> QED
        BY <1>3, <1>4, <2>1, TickListRemove DEF q
    <3>2. TimesOf(q, tick_list_remove(s, t))
      BY <1>1, <1>3, TimesAlone
    <3>3. s2 = q
      BY <1>4, <2>1
    <3> HIDE DEF q, s2
    <3> QED
      BY <1>4, <2>1, <3>1, <3>2, <3>3
  <2>2. CASE t \notin Sleeping(s)
    <3>1. s2 = s1
      BY <1>4, <2>2
    <3> HIDE DEF s2
    <3> QED
      BY <1>3, <1>4, <2>2, <3>1
         DEF OnlyTimes, SamePrios, SameQueue, SameWaits, SameOwners, SameNext, SameRest
  <2> QED
    BY <2>1, <2>2
<1> HIDE DEF s2
<1>6. QueueAdds(r, s2, R \cup {t})
  <2>1. QueueOK(s2, R)
    <3>1. SameQueue(s2, s) /\ s2.prio = s.prio
      BY <1>3, <1>5 DEF OnlyTimes, SamePrios, SameQueue
    <3> QED
      BY <3>1, QueueSame DEF Struct
  <2>2. s2 \in KState
    BY <1>5 DEF OnlyTimes
  <2> HIDE DEF r
  <2> QED
    BY <1>1, <1>2, <2>1, <2>2, ReadyQueueAdd
<1> HIDE DEF r
<1>7. /\ r \in KState /\ QueueOK(r, R \cup {t})
      /\ SamePrios(r, s) /\ SameOwners(r, s) /\ SameNext(r, s) /\ SameRest(r, s)
      /\ r.pending_obj = [s.pending_obj EXCEPT ![t] = NoMutex]
      /\ SameWaits(r, s1) /\ SameTimes(r, s2)
      /\ r.pend_state = IF s.pending_obj[t] # NoMutex
                          THEN [s.pend_state EXCEPT ![t] = state] ELSE s.pend_state
  BY <1>3, <1>5, <1>6
     DEF QueueAdds, OnlyTimes, SamePrios, SameQueue, SameWaits, SameTimes, SameOwners, SameNext, SameRest
<1>8. /\ Sleeping(r) = Sleeping(s) \ {t} /\ ListOf(r.tick_list, Sleeping(r))
      /\ IF t \in Sleeping(s) THEN TimesOf(r, tick_list_remove(s, t)) ELSE SameTimes(r, s)
  <2>1. Sleeping(r) = Sleeping(s2) /\ r.tick_list = s2.tick_list /\ r.tick_expires = s2.tick_expires
    BY <1>7 DEF Sleeping, IsSleeping, SameTimes
  <2> QED
    BY <1>5, <2>1 DEF TimesOf, SameTimes
<1>9. PendOK(r)
  <2>1. r.prio = s1.prio
    BY <1>3, <1>7 DEF SamePrios
  <2> QED
    BY <1>3, <1>7, <2>1, PendSame
<1>10. \A u \in Thread : r.pending_obj[u] = IF u = t THEN NoMutex ELSE s.pending_obj[u]
  BY <1>1, <1>7 DEF KState
<1>11. Ready(r) = R \cup {t}
  <2>1. \A u \in Thread : IsSleeping(r, u) <=> u \in Sleeping(r)
    BY <1>8, ListType DEF IsSleeping
  <2>2. Ready(r) = {u \in Thread : /\ r.pending_obj[u] = NoMutex
                                   /\ u \notin Sleeping(r) /\ u \notin r.deleted}
    BY <2>1 DEF Ready, IsReady, IsPending
  <2> QED
    BY <1>1, <1>7, <1>8, <1>10, <2>2 DEF SameRest
<1>12. Struct(r)
  <2>1. r.prio[Idle] = PrioIdle /\ \A u \in Task : r.prio[u] < PrioIdle
    BY <1>7 DEF Struct, SamePrios
  <2>2. r.pending_obj[Idle] = NoMutex
    BY <1>10 DEF Struct, Thread
  <2>3. \A u \in r.deleted : r.pending_obj[u] = NoMutex /\ u \notin Sleeping(r)
    <3>1. r.deleted = s.deleted /\ s.deleted \subseteq Thread
      BY <1>1, <1>7 DEF SameRest, KState, Thread
    <3> QED
      BY <1>8, <1>10, <3>1 DEF Struct
  <2> QED
    BY <1>7, <1>8, <1>9, <1>11, <2>1, <2>2, <2>3 DEF Struct
<1> QED
  BY <1>7, <1>8, <1>11, <1>12 DEF Woken, r

\* What pend_task_block leaves.
Blocked(r, s, t, m, timeout) ==
  /\ Struct(r)
  /\ SamePrios(r, s) /\ SameOwners(r, s) /\ SameNext(r, s) /\ SameRest(r, s)
  /\ r.pending_obj = [s.pending_obj EXCEPT ![t] = m]
  /\ r.pend_state = [s.pend_state EXCEPT ![t] = "NONE"]
  /\ Ready(r) = Ready(s) \ {t}
  /\ IF timeout = FOREVER
       THEN SameTimes(r, s) /\ Sleeping(r) = Sleeping(s)
       ELSE /\ TimesOf(r, tick_task_place(s, t, timeout))
            /\ Sleeping(r) = Sleeping(s) \cup {t}

\* pend_task_block of a ready task.
LEMMA Block ==
  ASSUME NEW s, Struct(s), NEW t \in Task, t \in Ready(s), NEW m \in Mutex,
         NEW timeout \in Nat
  PROVE  Blocked(pend_task_block(s, t, m, timeout), s, t, m, timeout)
<1> DEFINE s0 == readyqueue_remove(s, t)
           s1 == [s0 EXCEPT !.pend_state[t] = "NONE"]
           s2 == pend_list_add(s1, t, m)
           r == pend_task_block(s, t, m, timeout)
           R == Ready(s)
           states == [s.pend_state EXCEPT ![t] = "NONE"]
<1>1. /\ s \in KState /\ t \in Thread /\ R \in SUBSET Thread /\ R \ {t} # {}
      /\ R = {u \in Thread : /\ s.pending_obj[u] = NoMutex
                             /\ u \notin Sleeping(s) /\ u \notin s.deleted}
      /\ s.pending_obj[t] = NoMutex /\ t \notin Sleeping(s)
  BY ReadyIs, ConstantsAssumption DEF Struct, Thread
<1>2. QueueAdds(s0, s, R \ {t})
  <2> HIDE DEF s0
  <2> QED
    BY <1>1, ReadyQueueRemove DEF s0, Struct
<1> HIDE DEF s0
<1>3. s1 = [s0 EXCEPT !.pend_state = states] /\ states \in [Thread -> PendState]
  BY <1>1, <1>2 DEF KState, QueueAdds, PendState
<1> HIDE DEF s1, states
<1>4. /\ s1 \in KState /\ s1.pend_state = states
      /\ SamePrios(s1, s) /\ SameQueue(s1, s0) /\ SameWaits(s1, s) /\ SameTimes(s1, s)
      /\ SameOwners(s1, s) /\ SameNext(s1, s) /\ SameRest(s1, s)
  BY <1>2, <1>3
     DEF KState, QueueAdds, SamePrios, SameQueue, SameWaits, SameTimes, SameOwners, SameNext, SameRest
<1>5. PendOK(s1) /\ s1.pending_obj[t] = NoMutex
  BY <1>1, <1>4, PendSame DEF Struct, SamePrios, SameWaits
<1>6. QueueOK(s1, R \ {t})
  <2>1. s1.prio = s0.prio
    BY <1>2, <1>4 DEF QueueAdds, SamePrios
  <2> QED
    BY <1>2, <1>4, <2>1, QueueSame DEF QueueAdds
<1>7. /\ OnlyWaits(s2, s1) /\ s2.pend_state = s1.pend_state /\ PendOK(s2)
      /\ s2.pending_obj = [s1.pending_obj EXCEPT ![t] = m]
  <2> HIDE DEF s2
  <2> QED
    BY <1>4, <1>5, PendListAdd DEF s2
<1> DEFINE placed == tick_task_place(s2, t, timeout)
<1>8. r = IF timeout = FOREVER THEN s2 ELSE placed
  BY DEF pend_task_block, s1, s0
<1> HIDE DEF s2
<1>9. /\ s2 \in KState /\ SamePrios(s2, s) /\ SameQueue(s2, s0) /\ SameTimes(s2, s)
      /\ SameOwners(s2, s) /\ SameNext(s2, s) /\ SameRest(s2, s)
      /\ s2.pending_obj = [s.pending_obj EXCEPT ![t] = m] /\ s2.pend_state = states
      /\ SameQueue(s2, s1)
  BY <1>4, <1>7
     DEF OnlyWaits, SamePrios, SameQueue, SameWaits, SameTimes, SameOwners, SameNext, SameRest
<1>10. Sleeping(s2) = Sleeping(s) /\ ListOf(s2.tick_list, Sleeping(s2))
  BY <1>9 DEF Sleeping, IsSleeping, SameTimes, Struct
<1>11. /\ OnlyTimes(placed, s2) /\ ListOf(placed.tick_list, Sleeping(placed))
       /\ Sleeping(placed) = Sleeping(s2) \cup {t}
       /\ TimesOf(placed, tick_task_place(s, t, timeout))
  <2>1. TimesOf(placed, tick_task_place(s, t, timeout))
    BY <1>1, <1>9, TimesAlone DEF SamePrios
  <2> HIDE DEF placed
  <2> QED
    BY <1>1, <1>9, <1>10, <2>1, TickTaskPlace DEF placed
<1> HIDE DEF placed, r
<1>12. /\ r \in KState /\ SamePrios(r, s) /\ SameQueue(r, s1) /\ SameWaits(r, s2)
       /\ SameOwners(r, s) /\ SameNext(r, s) /\ SameRest(r, s)
       /\ r.pending_obj = [s.pending_obj EXCEPT ![t] = m] /\ r.pend_state = states
  BY <1>8, <1>9, <1>11
     DEF OnlyTimes, SamePrios, SameQueue, SameWaits, SameTimes, SameOwners, SameNext, SameRest
<1>13. /\ ListOf(r.tick_list, Sleeping(r))
       /\ IF timeout = FOREVER
            THEN SameTimes(r, s) /\ Sleeping(r) = Sleeping(s)
            ELSE /\ TimesOf(r, tick_task_place(s, t, timeout))
                 /\ Sleeping(r) = Sleeping(s) \cup {t}
  BY <1>8, <1>9, <1>10, <1>11 DEF SameTimes
<1>14. PendOK(r)
  <2>1. r.prio = s2.prio
    BY <1>9, <1>12 DEF SamePrios
  <2> QED
    BY <1>7, <1>12, <2>1, PendSame
<1>15. QueueOK(r, R \ {t})
  <2>1. r.prio = s1.prio
    BY <1>4, <1>12 DEF SamePrios
  <2> QED
    BY <1>6, <1>12, <2>1, QueueSame
<1>16. \A u \in Thread : r.pending_obj[u] = IF u = t THEN m ELSE s.pending_obj[u]
  BY <1>1, <1>12 DEF KState
<1>17. Ready(r) = R \ {t}
  <2>1. \A u \in Thread : IsSleeping(r, u) <=> u \in Sleeping(r)
    BY <1>13, ListType DEF IsSleeping
  <2>2. Ready(r) = {u \in Thread : /\ r.pending_obj[u] = NoMutex
                                   /\ u \notin Sleeping(r) /\ u \notin r.deleted}
    BY <2>1 DEF Ready, IsReady, IsPending
  <2>3. \A u \in Thread : u # t => (u \in Sleeping(r) <=> u \in Sleeping(s))
    BY <1>13
  <2>4. t \notin Ready(r)
    BY <1>1, <1>16, <2>2, ConstantsAssumption
  <2> QED
    BY <1>1, <1>12, <1>16, <2>2, <2>3, <2>4 DEF SameRest
<1>18. Struct(r)
  <2>1. r.prio[Idle] = PrioIdle /\ \A u \in Task : r.prio[u] < PrioIdle
    BY <1>12 DEF Struct, SamePrios
  <2>2. r.pending_obj[Idle] = NoMutex
    BY <1>16, ConstantsAssumption DEF Struct, Thread
  <2>3. \A u \in r.deleted : r.pending_obj[u] = NoMutex /\ u \notin Sleeping(r)
    <3>1. r.deleted = s.deleted /\ s.deleted \subseteq Thread /\ t \notin s.deleted
      BY <1>1, <1>12 DEF SameRest, KState, Thread
    <3>2. \A u \in s.deleted : u # t /\ s.pending_obj[u] = NoMutex /\ u \notin Sleeping(s)
      BY <3>1 DEF Struct
    <3> QED
      BY <1>13, <1>16, <3>1, <3>2
  <2> QED
    BY <1>12, <1>13, <1>14, <1>15, <1>17, <2>1, <2>2, <2>3 DEF Struct
<1> QED
  BY <1>12, <1>13, <1>17, <1>18 DEF Blocked, r, states

\* What tos_task_delay leaves.
Delayed(r, s, t, ticks) ==
  /\ Struct(r)
  /\ SamePrios(r, s) /\ SameOwners(r, s) /\ SameNext(r, s) /\ SameRest(r, s)
  /\ SameWaits(r, s) /\ r.pend_state = s.pend_state
  /\ Ready(r) = Ready(s) \ {t}
  /\ Sleeping(r) = Sleeping(s) \cup {t}
  /\ TimesOf(r, tick_task_place(s, t, ticks))

\* tos_task_delay of a ready task.
LEMMA Sleeps ==
  ASSUME NEW s, Struct(s), NEW t \in Task, t \in Ready(s), NEW ticks \in Nat
  PROVE  Delayed(readyqueue_remove(tick_task_place(s, t, ticks), t), s, t, ticks)
<1> DEFINE s1 == tick_task_place(s, t, ticks)
           r == readyqueue_remove(s1, t)
           R == Ready(s)
<1>1. /\ s \in KState /\ t \in Thread /\ R \in SUBSET Thread /\ R \ {t} # {}
      /\ R = {u \in Thread : /\ s.pending_obj[u] = NoMutex
                             /\ u \notin Sleeping(s) /\ u \notin s.deleted}
      /\ s.pending_obj[t] = NoMutex /\ t \notin Sleeping(s)
      /\ ListOf(s.tick_list, Sleeping(s))
  BY ReadyIs, ConstantsAssumption DEF Struct, Thread
<1>2. /\ OnlyTimes(s1, s) /\ ListOf(s1.tick_list, Sleeping(s1))
      /\ Sleeping(s1) = Sleeping(s) \cup {t}
  <2> HIDE DEF s1
  <2> QED
    BY <1>1, TickTaskPlace DEF s1
<1> HIDE DEF s1
<1>3. QueueAdds(r, s1, R \ {t})
  <2>1. s1 \in KState /\ QueueOK(s1, R)
    BY <1>2, QueueSame DEF OnlyTimes, SamePrios, Struct
  <2> HIDE DEF r
  <2> QED
    BY <1>1, <2>1, ReadyQueueRemove DEF r
<1> HIDE DEF r
<1>4. /\ r \in KState /\ QueueOK(r, R \ {t}) /\ SameTimes(r, s1)
      /\ SamePrios(r, s) /\ SameOwners(r, s) /\ SameNext(r, s) /\ SameRest(r, s)
      /\ SameWaits(r, s) /\ r.pend_state = s.pend_state
  BY <1>2, <1>3
     DEF QueueAdds, OnlyTimes, SamePrios, SameQueue, SameWaits, SameTimes, SameOwners, SameNext, SameRest
<1>5. Sleeping(r) = Sleeping(s) \cup {t} /\ ListOf(r.tick_list, Sleeping(r))
  BY <1>2, <1>4 DEF Sleeping, IsSleeping, SameTimes
<1>6. Ready(r) = R \ {t}
  <2>1. \A u \in Thread : IsSleeping(r, u) <=> u \in Sleeping(r)
    BY <1>5, ListType DEF IsSleeping
  <2>2. Ready(r) = {u \in Thread : /\ s.pending_obj[u] = NoMutex
                                   /\ u \notin Sleeping(r) /\ u \notin s.deleted}
    BY <1>4, <2>1 DEF Ready, IsReady, IsPending, SameWaits, SameRest
  <2> QED
    BY <1>1, <1>5, <2>2
<1>7. PendOK(r)
  BY <1>4, PendSame DEF Struct, SamePrios
<1>8. Struct(r)
  <2>1. r.prio = s.prio /\ r.pending_obj = s.pending_obj /\ r.deleted = s.deleted
    BY <1>4 DEF SamePrios, SameWaits, SameRest
  <2>2. t \notin s.deleted
    BY <1>1
  <2> QED
    BY <1>4, <1>5, <1>6, <1>7, <2>1, <2>2 DEF Struct
<1> QED
  BY <1>4, <1>5, <1>6, <1>8 DEF Delayed, r, s1, TimesOf, SameTimes

-----------------------------------------------------------------------------
(* The differences in the tick list.                                       *)

\* The ticks that the i-th task's predecessor has left.
Before(s, remains, i) == IF i = 1 THEN 0 ELSE remains[s.tick_list[i - 1]]

\* Each entry holds what its task has left beyond its predecessor; nobody has
\* less than low.
TicksFrom(s, remains, low) ==
  \A i \in 1..Len(s.tick_list) :
    LET t == s.tick_list[i] IN
    /\ s.tick_expires[t] = remains[t] - Before(s, remains, i)
    /\ Before(s, remains, i) <= remains[t]
    /\ low <= remains[t]

\* Whether the differences add up depends on the tick list alone.
LEMMA TicksAlone ==
  ASSUME NEW s, NEW r, TimesOf(r, s), NEW remains, NEW low, TicksFrom(s, remains, low)
  PROVE  TicksFrom(r, remains, low)
BY DEF TicksFrom, TimesOf, Before

\* The differences add up.
LEMMA DueAdds ==
  ASSUME NEW s \in KState, NEW remains \in [Task -> Nat], NEW low \in Nat,
         TicksFrom(s, remains, low)
  PROVE  \A i \in 1..Len(s.tick_list) : Due(s, i) = remains[s.tick_list[i]]
<1> DEFINE N == Len(s.tick_list)
           T == {i \in Nat : i \in 1..N => Due(s, i) = remains[s.tick_list[i]]}
<1>1. N \in Nat /\ \A i \in 1..N : s.tick_list[i] \in Task
  BY Fields
<1>2. /\ Due(s, 0) = 0
      /\ \A i \in 1..N : Due(s, i) = Due(s, i - 1) + s.tick_expires[s.tick_list[i]]
  BY DueIs
<1>3. 0 \in T
  OBVIOUS
<1>4. ASSUME NEW i \in Nat, i \in T PROVE i + 1 \in T
  <2> SUFFICES ASSUME i + 1 \in 1..N PROVE Due(s, i + 1) = remains[s.tick_list[i + 1]]
    OBVIOUS
  <2>1. s.tick_list[i + 1] \in Task /\ remains[s.tick_list[i + 1]] \in Nat
    BY <1>1
  <2>2. Due(s, i + 1) = Due(s, i) + s.tick_expires[s.tick_list[i + 1]]
    BY <1>2
  <2>3. s.tick_expires[s.tick_list[i + 1]] = remains[s.tick_list[i + 1]] - Before(s, remains, i + 1)
    BY DEF TicksFrom
  <2>4. CASE i = 0
    BY <1>2, <2>1, <2>2, <2>3, <2>4 DEF Before
  <2>5. CASE i # 0
    <3>1. i \in 1..N /\ i + 1 # 1 /\ i + 1 - 1 = i
      BY <1>1, <2>5
    <3>2. Due(s, i) = remains[s.tick_list[i]] /\ remains[s.tick_list[i]] \in Nat
      BY <1>1, <1>4, <3>1
    <3>3. Before(s, remains, i + 1) = remains[s.tick_list[i]]
      BY <3>1 DEF Before
    <3> QED
      BY <2>1, <2>2, <2>3, <3>2, <3>3
  <2> QED
    BY <2>4, <2>5
<1>5. Nat \subseteq T
  <2> HIDE DEF T
  <2> QED
    BY <1>3, <1>4, Induction
<1> QED
  BY <1>1, <1>5

\* The tasks are in the order of the ticks they have left.
LEMMA InOrderOfTime ==
  ASSUME NEW s \in KState, NEW remains \in [Task -> Nat], NEW low \in Nat,
         TicksFrom(s, remains, low)
  PROVE  \A i \in 1..Len(s.tick_list) : remains[s.tick_list[1]] <= remains[s.tick_list[i]]
<1> DEFINE N == Len(s.tick_list)
           T == {i \in Nat : i \in 1..N => remains[s.tick_list[1]] <= remains[s.tick_list[i]]}
<1>1. N \in Nat /\ \A i \in 1..N : s.tick_list[i] \in Task /\ remains[s.tick_list[i]] \in Nat
  BY Fields
<1>2. 0 \in T
  OBVIOUS
<1>3. ASSUME NEW i \in Nat, i \in T PROVE i + 1 \in T
  <2> SUFFICES ASSUME i + 1 \in 1..N PROVE remains[s.tick_list[1]] <= remains[s.tick_list[i + 1]]
    OBVIOUS
  <2>1. CASE i = 0
    BY <1>1, <2>1
  <2>2. CASE i # 0
    <3>1. i \in 1..N /\ i + 1 # 1 /\ i + 1 - 1 = i /\ 1 \in 1..N
      BY <1>1, <2>2
    <3>2. Before(s, remains, i + 1) <= remains[s.tick_list[i + 1]]
      BY DEF TicksFrom
    <3>3. Before(s, remains, i + 1) = remains[s.tick_list[i]]
      BY <3>1 DEF Before
    <3> QED
      BY <1>1, <1>3, <3>1, <3>2, <3>3
  <2> QED
    BY <2>1, <2>2
<1>4. Nat \subseteq T
  <2> HIDE DEF T
  <2> QED
    BY <1>2, <1>3, Induction
<1> QED
  BY <1>1, <1>4

\* A task that leaves early gives its difference to the next.
LEMMA RemoveKeepsTicks ==
  ASSUME NEW s \in KState, ListOf(s.tick_list, Sleeping(s)), NEW t \in Sleeping(s),
         NEW remains \in [Task -> Nat], NEW low \in Nat, TicksFrom(s, remains, low)
  PROVE  TicksFrom(tick_list_remove(s, t), remains, low)
<1> DEFINE r == tick_list_remove(s, t)
           l == s.tick_list
           N == Len(l)
           at == CHOOSE j \in DOMAIN l : l[j] = t
           new == RemoveAt(l, at)
           expires == [u \in Task |->
            CASE u = t -> 0
              [] at <= Len(new) /\ u = new[at] -> s.tick_expires[u] + s.tick_expires[t]
              [] OTHER -> s.tick_expires[u]]
<1>1. /\ N \in Nat /\ DOMAIN l = 1..N /\ l \in Seq(Task) /\ t \in Task
      /\ \A i \in 1..N : l[i] \in Task /\ remains[l[i]] \in Nat
      /\ \A i, j \in 1..N : l[i] = l[j] => i = j
  <2>1. l \in Seq(Task) /\ t \in Task
    BY DEF KState, Sleeping
  <2>2. N \in Nat /\ DOMAIN l = 1..N /\ \A i \in 1..N : l[i] \in Task /\ remains[l[i]] \in Nat
    <3> HIDE DEF l
    <3> QED
      BY <2>1
  <2>3. \A i, j \in DOMAIN l : l[i] = l[j] => i = j
    BY DEF ListOf
  <2> QED
    BY <2>1, <2>2, <2>3
<1>2. at \in 1..N /\ l[at] = t
  <2>1. \E j \in DOMAIN l : l[j] = t
    BY DEF ListOf
  <2> QED
    BY <1>1, <2>1
<1>3. r.tick_list = new /\ r.tick_expires = expires
  <2>1. r = [s EXCEPT !.tick_list = new, !.tick_expires = expires]
    BY DEF tick_list_remove, KState
  <2> HIDE DEF r, new, expires
  <2> QED
    BY <2>1 DEF KState
<1> HIDE DEF at
<1>4. /\ Len(new) = N - 1
      /\ \A i \in 1..at - 1 : new[i] = l[i]
      /\ \A i \in at..N - 1 : new[i] = l[i + 1]
  <2>1. l \in Seq(Task) /\ at \in 1..Len(l)
    BY <1>1, <1>2
  <2> HIDE DEF l
  <2> QED
    BY <2>1, RemoveAtIs
<1> DEFINE e(i) == s.tick_expires[l[i]]
           v(i) == remains[l[i]]
           b(i) == Before(s, remains, i)
<1>5. /\ \A i \in 1..N : e(i) = v(i) - b(i) /\ b(i) <= v(i) /\ low <= v(i) /\ v(i) \in Nat
      /\ b(1) = 0 /\ \A i \in 2..N : b(i) = v(i - 1)
  BY <1>1 DEF TicksFrom, Before
<1> HIDE DEF new
<1>6. ASSUME NEW i \in 1..N - 1
      PROVE  LET j == IF i < at THEN i ELSE i + 1 IN
             /\ new[i] = l[j] /\ j \in 1..N /\ j # at
             /\ expires[new[i]] = IF i = at THEN e(j) + e(at) ELSE e(j)
  <2> DEFINE j == IF i < at THEN i ELSE i + 1
  <2>1. new[i] = l[j] /\ j \in 1..N /\ j # at /\ (i = at => j = at + 1)
    BY <1>1, <1>2, <1>4
  <2>2. new[i] # t /\ new[i] \in Task
    BY <1>1, <1>2, <2>1
  <2>3. (at <= Len(new) /\ new[i] = new[at]) <=> i = at
    <3>1. ASSUME at <= Len(new), new[i] = new[at] PROVE i = at
      <4>1. new[at] = l[at + 1] /\ at + 1 \in 1..N
        <5>1. at \in at..N - 1 /\ at + 1 \in 1..N
          BY <1>1, <1>2, <1>4, <3>1
        <5> HIDE DEF l, N
        <5> QED
          BY <1>4, <5>1
      <4>2. j = at + 1
        <5>1. l[j] = l[at + 1]
          BY <2>1, <3>1, <4>1
        <5>2. \A x, y \in 1..N : l[x] = l[y] => x = y
          BY <1>1
        <5> HIDE DEF l, N, j
        <5> QED
          BY <2>1, <4>1, <5>1, <5>2
      <4> QED
        BY <1>1, <1>2, <2>1, <4>2
    <3>2. i = at => at <= Len(new)
      BY <1>1, <1>4
    <3> QED
      BY <3>1, <3>2
  <2>4. expires[new[i]] = IF i = at THEN s.tick_expires[new[i]] + s.tick_expires[t]
                          ELSE s.tick_expires[new[i]]
    BY <2>2, <2>3
  <2> HIDE DEF expires
  <2> QED
    BY <1>2, <2>1, <2>4
<1> HIDE DEF expires
<1>7. ASSUME NEW i \in 1..N - 1
      PROVE  LET was == IF i = 1 THEN 0 ELSE remains[new[i - 1]] IN
             /\ expires[new[i]] = remains[new[i]] - was
             /\ was <= remains[new[i]] /\ low <= remains[new[i]]
  <2> DEFINE j == IF i < at THEN i ELSE i + 1
             was == IF i = 1 THEN 0 ELSE remains[new[i - 1]]
  <2> SUFFICES /\ expires[new[i]] = remains[new[i]] - was
               /\ was <= remains[new[i]] /\ low <= remains[new[i]]
    OBVIOUS
  <2>1. /\ new[i] = l[j] /\ j \in 1..N /\ j # at
        /\ expires[new[i]] = IF i = at THEN e(j) + e(at) ELSE e(j)
    BY <1>6
  <2>2. remains[new[i]] = v(j)
    BY <2>1
  <2>3. i # 1 => new[i - 1] = l[IF i - 1 < at THEN i - 1 ELSE i]
    <3>1. i # 1 => i - 1 \in 1..N - 1 /\ i - 1 + 1 = i
      BY <1>1
    <3> QED
      BY <1>6, <3>1
  <2> HIDE DEF e, v, b, j
  <2>4. i # 1 => was = IF i - 1 < at THEN v(i - 1) ELSE v(i)
    BY <2>3 DEF v
  <2>5. i = 1 => was = 0
    OBVIOUS
  <2> HIDE DEF was
  <2>6. at \in Nat /\ 1 <= at /\ at <= N /\ i \in Nat /\ 1 <= i /\ i <= N - 1
    BY <1>1, <1>2
  <2>7. CASE i < at
    <3>1. j = i /\ was = b(i)
      BY <1>5, <2>4, <2>5, <2>6, <2>7 DEF j
    <3> QED
      BY <1>5, <2>1, <2>2, <2>6, <2>7, <3>1
  <2>8. CASE i = at
    <3>1. j = at + 1 /\ was = b(at) /\ b(at + 1) = v(at)
      BY <1>5, <2>4, <2>5, <2>6, <2>8 DEF j
    <3>2. e(at + 1) = v(at + 1) - v(at) /\ e(at) = v(at) - b(at)
          /\ b(at) <= v(at) /\ v(at) <= v(at + 1) /\ low <= v(at + 1)
          /\ v(at) \in Nat /\ v(at + 1) \in Nat
      BY <1>2, <1>5, <2>1, <3>1
    <3>3. was \in Nat
      <4>1. at = 1 => b(at) = 0
        BY <1>5
      <4>2. at # 1 => b(at) = v(at - 1) /\ v(at - 1) \in Nat
        <5>1. at # 1 => at \in 2..N /\ at - 1 \in 1..N
          BY <1>2, <2>6
        <5> QED
          BY <1>5, <5>1
      <4> QED
        BY <3>1, <4>1, <4>2
    <3> QED
      BY <2>1, <2>2, <2>8, <3>1, <3>2, <3>3
  <2>9. CASE i > at
    <3>1. j = i + 1 /\ was = v(i) /\ b(i + 1) = v(i)
      BY <1>5, <2>4, <2>5, <2>6, <2>9 DEF j
    <3> QED
      BY <1>5, <2>1, <2>2, <2>6, <2>9, <3>1
  <2> QED
    BY <2>6, <2>7, <2>8, <2>9
<1>8. TicksFrom(r, remains, low)
  <2> HIDE DEF r
  <2> QED
    BY <1>3, <1>4, <1>7 DEF TicksFrom, Before
<1> QED
  BY <1>8

\* A task that goes to sleep takes its difference from the next.
LEMMA PlaceKeepsTicks ==
  ASSUME NEW s \in KState, ListOf(s.tick_list, Sleeping(s)),
         NEW t \in Task, t \notin Sleeping(s),
         NEW remains \in [Task -> Nat], NEW low \in Nat, TicksFrom(s, remains, low),
         NEW timeout \in Nat, low <= timeout
  PROVE  TicksFrom(tick_task_place(s, t, timeout), [remains EXCEPT ![t] = timeout], low)
<1> DEFINE r == tick_task_place(s, t, timeout)
           l == s.tick_list
           N == Len(l)
           later == {i \in 1..N :
                       \/ timeout < Due(s, i)
                       \/ timeout = Due(s, i) /\ s.prio[t] < s.prio[l[i]]}
           at == Min(later \cup {N + 1})
           ticks == timeout - Due(s, at - 1)
           new == InsertAt(l, at, t)
           nl == [remains EXCEPT ![t] = timeout]
           expires == [u \in Task |->
            CASE u = t -> ticks
              [] at <= N /\ u = l[at] -> s.tick_expires[u] - ticks
              [] OTHER -> s.tick_expires[u]]
<1>1. /\ N \in Nat /\ DOMAIN l = 1..N /\ l \in Seq(Task)
      /\ \A i \in 1..N : l[i] \in Task /\ remains[l[i]] \in Nat
      /\ \A i \in 1..N : l[i] # t
  <2>1. l \in Seq(Task)
    BY DEF KState
  <2>2. N \in Nat /\ DOMAIN l = 1..N /\ \A i \in 1..N : l[i] \in Task /\ remains[l[i]] \in Nat
    <3> HIDE DEF l
    <3> QED
      BY <2>1
  <2>3. \A i \in DOMAIN l : l[i] \in Sleeping(s)
    BY ListType
  <2> QED
    BY <2>1, <2>2, <2>3
<1>2. \A x, y \in 1..N : l[x] = l[y] => x = y
  BY <1>1 DEF ListOf
<1>3. at \in later \cup {N + 1} /\ \A i \in later \cup {N + 1} : at <= i
  <2>1. later \cup {N + 1} \in SUBSET Nat /\ later \cup {N + 1} # {}
    BY <1>1
  <2> HIDE DEF later
  <2> QED
    BY <2>1, Least
<1>4. at \in Nat /\ 1 <= at /\ at <= N + 1
  <2> HIDE DEF at
  <2> QED
    BY <1>1, <1>3
<1>5. r.tick_list = new /\ r.tick_expires = expires
  <2>1. r = [s EXCEPT !.tick_list = new, !.tick_expires = expires]
    BY DEF tick_task_place, KState
  <2> HIDE DEF r, new, expires
  <2> QED
    BY <2>1 DEF KState
<1> DEFINE e(i) == s.tick_expires[l[i]]
           v(i) == remains[l[i]]
           b(i) == Before(s, remains, i)
<1>6. /\ \A i \in 1..N : e(i) = v(i) - b(i) /\ b(i) <= v(i) /\ low <= v(i) /\ v(i) \in Nat
      /\ b(1) = 0 /\ \A i \in 2..N + 1 : b(i) = v(i - 1) /\ b(i) \in Nat
  BY <1>1 DEF TicksFrom, Before
<1>7. \A i \in 1..N : Due(s, i) = v(i)
  BY DueAdds
<1>8. Due(s, at - 1) = b(at) /\ b(at) \in Nat
  <2>1. CASE at = 1
    BY <1>6, <2>1, DueIs
  <2>2. CASE at # 1
    <3>1. at - 1 \in 1..N /\ at \in 2..N + 1
      BY <1>1, <1>4, <2>2
    <3> QED
      BY <1>6, <1>7, <3>1
  <2> QED
    BY <2>1, <2>2
<1>9. b(at) <= timeout
  <2>1. CASE at = 1
    BY <1>6, <2>1
  <2>2. CASE at # 1
    <3>1. at - 1 \in 1..N /\ at \in 2..N + 1 /\ at - 1 < at
      BY <1>1, <1>4, <2>2
    <3>2. at - 1 \notin later
      <4> HIDE DEF later, at
      <4> QED
        BY <1>3, <1>4, <3>1
    <3>3. ~(timeout < v(at - 1))
      BY <1>7, <3>1, <3>2
    <3>4. b(at) = v(at - 1) /\ v(at - 1) \in Nat
      BY <1>6, <3>1
    <3> HIDE DEF v, b
    <3> QED
      BY <3>3, <3>4
  <2> QED
    BY <2>1, <2>2
<1>10. at <= N => timeout <= v(at)
  <2>1. ASSUME at <= N PROVE at \in 1..N /\ at \in later
    <3> HIDE DEF later, at
    <3> QED
      BY <1>1, <1>3, <1>4, <2>1
  <2>2. at \in 1..N /\ at \in later => timeout < Due(s, at) \/ timeout = Due(s, at)
    <3> HIDE DEF at
    <3> QED
      OBVIOUS
  <2>3. at \in 1..N => Due(s, at) = v(at) /\ v(at) \in Nat
    BY <1>6, <1>7
  <2> HIDE DEF v, later, at
  <2> QED
    BY <2>1, <2>2, <2>3
<1>11. /\ Len(new) = N + 1
       /\ \A i \in 1..at - 1 : new[i] = l[i]
       /\ new[at] = t
       /\ \A i \in at + 1..N + 1 : new[i] = l[i - 1]
  <2>1. ASSUME NEW list \in Seq(Task), NEW i \in 1..Len(list) + 1
        PROVE  /\ Len(InsertAt(list, i, t)) = Len(list) + 1
               /\ \A j \in 1..i - 1 : InsertAt(list, i, t)[j] = list[j]
               /\ InsertAt(list, i, t)[i] = t
               /\ \A j \in i + 1..Len(list) + 1 : InsertAt(list, i, t)[j] = list[j - 1]
    BY InsertAtIs
  <2>2. N = Len(l) /\ l \in Seq(Task) /\ at \in 1..Len(l) + 1
    BY <1>1, <1>4
  <2> HIDE DEF l, at, N
  <2> QED
    BY <2>1, <2>2
<1> HIDE DEF later, at, new
<1>12. ticks = timeout - b(at)
  BY <1>8
<1>13. /\ expires[t] = ticks
       /\ \A i \in 1..N : expires[l[i]] = IF i = at THEN e(i) - ticks ELSE e(i)
  <2>1. ASSUME NEW i \in 1..N
        PROVE  expires[l[i]] = IF i = at THEN e(i) - ticks ELSE e(i)
    <3>1. l[i] \in Task /\ l[i] # t
      BY <1>1
    <3>2. (at <= N /\ l[i] = l[at]) <=> i = at
      BY <1>1, <1>2, <1>4
    <3> HIDE DEF ticks
    <3> QED
      BY <3>1, <3>2
  <2>2. expires[t] = ticks
    <3>1. ~(at <= N /\ t = l[at])
      BY <1>1, <1>4
    <3> HIDE DEF ticks
    <3> QED
      BY <3>1
  <2> HIDE DEF expires, ticks, e
  <2> QED
    BY <2>1, <2>2
<1>14. /\ nl[t] = timeout /\ \A i \in 1..N : nl[l[i]] = v(i)
  BY <1>1
<1> HIDE DEF expires, nl, ticks, e, v, b
<1>15. ASSUME NEW i \in 1..N + 1
       PROVE  LET was == IF i = 1 THEN 0 ELSE nl[new[i - 1]] IN
              /\ expires[new[i]] = nl[new[i]] - was
              /\ was <= nl[new[i]] /\ low <= nl[new[i]]
  <2> DEFINE was == IF i = 1 THEN 0 ELSE nl[new[i - 1]]
  <2> SUFFICES /\ expires[new[i]] = nl[new[i]] - was
               /\ was <= nl[new[i]] /\ low <= nl[new[i]]
    OBVIOUS
  <2>1. i \in Nat /\ 1 <= i /\ i <= N + 1
    BY <1>1
  <2>2. i # 1 /\ i <= at => was = v(i - 1) /\ i \in 2..N + 1
    <3>1. i # 1 /\ i <= at => i - 1 \in 1..at - 1 /\ i - 1 \in 1..N /\ i \in 2..N + 1
      BY <1>1, <1>4, <2>1
    <3> QED
      BY <1>11, <1>14, <3>1
  <2>3. i = at + 1 => was = timeout
    BY <1>4, <1>11, <1>14
  <2>4. i > at + 1 => was = v(i - 2)
    <3>1. i > at + 1 => i - 1 \in at + 1..N + 1 /\ i - 1 - 1 = i - 2 /\ i - 2 \in 1..N /\ i # 1
      BY <1>1, <1>4, <2>1
    <3> QED
      BY <1>11, <1>14, <3>1
  <2>5. i = 1 => was = 0
    OBVIOUS
  <2> HIDE DEF was
  <2>6. i <= at => was = b(i)
    BY <1>6, <2>1, <2>2, <2>5
  <2>7. CASE i < at
    <3>1. i \in 1..at - 1 /\ i \in 1..N
      BY <1>1, <1>4, <2>1, <2>7
    <3>2. expires[new[i]] = e(i) /\ nl[new[i]] = v(i)
      BY <1>4, <1>11, <1>13, <1>14, <2>7, <3>1
    <3> QED
      BY <1>4, <1>6, <2>1, <2>6, <2>7, <3>1, <3>2
  <2>8. CASE i = at
    <3>1. expires[new[i]] = timeout - b(at) /\ nl[new[i]] = timeout /\ was = b(at)
      BY <1>4, <1>11, <1>12, <1>13, <1>14, <2>6, <2>8
    <3> QED
      BY <1>9, <3>1
  <2>9. CASE i = at + 1
    <3>1. i \in at + 1..N + 1 /\ i - 1 = at /\ at \in 1..N /\ at <= N
      BY <1>1, <1>4, <2>1, <2>9
    <3>2. expires[new[i]] = e(at) - ticks /\ nl[new[i]] = v(at) /\ was = timeout
      BY <1>11, <1>13, <1>14, <2>3, <2>9, <3>1
    <3>3. e(at) = v(at) - b(at) /\ low <= v(at) /\ v(at) \in Nat /\ timeout <= v(at)
      BY <1>6, <1>10, <3>1
    <3> QED
      BY <1>8, <1>12, <3>2, <3>3
  <2>10. CASE i > at + 1
    <3>1. i \in at + 1..N + 1 /\ i - 1 \in 1..N /\ i - 1 # at /\ i - 1 \in 2..N + 1 /\ i - 1 - 1 = i - 2
      BY <1>1, <1>4, <2>1, <2>10
    <3>2. expires[new[i]] = e(i - 1) /\ nl[new[i]] = v(i - 1) /\ was = v(i - 2)
      BY <1>11, <1>13, <1>14, <2>4, <2>10, <3>1
    <3>3. b(i - 1) = v(i - 2)
      BY <1>6, <3>1
    <3>4. e(i - 1) = v(i - 1) - b(i - 1) /\ b(i - 1) <= v(i - 1) /\ low <= v(i - 1)
      BY <1>6, <3>1
    <3> QED
      BY <3>2, <3>3, <3>4
  <2> QED
    BY <1>4, <2>1, <2>7, <2>8, <2>9, <2>10
<1>16. TicksFrom(r, nl, low)
  <2> HIDE DEF r
  <2> QED
    BY <1>5, <1>11, <1>15 DEF TicksFrom, Before
<1> QED
  BY <1>16 DEF nl

-----------------------------------------------------------------------------
(* Waits that end.                                                         *)

KeepsTicks(r, s) ==
  \A remains \in [Task -> Nat], low \in Nat :
    TicksFrom(s, remains, low) => TicksFrom(r, remains, low)

\* From s to r some waits and sleeps have ended, the waits in a pend_state.
WaitsEnd(r, s, state) ==
  /\ Struct(r)
  /\ SamePrios(r, s) /\ SameOwners(r, s) /\ SameNext(r, s) /\ SameRest(r, s)
  /\ Ready(s) \subseteq Ready(r) /\ Sleeping(r) \subseteq Sleeping(s)
  /\ KeepsTicks(r, s)
  /\ \A u \in Thread :
       \/ r.pending_obj[u] = s.pending_obj[u] /\ r.pend_state[u] = s.pend_state[u]
       \/ /\ s.pending_obj[u] # NoMutex
          /\ r.pending_obj[u] = NoMutex /\ r.pend_state[u] = state

LEMMA WaitsEndSelf ==
  ASSUME NEW s, Struct(s), NEW state
  PROVE  WaitsEnd(s, s, state)
BY DEF WaitsEnd, KeepsTicks, SamePrios, SameOwners, SameNext, SameRest

\* Waits that end, and more of them after that.
LEMMA WaitsEndTwice ==
  ASSUME NEW s, NEW q, NEW r, NEW state, WaitsEnd(q, s, state), WaitsEnd(r, q, state)
  PROVE  WaitsEnd(r, s, state)
<1>1. KeepsTicks(r, s)
  BY DEF WaitsEnd, KeepsTicks
<1>2. /\ SamePrios(r, s) /\ SameOwners(r, s) /\ SameNext(r, s) /\ SameRest(r, s)
      /\ Struct(r) /\ Ready(s) \subseteq Ready(r) /\ Sleeping(r) \subseteq Sleeping(s)
  BY DEF WaitsEnd, SamePrios, SameOwners, SameNext, SameRest
<1>3. ASSUME NEW u \in Thread
      PROVE  \/ r.pending_obj[u] = s.pending_obj[u] /\ r.pend_state[u] = s.pend_state[u]
             \/ /\ s.pending_obj[u] # NoMutex
                /\ r.pending_obj[u] = NoMutex /\ r.pend_state[u] = state
  BY DEF WaitsEnd
<1> QED
  BY <1>1, <1>2, <1>3 DEF WaitsEnd

\* A wake-up keeps the ticks that the others have left.
LEMMA WokenKeepsTicks ==
  ASSUME NEW s, Struct(s), NEW r, NEW t \in Task, NEW state, Woken(r, s, t, state)
  PROVE  KeepsTicks(r, s)
<1> SUFFICES ASSUME NEW remains \in [Task -> Nat], NEW low \in Nat, TicksFrom(s, remains, low)
             PROVE  TicksFrom(r, remains, low)
  BY DEF KeepsTicks
<1>1. CASE t \in Sleeping(s)
  <2>1. TicksFrom(tick_list_remove(s, t), remains, low)
    BY <1>1, RemoveKeepsTicks DEF Struct
  <2> QED
    BY <1>1, <2>1, TicksAlone DEF Woken
<1>2. CASE t \notin Sleeping(s)
  BY <1>2, TicksAlone DEF Woken, SameTimes, TimesOf
<1> QED
  BY <1>1, <1>2

\* A wake-up is the end of one wait.
LEMMA WokenEnds ==
  ASSUME NEW s, Struct(s), NEW r, NEW t \in Task, NEW state, Woken(r, s, t, state)
  PROVE  WaitsEnd(r, s, state)
<1>1. KeepsTicks(r, s)
  BY WokenKeepsTicks
<1>2. t \in Thread /\ s.pending_obj \in [Thread -> Mutex \cup {NoMutex}]
      /\ s.pend_state \in [Thread -> PendState]
  BY DEF Struct, KState, Thread
<1>3. ASSUME NEW u \in Thread
      PROVE  \/ r.pending_obj[u] = s.pending_obj[u] /\ r.pend_state[u] = s.pend_state[u]
             \/ /\ s.pending_obj[u] # NoMutex
                /\ r.pending_obj[u] = NoMutex /\ r.pend_state[u] = state
  BY <1>2 DEF Woken
<1> QED
  BY <1>1, <1>3 DEF WaitsEnd, Woken

-----------------------------------------------------------------------------
(* tick_update.                                                            *)

\* Nobody at the head of the tick list is due.
Quiet(s) == s.tick_list = <<>> \/ s.tick_expires[Head(s.tick_list)] > 0

\* One round of tick_update wakes the first task if it is due.
LEMMA WakeFirstEnds ==
  ASSUME NEW s, Struct(s)
  PROVE  /\ WaitsEnd(WakeFirst(s), s, "TIMEOUT")
         /\ Quiet(s) => WakeFirst(s) = s
         /\ ~Quiet(s) => Len(WakeFirst(s).tick_list) = Len(s.tick_list) - 1
<1> DEFINE t == Head(s.tick_list)
           r == pend_task_wakeup(s, t, "TIMEOUT")
<1>1. CASE Quiet(s)
  <2>1. WakeFirst(s) = s
    BY <1>1 DEF WakeFirst, Quiet
  <2> QED
    BY <1>1, <2>1, WaitsEndSelf
<1>2. CASE ~Quiet(s)
  <2>1. WakeFirst(s) = r
    BY <1>2 DEF WakeFirst, Quiet
  <2>2. s.tick_list # <<>> /\ ListOf(s.tick_list, Sleeping(s)) /\ s \in KState
    BY <1>2 DEF Quiet, Struct
  <2>3. Sleeping(s) # {}
    BY <2>2, EmptyList
  <2>4. t \in Sleeping(s)
    BY <2>2, <2>3, HeadOfList
  <2>5. t \in Task /\ t \notin Ready(s) /\ t \notin s.deleted /\ "TIMEOUT" \in PendState
    BY <2>4, ReadyIs DEF Struct, Sleeping, PendState
  <2> HIDE DEF t, r
  <2>6. Woken(r, s, t, "TIMEOUT")
    BY <2>5, Wakeup DEF r
  <2>7. r.tick_list = Unlink(s.tick_list, t)
    <3>1. tick_list_remove(s, t).tick_list = Unlink(s.tick_list, t)
      BY <2>2, <2>4, TickListRemove
    <3> QED
      BY <2>4, <2>6, <3>1 DEF Woken, TimesOf
  <2>8. Len(r.tick_list) = Len(s.tick_list) - 1
    BY <2>2, <2>4, <2>7, UnlinkList
  <2>9. WaitsEnd(r, s, "TIMEOUT")
    BY <2>5, <2>6, WokenEnds
  <2> QED
    BY <1>2, <2>1, <2>8, <2>9
<1> QED
  BY <1>1, <1>2

\* All rounds: whoever is due wakes, and nobody who is due is left.
LEMMA WakeDueEnds ==
  ASSUME NEW s, Struct(s)
  PROVE  WaitsEnd(WakeDue(s), s, "TIMEOUT") /\ Quiet(WakeDue(s))
<1> DEFINE n == Len(s.tick_list)
           Is(f) == [i \in 0..n |-> IF i = 0 THEN s ELSE WakeFirst(f[i - 1])]
           woken == CHOOSE f : f = Is(f)
<1>1. n \in Nat /\ s \in KState
  <2>1. s \in KState
    BY DEF Struct
  <2> QED
    BY <2>1, Fields
<1>2. woken = Is(woken)
  <2>1. \E f : f = Is(f)
    <3>1. PICK f : f = Loop("WakeDue", s, 0, 0, s, n, f)
      <4> HIDE DEF n
      <4> QED
        BY <1>1, LoopDefined
    <3>2. \A i : LoopStep("WakeDue", s, 0, 0, i, f[i - 1]) = WakeFirst(f[i - 1])
      BY DEF LoopStep
    <3>3. f = Is(f)
      <4> HIDE DEF n
      <4> QED
        BY <3>1, <3>2 DEF Loop
    <3> QED
      BY <3>3
  <2> HIDE DEF Is
  <2> QED
    BY <2>1
<1>3. WakeDue(s) = woken[n]
  BY DEF WakeDue
<1> HIDE DEF woken
<1>4. woken[0] = s /\ \A i \in 1..n : woken[i] = WakeFirst(woken[i - 1])
  <2> HIDE DEF n
  <2>1. 0 \in 0..n /\ \A i \in 1..n : i \in 0..n /\ i # 0
    BY <1>1
  <2> QED
    BY <1>2, <2>1
<1> DEFINE Right(i) == /\ WaitsEnd(woken[i], s, "TIMEOUT")
                       /\ Quiet(woken[i]) \/ Len(woken[i].tick_list) <= n - i
           T == {i \in Nat : i <= n => Right(i)}
<1>5. 0 \in T
  <2>1. n <= n - 0
    BY <1>1
  <2> HIDE DEF n
  <2> QED
    BY <1>4, <2>1, WaitsEndSelf DEF n
<1>6. ASSUME NEW i \in Nat, i \in T PROVE i + 1 \in T
  <2> SUFFICES ASSUME i + 1 <= n PROVE Right(i + 1)
    OBVIOUS
  <2> DEFINE x == woken[i]
             y == woken[i + 1]
  <2>1. y = WakeFirst(x)
    <3>1. i + 1 \in 1..n /\ i + 1 - 1 = i
      BY <1>1
    <3> QED
      BY <1>4, <3>1
  <2>2. WaitsEnd(x, s, "TIMEOUT") /\ (Quiet(x) \/ Len(x.tick_list) <= n - i)
    BY <1>1, <1>6
  <2> HIDE DEF x, y, n
  <2>3. Struct(x) /\ Len(x.tick_list) \in Nat
    <3>1. Struct(x)
      BY <2>2 DEF WaitsEnd
    <3>2. x.tick_list \in Seq(Task)
      BY <3>1 DEF Struct, KState
    <3> QED
      BY <3>1, <3>2
  <2>4. /\ WaitsEnd(y, x, "TIMEOUT")
        /\ Quiet(x) => y = x
        /\ ~Quiet(x) => Len(y.tick_list) = Len(x.tick_list) - 1
    BY <2>1, <2>3, WakeFirstEnds
  <2>5. WaitsEnd(y, s, "TIMEOUT")
    BY <2>2, <2>4, WaitsEndTwice
  <2>6. Quiet(y) \/ Len(y.tick_list) <= n - (i + 1)
    BY <1>1, <2>2, <2>3, <2>4
  <2> QED
    BY <2>5, <2>6 DEF y
<1>7. Nat \subseteq T
  <2> HIDE DEF T
  <2> QED
    BY <1>5, <1>6, Induction
<1>8. Right(n)
  <2> HIDE DEF Right
  <2> QED
    BY <1>1, <1>7
<1>9. Quiet(woken[n])
  <2>1. woken[n].tick_list \in Seq(Task)
    BY <1>8 DEF WaitsEnd, Struct, KState
  <2>2. Len(woken[n].tick_list) <= 0 => woken[n].tick_list = <<>>
    BY <2>1
  <2> HIDE DEF n
  <2> QED
    BY <1>1, <1>8, <2>2 DEF Quiet
<1> QED
  BY <1>3, <1>8, <1>9

\* Once nobody is due, each task that sleeps has a tick remains.
LEMMA QuietTicks ==
  ASSUME NEW s \in KState, NEW remains \in [Task -> Nat], TicksFrom(s, remains, 0), Quiet(s)
  PROVE  TicksFrom(s, remains, 1)
<1> DEFINE l == s.tick_list
           N == Len(l)
<1>1. /\ N \in Nat /\ l \in Seq(Task)
      /\ \A i \in 1..N : l[i] \in Task /\ remains[l[i]] \in Nat
  BY DEF KState
<1>2. ASSUME NEW i \in 1..N PROVE 1 <= remains[l[i]]
  <2>1. 1 \in 1..N /\ l # <<>> /\ Head(l) = l[1]
    BY <1>1
  <2>2. s.tick_expires[l[1]] > 0
    BY <2>1 DEF Quiet
  <2>3. s.tick_expires[l[1]] = remains[l[1]] - 0
    BY <2>1 DEF TicksFrom, Before
  <2>4. remains[l[1]] <= remains[l[i]]
    BY InOrderOfTime
  <2> HIDE DEF l, N
  <2> QED
    BY <1>1, <2>1, <2>2, <2>3, <2>4
<1> QED
  BY <1>2 DEF TicksFrom

\* The ticks that are remains one tick later.
OneLess(s, remains) ==
  [t \in Task |-> IF IsSleeping(s, t) /\ remains[t] > 0 THEN remains[t] - 1 ELSE remains[t]]

\* tick_update takes one tick from each task that sleeps.
LEMMA TickUpdate ==
  ASSUME NEW s, Struct(s), NEW remains \in [Task -> Nat], TicksFrom(s, remains, 1)
  PROVE  /\ OneLess(s, remains) \in [Task -> Nat]
         /\ TicksFrom(tick_update(s), OneLess(s, remains), 1)
         /\ Struct(tick_update(s))
         /\ SamePrios(tick_update(s), s) /\ SameOwners(tick_update(s), s)
         /\ SameNext(tick_update(s), s) /\ SameRest(tick_update(s), s)
         /\ Ready(s) \subseteq Ready(tick_update(s))
         /\ \A u \in Thread :
              \/ /\ tick_update(s).pending_obj[u] = s.pending_obj[u]
                 /\ tick_update(s).pend_state[u] = s.pend_state[u]
              \/ /\ s.pending_obj[u] # NoMutex
                 /\ tick_update(s).pending_obj[u] = NoMutex
                 /\ tick_update(s).pend_state[u] = "TIMEOUT"
<1> DEFINE l == s.tick_list
           N == Len(l)
           head == Head(l)
           nl == OneLess(s, remains)
           s1 == [s EXCEPT !.tick_expires[head] = IF @ <= 1 THEN 0 ELSE @ - 1]
           r == tick_update(s)
<1>1. /\ s \in KState /\ N \in Nat /\ l \in Seq(Task) /\ ListOf(l, Sleeping(s))
      /\ \A i \in 1..N : l[i] \in Task /\ remains[l[i]] \in Nat /\ IsSleeping(s, l[i])
  <2>1. s \in KState /\ l \in Seq(Task) /\ ListOf(l, Sleeping(s))
    BY DEF Struct, KState
  <2>2. N \in Nat /\ \A i \in 1..N : l[i] \in Task /\ remains[l[i]] \in Nat
    <3> HIDE DEF l
    <3> QED
      BY <2>1
  <2>3. \A i \in 1..N : IsSleeping(s, l[i])
    BY DEF IsSleeping, Contains
  <2> QED
    BY <2>1, <2>2, <2>3
<1>2. nl \in [Task -> Nat]
  BY DEF OneLess
<1>3. \A i \in 1..N : remains[l[i]] >= 1 /\ nl[l[i]] = remains[l[i]] - 1
  <2>1. \A i \in 1..N : remains[l[i]] >= 1
    BY <1>1 DEF TicksFrom
  <2> QED
    BY <1>1, <2>1 DEF OneLess
<1>4. CASE l = <<>>
  <2>1. r = s
    BY <1>4 DEF tick_update
  <2>2. TicksFrom(s, nl, 1)
    BY <1>4 DEF TicksFrom
  <2> HIDE DEF r
  <2> QED
    BY <1>1, <1>2, <2>1, <2>2 DEF SamePrios, SameOwners, SameNext, SameRest, r
<1>5. CASE l # <<>>
  <2>1. 1 \in 1..N /\ head = l[1] /\ head \in Task
    BY <1>1, <1>5
  <2> HIDE DEF head
  <2> DEFINE expires == [s.tick_expires EXCEPT ![head] = IF @ <= 1 THEN 0 ELSE @ - 1]
  <2>2. s1 = [s EXCEPT !.tick_expires = expires] /\ expires \in [Task -> Int]
    BY <1>1, <2>1 DEF KState
  <2>3. r = WakeDue(s1)
    BY <1>5 DEF tick_update, head
  <2> HIDE DEF s1, r
  <2>4. /\ \A u \in Task : u # head => expires[u] = s.tick_expires[u]
        /\ expires[head] = remains[head] - 1
    <3>1. s.tick_expires[head] = remains[head] - 0 /\ 1 <= remains[head]
      BY <2>1 DEF TicksFrom, Before
    <3>2. remains[head] \in Nat /\ s.tick_expires \in [Task -> Int]
      BY <1>1, <2>1 DEF KState
    <3> QED
      BY <2>1, <3>1, <3>2
  <2> HIDE DEF expires
  <2>5. /\ s1 \in KState /\ s1.tick_list = l /\ s1.tick_expires = expires
        /\ SamePrios(s1, s) /\ SameQueue(s1, s) /\ SameWaits(s1, s)
        /\ SameOwners(s1, s) /\ SameNext(s1, s) /\ SameRest(s1, s)
        /\ s1.pend_state = s.pend_state
    BY <1>1, <2>2 DEF KState, SamePrios, SameQueue, SameWaits, SameOwners, SameNext, SameRest
  <2>6. Struct(s1) /\ Ready(s1) = Ready(s)
    <3>1. SameStruct(s1, s)
      BY <2>5 DEF SameStruct, SamePrios, SameRest
    <3> QED
      BY <2>5, <3>1, StructSame
  <2>7. TicksFrom(s1, nl, 0)
    <3>1. ASSUME NEW i \in 1..N
          PROVE  /\ expires[l[i]] = nl[l[i]] - Before(s1, nl, i)
                 /\ Before(s1, nl, i) <= nl[l[i]] /\ 0 <= nl[l[i]]
      <4>1. /\ l[i] \in Task /\ remains[l[i]] \in Nat /\ remains[l[i]] >= 1
            /\ nl[l[i]] = remains[l[i]] - 1
        BY <1>1, <1>3
      <4>2. CASE i = 1
        <5>1. Before(s1, nl, i) = 0
          BY <4>2 DEF Before
        <5> QED
          BY <2>1, <2>4, <4>1, <4>2, <5>1
      <4>3. CASE i # 1
        <5>1. i - 1 \in 1..N
          BY <1>1, <4>3
        <5>2. l[i] # head
          <6>1. \A v, w \in 1..N : l[v] = l[w] => v = w
            <7>1. DOMAIN l = 1..N
              BY <1>1
            <7>2. \A v, w \in DOMAIN l : l[v] = l[w] => v = w
              BY <1>1 DEF ListOf
            <7> QED
              BY <7>1, <7>2
          <6> QED
            BY <2>1, <4>3, <6>1
        <5>3. Before(s1, nl, i) = nl[l[i - 1]] /\ Before(s, remains, i) = remains[l[i - 1]]
          BY <2>5, <4>3 DEF Before
        <5>4. nl[l[i - 1]] = remains[l[i - 1]] - 1 /\ remains[l[i - 1]] \in Nat
          BY <1>1, <1>3, <5>1
        <5>5. /\ s.tick_expires[l[i]] = remains[l[i]] - Before(s, remains, i)
              /\ Before(s, remains, i) <= remains[l[i]]
          BY DEF TicksFrom
        <5>6. expires[l[i]] = s.tick_expires[l[i]]
          BY <2>4, <4>1, <5>2
        <5> DEFINE a == remains[l[i]]
                   b == remains[l[i - 1]]
                   e == s.tick_expires[l[i]]
        <5>7. /\ a \in Nat /\ b \in Nat /\ a >= 1 /\ e = a - b /\ b <= a
              /\ nl[l[i]] = a - 1 /\ Before(s1, nl, i) = b - 1 /\ expires[l[i]] = e
          BY <4>1, <5>3, <5>4, <5>5, <5>6
        <5> HIDE DEF l, nl, a, b, e
        <5> QED
          BY <5>7
      <4> QED
        BY <4>2, <4>3
    <3> HIDE DEF nl
    <3> QED
      BY <2>5, <3>1 DEF TicksFrom
  <2>8. WaitsEnd(r, s1, "TIMEOUT") /\ Quiet(r)
    BY <2>3, <2>6, WakeDueEnds
  <2>9. TicksFrom(r, nl, 1)
    <3>1. TicksFrom(r, nl, 0) /\ r \in KState
      <4> HIDE DEF nl
      <4> QED
        BY <1>2, <2>7, <2>8 DEF WaitsEnd, KeepsTicks, Struct
    <3> HIDE DEF nl
    <3> QED
      BY <1>2, <2>8, <3>1, QuietTicks
  <2> HIDE DEF nl
  <2>10. /\ Struct(r) /\ SamePrios(r, s) /\ SameOwners(r, s)
         /\ SameNext(r, s) /\ SameRest(r, s) /\ Ready(s) \subseteq Ready(r)
    BY <2>5, <2>6, <2>8 DEF WaitsEnd, SamePrios, SameOwners, SameNext, SameRest
  <2>11. \A u \in Thread :
              \/ r.pending_obj[u] = s.pending_obj[u] /\ r.pend_state[u] = s.pend_state[u]
              \/ /\ s.pending_obj[u] # NoMutex
                 /\ r.pending_obj[u] = NoMutex /\ r.pend_state[u] = "TIMEOUT"
    BY <2>5, <2>8 DEF WaitsEnd, SameWaits
  <2> QED
    BY <1>2, <2>9, <2>10, <2>11 DEF r, nl
<1> QED
  BY <1>4, <1>5

-----------------------------------------------------------------------------
(* Who owns what.                                                          *)

\* The lists of owned mutexes agree with the owners.
OwnOK(s) ==
  /\ \A t \in Thread : ListOf(s.mutex_own_list[t], {m \in Mutex : s.owner[m] = t})
  /\ \A m \in Mutex : s.pend_nesting[m] = 0 <=> s.owner[m] = NoTask

LEMMA OwnSame ==
  ASSUME NEW s, OwnOK(s), NEW r, SameOwners(r, s)
  PROVE  OwnOK(r)
BY DEF OwnOK, SameOwners

\* mutex_own_list, by the owners.
LEMMA OwnIs ==
  ASSUME NEW s \in KState, OwnOK(s), NEW t \in Thread
  PROVE  /\ \A m : m \in ToSet(s.mutex_own_list[t]) <=> m \in Mutex /\ s.owner[m] = t
         /\ s.mutex_own_list[t] = <<>> <=> \A m \in Mutex : s.owner[m] # t
         /\ s.mutex_own_list[t] # <<>> =>
              LET m == Head(s.mutex_own_list[t]) IN m \in Mutex /\ s.owner[m] = t
<1> DEFINE list == s.mutex_own_list[t]
           S == {m \in Mutex : s.owner[m] = t}
<1>1. ListOf(list, S)
  BY DEF OwnOK
<1>2. list = <<>> <=> S = {}
  <2> HIDE DEF list, S
  <2> QED
    BY <1>1, EmptyList
<1>3. \A m : m \in ToSet(list) <=> m \in S
  <2> HIDE DEF list, S
  <2>1. DOMAIN list = 1..Len(list) /\ \A i \in DOMAIN list : list[i] \in S
    BY <1>1, ListType
  <2>2. \A m \in S : \E i \in DOMAIN list : list[i] = m
    BY <1>1 DEF ListOf
  <2> QED
    BY <2>1, <2>2 DEF ToSet
<1>4. S # {} => Head(list) \in S
  <2> HIDE DEF list, S
  <2> QED
    BY <1>1, HeadOfList
<1> QED
  BY <1>2, <1>3, <1>4

\* What mutex_fresh_owner_mark leaves.
Marked(r, s, m, t) ==
  /\ Struct(r) /\ OwnOK(r)
  /\ SamePrios(r, s) /\ SameQueue(r, s) /\ SameWaits(r, s) /\ SameTimes(r, s)
  /\ SameNext(r, s) /\ SameRest(r, s) /\ r.pend_state = s.pend_state
  /\ r.owner = [s.owner EXCEPT ![m] = t]
  /\ r.owner_orig_prio = [s.owner_orig_prio EXCEPT ![m] = s.prio[t]]
  /\ Ready(r) = Ready(s) /\ Sleeping(r) = Sleeping(s)

\* mutex_fresh_owner_mark of a mutex that is free.
LEMMA Mark ==
  ASSUME NEW s, Struct(s), OwnOK(s), NEW m \in Mutex, s.owner[m] = NoTask,
         NEW t \in Task
  PROVE  Marked(mutex_fresh_owner_mark(s, m, t), s, m, t)
<1> DEFINE r == mutex_fresh_owner_mark(s, m, t)
           owner == [s.owner EXCEPT ![m] = t]
           orig == [s.owner_orig_prio EXCEPT ![m] = s.prio[t]]
           nesting == [s.pend_nesting EXCEPT ![m] = 1]
           lists == [s.mutex_own_list EXCEPT ![t] = <<m>> \o @]
<1>1. s \in KState /\ t \in Thread /\ t # NoTask /\ s.prio[t] \in 0..INVALID
  <2>1. s \in KState /\ t \in Thread /\ t # NoTask
    BY ConstantsAssumption DEF Struct, Thread
  <2>2. s.prio[t] \in Prio
    BY <2>1 DEF KState
  <2> QED
    BY <2>1, <2>2, PrioFacts
<1>2. r = [s EXCEPT !.owner = owner, !.owner_orig_prio = orig,
                    !.pend_nesting = nesting, !.mutex_own_list = lists]
  BY <1>1 DEF mutex_fresh_owner_mark, KState
<1>3. ASSUME NEW u \in Thread
      PROVE  ListOf(lists[u], {o \in Mutex : owner[o] = u})
  <2> DEFINE S == {o \in Mutex : s.owner[o] = u}
  <2>1. s.owner \in [Mutex -> Task \cup {NoTask}] /\ s.mutex_own_list \in [Thread -> Seq(Mutex)]
    BY <1>1 DEF KState
  <2>2. ListOf(s.mutex_own_list[u], S)
    BY DEF OwnOK
  <2>3. CASE u = t
    <3>1. {o \in Mutex : owner[o] = u} = S \cup {m}
      BY <2>1, <2>3
    <3>2. m \notin S /\ lists[u] = <<m>> \o s.mutex_own_list[u]
      BY <1>1, <2>1, <2>3
    <3> HIDE DEF S, owner, lists
    <3> QED
      BY <2>2, <3>1, <3>2, PushList
  <2>4. CASE u # t
    <3>1. {o \in Mutex : owner[o] = u} = S
      <4>1. s.owner[m] # u
        BY ConstantsAssumption
      <4> QED
        BY <2>1, <2>4, <4>1
    <3> QED
      BY <2>1, <2>2, <2>4, <3>1
  <2> QED
    BY <2>3, <2>4
<1>4. /\ owner \in [Mutex -> Task \cup {NoTask}]
      /\ orig \in [Mutex -> 0..INVALID] /\ nesting \in [Mutex -> Nat]
  BY <1>1 DEF KState
<1>5. lists \in [Thread -> Seq(Mutex)]
  <2>1. ASSUME NEW u \in Thread PROVE lists[u] \in Seq(Mutex)
    <3> DEFINE S == {o \in Mutex : owner[o] = u}
    <3>1. lists[u] \in Seq(S) /\ S \subseteq Mutex
      BY <1>3 DEF ListOf
    <3> HIDE DEF lists, S
    <3> QED
      BY <3>1
  <2>2. DOMAIN lists = Thread /\ lists = [u \in Thread |-> lists[u]]
    BY <1>1 DEF KState
  <2> HIDE DEF lists
  <2> QED
    BY <2>1, <2>2
<1>6. \A o \in Mutex : nesting[o] = 0 <=> owner[o] = NoTask
  <2>1. s.owner \in [Mutex -> Task \cup {NoTask}] /\ s.pend_nesting \in [Mutex -> Nat]
    BY <1>1, Fields
  <2>2. \A o \in Mutex : s.pend_nesting[o] = 0 <=> s.owner[o] = NoTask
    BY <1>1 DEF OwnOK
  <2> QED
    BY <1>1, <2>1, <2>2
<1> HIDE DEF owner, orig, nesting, lists, r
<1>7. /\ r \in KState /\ r.owner = owner /\ r.owner_orig_prio = orig
      /\ r.pend_nesting = nesting /\ r.mutex_own_list = lists
      /\ SamePrios(r, s) /\ SameQueue(r, s) /\ SameWaits(r, s) /\ SameTimes(r, s)
      /\ SameNext(r, s) /\ SameRest(r, s) /\ r.pend_state = s.pend_state
  BY <1>1, <1>2, <1>4, <1>5
     DEF KState, SamePrios, SameQueue, SameWaits, SameTimes, SameNext, SameRest
<1>8. OwnOK(r)
  BY <1>3, <1>6, <1>7 DEF OwnOK
<1>9. SameStruct(r, s)
  BY <1>7 DEF SameStruct, SamePrios, SameRest, SameTimes
<1>10. Struct(r) /\ Ready(r) = Ready(s) /\ Sleeping(r) = Sleeping(s)
  BY <1>7, <1>9, StructSame
<1> QED
  BY <1>7, <1>8, <1>10 DEF Marked, r, owner, orig

\* The mutex has no owner; the old one has its priority.
Dropped(s, m) ==
  [s EXCEPT !.mutex_own_list[s.owner[m]] = Unlink(@, m),
            !.owner[m] = NoTask, !.pend_nesting[m] = 0,
            !.owner_orig_prio[m] = INVALID]

\* The mutex leaves its owner's list.
LEMMA Drop ==
  ASSUME NEW s, Struct(s), OwnOK(s), NEW m \in Mutex, s.owner[m] # NoTask
  PROVE  LET r == Dropped(s, m) IN
         /\ Struct(r) /\ OwnOK(r)
         /\ SamePrios(r, s) /\ SameQueue(r, s) /\ SameWaits(r, s) /\ SameTimes(r, s)
         /\ SameNext(r, s) /\ SameRest(r, s) /\ r.pend_state = s.pend_state
         /\ r.owner = [s.owner EXCEPT ![m] = NoTask]
         /\ r.owner_orig_prio = [s.owner_orig_prio EXCEPT ![m] = INVALID]
         /\ Ready(r) = Ready(s) /\ Sleeping(r) = Sleeping(s)
         /\ Len(r.mutex_own_list[s.owner[m]]) = Len(s.mutex_own_list[s.owner[m]]) - 1
<1> DEFINE t == s.owner[m]
           r == Dropped(s, m)
           owner == [s.owner EXCEPT ![m] = NoTask]
           orig == [s.owner_orig_prio EXCEPT ![m] = INVALID]
           nesting == [s.pend_nesting EXCEPT ![m] = 0]
           lists == [s.mutex_own_list EXCEPT ![t] = Unlink(@, m)]
<1>1. s \in KState /\ t \in Task /\ t \in Thread /\ INVALID \in 0..INVALID /\ NoTask \notin Thread
  <2>1. s \in KState /\ NoTask \notin Thread
    BY ConstantsAssumption DEF Struct
  <2>2. t \in Task
    BY <2>1 DEF KState
  <2> QED
    BY <2>1, <2>2, PrioFacts DEF Thread
<1>2. r = [s EXCEPT !.owner = owner, !.owner_orig_prio = orig,
                    !.pend_nesting = nesting, !.mutex_own_list = lists]
  BY <1>1 DEF Dropped, KState
<1>3. ASSUME NEW u \in Thread
      PROVE  /\ ListOf(lists[u], {o \in Mutex : owner[o] = u})
             /\ u = t => Len(lists[u]) = Len(s.mutex_own_list[u]) - 1
  <2> DEFINE S == {o \in Mutex : s.owner[o] = u}
  <2>1. s.owner \in [Mutex -> Task \cup {NoTask}] /\ s.mutex_own_list \in [Thread -> Seq(Mutex)]
    BY <1>1 DEF KState
  <2>2. ListOf(s.mutex_own_list[u], S)
    BY DEF OwnOK
  <2>3. CASE u = t
    <3>1. {o \in Mutex : owner[o] = u} = S \ {m}
      BY <1>1, <2>1, <2>3
    <3>2. m \in S /\ lists[u] = Unlink(s.mutex_own_list[u], m)
      BY <1>1, <2>1, <2>3
    <3> HIDE DEF S, owner, lists
    <3> QED
      BY <2>2, <3>1, <3>2, UnlinkList
  <2>4. CASE u # t
    <3>1. {o \in Mutex : owner[o] = u} = S
      BY <1>1, <2>1, <2>4
    <3>2. lists[u] = s.mutex_own_list[u]
      BY <2>1, <2>4
    <3> HIDE DEF S, owner, lists
    <3> QED
      BY <2>2, <2>4, <3>1, <3>2
  <2> QED
    BY <2>3, <2>4
<1>4. /\ owner \in [Mutex -> Task \cup {NoTask}]
      /\ orig \in [Mutex -> 0..INVALID] /\ nesting \in [Mutex -> Nat]
  BY <1>1 DEF KState
<1>5. lists \in [Thread -> Seq(Mutex)]
  <2>1. ASSUME NEW u \in Thread PROVE lists[u] \in Seq(Mutex)
    <3> DEFINE S == {o \in Mutex : owner[o] = u}
    <3>1. lists[u] \in Seq(S) /\ S \subseteq Mutex
      BY <1>3 DEF ListOf
    <3> HIDE DEF lists, S
    <3> QED
      BY <3>1
  <2>2. DOMAIN lists = Thread /\ lists = [u \in Thread |-> lists[u]]
    BY <1>1 DEF KState
  <2> HIDE DEF lists
  <2> QED
    BY <2>1, <2>2
<1>6. \A o \in Mutex : nesting[o] = 0 <=> owner[o] = NoTask
  <2>1. s.owner \in [Mutex -> Task \cup {NoTask}] /\ s.pend_nesting \in [Mutex -> Nat]
    BY <1>1, Fields
  <2>2. \A o \in Mutex : s.pend_nesting[o] = 0 <=> s.owner[o] = NoTask
    BY <1>1 DEF OwnOK
  <2> QED
    BY <1>1, <2>1, <2>2
<1> HIDE DEF owner, orig, nesting, lists, r
<1>7. /\ r \in KState /\ r.owner = owner /\ r.owner_orig_prio = orig
      /\ r.pend_nesting = nesting /\ r.mutex_own_list = lists
      /\ SamePrios(r, s) /\ SameQueue(r, s) /\ SameWaits(r, s) /\ SameTimes(r, s)
      /\ SameNext(r, s) /\ SameRest(r, s) /\ r.pend_state = s.pend_state
  BY <1>1, <1>2, <1>4, <1>5
     DEF KState, SamePrios, SameQueue, SameWaits, SameTimes, SameNext, SameRest
<1>8. OwnOK(r)
  BY <1>3, <1>6, <1>7 DEF OwnOK
<1>9. SameStruct(r, s)
  BY <1>7 DEF SameStruct, SamePrios, SameRest, SameTimes
<1>10. Struct(r) /\ Ready(r) = Ready(s) /\ Sleeping(r) = Sleeping(s)
  BY <1>7, <1>9, StructSame
<1> QED
  BY <1>1, <1>3, <1>7, <1>8, <1>10 DEF r, owner, orig

-----------------------------------------------------------------------------
(* mutex_old_owner_release.                                                *)

Dispatched(r, s) ==
  r.next = highest_ready_task(r) /\ (r.pendsv <=> s.pendsv \/ r.next # s.curr)

\* What the release of a mutex leaves.
Released(r, s, m) ==
  LET t == s.owner[m] IN
  /\ Struct(r) /\ OwnOK(r)
  /\ SameTimes(r, s) /\ SameRest(r, s)
  /\ r.pend_state = s.pend_state /\ r.pending_obj = s.pending_obj
  /\ Ready(r) = Ready(s) /\ Sleeping(r) = Sleeping(s)
  /\ r.owner = [s.owner EXCEPT ![m] = NoTask]
  /\ r.owner_orig_prio = [s.owner_orig_prio EXCEPT ![m] = INVALID]
  /\ Len(r.mutex_own_list[t]) = Len(s.mutex_own_list[t]) - 1
  /\ \A u \in Thread : u # t =>
       r.prio[u] = s.prio[u] /\ r.prio_pending[u] = s.prio_pending[u]
  /\ \A o \in Mutex : r.owner[o] = t => \A w \in Waiters(s, o) :
       r.prio[t] = s.prio[t] \/ r.prio[t] <= s.prio[w]
  /\ r.mutex_own_list[t] = <<>> => r.prio_pending[t] = INVALID
  /\ \A b \in 0..PrioIdle - 1 :
       s.prio_pending[t] \in {INVALID, b} /\ s.owner_orig_prio[m] = b =>
         /\ r.prio_pending[t] \in {INVALID, b}
         /\ r.mutex_own_list[t] = <<>> => r.prio[t] = b
  /\ IF s.sched_locked THEN SameNext(r, s)
     ELSE (SameNext(r, s) /\ r.prio = s.prio) \/ Dispatched(r, s)

\* mutex_old_owner_release, in each of its three branches.
LEMMA Release ==
  ASSUME NEW s, Struct(s), OwnOK(s), NEW m \in Mutex, s.owner[m] # NoTask,
         s.owner[m] \notin s.deleted
  PROVE  Released(mutex_old_owner_release(s, m), s, m)
<1> DEFINE t == s.owner[m]
           orig == s.owner_orig_prio[m]
           s1 == Dropped(s, m)
           pending == s1.prio_pending[t]
           q1 == tos_task_prio_change(s1, t, pending)
           r1 == [q1 EXCEPT !.prio_pending[t] = INVALID]
           r2 == tos_task_prio_change(s1, t, orig)
           r == mutex_old_owner_release(s, m)
<1>1. r = IF pending # INVALID THEN r1 ELSE IF s1.prio[t] # orig THEN r2 ELSE s1
  BY DEF mutex_old_owner_release, Dropped
<1>2. s \in KState /\ t \in Task /\ t \in Thread /\ orig \in 0..INVALID
  BY DEF Struct, KState, Thread
<1> DEFINE DroppedRight ==
         /\ Struct(s1) /\ OwnOK(s1)
         /\ SamePrios(s1, s) /\ SameQueue(s1, s) /\ SameWaits(s1, s) /\ SameTimes(s1, s)
         /\ SameNext(s1, s) /\ SameRest(s1, s) /\ s1.pend_state = s.pend_state
         /\ s1.owner = [s.owner EXCEPT ![m] = NoTask]
         /\ s1.owner_orig_prio = [s.owner_orig_prio EXCEPT ![m] = INVALID]
         /\ Ready(s1) = Ready(s) /\ Sleeping(s1) = Sleeping(s)
         /\ Len(s1.mutex_own_list[t]) = Len(s.mutex_own_list[t]) - 1
<1>3. DroppedRight
  BY Drop
<1> HIDE DEF s1, t, orig
<1>4. s1 \in KState /\ pending \in 0..INVALID /\ pending = s.prio_pending[t]
  BY <1>2, <1>3 DEF Struct, KState, SamePrios
<1>5. \A o \in Mutex : s1.owner[o] = t => o \in ToSet(s1.mutex_own_list[t])
  BY <1>2, <1>3, <1>4, OwnIs
<1>6. \A o : Waiters(s1, o) = Waiters(s, o)
  BY <1>3 DEF Waiters, SameWaits
\* What a change of t's priority adds.
<1>7. ASSUME NEW q, NEW new \in 0..INVALID, PrioChanged(q, s1, t, new)
      PROVE  /\ Struct(q) /\ OwnOK(q)
             /\ SameTimes(q, s) /\ SameRest(q, s) /\ SameOwners(q, s1)
             /\ q.pend_state = s.pend_state /\ q.pending_obj = s.pending_obj
             /\ \A u \in Thread : u # t =>
                  q.prio[u] = s.prio[u] /\ q.prio_pending[u] = s.prio_pending[u]
             /\ \A o \in Mutex : q.owner[o] = t => \A w \in Waiters(s, o) :
                  q.prio[t] = s.prio[t] \/ q.prio[t] <= s.prio[w]
             /\ IF s.sched_locked THEN SameNext(q, s)
                ELSE (SameNext(q, s) /\ q.prio = s.prio) \/ Dispatched(q, s)
  <2>1. OwnOK(q)
    BY <1>3, <1>7, OwnSame DEF PrioChanged, OnlyPrio
  <2>2. ASSUME NEW o \in Mutex, q.owner[o] = t, NEW w \in Waiters(s, o)
        PROVE  q.prio[t] = s.prio[t] \/ q.prio[t] <= s.prio[w]
    <3>1. o \in ToSet(s1.mutex_own_list[t]) /\ w \in Waiters(s1, o) /\ s1.prio = s.prio
      BY <1>3, <1>5, <1>6, <1>7, <2>2 DEF PrioChanged, OnlyPrio, SameOwners, SamePrios
    <3>2. CASE new < PrioIdle
      <4>1. t \notin s1.deleted
        BY <1>3 DEF SameRest, t
      <4> QED
        BY <1>7, <3>1, <3>2, <4>1 DEF PrioChanged
    <3>3. CASE ~(new < PrioIdle)
      <4>1. new >= PrioIdle
        BY <3>3, PrioFacts
      <4> QED
        BY <1>7, <3>1, <4>1 DEF PrioChanged
    <3> QED
      BY <3>2, <3>3
  <2>3. IF s.sched_locked THEN SameNext(q, s)
        ELSE (SameNext(q, s) /\ q.prio = s.prio) \/ Dispatched(q, s)
    BY <1>3, <1>7 DEF PrioChanged, SameNext, SameRest, SamePrios, Dispatched
  <2>4. /\ Struct(q) /\ SameTimes(q, s) /\ SameRest(q, s) /\ SameOwners(q, s1)
        /\ q.pend_state = s.pend_state /\ q.pending_obj = s.pending_obj
        /\ \A u \in Thread : u # t =>
             q.prio[u] = s.prio[u] /\ q.prio_pending[u] = s.prio_pending[u]
    BY <1>3, <1>7
       DEF PrioChanged, OnlyPrio, SameTimes, SameRest, SameOwners, SameWaits, SamePrios
  <2> QED
    BY <2>1, <2>2, <2>3, <2>4
\* The rest of what is to be shown, of a state that has all of that.
<1>8. ASSUME NEW q,
             Struct(q), OwnOK(q), SameTimes(q, s), SameRest(q, s), SameOwners(q, s1),
             q.pend_state = s.pend_state, q.pending_obj = s.pending_obj,
             \A u \in Thread : u # t =>
                  q.prio[u] = s.prio[u] /\ q.prio_pending[u] = s.prio_pending[u],
             \A o \in Mutex : q.owner[o] = t => \A w \in Waiters(s, o) :
                  q.prio[t] = s.prio[t] \/ q.prio[t] <= s.prio[w],
             IF s.sched_locked THEN SameNext(q, s)
                ELSE (SameNext(q, s) /\ q.prio = s.prio) \/ Dispatched(q, s),
             q.mutex_own_list[t] = <<>> => q.prio_pending[t] = INVALID,
             \A b \in 0..PrioIdle - 1 :
               s.prio_pending[t] \in {INVALID, b} /\ s.owner_orig_prio[m] = b =>
                 /\ q.prio_pending[t] \in {INVALID, b}
                 /\ q.mutex_own_list[t] = <<>> => q.prio[t] = b
      PROVE  Released(q, s, m)
  <2>1. Ready(q) = Ready(s) /\ Sleeping(q) = Sleeping(s)
    BY <1>8 DEF Ready, IsReady, IsPending, Sleeping, IsSleeping, SameTimes, SameRest
  <2>2. /\ q.owner = [s.owner EXCEPT ![m] = NoTask]
        /\ q.owner_orig_prio = [s.owner_orig_prio EXCEPT ![m] = INVALID]
        /\ Len(q.mutex_own_list[t]) = Len(s.mutex_own_list[t]) - 1
    BY <1>3, <1>8 DEF SameOwners
  <2> QED
    BY <1>8, <2>1, <2>2 DEF Released, t
<1> DEFINE own == s1.mutex_own_list[t]
<1>9. t \notin s1.deleted
  BY <1>3 DEF SameRest, t
<1> HIDE DEF r, DroppedRight
<1>10. CASE pending # INVALID
  <2>1. PrioChanged(q1, s1, t, pending)
    <3> HIDE DEF q1, pending
    <3> QED
      BY <1>2, <1>3, <1>4, PrioChange DEF q1, DroppedRight
  <2> DEFINE pendings == [q1.prio_pending EXCEPT ![t] = INVALID]
  <2> HIDE DEF q1
  <2>2. q1 \in KState
    BY <2>1 DEF PrioChanged, Struct
  <2>3. pendings \in [Thread -> 0..INVALID] /\ pendings[t] = INVALID
        /\ \A u \in Thread : u # t => pendings[u] = q1.prio_pending[u]
    BY <1>2, <2>2, PrioFacts DEF KState
  <2>4. r1 = [q1 EXCEPT !.prio_pending = pendings]
    BY <2>2 DEF KState
  <2> HIDE DEF pendings, r1
  <2>5. /\ r1 \in KState /\ r1.prio = q1.prio /\ r1.prio_pending = pendings
        /\ SameQueue(r1, q1) /\ SameWaits(r1, q1) /\ SameTimes(r1, q1) /\ SameOwners(r1, q1)
        /\ SameNext(r1, q1) /\ SameRest(r1, q1) /\ r1.pend_state = q1.pend_state
    BY <2>2, <2>3, <2>4
       DEF KState, SameQueue, SameWaits, SameTimes, SameOwners, SameNext, SameRest
  <2>6. /\ Struct(q1) /\ OwnOK(q1)
        /\ SameTimes(q1, s) /\ SameRest(q1, s) /\ SameOwners(q1, s1)
        /\ q1.pend_state = s.pend_state /\ q1.pending_obj = s.pending_obj
        /\ \A u \in Thread : u # t =>
             q1.prio[u] = s.prio[u] /\ q1.prio_pending[u] = s.prio_pending[u]
        /\ \A o \in Mutex : q1.owner[o] = t => \A w \in Waiters(s, o) :
             q1.prio[t] = s.prio[t] \/ q1.prio[t] <= s.prio[w]
        /\ IF s.sched_locked THEN SameNext(q1, s)
           ELSE (SameNext(q1, s) /\ q1.prio = s.prio) \/ Dispatched(q1, s)
    <3> HIDE DEF pending
    <3> QED
      BY <1>4, <1>7, <2>1
  <2>7. Struct(r1)
    <3>1. SameStruct(r1, q1)
      BY <2>5 DEF SameStruct, SameRest, SameTimes
    <3> QED
      BY <2>5, <2>6, <3>1, StructSame
  <2>8. OwnOK(r1)
    BY <2>5, <2>6, OwnSame
  <2>9. IF s.sched_locked THEN SameNext(r1, s)
        ELSE (SameNext(r1, s) /\ r1.prio = s.prio) \/ Dispatched(r1, s)
    <3>1. highest_ready_task(r1) = highest_ready_task(q1)
      BY <2>5 DEF highest_ready_task, SameQueue
    <3> QED
      BY <2>5, <2>6, <3>1 DEF SameNext, Dispatched
  <2>10. ASSUME NEW b \in 0..PrioIdle - 1, s.prio_pending[t] \in {INVALID, b}
         PROVE  /\ r1.prio_pending[t] \in {INVALID, b}
                /\ r1.mutex_own_list[t] = <<>> => r1.prio[t] = b
    <3>1. pending = b /\ b < PrioIdle
      BY <1>4, <1>10, <2>10, PrioFacts
    <3>2. own = <<>> => q1.prio[t] = b
      <4> HIDE DEF pending, own
      <4> QED
        BY <1>9, <2>1, <3>1 DEF PrioChanged, own
    <3> QED
      BY <2>3, <2>5, <2>6, <3>2 DEF SameOwners
  <2>11. /\ SameTimes(r1, s) /\ SameRest(r1, s) /\ SameOwners(r1, s1)
         /\ r1.pend_state = s.pend_state /\ r1.pending_obj = s.pending_obj
         /\ r1.owner = q1.owner
    BY <2>5, <2>6 DEF SameTimes, SameRest, SameOwners, SameWaits
  <2>12. \A u \in Thread : u # t =>
             r1.prio[u] = s.prio[u] /\ r1.prio_pending[u] = s.prio_pending[u]
    BY <2>3, <2>5, <2>6
  <2>13. Released(r1, s, m)
    BY <1>8, <2>3, <2>5, <2>6, <2>7, <2>8, <2>9, <2>10, <2>11, <2>12
  <2>14. r = r1
    BY <1>1, <1>10
  <2> QED
    BY <2>13, <2>14 DEF r
<1>11. CASE pending = INVALID /\ s1.prio[t] # orig
  <2>1. PrioChanged(r2, s1, t, orig)
    <3> HIDE DEF r2
    <3> QED
      BY <1>2, <1>3, PrioFacts, PrioChange DEF r2, DroppedRight
  <2> HIDE DEF r2
  <2>2. /\ Struct(r2) /\ OwnOK(r2)
        /\ SameTimes(r2, s) /\ SameRest(r2, s) /\ SameOwners(r2, s1)
        /\ r2.pend_state = s.pend_state /\ r2.pending_obj = s.pending_obj
        /\ \A u \in Thread : u # t =>
             r2.prio[u] = s.prio[u] /\ r2.prio_pending[u] = s.prio_pending[u]
        /\ \A o \in Mutex : r2.owner[o] = t => \A w \in Waiters(s, o) :
             r2.prio[t] = s.prio[t] \/ r2.prio[t] <= s.prio[w]
        /\ IF s.sched_locked THEN SameNext(r2, s)
           ELSE (SameNext(r2, s) /\ r2.prio = s.prio) \/ Dispatched(r2, s)
    BY <1>2, <1>7, <2>1
  <2>3. r2.prio_pending[t] # INVALID => r2.prio_pending[t] = orig /\ own # <<>>
    BY <1>11, <2>1 DEF PrioChanged
  <2>4. r2.mutex_own_list[t] = own
    BY <2>2 DEF SameOwners
  <2>5. ASSUME NEW b \in 0..PrioIdle - 1, orig = b
        PROVE  /\ r2.prio_pending[t] \in {INVALID, b}
               /\ own = <<>> => r2.prio[t] = b
    <3>1. orig < PrioIdle
      BY <2>5, PrioFacts
    <3>2. own = <<>> => r2.prio[t] = b
      <4> HIDE DEF own
      <4> QED
        BY <1>9, <2>1, <2>5, <3>1 DEF PrioChanged, own
    <3> QED
      BY <2>3, <2>5, <3>2
  <2>6. \A b \in 0..PrioIdle - 1 : s.owner_orig_prio[m] = b =>
                 /\ r2.prio_pending[t] \in {INVALID, b}
                 /\ r2.mutex_own_list[t] = <<>> => r2.prio[t] = b
    BY <2>4, <2>5 DEF orig
  <2>7. Released(r2, s, m)
    BY <1>8, <2>2, <2>3, <2>4, <2>6
  <2>8. r = r2
    BY <1>1, <1>11
  <2> QED
    BY <2>7, <2>8 DEF r
<1>12. CASE pending = INVALID /\ s1.prio[t] = orig
  <2>1. \A b \in 0..PrioIdle - 1 : s.owner_orig_prio[m] = b => s1.prio[t] = b
    BY <1>12 DEF orig
  <2>2. /\ Struct(s1) /\ OwnOK(s1) /\ SameTimes(s1, s) /\ SameRest(s1, s) /\ SameOwners(s1, s1)
        /\ s1.pend_state = s.pend_state /\ s1.pending_obj = s.pending_obj
        /\ s1.prio = s.prio /\ s1.prio_pending = s.prio_pending /\ SameNext(s1, s)
    BY <1>3 DEF DroppedRight, SameWaits, SamePrios, SameOwners
  <2>3. Released(s1, s, m)
    BY <1>8, <1>12, <2>1, <2>2
  <2>4. r = s1
    BY <1>1, <1>12
  <2> QED
    BY <2>3, <2>4 DEF r
<1> QED
  BY <1>10, <1>11, <1>12

-----------------------------------------------------------------------------
(* A task that ends releases what it owns.                                 *)

\* A list has as many entries as its set has elements.
LEMMA ListLen ==
  ASSUME NEW S, NEW list, ListOf(list, S)
  PROVE  IsFiniteSet(S) /\ Cardinality(S) = Len(list)
<1> DEFINE N == Len(list)
<1>1. N \in Nat /\ DOMAIN list = 1..N /\ list \in Seq(S)
  BY ListType
<1>2. list \in [1..N -> S]
  BY <1>1
<1> HIDE DEF N
<1>3. list \in Injection(1..N, S) /\ list \in Surjection(1..N, S)
  <2>1. \A i, j \in 1..N : list[i] = list[j] => i = j
    BY <1>1 DEF ListOf
  <2>2. \A x \in S : \E i \in 1..N : list[i] = x
    BY <1>1 DEF ListOf
  <2> QED
    BY <1>2, <2>1, <2>2 DEF Injection, Surjection, IsInjective
<1>4. IsFiniteSet(1..N) /\ Cardinality(1..N) = N
  BY <1>1, FS_Interval
<1> QED
  BY <1>3, <1>4, FS_Surjection DEF N

\* What pend_wakeup_all leaves: m's waiters, and they alone, wait no longer.
Emptied(r, s, m, state) ==
  /\ WaitsEnd(r, s, state)
  /\ Waiters(r, m) = {}
  /\ \A u \in Thread : s.pending_obj[u] # m =>
       r.pending_obj[u] = s.pending_obj[u] /\ r.pend_state[u] = s.pend_state[u]

\* pend_wakeup_all, by induction over the waiters.
LEMMA WakeupAll ==
  ASSUME NEW s, Struct(s), NEW m \in Mutex, NEW state \in PendState
  PROVE  Emptied(pend_wakeup_all(s, m, state), s, m, state)
<1> DEFINE n == Len(s.pend_list[m])
           Is(f) == [i \in 0..n |-> IF i = 0 THEN s
                       ELSE pend_task_wakeup(f[i - 1], Head(f[i - 1].pend_list[m]), state)]
           woken == CHOOSE f : f = Is(f)
<1>1. n \in Nat /\ n = Cardinality(Waiters(s, m))
  <2>1. ListOf(s.pend_list[m], Waiters(s, m))
    BY DEF Struct, PendOK
  <2> QED
    BY <2>1, ListLen, ListType
<1>2. woken = Is(woken)
  <2>1. \E f : f = Is(f)
    <3>1. PICK f : f = Loop("pend_wakeup_all", s, m, state, s, n, f)
      <4> HIDE DEF n
      <4> QED
        BY <1>1, LoopDefined
    <3>2. \A i : LoopStep("pend_wakeup_all", s, m, state, i, f[i - 1])
                   = pend_task_wakeup(f[i - 1], Head(f[i - 1].pend_list[m]), state)
      BY DEF LoopStep
    <3>3. f = Is(f)
      <4> HIDE DEF n
      <4> QED
        BY <3>1, <3>2 DEF Loop
    <3> QED
      BY <3>3
  <2> HIDE DEF Is
  <2> QED
    BY <2>1
<1>3. pend_wakeup_all(s, m, state) = woken[n]
  BY DEF pend_wakeup_all
<1> HIDE DEF woken
<1>4. /\ woken[0] = s
      /\ \A i \in 1..n : woken[i] = pend_task_wakeup(woken[i - 1],
                                       Head(woken[i - 1].pend_list[m]), state)
  <2> HIDE DEF n
  <2>1. 0 \in 0..n /\ \A i \in 1..n : i \in 0..n /\ i # 0
    BY <1>1
  <2> QED
    BY <1>2, <2>1
<1> DEFINE Others(r) == \A u \in Thread : s.pending_obj[u] # m =>
             r.pending_obj[u] = s.pending_obj[u] /\ r.pend_state[u] = s.pend_state[u]
           Right(i) == /\ WaitsEnd(woken[i], s, state) /\ Others(woken[i])
                       /\ Cardinality(Waiters(woken[i], m)) = n - i
           T == {i \in Nat : i <= n => Right(i)}
<1>5. 0 \in T
  <2>1. Cardinality(Waiters(s, m)) = n - 0
    BY <1>1
  <2> HIDE DEF n
  <2> QED
    BY <1>4, <2>1, WaitsEndSelf
<1>6. ASSUME NEW i \in Nat, i \in T PROVE i + 1 \in T
  <2> SUFFICES ASSUME i + 1 <= n PROVE Right(i + 1)
    OBVIOUS
  <2> DEFINE x == woken[i]
             y == woken[i + 1]
             t == Head(x.pend_list[m])
  <2>1. y = pend_task_wakeup(x, t, state)
    <3>1. i + 1 \in 1..n /\ i + 1 - 1 = i
      BY <1>1
    <3> QED
      BY <1>4, <3>1
  <2>2. WaitsEnd(x, s, state) /\ Others(x) /\ Cardinality(Waiters(x, m)) = n - i
    BY <1>1, <1>6
  <2>3. n - i # 0 /\ n - i - 1 = n - (i + 1)
    BY <1>1
  <2> HIDE DEF x, y, n
  <2>4. Struct(x) /\ x \in KState
    BY <2>2 DEF WaitsEnd, Struct
  <2>5. ListOf(x.pend_list[m], Waiters(x, m))
    BY <2>4 DEF Struct, PendOK
  <2>6. IsFiniteSet(Waiters(x, m)) /\ Waiters(x, m) # {}
    BY <2>2, <2>3, <2>5, ListLen, FS_EmptySet
  <2>7. t \in Waiters(x, m)
    BY <2>5, <2>6, HeadOfList
  <2> HIDE DEF t
  <2>8. /\ t \in Task /\ t \in Thread /\ x.pending_obj[t] = m /\ m # NoMutex
        /\ t \notin Ready(x) /\ t \notin x.deleted
    BY <2>4, <2>7, ConstantsAssumption, ReadyIs DEF Waiters, Struct, Thread
  <2>9. Woken(y, x, t, state)
    BY <2>1, <2>4, <2>8, Wakeup
  <2>10. WaitsEnd(y, x, state)
    BY <2>4, <2>8, <2>9, WokenEnds
  <2>11. WaitsEnd(y, s, state)
    BY <2>2, <2>10, WaitsEndTwice
  <2>12. x.pending_obj \in [Thread -> Mutex \cup {NoMutex}] /\ x.pend_state \in [Thread -> PendState]
    BY <2>4 DEF KState
  <2>13. Others(y)
    <3> SUFFICES ASSUME NEW u \in Thread, s.pending_obj[u] # m
                 PROVE  /\ y.pending_obj[u] = s.pending_obj[u]
                        /\ y.pend_state[u] = s.pend_state[u]
      OBVIOUS
    <3>1. x.pending_obj[u] = s.pending_obj[u] /\ x.pend_state[u] = s.pend_state[u]
      BY <2>2
    <3>2. u # t
      BY <2>8, <3>1
    <3> QED
      BY <2>9, <2>12, <3>1, <3>2 DEF Woken
  <2>14. Waiters(y, m) = Waiters(x, m) \ {t}
    BY <2>8, <2>9, <2>12 DEF Woken, Waiters, Thread
  <2>15. Cardinality(Waiters(y, m)) = n - (i + 1)
    BY <2>2, <2>3, <2>6, <2>7, <2>14, FS_RemoveElement
  <2> QED
    BY <2>11, <2>13, <2>15 DEF y
<1>7. Nat \subseteq T
  <2> HIDE DEF T
  <2> QED
    BY <1>5, <1>6, Induction
<1>8. Right(n)
  <2> HIDE DEF Right
  <2> QED
    BY <1>1, <1>7
<1>9. Waiters(woken[n], m) = {}
  <2>1. Struct(woken[n]) /\ Cardinality(Waiters(woken[n], m)) = 0
    BY <1>1, <1>8 DEF WaitsEnd
  <2>2. IsFiniteSet(Waiters(woken[n], m))
    <3> HIDE DEF n
    <3>1. ListOf(woken[n].pend_list[m], Waiters(woken[n], m))
      BY <2>1 DEF Struct, PendOK
    <3> QED
      BY <3>1, ListLen
  <2> HIDE DEF n
  <2> QED
    BY <2>1, <2>2, FS_EmptySet
<1> QED
  BY <1>3, <1>8, <1>9 DEF Emptied

\* From s to r the task t, which ends, has released mutexes, with the
\* scheduler locked.
Dying(r, s, t) ==
  /\ Struct(r) /\ OwnOK(r)
  /\ SameNext(r, s) /\ SameRest(r, s) /\ KeepsTicks(r, s)
  /\ Ready(s) \subseteq Ready(r)
  /\ \A u \in Thread : u # t =>
       r.prio[u] = s.prio[u] /\ r.prio_pending[u] = s.prio_pending[u]
  /\ \A o \in Mutex :
       \/ r.owner[o] = s.owner[o] /\ r.owner_orig_prio[o] = s.owner_orig_prio[o]
       \/ s.owner[o] = t /\ r.owner[o] = NoTask /\ Waiters(r, o) = {}
  /\ \A u \in Thread :
       \/ r.pending_obj[u] = s.pending_obj[u] /\ r.pend_state[u] = s.pend_state[u]
       \/ /\ s.pending_obj[u] \in Mutex /\ s.owner[s.pending_obj[u]] = t
          /\ r.pending_obj[u] = NoMutex /\ r.pend_state[u] = "OWNER_DIE"
  /\ \A b \in 0..PrioIdle - 1 :
       /\ s.prio_pending[t] \in {INVALID, b}
       /\ \A o \in Mutex : s.owner[o] = t => s.owner_orig_prio[o] = b
       /\ s.mutex_own_list[t] = <<>> => s.prio[t] = b
       => /\ r.prio_pending[t] \in {INVALID, b}
          /\ r.mutex_own_list[t] = <<>> => r.prio[t] = b

LEMMA DyingSelf ==
  ASSUME NEW s, Struct(s), OwnOK(s), NEW t
  PROVE  Dying(s, s, t)
<1>1. SameNext(s, s) /\ SameRest(s, s) /\ KeepsTicks(s, s)
  BY DEF SameNext, SameRest, KeepsTicks
<1> QED
  BY <1>1 DEF Dying

\* A task that ends releases mutexes, and more of them after that.
LEMMA DyingTwice ==
  ASSUME NEW s, Struct(s), NEW q, NEW r, NEW t \in Task, Dying(q, s, t), Dying(r, q, t)
  PROVE  Dying(r, s, t)
<1>1. /\ Struct(r) /\ OwnOK(r) /\ Ready(s) \subseteq Ready(r)
      /\ \A u \in Thread : u # t =>
           r.prio[u] = s.prio[u] /\ r.prio_pending[u] = s.prio_pending[u]
  BY DEF Dying
<1>2. SameNext(r, s) /\ SameRest(r, s)
  BY DEF Dying, SameNext, SameRest
<1>3. KeepsTicks(r, s)
  BY DEF Dying, KeepsTicks
<1>4. NoTask # t /\ NoMutex \notin Mutex
  BY ConstantsAssumption DEF Thread
<1>5. ASSUME NEW o \in Mutex
      PROVE  \/ r.owner[o] = s.owner[o] /\ r.owner_orig_prio[o] = s.owner_orig_prio[o]
             \/ s.owner[o] = t /\ r.owner[o] = NoTask /\ Waiters(r, o) = {}
  <2>1. CASE r.owner[o] = q.owner[o] /\ r.owner_orig_prio[o] = q.owner_orig_prio[o]
    <3>1. CASE q.owner[o] = s.owner[o] /\ q.owner_orig_prio[o] = s.owner_orig_prio[o]
      BY <2>1, <3>1
    <3>2. CASE s.owner[o] = t /\ q.owner[o] = NoTask /\ Waiters(q, o) = {}
      <4>1. Waiters(r, o) = {}
        <5>1. \A u \in Task : r.pending_obj[u] \in {q.pending_obj[u], NoMutex}
          BY DEF Dying, Thread
        <5> QED
          BY <1>4, <3>2, <5>1 DEF Waiters
      <4> QED
        BY <2>1, <3>2, <4>1
    <3> QED
      BY <3>1, <3>2 DEF Dying
  <2>2. CASE q.owner[o] = t /\ r.owner[o] = NoTask /\ Waiters(r, o) = {}
    <3>1. s.owner[o] = t
      BY <1>4, <2>2 DEF Dying
    <3> QED
      BY <2>2, <3>1
  <2> QED
    BY <2>1, <2>2 DEF Dying
<1>6. ASSUME NEW u \in Thread
      PROVE  \/ r.pending_obj[u] = s.pending_obj[u] /\ r.pend_state[u] = s.pend_state[u]
             \/ /\ s.pending_obj[u] \in Mutex /\ s.owner[s.pending_obj[u]] = t
                /\ r.pending_obj[u] = NoMutex /\ r.pend_state[u] = "OWNER_DIE"
  <2>1. CASE r.pending_obj[u] = q.pending_obj[u] /\ r.pend_state[u] = q.pend_state[u]
    BY <2>1 DEF Dying
  <2>2. CASE /\ q.pending_obj[u] \in Mutex /\ q.owner[q.pending_obj[u]] = t
             /\ r.pending_obj[u] = NoMutex /\ r.pend_state[u] = "OWNER_DIE"
    <3>1. q.pending_obj[u] = s.pending_obj[u]
      BY <1>4, <2>2 DEF Dying
    <3>2. s.owner[s.pending_obj[u]] = t
      BY <1>4, <2>2, <3>1 DEF Dying
    <3> QED
      BY <2>2, <3>1, <3>2
  <2> QED
    BY <2>1, <2>2 DEF Dying
<1>7. ASSUME NEW b \in 0..PrioIdle - 1,
             s.prio_pending[t] \in {INVALID, b},
             \A o \in Mutex : s.owner[o] = t => s.owner_orig_prio[o] = b,
             s.mutex_own_list[t] = <<>> => s.prio[t] = b
      PROVE  /\ r.prio_pending[t] \in {INVALID, b}
             /\ r.mutex_own_list[t] = <<>> => r.prio[t] = b
  <2>1. /\ q.prio_pending[t] \in {INVALID, b}
        /\ q.mutex_own_list[t] = <<>> => q.prio[t] = b
    BY <1>7 DEF Dying
  <2>2. \A o \in Mutex : q.owner[o] = t => q.owner_orig_prio[o] = b
    BY <1>4, <1>7 DEF Dying
  <2> QED
    BY <2>1, <2>2 DEF Dying
<1> QED
  BY <1>1, <1>2, <1>3, <1>5, <1>6, <1>7 DEF Dying

\* One round of task_mutex_release.
LEMMA MutexRelease ==
  ASSUME NEW s, Struct(s), OwnOK(s), s.sched_locked, NEW t \in Task, t \notin s.deleted,
         NEW m \in Mutex, s.owner[m] = t
  PROVE  /\ Dying(mutex_release(s, m), s, t)
         /\ Len(mutex_release(s, m).mutex_own_list[t]) = Len(s.mutex_own_list[t]) - 1
<1> DEFINE q == mutex_old_owner_release(s, m)
           r == mutex_release(s, m)
<1>1. NoTask # t /\ NoMutex \notin Mutex /\ s \in KState
  BY ConstantsAssumption DEF Thread, Struct
<1>2. Released(q, s, m)
  BY <1>1, Release
<1> HIDE DEF q
<1>3. Struct(q) /\ "OWNER_DIE" \in PendState
  BY <1>2 DEF Released, PendState
<1>4. Emptied(r, q, m, "OWNER_DIE")
  <2>1. r = pend_wakeup_all(q, m, "OWNER_DIE")
    BY DEF mutex_release, q
  <2> QED
    BY <1>3, <2>1, WakeupAll
<1> HIDE DEF r
<1>5. WaitsEnd(r, q, "OWNER_DIE")
  BY <1>4 DEF Emptied
<1>6. /\ SamePrios(r, q) /\ SameOwners(r, q) /\ SameNext(r, q) /\ SameRest(r, q)
      /\ Struct(r) /\ Ready(q) \subseteq Ready(r) /\ KeepsTicks(r, q)
  BY <1>5 DEF WaitsEnd
<1>7. OwnOK(r)
  BY <1>2, <1>6, OwnSame DEF Released
<1>8. /\ SameTimes(q, s) /\ SameNext(q, s) /\ SameRest(q, s) /\ Ready(q) = Ready(s)
      /\ q.pend_state = s.pend_state /\ q.pending_obj = s.pending_obj
  BY <1>2 DEF Released
<1>9. KeepsTicks(q, s)
  BY <1>8, TicksAlone DEF KeepsTicks, SameTimes, TimesOf
<1>10. KeepsTicks(r, s)
  BY <1>6, <1>9 DEF KeepsTicks
<1>11. SameNext(r, s) /\ SameRest(r, s) /\ Ready(s) \subseteq Ready(r)
  BY <1>6, <1>8 DEF SameNext, SameRest
<1>12. \A u \in Thread : u # t =>
         r.prio[u] = s.prio[u] /\ r.prio_pending[u] = s.prio_pending[u]
  BY <1>2, <1>6 DEF Released, SamePrios
<1>13. /\ r.owner = [s.owner EXCEPT ![m] = NoTask]
       /\ r.owner_orig_prio = [s.owner_orig_prio EXCEPT ![m] = INVALID]
       /\ r.mutex_own_list = q.mutex_own_list
       /\ s.owner \in [Mutex -> Task \cup {NoTask}]
       /\ s.owner_orig_prio \in [Mutex -> 0..INVALID]
  BY <1>1, <1>2, <1>6 DEF Released, SameOwners, KState
<1>14. ASSUME NEW o \in Mutex
       PROVE  \/ r.owner[o] = s.owner[o] /\ r.owner_orig_prio[o] = s.owner_orig_prio[o]
              \/ s.owner[o] = t /\ r.owner[o] = NoTask /\ Waiters(r, o) = {}
  <2>1. CASE o # m
    BY <1>13, <2>1
  <2>2. CASE o = m
    BY <1>4, <1>13, <2>2 DEF Emptied
  <2> QED
    BY <2>1, <2>2
<1>15. ASSUME NEW u \in Thread
       PROVE  \/ r.pending_obj[u] = s.pending_obj[u] /\ r.pend_state[u] = s.pend_state[u]
              \/ /\ s.pending_obj[u] \in Mutex /\ s.owner[s.pending_obj[u]] = t
                 /\ r.pending_obj[u] = NoMutex /\ r.pend_state[u] = "OWNER_DIE"
  <2>1. CASE s.pending_obj[u] # m
    BY <1>4, <1>8, <2>1 DEF Emptied
  <2>2. CASE s.pending_obj[u] = m
    BY <1>5, <1>8, <2>2 DEF WaitsEnd
  <2> QED
    BY <2>1, <2>2
<1>16. ASSUME NEW b \in 0..PrioIdle - 1,
              s.prio_pending[t] \in {INVALID, b},
              \A o \in Mutex : s.owner[o] = t => s.owner_orig_prio[o] = b
       PROVE  /\ r.prio_pending[t] \in {INVALID, b}
              /\ r.mutex_own_list[t] = <<>> => r.prio[t] = b
  <2>1. s.owner_orig_prio[m] = b
    BY <1>16
  <2> QED
    BY <1>2, <1>6, <1>13, <1>16, <2>1 DEF Released, SamePrios
<1>17. Dying(r, s, t)
  BY <1>6, <1>7, <1>10, <1>11, <1>12, <1>14, <1>15, <1>16 DEF Dying
<1>18. Len(r.mutex_own_list[t]) = Len(s.mutex_own_list[t]) - 1
  BY <1>2, <1>13 DEF Released
<1> QED
  BY <1>17, <1>18 DEF r

\* task_mutex_release, by induction over what the task owns.
LEMMA TaskMutexRelease ==
  ASSUME NEW s, Struct(s), OwnOK(s), s.sched_locked, NEW t \in Task, t \notin s.deleted
  PROVE  /\ Dying(task_mutex_release(s, t), s, t)
         /\ task_mutex_release(s, t).mutex_own_list[t] = <<>>
<1> DEFINE n == Len(s.mutex_own_list[t])
           Is(f) == [i \in 0..n |-> IF i = 0 THEN s
                       ELSE mutex_release(f[i - 1], Head(f[i - 1].mutex_own_list[t]))]
           released == CHOOSE f : f = Is(f)
<1>1. n \in Nat /\ s \in KState /\ t \in Thread
  <2>1. s \in KState /\ t \in Thread
    BY DEF Struct, Thread
  <2>2. s.mutex_own_list[t] \in Seq(Mutex)
    BY <2>1 DEF KState
  <2> QED
    BY <2>1, <2>2
<1>2. released = Is(released)
  <2>1. \E f : f = Is(f)
    <3>1. PICK f : f = Loop("task_mutex_release", s, t, 0, s, n, f)
      <4> HIDE DEF n
      <4> QED
        BY <1>1, LoopDefined
    <3>2. \A i : LoopStep("task_mutex_release", s, t, 0, i, f[i - 1])
                   = mutex_release(f[i - 1], Head(f[i - 1].mutex_own_list[t]))
      BY DEF LoopStep
    <3>3. f = Is(f)
      <4> HIDE DEF n
      <4> QED
        BY <3>1, <3>2 DEF Loop
    <3> QED
      BY <3>3
  <2> HIDE DEF Is
  <2> QED
    BY <2>1
<1>3. task_mutex_release(s, t) = released[n]
  BY DEF task_mutex_release
<1> HIDE DEF released
<1>4. /\ released[0] = s
      /\ \A i \in 1..n : released[i] = mutex_release(released[i - 1],
                                         Head(released[i - 1].mutex_own_list[t]))
  <2> HIDE DEF n
  <2>1. 0 \in 0..n /\ \A i \in 1..n : i \in 0..n /\ i # 0
    BY <1>1
  <2> QED
    BY <1>2, <2>1
<1> DEFINE Right(i) == /\ Dying(released[i], s, t)
                       /\ Len(released[i].mutex_own_list[t]) = n - i
           T == {i \in Nat : i <= n => Right(i)}
<1>5. 0 \in T
  <2>1. Len(s.mutex_own_list[t]) = n - 0
    BY <1>1
  <2> HIDE DEF n
  <2> QED
    BY <1>4, <2>1, DyingSelf
<1>6. ASSUME NEW i \in Nat, i \in T PROVE i + 1 \in T
  <2> SUFFICES ASSUME i + 1 <= n PROVE Right(i + 1)
    OBVIOUS
  <2> DEFINE x == released[i]
             y == released[i + 1]
             m == Head(x.mutex_own_list[t])
  <2>1. y = mutex_release(x, m)
    <3>1. i + 1 \in 1..n /\ i + 1 - 1 = i
      BY <1>1
    <3> QED
      BY <1>4, <3>1
  <2>2. Dying(x, s, t) /\ Len(x.mutex_own_list[t]) = n - i
    BY <1>1, <1>6
  <2>3. n - i # 0 /\ n - i - 1 = n - (i + 1)
    BY <1>1
  <2> HIDE DEF x, y, n
  <2>4. Struct(x) /\ x \in KState /\ OwnOK(x) /\ x.sched_locked /\ t \notin x.deleted
    BY <2>2 DEF Dying, Struct, SameRest
  <2>5. x.mutex_own_list[t] # <<>>
    BY <2>2, <2>3
  <2>6. m \in Mutex /\ x.owner[m] = t
    BY <1>1, <2>4, <2>5, OwnIs
  <2> HIDE DEF m
  <2>7. /\ Dying(y, x, t)
        /\ Len(y.mutex_own_list[t]) = Len(x.mutex_own_list[t]) - 1
    BY <2>1, <2>4, <2>6, MutexRelease
  <2>8. Dying(y, s, t)
    BY <2>2, <2>7, DyingTwice
  <2> QED
    BY <2>2, <2>3, <2>7, <2>8 DEF y
<1>7. Nat \subseteq T
  <2> HIDE DEF T
  <2> QED
    BY <1>5, <1>6, Induction
<1>8. Right(n)
  <2> HIDE DEF Right
  <2> QED
    BY <1>1, <1>7
<1>9. released[n].mutex_own_list[t] = <<>>
  <2>1. Len(released[n].mutex_own_list[t]) = 0
    BY <1>1, <1>8
  <2> HIDE DEF n
  <2>2. released[n] \in KState
    BY <1>8 DEF Dying, Struct
  <2>3. released[n].mutex_own_list[t] \in Seq(Mutex)
    BY <1>1, <2>2 DEF KState
  <2> QED
    BY <2>1, <2>3
<1> QED
  BY <1>3, <1>8, <1>9

-----------------------------------------------------------------------------
(* What each call leaves.                                                  *)

\* t is a ready thread of the best priority.
Best(s, t) == t \in Ready(s) /\ \A u \in Ready(s) : s.prio[t] <= s.prio[u]

\* k_next_task is the best, and the best has the cached priority.
LEMMA BestIs ==
  ASSUME NEW s, Struct(s)
  PROVE  /\ Best(s, highest_ready_task(s))
         /\ \A t : Best(s, t) => s.prio[t] = s.highest_prio
<1>1. /\ s \in KState /\ QueueOK(s, Ready(s)) /\ Ready(s) \in SUBSET Thread
      /\ s.prio \in [Thread -> Prio] /\ s.highest_prio \in Prio
  BY ReadyIs DEF Struct, KState
<1>2. /\ highest_ready_task(s) \in Ready(s)
      /\ s.prio[highest_ready_task(s)] = s.highest_prio
      /\ \A u \in Ready(s) : s.highest_prio <= s.prio[u]
  BY <1>1, HighestReady
<1>3. ASSUME NEW t, Best(s, t) PROVE s.prio[t] = s.highest_prio
  <2>1. t \in Ready(s) /\ s.prio[t] <= s.highest_prio /\ s.highest_prio <= s.prio[t]
    BY <1>2, <1>3 DEF Best
  <2>2. s.prio[t] \in Nat /\ s.highest_prio \in Nat
    BY <1>1, <2>1, PrioFacts
  <2> QED
    BY <2>1, <2>2
<1> QED
  BY <1>2, <1>3 DEF Best

\* Only who owns what differs.
OnlyOwners(r, s) ==
  /\ Struct(r) /\ OwnOK(r)
  /\ SamePrios(r, s) /\ SameQueue(r, s) /\ SameWaits(r, s) /\ SameTimes(r, s)
  /\ SameNext(r, s) /\ SameRest(r, s) /\ r.pend_state = s.pend_state
  /\ Ready(r) = Ready(s) /\ Sleeping(r) = Sleeping(s)

\* A pend_nesting changes.
LEMMA Nest ==
  ASSUME NEW s, Struct(s), OwnOK(s), NEW m \in Mutex, NEW n \in Nat \ {0},
         s.owner[m] # NoTask
  PROVE  LET r == [s EXCEPT !.pend_nesting[m] = n] IN
         /\ OnlyOwners(r, s) /\ r.owner = s.owner
         /\ r.owner_orig_prio = s.owner_orig_prio
<1> DEFINE r == [s EXCEPT !.pend_nesting[m] = n]
           nesting == [s.pend_nesting EXCEPT ![m] = n]
<1>1. s \in KState
  BY DEF Struct
<1>2. /\ r = [s EXCEPT !.pend_nesting = nesting] /\ nesting \in [Mutex -> Nat]
      /\ \A o \in Mutex : nesting[o] = 0 <=> s.owner[o] = NoTask
  <2>1. s.pend_nesting \in [Mutex -> Nat]
    BY <1>1 DEF KState
  <2>2. \A o \in Mutex : s.pend_nesting[o] = 0 <=> s.owner[o] = NoTask
    BY DEF OwnOK
  <2>3. nesting \in [Mutex -> Nat] /\ \A o \in Mutex : nesting[o] = 0 <=> s.owner[o] = NoTask
    BY <2>1, <2>2
  <2> QED
    BY <1>1, <2>3 DEF KState
<1> HIDE DEF r, nesting
<1>3. /\ r \in KState /\ r.owner = s.owner /\ r.owner_orig_prio = s.owner_orig_prio
      /\ r.pend_nesting = nesting /\ r.mutex_own_list = s.mutex_own_list
      /\ SamePrios(r, s) /\ SameQueue(r, s) /\ SameWaits(r, s) /\ SameTimes(r, s)
      /\ SameNext(r, s) /\ SameRest(r, s) /\ r.pend_state = s.pend_state
  BY <1>1, <1>2 DEF KState, SamePrios, SameQueue, SameWaits, SameTimes, SameNext, SameRest
<1>4. OwnOK(r)
  BY <1>2, <1>3 DEF OwnOK
<1>5. SameStruct(r, s)
  BY <1>3 DEF SameStruct, SamePrios, SameRest, SameTimes
<1>6. Struct(r) /\ Ready(r) = Ready(s) /\ Sleeping(r) = Sleeping(s)
  BY <1>3, <1>5, StructSame
<1> QED
  BY <1>3, <1>4, <1>6 DEF OnlyOwners, r

\* What tos_mutex_pend_timed leaves when the task waits.
Waiting(r, s, t, m, timeout) ==
  LET o == s.owner[m] IN
  /\ Struct(r) /\ OwnOK(r) /\ SameOwners(r, s) /\ SameRest(r, s)
  /\ r.pending_obj = [s.pending_obj EXCEPT ![t] = m]
  /\ r.pend_state = [s.pend_state EXCEPT ![t] = "NONE"]
  /\ Ready(r) = Ready(s) \ {t}
  /\ \A u \in Thread : u # o =>
       r.prio[u] = s.prio[u] /\ r.prio_pending[u] = s.prio_pending[u]
  /\ r.prio[o] <= s.prio[t] /\ r.prio[o] <= s.prio[o]
  /\ \A n \in Mutex : s.owner[n] = o => \A w \in Waiters(s, n) :
       r.prio[o] = s.prio[o] \/ r.prio[o] <= s.prio[w]
  /\ \A remains \in [Task -> Nat] : TicksFrom(s, remains, 1) =>
       TicksFrom(r, [remains EXCEPT ![t] = IF timeout = FOREVER THEN 0 ELSE timeout], 1)
  /\ \/ SameNext(r, s)
     \/ /\ r.next \in Ready(s) /\ (r.pendsv <=> s.pendsv \/ r.next # s.curr)
        /\ \A u \in Ready(s) : r.prio[r.next] <= r.prio[u]

\* tos_mutex_pend_timed of a mutex that another task owns.
LEMMA Waits ==
  ASSUME NEW s, Struct(s), OwnOK(s), ~s.sched_locked,
         NEW t \in Task, t \in Ready(s), NEW m \in Mutex,
         s.owner[m] \in Task \ {t}, s.owner[m] \notin s.deleted,
         NEW timeout \in Nat \ {0}
  PROVE  LET o == s.owner[m]
             q == IF s.prio[o] > s.prio[t]
                    THEN tos_task_prio_change(s, o, s.prio[t]) ELSE s
         IN Waiting(pend_task_block(q, t, m, timeout), s, t, m, timeout)
<1> DEFINE o == s.owner[m]
           q == IF s.prio[o] > s.prio[t]
                  THEN tos_task_prio_change(s, o, s.prio[t]) ELSE s
           r == pend_task_block(q, t, m, timeout)
<1>1. /\ s \in KState /\ t \in Thread /\ o \in Thread /\ o \in Task /\ o # t
      /\ s.prio[t] \in Nat /\ s.prio[t] < PrioIdle /\ s.prio[o] \in Nat
  <2>1. s \in KState /\ t \in Thread /\ o \in Thread /\ o \in Task /\ o # t /\ s.prio[t] < PrioIdle
    BY DEF Struct, Thread
  <2>2. s.prio[t] \in Prio /\ s.prio[o] \in Prio
    BY <2>1 DEF KState
  <2> QED
    BY <2>1, <2>2, PrioFacts
<1> DEFINE Changed ==
         /\ Struct(q) /\ OnlyPrio(q, s, o)
         /\ q.prio[o] <= s.prio[t] /\ q.prio[o] <= s.prio[o]
         /\ \A n \in Mutex : s.owner[n] = o => \A w \in Waiters(s, n) :
              q.prio[o] = s.prio[o] \/ q.prio[o] <= s.prio[w]
         /\ SameNext(q, s) \/ Dispatched(q, s)
<1>2. Changed
  <2>1. CASE s.prio[o] > s.prio[t]
    <3>1. q = tos_task_prio_change(s, o, s.prio[t])
      BY <2>1
    <3>2. PrioChanged(q, s, o, s.prio[t])
      <4> HIDE DEF q, o
      <4> QED
        BY <1>1, <3>1, PrioChange
    <3>3. \A n \in Mutex : s.owner[n] = o => n \in ToSet(s.mutex_own_list[o])
      BY <1>1, OwnIs
    <3> HIDE DEF q
    <3>4. q.prio[o] \in Nat
      <4>1. q \in KState
        BY <3>2 DEF PrioChanged, OnlyPrio
      <4>2. q.prio[o] \in Prio
        BY <1>1, <4>1 DEF KState
      <4> QED
        BY <4>2, PrioFacts
    <3>5. /\ q.prio[o] <= s.prio[t]
          /\ \A n \in ToSet(s.mutex_own_list[o]) : \A w \in Waiters(s, n) :
               q.prio[o] = s.prio[o] \/ q.prio[o] <= s.prio[w]
      BY <1>1, <3>2 DEF PrioChanged
    <3>6. q.prio[o] <= s.prio[o]
      BY <1>1, <2>1, <3>4, <3>5
    <3>7. SameNext(q, s) \/ Dispatched(q, s)
      BY <3>2 DEF PrioChanged, Dispatched
    <3> QED
      BY <3>2, <3>3, <3>5, <3>6, <3>7 DEF PrioChanged
  <2>2. CASE ~(s.prio[o] > s.prio[t])
    <3>1. q = s
      BY <2>2
    <3>2. s.prio[o] <= s.prio[t] /\ s.prio[o] <= s.prio[o]
      BY <1>1, <2>2
    <3> HIDE DEF q
    <3> QED
      BY <1>1, <3>1, <3>2 DEF OnlyPrio, SameTimes, SameOwners, SameRest, SameNext
  <2> QED
    BY <2>1, <2>2
<1> HIDE DEF q, o
<1>3. Ready(q) = Ready(s) /\ Sleeping(q) = Sleeping(s) /\ q \in KState
  BY <1>2 DEF Ready, IsReady, IsPending, Sleeping, IsSleeping, OnlyPrio, SameTimes, SameRest
<1>4. Blocked(r, q, t, m, timeout)
  <2> HIDE DEF r
  <2> QED
    BY <1>2, <1>3, Block DEF r
<1> HIDE DEF r
<1>5. /\ Struct(r) /\ SamePrios(r, q) /\ SameOwners(r, s) /\ SameRest(r, s) /\ SameNext(r, q)
      /\ r.pending_obj = [s.pending_obj EXCEPT ![t] = m]
      /\ r.pend_state = [s.pend_state EXCEPT ![t] = "NONE"]
      /\ Ready(r) = Ready(s) \ {t}
  BY <1>2, <1>3, <1>4 DEF Blocked, OnlyPrio, SameOwners, SameRest
<1>6. OwnOK(r)
  BY <1>5, OwnSame
<1>7. /\ \A u \in Thread : u # o =>
           r.prio[u] = s.prio[u] /\ r.prio_pending[u] = s.prio_pending[u]
      /\ r.prio[o] <= s.prio[t] /\ r.prio[o] <= s.prio[o]
      /\ \A n \in Mutex : s.owner[n] = o => \A w \in Waiters(s, n) :
           r.prio[o] = s.prio[o] \/ r.prio[o] <= s.prio[w]
  BY <1>2, <1>5 DEF OnlyPrio, SamePrios
<1>8. ASSUME NEW remains \in [Task -> Nat], TicksFrom(s, remains, 1)
      PROVE  TicksFrom(r, [remains EXCEPT ![t] = IF timeout = FOREVER THEN 0 ELSE timeout], 1)
  <2>1. TicksFrom(q, remains, 1)
    BY <1>2, <1>8, TicksAlone DEF OnlyPrio, SameTimes, TimesOf
  <2>2. t \notin Sleeping(q) /\ ListOf(q.tick_list, Sleeping(q))
    BY <1>2, ReadyIs, <1>3 DEF Struct
  <2>3. CASE timeout # FOREVER
    <3>1. TicksFrom(tick_task_place(q, t, timeout), [remains EXCEPT ![t] = timeout], 1)
      <4>1. 1 \in Nat /\ timeout \in Nat /\ 1 <= timeout
        OBVIOUS
      <4> QED
        BY <1>3, <2>1, <2>2, <4>1, PlaceKeepsTicks
    <3>2. TimesOf(r, tick_task_place(q, t, timeout))
      BY <1>4, <2>3 DEF Blocked
    <3> QED
      BY <2>3, <3>1, <3>2, TicksAlone
  <2>4. CASE timeout = FOREVER
    <3> DEFINE new == [remains EXCEPT ![t] = 0]
               l == q.tick_list
    <3>1. \A u \in Task : u # t => new[u] = remains[u]
      OBVIOUS
    <3>2. \A i \in 1..Len(l) : l[i] \in Task /\ l[i] # t
      <4>1. DOMAIN l = 1..Len(l) /\ \A i \in DOMAIN l : l[i] \in Sleeping(q)
        BY <2>2, ListType
      <4> QED
        BY <2>2, <4>1 DEF Sleeping
    <3>3. Len(l) \in Nat
      BY <2>2, ListType
    <3> HIDE DEF new, l
    <3>4. ASSUME NEW i \in 1..Len(l) PROVE Before(q, new, i) = Before(q, remains, i)
      <4>1. CASE i = 1
        BY <4>1 DEF Before
      <4>2. CASE i # 1
        <5>1. i - 1 \in 1..Len(l)
          BY <3>3, <4>2
        <5> QED
          BY <3>1, <3>2, <4>2, <5>1 DEF Before, l
      <4> QED
        BY <4>1, <4>2
    <3>5. TicksFrom(q, new, 1)
      BY <2>1, <3>1, <3>2, <3>4 DEF TicksFrom, l
    <3>6. TimesOf(r, q)
      BY <1>4, <2>4 DEF Blocked, TimesOf, SameTimes
    <3> QED
      BY <2>4, <3>5, <3>6, TicksAlone DEF new
  <2> QED
    BY <2>3, <2>4
<1>9. \/ SameNext(r, s)
      \/ /\ r.next \in Ready(s) /\ (r.pendsv <=> s.pendsv \/ r.next # s.curr)
         /\ \A u \in Ready(s) : r.prio[r.next] <= r.prio[u]
  <2>1. CASE SameNext(q, s)
    BY <1>5, <2>1 DEF SameNext
  <2>2. CASE Dispatched(q, s)
    <3>1. Best(q, q.next)
      BY <1>2, <2>2, BestIs DEF Dispatched
    <3> QED
      BY <1>3, <1>5, <2>2, <3>1 DEF Best, Dispatched, SameNext, SamePrios
  <2> QED
    BY <1>2, <2>1, <2>2
<1> QED
  BY <1>5, <1>6, <1>7, <1>8, <1>9 DEF Waiting, r, q, o

OwnsNothing(s, t) == \A m \in Mutex : s.owner[m] # t

LEMMA OwnsNothingIs ==
  ASSUME NEW s, Struct(s), OwnOK(s), NEW t \in Thread
  PROVE  OwnsNothing(s, t) <=> s.mutex_own_list[t] = <<>>
<1>1. s \in KState
  BY DEF Struct
<1> QED
  BY <1>1, OwnIs DEF OwnsNothing

\* What tos_mutex_post leaves when a waiter becomes the owner.
Passed(r, s, m, heir) ==
  LET t == s.owner[m] IN
  /\ Struct(r) /\ OwnOK(r) /\ SameRest(r, s) /\ KeepsTicks(r, s)
  /\ heir \in Waiters(s, m) /\ heir # t
  /\ r.pending_obj = [s.pending_obj EXCEPT ![heir] = NoMutex]
  /\ r.pend_state = [s.pend_state EXCEPT ![heir] = "POST"]
  /\ r.owner = [s.owner EXCEPT ![m] = heir]
  /\ r.owner_orig_prio = [s.owner_orig_prio EXCEPT ![m] = s.prio[heir]]
  /\ Ready(r) = Ready(s) \cup {heir}
  /\ \A u \in Thread : u # t =>
       r.prio[u] = s.prio[u] /\ r.prio_pending[u] = s.prio_pending[u]
  /\ \A w \in Waiters(r, m) : r.prio[heir] <= r.prio[w]
  /\ \A o \in Mutex : r.owner[o] = t => \A w \in Waiters(s, o) :
       r.prio[t] = s.prio[t] \/ r.prio[t] <= s.prio[w]
  /\ OwnsNothing(r, t) => r.prio_pending[t] = INVALID
  /\ \A b \in 0..PrioIdle - 1 :
       s.prio_pending[t] \in {INVALID, b} /\ s.owner_orig_prio[m] = b =>
         /\ r.prio_pending[t] \in {INVALID, b}
         /\ OwnsNothing(r, t) => r.prio[t] = b
  /\ r.next \in Ready(s) \/ SameNext(r, s)

\* tos_mutex_post of a mutex that somebody waits for.
LEMMA PassOn ==
  ASSUME NEW s, Struct(s), OwnOK(s), ~s.sched_locked, NEW m \in Mutex,
         s.owner[m] # NoTask, s.owner[m] \notin s.deleted,
         s.pending_obj[s.owner[m]] = NoMutex,
         mutex_old_owner_release(s, m).pend_list[m] # <<>>
  PROVE  LET q == mutex_old_owner_release(s, m)
             heir == Head(q.pend_list[m])
         IN Passed(pend_task_wakeup(mutex_new_owner_mark(q, m, heir), heir, "POST"),
                   s, m, heir)
<1> DEFINE t == s.owner[m]
           q == mutex_old_owner_release(s, m)
           heir == Head(q.pend_list[m])
           marked == mutex_fresh_owner_mark(q, m, heir)
           r == pend_task_wakeup(mutex_new_owner_mark(q, m, heir), heir, "POST")
<1>1. s \in KState /\ t \in Task /\ t \in Thread /\ NoMutex \notin Mutex
  <2>1. s \in KState
    BY DEF Struct
  <2>2. t \in Task
    BY <2>1 DEF KState
  <2> QED
    BY <2>1, <2>2, ConstantsAssumption DEF Thread
<1>2. Released(q, s, m)
  BY Release
<1>3. q.pend_list[m] # <<>>
  OBVIOUS
<1> HIDE DEF q, t
<1>4. /\ Struct(q) /\ OwnOK(q) /\ q \in KState /\ PendOK(q)
      /\ SameTimes(q, s) /\ SameRest(q, s)
      /\ q.pend_state = s.pend_state /\ q.pending_obj = s.pending_obj
      /\ Ready(q) = Ready(s) /\ Sleeping(q) = Sleeping(s)
      /\ q.owner = [s.owner EXCEPT ![m] = NoTask]
      /\ q.owner_orig_prio = [s.owner_orig_prio EXCEPT ![m] = INVALID]
      /\ \A u \in Thread : u # t =>
           q.prio[u] = s.prio[u] /\ q.prio_pending[u] = s.prio_pending[u]
  BY <1>2 DEF Released, Struct, t
<1>5. \A o : Waiters(q, o) = Waiters(s, o)
  BY <1>4 DEF Waiters
<1>6. heir \in Waiters(q, m) /\ \A w \in Waiters(q, m) : q.prio[heir] <= q.prio[w]
  <2>1. ListOf(q.pend_list[m], Waiters(q, m))
    BY <1>4 DEF PendOK
  <2>2. Waiters(q, m) # {}
    BY <1>3, <2>1, EmptyList
  <2> QED
    BY <1>4, <2>2, HeadIsBest
<1> DEFINE top == q.prio[heir]
<1>7. pend_highest_pending_prio_get(marked, m) = marked.prio[heir]
  <2>1. marked.pend_list = q.pend_list
    BY <1>4 DEF mutex_fresh_owner_mark, KState
  <2> QED
    BY <1>3, <2>1 DEF pend_highest_pending_prio_get
<1> HIDE DEF heir
<1>8. /\ heir \in Task /\ heir \in Thread /\ s.pending_obj[heir] = m /\ heir # t
      /\ q.owner[m] = NoTask
  BY <1>1, <1>4, <1>5, <1>6 DEF Waiters, Thread, KState, t
<1>9. Marked(marked, q, m, heir)
  <2> HIDE DEF marked
  <2> QED
    BY <1>4, <1>8, Mark DEF marked
<1>10. mutex_new_owner_mark(q, m, heir) = marked
  <2> DEFINE p == marked.prio[heir]
  <2>1. ~(p > p)
    <3>1. marked.prio[heir] \in Nat
      <4>1. marked \in KState
        BY <1>9 DEF Marked, Struct
      <4>2. marked.prio[heir] \in Prio
        BY <1>8, <4>1 DEF KState
      <4> QED
        BY <4>2, PrioFacts
    <3> HIDE DEF marked
    <3> QED
      BY <3>1
  <2> QED
    BY <1>7, <2>1 DEF mutex_new_owner_mark
<1>11. Woken(r, marked, heir, "POST")
  <2>1. r = pend_task_wakeup(marked, heir, "POST")
    BY <1>10
  <2>2. Struct(marked) /\ marked.deleted = s.deleted /\ marked.pending_obj = s.pending_obj
    BY <1>4, <1>9 DEF Marked, SameRest, SameWaits
  <2> HIDE DEF r, marked
  <2>3. heir \notin Ready(marked)
    BY <1>1, <1>8, <2>2 DEF Ready, IsReady, IsPending
  <2>4. heir \notin marked.deleted /\ "POST" \in PendState
    BY <1>1, <1>8, <2>2 DEF Struct, PendState
  <2> QED
    BY <1>8, <2>1, <2>2, <2>3, <2>4, Wakeup
<1> HIDE DEF r, marked, top
<1>12. /\ Struct(marked) /\ OwnOK(marked)
       /\ SamePrios(marked, q) /\ SameWaits(marked, q) /\ SameTimes(marked, q)
       /\ SameNext(marked, q) /\ SameRest(marked, q) /\ marked.pend_state = s.pend_state
       /\ marked.owner = [q.owner EXCEPT ![m] = heir]
       /\ marked.owner_orig_prio = [q.owner_orig_prio EXCEPT ![m] = q.prio[heir]]
       /\ Ready(marked) = Ready(s)
  BY <1>4, <1>9 DEF Marked
<1>13. /\ Struct(r) /\ SamePrios(r, q) /\ SameOwners(r, marked) /\ SameNext(r, q)
       /\ SameRest(r, s)
       /\ r.pending_obj = [s.pending_obj EXCEPT ![heir] = NoMutex]
       /\ r.pend_state = [s.pend_state EXCEPT ![heir] = "POST"]
       /\ Ready(r) = Ready(s) \cup {heir}
  <2>1. marked.pending_obj = s.pending_obj /\ marked.pending_obj[heir] # NoMutex
    BY <1>1, <1>4, <1>8, <1>12 DEF SameWaits
  <2> QED
    BY <1>4, <1>11, <1>12, <2>1
       DEF Woken, SamePrios, SameNext, SameRest
<1>14. OwnOK(r)
  BY <1>12, <1>13, OwnSame
<1>15. KeepsTicks(r, s)
  <2>1. KeepsTicks(r, marked)
    BY <1>8, <1>11, <1>12, WokenKeepsTicks
  <2>2. TimesOf(marked, s)
    BY <1>4, <1>12 DEF SameTimes, TimesOf
  <2> QED
    BY <2>1, <2>2, TicksAlone DEF KeepsTicks
<1>16. r.owner = [s.owner EXCEPT ![m] = heir]
  BY <1>1, <1>4, <1>12, <1>13 DEF SameOwners
<1>17. r.owner_orig_prio = [s.owner_orig_prio EXCEPT ![m] = s.prio[heir]]
  <2>1. q.prio[heir] = s.prio[heir]
    BY <1>4, <1>8
  <2> QED
    BY <1>1, <1>4, <1>12, <1>13, <2>1 DEF SameOwners
<1>18. r.prio = q.prio /\ r.prio_pending = q.prio_pending
  BY <1>13 DEF SamePrios
<1>19. \A w \in Waiters(r, m) : r.prio[heir] <= r.prio[w]
  <2>1. Waiters(r, m) \subseteq Waiters(q, m)
    BY <1>1, <1>4, <1>8, <1>13 DEF Waiters, KState, Thread
  <2> QED
    BY <1>6, <1>18, <2>1
<1>20. OwnsNothing(r, t) <=> OwnsNothing(q, t)
  <2>1. \A o \in Mutex : r.owner[o] = t <=> q.owner[o] = t
    <3>1. s.owner \in [Mutex -> Task \cup {NoTask}] /\ t # NoTask
      BY <1>1, ConstantsAssumption DEF KState, Thread
    <3> QED
      BY <1>4, <1>8, <1>16, <3>1
  <2> QED
    BY <2>1 DEF OwnsNothing
<1>21. OwnsNothing(q, t) <=> q.mutex_own_list[t] = <<>>
  BY <1>1, <1>4, OwnsNothingIs
<1>22. \A o \in Mutex : r.owner[o] = t => \A w \in Waiters(s, o) :
         r.prio[t] = s.prio[t] \/ r.prio[t] <= s.prio[w]
  <2>1. \A o \in Mutex : r.owner[o] = t => q.owner[o] = t
    <3>1. s.owner \in [Mutex -> Task \cup {NoTask}]
      BY <1>1 DEF KState
    <3> QED
      BY <1>4, <1>8, <1>16, <3>1
  <2> QED
    BY <1>2, <1>18, <2>1 DEF Released, t
<1>23. /\ OwnsNothing(r, t) => r.prio_pending[t] = INVALID
       /\ \A b \in 0..PrioIdle - 1 :
            s.prio_pending[t] \in {INVALID, b} /\ s.owner_orig_prio[m] = b =>
              /\ r.prio_pending[t] \in {INVALID, b}
              /\ OwnsNothing(r, t) => r.prio[t] = b
  BY <1>2, <1>18, <1>20, <1>21 DEF Released, t
<1>24. r.next \in Ready(s) \/ SameNext(r, s)
  <2>1. SameNext(q, s) \/ Dispatched(q, s)
    BY <1>2 DEF Released
  <2>2. CASE SameNext(q, s)
    BY <1>13, <2>2 DEF SameNext
  <2>3. CASE Dispatched(q, s)
    <3>1. q.next \in Ready(s)
      BY <1>4, <2>3, BestIs DEF Dispatched, Best
    <3> QED
      BY <1>13, <3>1 DEF SameNext
  <2> QED
    BY <2>1, <2>2, <2>3
<1>25. heir \in Waiters(s, m)
  BY <1>5, <1>6
<1>26. \A u \in Thread : u # t =>
       r.prio[u] = s.prio[u] /\ r.prio_pending[u] = s.prio_pending[u]
  BY <1>4, <1>18
<1>27. Passed(r, s, m, heir)
  BY <1>8, <1>13, <1>14, <1>15, <1>16, <1>17, <1>19, <1>22, <1>23, <1>24, <1>25, <1>26
     DEF Passed, t
<1> QED
  BY <1>27 DEF r, q, heir

\* What tos_task_destroy leaves.
Died(r, s, t) ==
  /\ Struct(r) /\ OwnOK(r)
  /\ SameNext(r, s) /\ r.curr = s.curr /\ ~r.sched_locked
  /\ r.deleted = s.deleted \cup {t}
  /\ KeepsTicks(r, s) /\ Ready(s) \ {t} \subseteq Ready(r)
  /\ \A u \in Thread : u # t =>
       r.prio[u] = s.prio[u] /\ r.prio_pending[u] = s.prio_pending[u]
  /\ r.prio_pending[t] = INVALID
  /\ \A o \in Mutex : IF s.owner[o] = t THEN r.owner[o] = NoTask
                      ELSE /\ r.owner[o] = s.owner[o]
                           /\ r.owner_orig_prio[o] = s.owner_orig_prio[o]
  /\ \A u \in Thread :
       IF s.pending_obj[u] \in Mutex /\ s.owner[s.pending_obj[u]] = t
         THEN r.pending_obj[u] = NoMutex /\ (u # t => r.pend_state[u] = "OWNER_DIE")
         ELSE /\ r.pending_obj[u] = s.pending_obj[u]
              /\ u # t => r.pend_state[u] = s.pend_state[u]
  /\ \A b \in 0..PrioIdle - 1 :
       /\ s.prio_pending[t] \in {INVALID, b}
       /\ \A o \in Mutex : s.owner[o] = t => s.owner_orig_prio[o] = b
       /\ OwnsNothing(s, t) => s.prio[t] = b
       => r.prio[t] = b

\* tos_task_destroy of the task that runs.
LEMMA Die ==
  ASSUME NEW s, Struct(s), OwnOK(s), ~s.sched_locked, NEW t \in Task, t \in Ready(s)
  PROVE  LET s1 == task_mutex_release([s EXCEPT !.sched_locked = TRUE], t)
             s2 == readyqueue_remove(s1, t)
         IN Died([s2 EXCEPT !.prio_pending[t] = INVALID, !.pend_state[t] = "NONE",
                            !.sched_locked = FALSE, !.deleted = @ \cup {t}], s, t)
<1> DEFINE s0 == [s EXCEPT !.sched_locked = TRUE]
           s1 == task_mutex_release(s0, t)
           s2 == readyqueue_remove(s1, t)
           r == [s2 EXCEPT !.prio_pending[t] = INVALID, !.pend_state[t] = "NONE",
                           !.sched_locked = FALSE, !.deleted = @ \cup {t}]
<1>1. /\ s \in KState /\ t \in Thread /\ t # Idle /\ t \notin s.deleted
      /\ NoMutex \notin Mutex /\ NoTask \notin Thread
  <2>1. s \in KState /\ t \in Thread
    BY DEF Struct, Thread
  <2> QED
    BY <2>1, ReadyIs, ConstantsAssumption
<1>2. /\ s0 \in KState /\ s0.sched_locked /\ s0.curr = s.curr /\ s0.deleted = s.deleted
      /\ SamePrios(s0, s) /\ SameQueue(s0, s) /\ SameWaits(s0, s) /\ SameTimes(s0, s)
      /\ SameOwners(s0, s) /\ SameNext(s0, s) /\ s0.pend_state = s.pend_state
  BY <1>1 DEF KState, SamePrios, SameQueue, SameWaits, SameTimes, SameOwners, SameNext
<1> HIDE DEF s0
<1>3. Struct(s0) /\ OwnOK(s0) /\ Ready(s0) = Ready(s)
  <2>1. SameStruct(s0, s)
    BY <1>2 DEF SameStruct, SamePrios, SameTimes
  <2> QED
    BY <1>2, <2>1, StructSame, OwnSame
<1>4. Dying(s1, s0, t) /\ s1.mutex_own_list[t] = <<>>
  BY <1>1, <1>2, <1>3, TaskMutexRelease
<1> HIDE DEF s1
<1>5. /\ Struct(s1) /\ OwnOK(s1) /\ s1 \in KState
      /\ SameNext(s1, s) /\ s1.curr = s.curr /\ s1.deleted = s.deleted
      /\ KeepsTicks(s1, s) /\ Ready(s) \subseteq Ready(s1)
  <2>1. KeepsTicks(s0, s)
    BY <1>2, TicksAlone DEF KeepsTicks, SameTimes, TimesOf
  <2>2. KeepsTicks(s1, s)
    BY <1>4, <2>1 DEF Dying, KeepsTicks
  <2> QED
    BY <1>2, <1>3, <1>4, <2>2 DEF Dying, Struct, SameNext, SameRest
<1>6. OwnsNothing(s1, t)
  BY <1>1, <1>4, <1>5, OwnsNothingIs
<1> DEFINE R == Ready(s1)
<1>7. /\ t \in R /\ R \in SUBSET Thread /\ R \ {t} # {} /\ QueueOK(s1, R)
      /\ R = {u \in Thread : /\ s1.pending_obj[u] = NoMutex
                             /\ u \notin Sleeping(s1) /\ u \notin s1.deleted}
  BY <1>1, <1>5, ReadyIs DEF Struct
<1>8. QueueAdds(s2, s1, R \ {t})
  <2> HIDE DEF s2
  <2> QED
    BY <1>5, <1>7, ReadyQueueRemove DEF s2
<1> HIDE DEF s2
<1> DEFINE pendings == [s2.prio_pending EXCEPT ![t] = INVALID]
           states == [s2.pend_state EXCEPT ![t] = "NONE"]
<1>9. s2 \in KState
  BY <1>8 DEF QueueAdds
<1>10. /\ pendings \in [Thread -> 0..INVALID] /\ states \in [Thread -> PendState]
       /\ pendings[t] = INVALID /\ states[t] = "NONE"
       /\ \A u \in Thread : u # t => /\ pendings[u] = s2.prio_pending[u]
                                     /\ states[u] = s2.pend_state[u]
  <2>1. /\ s2.prio_pending \in [Thread -> 0..INVALID]
        /\ s2.pend_state \in [Thread -> PendState]
    BY <1>9 DEF KState
  <2>2. INVALID \in 0..INVALID /\ "NONE" \in PendState
    BY PrioFacts DEF PendState
  <2> QED
    BY <1>1, <2>1, <2>2
<1>11. r = [s2 EXCEPT !.prio_pending = pendings, !.pend_state = states,
                      !.sched_locked = FALSE, !.deleted = s2.deleted \cup {t}]
  BY <1>9 DEF KState
<1> HIDE DEF pendings, states, r
<1>12. /\ r \in KState /\ r.prio = s1.prio /\ r.prio_pending = pendings
       /\ r.pend_state = states /\ ~r.sched_locked /\ r.deleted = s.deleted \cup {t}
       /\ SameQueue(r, s2) /\ SameWaits(r, s1) /\ SameTimes(r, s1)
       /\ SameOwners(r, s1) /\ SameNext(r, s) /\ r.curr = s.curr
  <2>1. t \in Task /\ s1.deleted = s.deleted /\ s1.curr = s.curr /\ SameNext(s1, s)
    BY <1>5 DEF SameRest
  <2>2. SamePrios(s2, s1) /\ SameWaits(s2, s1) /\ SameTimes(s2, s1) /\ SameOwners(s2, s1)
        /\ SameNext(s2, s1) /\ SameRest(s2, s1)
    BY <1>8 DEF QueueAdds
  <2>3. r \in KState /\ r.prio_pending = pendings /\ r.pend_state = states /\ ~r.sched_locked
        /\ r.deleted = s2.deleted \cup {t}
    <3>1. r \in KState
      <4> DEFINE gone == s2.deleted \cup {t}
      <4>1. gone \in SUBSET Task
        BY <1>9, <2>1 DEF KState
      <4>2. r = [s2 EXCEPT !.prio_pending = pendings, !.pend_state = states,
                           !.sched_locked = FALSE, !.deleted = gone]
        BY <1>11
      <4> HIDE DEF gone
      <4> QED
        BY <1>9, <1>10, <4>1, <4>2 DEF KState
    <3>2. /\ r.prio_pending = pendings /\ r.pend_state = states /\ ~r.sched_locked
          /\ r.deleted = s2.deleted \cup {t}
      BY <1>9, <1>11 DEF KState
    <3> QED
      BY <3>1, <3>2
  <2>4. /\ r.prio = s2.prio /\ SameQueue(r, s2) /\ SameWaits(r, s2) /\ SameTimes(r, s2)
        /\ SameOwners(r, s2) /\ SameNext(r, s2) /\ r.curr = s2.curr
    BY <1>9, <1>11 DEF KState, SameQueue, SameWaits, SameTimes, SameOwners, SameNext
  <2> QED
    BY <2>1, <2>2, <2>3, <2>4
       DEF SamePrios, SameWaits, SameTimes, SameOwners, SameNext, SameRest
<1>13. OwnOK(r)
  BY <1>5, <1>12, OwnSame
<1>14. QueueOK(r, R \ {t})
  <2>1. r.prio = s2.prio
    BY <1>8, <1>12 DEF QueueAdds, SamePrios
  <2> QED
    BY <1>8, <1>12, <2>1, QueueSame DEF QueueAdds
<1>15. PendOK(r)
  BY <1>5, <1>12, PendSame DEF Struct
<1>16. Sleeping(r) = Sleeping(s1) /\ ListOf(r.tick_list, Sleeping(r))
  BY <1>5, <1>12 DEF Sleeping, IsSleeping, SameTimes, Struct
<1>17. Ready(r) = R \ {t}
  <2>1. \A u \in Thread : IsSleeping(r, u) <=> u \in Sleeping(r)
    BY <1>16, ListType DEF IsSleeping
  <2>2. Ready(r) = {u \in Thread : /\ s1.pending_obj[u] = NoMutex
                                   /\ u \notin Sleeping(r) /\ u \notin r.deleted}
    BY <1>12, <2>1 DEF Ready, IsReady, IsPending, SameWaits
  <2> QED
    BY <1>5, <1>7, <1>12, <1>16, <2>2
<1>18. Struct(r)
  <2>1. r.prio = s1.prio /\ r.pending_obj = s1.pending_obj /\ r.deleted = s1.deleted \cup {t}
    BY <1>5, <1>12 DEF SameWaits
  <2> QED
    BY <1>5, <1>7, <1>12, <1>14, <1>15, <1>16, <1>17, <2>1 DEF Struct
<1>19. KeepsTicks(r, s) /\ Ready(s) \ {t} \subseteq Ready(r)
  <2>1. KeepsTicks(r, s1)
    BY <1>12, TicksAlone DEF KeepsTicks, SameTimes, TimesOf
  <2> QED
    BY <1>5, <1>17, <2>1 DEF KeepsTicks
<1>20. \A u \in Thread : u # t =>
         r.prio[u] = s.prio[u] /\ r.prio_pending[u] = s.prio_pending[u]
  BY <1>2, <1>4, <1>8, <1>10, <1>12 DEF Dying, QueueAdds, SamePrios
<1>21. ASSUME NEW o \in Mutex
       PROVE  IF s.owner[o] = t THEN r.owner[o] = NoTask
              ELSE /\ r.owner[o] = s.owner[o]
                   /\ r.owner_orig_prio[o] = s.owner_orig_prio[o]
  <2>1. s1.owner[o] # t
    BY <1>6 DEF OwnsNothing
  <2> QED
    BY <1>2, <1>4, <1>12, <2>1 DEF Dying, SameOwners
<1>22. ASSUME NEW u \in Thread
       PROVE  IF s.pending_obj[u] \in Mutex /\ s.owner[s.pending_obj[u]] = t
                THEN r.pending_obj[u] = NoMutex /\ (u # t => r.pend_state[u] = "OWNER_DIE")
                ELSE /\ r.pending_obj[u] = s.pending_obj[u]
                     /\ u # t => r.pend_state[u] = s.pend_state[u]
  <2>1. /\ r.pending_obj = s1.pending_obj
        /\ u # t => r.pend_state[u] = s1.pend_state[u]
    BY <1>8, <1>10, <1>12 DEF SameWaits, QueueAdds
  <2>2. s0.pending_obj = s.pending_obj /\ s0.owner = s.owner /\ s0.pend_state = s.pend_state
    BY <1>2 DEF SameWaits, SameOwners
  <2>3. CASE s.pending_obj[u] \in Mutex /\ s.owner[s.pending_obj[u]] = t
    <3> DEFINE o == s.pending_obj[u]
    <3>1. s1.owner[o] # t
      BY <1>6, <2>3 DEF OwnsNothing
    <3>2. Waiters(s1, o) = {}
      BY <1>4, <2>2, <2>3, <3>1 DEF Dying
    <3>3. u \in Task
      BY <1>1, <2>3 DEF Struct, Thread
    <3>4. s1.pending_obj[u] # o
      BY <3>2, <3>3 DEF Waiters
    <3>5. s1.pending_obj[u] = NoMutex /\ s1.pend_state[u] = "OWNER_DIE"
      BY <1>4, <2>2, <3>4 DEF Dying
    <3> QED
      BY <2>1, <2>3, <3>5
  <2>4. CASE ~(s.pending_obj[u] \in Mutex /\ s.owner[s.pending_obj[u]] = t)
    BY <1>4, <2>1, <2>2, <2>4 DEF Dying
  <2> QED
    BY <2>3, <2>4
<1>23. ASSUME NEW b \in 0..PrioIdle - 1,
              s.prio_pending[t] \in {INVALID, b},
              \A o \in Mutex : s.owner[o] = t => s.owner_orig_prio[o] = b,
              OwnsNothing(s, t) => s.prio[t] = b
       PROVE  r.prio[t] = b
  <2>1. s0.prio_pending[t] \in {INVALID, b} /\ s0.prio = s.prio
    BY <1>2, <1>23 DEF SamePrios
  <2>2. \A o \in Mutex : s0.owner[o] = t => s0.owner_orig_prio[o] = b
    BY <1>2, <1>23 DEF SameOwners
  <2>3. s0.mutex_own_list[t] = <<>> => s0.prio[t] = b
    BY <1>1, <1>2, <1>23, <2>1, OwnsNothingIs DEF SameOwners
  <2>4. s1.prio[t] = b
    BY <1>4, <2>1, <2>2, <2>3 DEF Dying
  <2> QED
    BY <1>12, <2>4
<1>24. Died(r, s, t)
  BY <1>10, <1>12, <1>13, <1>18, <1>19, <1>20, <1>21, <1>22, <1>23 DEF Died
<1> QED
  BY <1>24 DEF r, s2, s1, s0

\* Only the order of a list in the ready queue differs.
LEMMA Robin ==
  ASSUME NEW s, Struct(s), NEW up
  PROVE  LET r == robin_sched(s, up) IN
         /\ Struct(r) /\ Ready(r) = Ready(s)
         /\ SamePrios(r, s) /\ SameWaits(r, s) /\ SameTimes(r, s) /\ SameOwners(r, s)
         /\ SameNext(r, s) /\ SameRest(r, s) /\ r.pend_state = s.pend_state
<1> DEFINE p == s.prio[s.curr]
           list == s.task_list[p]
           r == robin_sched(s, up)
           lists == [s.task_list EXCEPT ![p] = Append(Tail(list), list[1])]
           R == Ready(s)
<1>1. s \in KState /\ p \in Prio /\ s.task_list \in [Prio -> Seq(Thread)] /\ R \in SUBSET Thread
  <2>1. s \in KState /\ R \in SUBSET Thread
    BY ReadyIs DEF Struct
  <2> QED
    BY <2>1 DEF KState
<1>2. CASE Len(list) < 2 \/ list[1] = Idle \/ ~up
  <2>1. r = s
    BY <1>2 DEF robin_sched
  <2> HIDE DEF r
  <2> QED
    BY <2>1 DEF SamePrios, SameWaits, SameTimes, SameOwners, SameNext, SameRest, r
<1>3. CASE ~(Len(list) < 2 \/ list[1] = Idle \/ ~up)
  <2> DEFINE S == {t \in R : s.prio[t] = p}
             new == Append(Tail(list), list[1])
  <2>1. r = [s EXCEPT !.task_list = lists]
    BY <1>1, <1>3 DEF robin_sched, KState
  <2>2. ListOf(list, S) /\ list \in Seq(Thread)
    BY <1>1 DEF Struct, QueueOK
  <2>3. S # {} /\ list # <<>>
    <3>1. list # <<>>
      <4> HIDE DEF p
      <4> QED
        BY <1>3
    <3> HIDE DEF S, list
    <3> QED
      BY <2>2, <3>1, EmptyList
  <2> HIDE DEF S, list
  <2>4. ListOf(new, S)
    BY <2>2, <2>3, RotateList
  <2> HIDE DEF new
  <2>5. new \in Seq(Thread) /\ new # <<>>
    <3>1. new \in Seq(S) /\ S \subseteq Thread
      BY <1>1, <2>4 DEF ListOf, S
    <3>2. new \in Seq(Thread)
      BY <3>1
    <3>3. new # <<>>
      BY <2>3, <2>4, EmptyList
    <3> QED
      BY <3>2, <3>3
  <2>6. /\ lists \in [Prio -> Seq(Thread)]
        /\ \A q \in Prio : lists[q] = IF q = p THEN new ELSE s.task_list[q]
    BY <1>1, <2>5 DEF new
  <2> HIDE DEF lists, r
  <2>7. /\ r \in KState /\ r.task_list = lists /\ r.highest_prio = s.highest_prio
        /\ SamePrios(r, s) /\ SameWaits(r, s) /\ SameTimes(r, s) /\ SameOwners(r, s)
        /\ SameNext(r, s) /\ SameRest(r, s) /\ r.pend_state = s.pend_state
    BY <1>1, <2>1, <2>6
       DEF KState, SamePrios, SameWaits, SameTimes, SameOwners, SameNext, SameRest
  <2>8. QueueOK(r, R)
    <3>1. \A q \in Prio : lists[q] = <<>> <=> s.task_list[q] = <<>>
      BY <2>3, <2>5, <2>6 DEF list
    <3>2. ASSUME NEW q \in Prio PROVE ListOf(lists[q], {t \in R : s.prio[t] = q})
      <4>1. CASE q = p
        BY <2>4, <2>6, <4>1 DEF S
      <4>2. CASE q # p
        BY <2>6, <4>2 DEF Struct, QueueOK
      <4> QED
        BY <4>1, <4>2
    <3>3. /\ s.highest_prio \in Prio /\ s.task_list[s.highest_prio] # <<>>
          /\ \A q \in Prio : s.task_list[q] # <<>> => s.highest_prio <= q
      BY DEF Struct, QueueOK
    <3>4. r.prio = s.prio
      BY <2>7 DEF SamePrios
    <3> HIDE DEF p, R
    <3> QED
      BY <2>7, <3>1, <3>2, <3>3, <3>4 DEF QueueOK
  <2>9. PendOK(r)
    BY <2>7, PendSame DEF Struct, SamePrios
  <2>10. Sleeping(r) = Sleeping(s) /\ Ready(r) = R
    BY <2>7 DEF Sleeping, IsSleeping, Ready, IsReady, IsPending, SameTimes, SameWaits, SameRest
  <2>11. Struct(r)
    BY <2>7, <2>8, <2>9, <2>10 DEF Struct, SamePrios, SameWaits, SameTimes, SameRest
  <2> QED
    BY <2>7, <2>10, <2>11 DEF r
<1> QED
  BY <1>2, <1>3

\* What the tick interrupt leaves.
Ticked(r, s) ==
  /\ Struct(r) /\ SamePrios(r, s) /\ SameOwners(r, s) /\ SameRest(r, s)
  /\ Ready(s) \subseteq Ready(r)
  /\ Dispatched(r, s)
  /\ \A u \in Thread :
       \/ r.pending_obj[u] = s.pending_obj[u] /\ r.pend_state[u] = s.pend_state[u]
       \/ /\ s.pending_obj[u] # NoMutex
          /\ r.pending_obj[u] = NoMutex /\ r.pend_state[u] = "TIMEOUT"

\* tos_tick_handler and the knl_sched of tos_knl_irq_leave.
LEMMA Ticks ==
  ASSUME NEW s, Struct(s), ~s.sched_locked, NEW remains \in [Task -> Nat],
         TicksFrom(s, remains, 1), NEW up
  PROVE  LET x == robin_sched(tick_update(s), up)
             r == SwitchTo(x, highest_ready_task(x))
         IN /\ Ticked(r, s)
            /\ OneLess(s, remains) \in [Task -> Nat]
            /\ TicksFrom(r, OneLess(s, remains), 1)
<1> DEFINE u == tick_update(s)
           x == robin_sched(u, up)
           r == SwitchTo(x, highest_ready_task(x))
           nl == OneLess(s, remains)
<1>1. /\ nl \in [Task -> Nat] /\ TicksFrom(u, nl, 1)
      /\ Struct(u) /\ SamePrios(u, s) /\ SameOwners(u, s) /\ SameNext(u, s)
      /\ SameRest(u, s) /\ Ready(s) \subseteq Ready(u)
      /\ \A t \in Thread :
           \/ u.pending_obj[t] = s.pending_obj[t] /\ u.pend_state[t] = s.pend_state[t]
           \/ /\ s.pending_obj[t] # NoMutex
              /\ u.pending_obj[t] = NoMutex /\ u.pend_state[t] = "TIMEOUT"
  BY TickUpdate
<1> HIDE DEF u, nl
<1>2. /\ Struct(x) /\ Ready(x) = Ready(u)
      /\ SamePrios(x, u) /\ SameWaits(x, u) /\ SameTimes(x, u) /\ SameOwners(x, u)
      /\ SameNext(x, u) /\ SameRest(x, u) /\ x.pend_state = u.pend_state
  BY <1>1, Robin
<1> HIDE DEF x
<1>3. ~x.sched_locked
  BY <1>1, <1>2 DEF SameRest
<1>4. r = knl_sched(x)
  BY <1>3 DEF knl_sched
<1> HIDE DEF r
<1>5. Scheduled(r, x) /\ Struct(r) /\ Ready(r) = Ready(x)
  BY <1>2, <1>4, KnlSched
<1>6. /\ SamePrios(r, s) /\ SameOwners(r, s) /\ SameRest(r, s)
      /\ Ready(s) \subseteq Ready(r)
      /\ r.pending_obj = u.pending_obj /\ r.pend_state = u.pend_state
      /\ TimesOf(r, u)
  BY <1>1, <1>2, <1>5
     DEF Scheduled, SamePrios, SameOwners, SameRest, SameWaits, SameTimes, TimesOf
<1>7. Dispatched(r, s)
  <2>1. highest_ready_task(r) = highest_ready_task(x)
    BY <1>5 DEF Scheduled, SameQueue, highest_ready_task
  <2> QED
    BY <1>1, <1>2, <1>3, <1>5, <2>1 DEF Scheduled, Dispatched, SameNext, SameRest
<1>8. TicksFrom(r, nl, 1)
  BY <1>1, <1>6, TicksAlone
<1>9. Ticked(r, s)
  BY <1>1, <1>5, <1>6, <1>7 DEF Ticked
<1> QED
  BY <1>1, <1>8, <1>9 DEF r, x, u, nl

-----------------------------------------------------------------------------
(* The inductive invariant.                                                *)

Types ==
  /\ pc \in [Task -> {"run", "sched", "return"}]
  /\ base \in [Task -> 0..PrioIdle - 1]
  /\ left \in [Task -> Nat]
  /\ asked \in [Task -> Mutex \cup {NoMutex}]
  /\ bid \in [Task -> 0..INVALID]
  /\ raised \in SUBSET Task

Lists == Struct(k) /\ OwnOK(k) /\ ~k.sched_locked

\* Who waits, waits for another task's mutex; the dead own nothing.
Manned ==
  /\ \A t \in Task : k.pending_obj[t] \in Mutex =>
       k.owner[k.pending_obj[t]] \in Task \ {t}
  /\ \A m \in Mutex : k.owner[m] \notin k.deleted

\* The task that runs, or will after the switch, is ready unless it has just
\* ceased to be and is about to call knl_sched.
Runs ==
  /\ k.pendsv => k.next \in Ready(k)
  /\ ~k.pendsv /\ k.curr \in Task /\ pc[k.curr] # "sched" => k.curr \in Ready(k)

\* The answer of a tos_mutex_pend_timed stands from the wake-up on.
Answers ==
  \A t \in Task :
    /\ pc[t] = "run" => asked[t] = NoMutex
    /\ pc[t] = "return" => asked[t] # NoMutex
    /\ k.pending_obj[t] \in {NoMutex, asked[t]}
    /\ asked[t] # NoMutex /\ k.pending_obj[t] = NoMutex =>
         /\ k.pend_state[t] \in {"POST", "TIMEOUT", "OWNER_DIE"}
         /\ k.pend_state[t] = "POST" <=> k.owner[asked[t]] = t

Times == TicksFrom(k, left, 1)

Inherits ==
  \A t \in Task : k.pending_obj[t] \in Mutex =>
    k.prio[t] <= bid[t] /\ k.prio[k.owner[k.pending_obj[t]]] <= bid[t]

Bases ==
  \A t \in Task :
    /\ OwnsNothing(k, t) => k.prio_pending[t] = INVALID
    /\ t \notin raised =>
         /\ k.prio_pending[t] \in {INVALID, base[t]}
         /\ \A m \in Mutex : k.owner[m] = t => k.owner_orig_prio[m] = base[t]
         /\ OwnsNothing(k, t) => k.prio[t] = base[t]

\* Who runs after the switch is the best, or somebody is about to call
\* knl_sched.
Bests ==
  \/ Best(k, IF k.pendsv THEN k.next ELSE k.curr)
  \/ \E t \in Task : pc[t] = "sched" /\ t \in Ready(k)
  \/ ~k.pendsv /\ k.curr \in Task /\ pc[k.curr] = "sched"

IInv ==
  /\ Types /\ Lists /\ Manned /\ Runs /\ Answers
  /\ Times /\ Inherits /\ Bases /\ Bests

\* Each of the sequences Init chooses from is a list of its set.
LEMMA ListOfSet ==
  ASSUME NEW S, IsFiniteSet(S), NEW list \in SetToSeqs(S)
  PROVE  ListOf(list, S)
<1> DEFINE N == Cardinality(S)
<1>1. N \in Nat
  BY FS_CardinalityType
<1>2. list \in [1..N -> S] /\ \A i, j \in 1..N : i # j => list[i] # list[j]
  BY DEF SetToSeqs
<1>3. IsFiniteSet(1..N) /\ Cardinality(1..N) = N
  BY <1>1, FS_Interval
<1> HIDE DEF N
<1>4. list \in Injection(1..N, S)
  BY <1>2 DEF Injection, IsInjective
<1>5. list \in Surjection(1..N, S)
  BY <1>3, <1>4, FS_Injection DEF N
<1>6. list \in Seq(S)
  BY <1>1, <1>2
<1> QED
  BY <1>2, <1>5, <1>6 DEF ListOf, Surjection

\* The kernel starts in the invariant.
LEMMA InitRight == Init => IInv
<1> SUFFICES ASSUME Init PROVE IInv
  OBVIOUS
<1> DEFINE prio == [t \in Thread |-> IF t = Idle THEN PrioIdle ELSE base[t]]
           first == Min({base[t] : t \in Task})
           S(p) == {t \in Thread : prio[t] = p}
<1>1. base \in [Task -> 0..PrioIdle - 1] /\ Task # {} /\ Idle \notin Task /\ Idle \in Thread
      /\ NoMutex \notin Mutex /\ NoTask \notin Task
  BY ConstantsAssumption DEF Init, Thread
<1>2. /\ prio \in [Thread -> Prio] /\ prio[Idle] = PrioIdle
      /\ \A t \in Task : prio[t] = base[t] /\ prio[t] < PrioIdle
  BY <1>1, PrioFacts DEF Thread
<1>3. PICK t0 \in Task : base[t0] = first /\ \A t \in Task : first <= base[t]
  <2> DEFINE T == {base[t] : t \in Task}
  <2>1. T \in SUBSET Nat /\ T # {}
    BY <1>1
  <2>2. Min(T) \in T /\ \A y \in T : Min(T) <= y
    <3> HIDE DEF T
    <3> QED
      BY <2>1, Least
  <2> QED
    BY <2>2
<1>4. first \in Prio /\ \A t \in Thread : first <= prio[t]
  <2>1. first \in 0..PrioIdle - 1
    BY <1>1, <1>3
  <2> QED
    BY <1>1, <1>2, <1>3, <2>1, PrioFacts DEF Thread
<1>5. PICK lists \in [Prio -> UNION {SetToSeqs(S(p)) : p \in Prio}] :
         /\ \A p \in Prio : lists[p] \in SetToSeqs(S(p))
         /\ k = [task_list |-> lists, highest_prio |-> first, prio |-> prio,
               prio_pending |-> [t \in Thread |-> INVALID],
               pending_obj |-> [t \in Thread |-> NoMutex],
               pend_state |-> [t \in Thread |-> "NONE"],
               tick_list |-> <<>>, tick_expires |-> [t \in Task |-> 0],
               owner |-> [m \in Mutex |-> NoTask],
               pend_nesting |-> [m \in Mutex |-> 0],
               owner_orig_prio |-> [m \in Mutex |-> INVALID],
               pend_list |-> [m \in Mutex |-> <<>>],
               mutex_own_list |-> [t \in Thread |-> <<>>],
               curr |-> Head(lists[first]), next |-> Head(lists[first]),
               pendsv |-> FALSE, sched_locked |-> FALSE,
               deleted |-> {}]
  BY DEF Init
<1>6. ASSUME NEW p \in Prio PROVE ListOf(lists[p], S(p)) /\ lists[p] \in Seq(Thread)
  <2>1. IsFiniteSet(S(p))
    <3>1. IsFiniteSet(Task \cup {Idle})
      BY FS_AddElement, ConstantsAssumption
    <3> QED
      BY <3>1, FS_Subset DEF Thread
  <2>2. lists[p] \in SetToSeqs(S(p)) /\ S(p) \subseteq Thread
    BY <1>5
  <2> HIDE DEF S
  <2>3. ListOf(lists[p], S(p))
    BY <2>1, <2>2, ListOfSet
  <2>4. lists[p] \in Seq(S(p))
    BY <2>3 DEF ListOf
  <2> QED
    BY <2>2, <2>3, <2>4
<1> DEFINE head == Head(lists[first])
<1>7. lists[first] # <<>> /\ head \in S(first)
  <2>1. S(first) # {}
    BY <1>2, <1>3 DEF Thread
  <2>2. ListOf(lists[first], S(first))
    BY <1>4, <1>6
  <2> HIDE DEF S, first
  <2> QED
    BY <2>1, <2>2, EmptyList, HeadOfList
<1> HIDE DEF head, first, prio, S
<1>8. head \in Thread /\ prio[head] = first
  BY <1>7 DEF S
<1>9. lists \in [Prio -> Seq(Thread)]
  BY <1>6
<1>10. k \in KState
  <2>1. /\ [t \in Thread |-> INVALID] \in [Thread -> 0..INVALID]
        /\ [t \in Thread |-> NoMutex] \in [Thread -> Mutex \cup {NoMutex}]
        /\ [t \in Thread |-> "NONE"] \in [Thread -> PendState]
    BY PrioFacts DEF PendState
  <2>2. /\ [t \in Task |-> 0] \in [Task -> Int]
        /\ [m \in Mutex |-> NoTask] \in [Mutex -> Task \cup {NoTask}]
        /\ [m \in Mutex |-> 0] \in [Mutex -> Nat]
        /\ [m \in Mutex |-> INVALID] \in [Mutex -> 0..INVALID]
    BY PrioFacts
  <2>3. /\ <<>> \in Seq(Task) /\ <<>> \in Seq(Mutex)
        /\ [m \in Mutex |-> <<>>] \in [Mutex -> Seq(Task)]
        /\ [t \in Thread |-> <<>>] \in [Thread -> Seq(Mutex)]
    OBVIOUS
  <2> QED
    BY <1>2, <1>4, <1>5, <1>8, <1>9, <2>1, <2>2, <2>3 DEF KState, head
<1>11. /\ k.task_list = lists /\ k.highest_prio = first /\ k.prio = prio
       /\ k.tick_list = <<>> /\ k.deleted = {} /\ ~k.sched_locked /\ ~k.pendsv
       /\ k.curr = head
       /\ \A t \in Thread : /\ k.prio_pending[t] = INVALID /\ k.pending_obj[t] = NoMutex
                            /\ k.mutex_own_list[t] = <<>>
       /\ \A m \in Mutex : /\ k.owner[m] = NoTask /\ k.pend_nesting[m] = 0
                           /\ k.pend_list[m] = <<>>
  BY <1>5 DEF head
<1>12. \A t : ~Contains(<<>>, t)
  BY EmptyList, ListType
<1>13. Sleeping(k) = {} /\ Ready(k) = Thread
  BY <1>11, <1>12 DEF Sleeping, IsSleeping, Ready, IsReady, IsPending
<1>14. QueueOK(k, Ready(k))
  <2>1. ASSUME NEW p \in Prio, lists[p] # <<>> PROVE first <= p
    <3>1. S(p) # {}
      <4> DEFINE T == S(p)
      <4>1. ListOf(lists[p], T)
        BY <1>6
      <4> HIDE DEF T
      <4> QED
        BY <2>1, <4>1, EmptyList DEF T
    <3> QED
      BY <1>4, <3>1 DEF S
  <2>2. \A p \in Prio : {t \in Ready(k) : k.prio[t] = p} = S(p)
    BY <1>11, <1>13 DEF S
  <2> QED
    BY <1>4, <1>6, <1>7, <1>11, <2>1, <2>2 DEF QueueOK
<1>15. Struct(k)
  <2>1. PendOK(k)
    <3>1. \A m \in Mutex : Waiters(k, m) = {}
      BY <1>1, <1>11 DEF Waiters, Thread
    <3>2. \A q : Ranked(<<>>, q)
      BY DEF Ranked
    <3> QED
      BY <1>11, <3>1, <3>2, EmptyList DEF PendOK
  <2>2. ListOf(k.tick_list, Sleeping(k))
    BY <1>11, <1>13, EmptyList
  <2> QED
    BY <1>1, <1>2, <1>10, <1>11, <1>14, <2>1, <2>2 DEF Struct
<1>16. OwnOK(k)
  <2>1. \A t \in Thread : {m \in Mutex : k.owner[m] = t} = {}
    BY <1>11, ConstantsAssumption
  <2> QED
    BY <1>11, <2>1, EmptyList DEF OwnOK
<1>17. Types
  <2>1. INVALID \in 0..INVALID
    BY PrioFacts
  <2>2. /\ pc \in [Task -> {"run", "sched", "return"}] /\ left \in [Task -> Nat]
        /\ asked \in [Task -> Mutex \cup {NoMutex}] /\ raised \in SUBSET Task
    BY DEF Init
  <2>3. bid \in [Task -> 0..INVALID]
    BY <2>1 DEF Init
  <2>4. base \in [Task -> 0..PrioIdle - 1]
    BY <1>1 DEF Init
  <2> QED
    BY <2>2, <2>3, <2>4 DEF Types
<1>18. Lists /\ Manned /\ Runs
  BY <1>1, <1>8, <1>11, <1>13, <1>15, <1>16 DEF Lists, Manned, Runs, Thread
<1>19. Answers
  BY <1>11 DEF Answers, Init, Thread
<1>20. Times
  <2>1. Len(k.tick_list) = 0
    BY <1>11
  <2> QED
    BY <2>1 DEF Times, TicksFrom
<1>21. Inherits /\ Bases
  <2>1. \A t \in Task : k.prio[t] = base[t] /\ k.pending_obj[t] = NoMutex /\ k.prio_pending[t] = INVALID
    BY <1>2, <1>11 DEF Thread
  <2>2. \A m \in Mutex : k.owner[m] \notin Task
    BY <1>1, <1>11
  <2> QED
    BY <1>1, <2>1, <2>2 DEF Inherits, Bases
<1>22. Bests
  <2>1. Best(k, k.curr)
    BY <1>4, <1>8, <1>11, <1>13 DEF Best
  <2> QED
    BY <1>11, <2>1 DEF Bests
<1> QED
  BY <1>17, <1>18, <1>19, <1>20, <1>21, <1>22 DEF IInv

-----------------------------------------------------------------------------
(* Each step keeps the invariant.                                          *)

\* A task that runs and is not on its way to knl_sched is ready.
LEMMA Caller ==
  ASSUME IInv, NEW t \in Task, Running(t), pc[t] # "sched"
  PROVE  /\ k \in KState /\ Struct(k) /\ OwnOK(k) /\ ~k.sched_locked
         /\ t \in Thread /\ t \in Ready(k) /\ t = k.curr /\ ~k.pendsv
         /\ k.pending_obj[t] = NoMutex /\ t \notin k.deleted /\ t \notin Sleeping(k)
         /\ NoTask \notin Task /\ NoMutex \notin Mutex
<1>1. Struct(k) /\ OwnOK(k) /\ ~k.sched_locked /\ k \in KState
  BY DEF IInv, Lists, Struct
<1>2. t \in Ready(k)
  BY DEF IInv, Runs, Running
<1> QED
  BY <1>1, <1>2, ReadyIs, ConstantsAssumption DEF Running, Thread

\* What Raised does for Bases.
LEMMA RaisedBases ==
  ASSUME IInv, Struct(k'), OwnOK(k'), raised' = Raised, base' = base,
         \A m \in Mutex : k'.owner[m] = k.owner[m] =>
           k'.owner_orig_prio[m] = k.owner_orig_prio[m],
         \A t \in Task : OwnsNothing(k', t) => k'.prio_pending[t] = INVALID,
         \A t \in Task \ raised : OwnsNothing(k', t) => k'.prio[t] = base[t]
  PROVE  Bases' /\ raised' \in SUBSET Task
<1>1. raised' \in SUBSET Task
  BY DEF Raised
<1>2. ASSUME NEW t \in Task
      PROVE  /\ OwnsNothing(k', t) => k'.prio_pending[t] = INVALID
             /\ t \notin raised' =>
                  /\ k'.prio_pending[t] \in {INVALID, base'[t]}
                  /\ \A m \in Mutex : k'.owner[m] = t => k'.owner_orig_prio[m] = base'[t]
                  /\ OwnsNothing(k', t) => k'.prio[t] = base'[t]
  <2> SUFFICES ASSUME t \notin raised'
               PROVE  /\ k'.prio_pending[t] \in {INVALID, base[t]}
                      /\ \A m \in Mutex : k'.owner[m] = t =>
                           k'.owner_orig_prio[m] = base[t]
                      /\ OwnsNothing(k', t) => k'.prio[t] = base[t]
    OBVIOUS
  <2>1. \/ /\ t \notin raised /\ k'.prio_pending[t] \in {INVALID, base[t]}
           /\ \A m \in Mutex : k'.owner[m] = t /\ k.owner[m] # t =>
                k'.owner_orig_prio[m] = base[t]
        \/ k'.mutex_own_list[t] = <<>> /\ k'.prio[t] = base[t]
    BY DEF Raised
  <2>2. CASE /\ t \notin raised /\ k'.prio_pending[t] \in {INVALID, base[t]}
             /\ \A m \in Mutex : k'.owner[m] = t /\ k.owner[m] # t =>
                  k'.owner_orig_prio[m] = base[t]
    <3>1. \A m \in Mutex : k.owner[m] = t => k.owner_orig_prio[m] = base[t]
      BY <2>2 DEF IInv, Bases
    <3> QED
      BY <2>2, <3>1
  <2>3. CASE k'.mutex_own_list[t] = <<>> /\ k'.prio[t] = base[t]
    <3>1. OwnsNothing(k', t)
      BY <2>3, OwnsNothingIs DEF Thread
    <3> QED
      BY <2>3, <3>1 DEF OwnsNothing
  <2> QED
    BY <2>1, <2>2, <2>3
<1> QED
  BY <1>1, <1>2 DEF Bases

\* A step that changes nothing but who owns what, and nothing about waits.
LEMMA OwnersKeep ==
  ASSUME IInv, UNCHANGED <<pc, base, left, asked, bid>>, raised' = Raised,
         OnlyOwners(k', k),
         \A m \in Mutex :
           \/ /\ k'.owner[m] = k.owner[m]
              /\ k'.owner_orig_prio[m] = k.owner_orig_prio[m]
           \/ /\ k.owner[m] = NoTask /\ k'.owner[m] \in Task \ k.deleted
              /\ asked[k'.owner[m]] = NoMutex
  PROVE  IInv'
<1>1. /\ Struct(k') /\ OwnOK(k') /\ Struct(k) /\ k \in KState /\ ~k.sched_locked
      /\ SamePrios(k', k) /\ SameQueue(k', k) /\ SameWaits(k', k) /\ SameTimes(k', k)
      /\ SameNext(k', k) /\ SameRest(k', k) /\ k'.pend_state = k.pend_state
      /\ Ready(k') = Ready(k) /\ Sleeping(k') = Sleeping(k)
  BY DEF OnlyOwners, IInv, Lists, Struct
<1>2. NoTask \notin Task /\ NoMutex \notin Mutex
  BY ConstantsAssumption DEF Thread
<1>3. Lists'
  BY <1>1 DEF Lists, SameRest
<1>4. Manned'
  <2>1. \A t \in Task : k.pending_obj[t] \in Mutex =>
          k.owner[k.pending_obj[t]] \in Task \ {t}
    BY DEF IInv, Manned
  <2>2. \A m \in Mutex : k.owner[m] \notin k.deleted
    BY DEF IInv, Manned
  <2> QED
    BY <1>1, <1>2, <2>1, <2>2 DEF Manned, SameWaits, SameRest
<1>5. Runs' /\ Bests'
  BY <1>1 DEF IInv, Runs, Bests, Best, SameNext, SameRest, SamePrios
<1>6. Answers'
  <2> SUFFICES ASSUME NEW t \in Task, asked[t] # NoMutex, k.pending_obj[t] = NoMutex
               PROVE  k.owner[asked[t]] = t <=> k'.owner[asked[t]] = t
    BY <1>1 DEF IInv, Answers, SameWaits
  <2>1. asked[t] \in Mutex
    BY DEF IInv, Types
  <2> QED
    BY <1>2, <2>1
<1>7. Times'
  BY <1>1, TicksAlone DEF IInv, Times, SameTimes, TimesOf
<1>8. Inherits'
  <2>1. \A t \in Task : k.pending_obj[t] \in Mutex =>
          k.owner[k.pending_obj[t]] \in Task
    BY DEF IInv, Manned
  <2> QED
    BY <1>1, <1>2, <2>1 DEF IInv, Inherits, SameWaits, SamePrios
<1>9. Bases' /\ raised' \in SUBSET Task
  <2>1. \A t \in Task : OwnsNothing(k', t) => OwnsNothing(k, t)
    BY <1>2 DEF OwnsNothing
  <2>2. k'.prio = k.prio /\ k'.prio_pending = k.prio_pending
    BY <1>1 DEF SamePrios
  <2>3. \A t \in Task : OwnsNothing(k', t) => k'.prio_pending[t] = INVALID
    BY <2>1, <2>2 DEF IInv, Bases
  <2>4. \A t \in Task \ raised : OwnsNothing(k', t) => k'.prio[t] = base[t]
    BY <2>1, <2>2 DEF IInv, Bases
  <2>5. \A m \in Mutex : k'.owner[m] = k.owner[m] =>
          k'.owner_orig_prio[m] = k.owner_orig_prio[m]
    BY <1>2
  <2> QED
    BY <1>1, <2>3, <2>4, <2>5, RaisedBases
<1>10. Types'
  BY <1>9 DEF IInv, Types
<1> QED
  BY <1>3, <1>4, <1>5, <1>6, <1>7, <1>8, <1>9, <1>10 DEF IInv

\* tos_mutex_pend_timed that does not wait.
LEMMA PendFreeKeeps ==
  ASSUME IInv, NEW t \in Task, NEW m \in Mutex, PendFree(t, m)
  PROVE  IInv'
<1>1. /\ k \in KState /\ Struct(k) /\ OwnOK(k)
      /\ t \in Ready(k) /\ t \notin k.deleted /\ NoTask \notin Task
  BY Caller DEF PendFree, Calls
<1>2. /\ UNCHANGED <<pc, base, left, asked, bid>> /\ raised' = Raised
      /\ asked[t] = NoMutex
  BY DEF PendFree, Calls, IInv, Answers
<1>3. CASE k.pend_nesting[m] = 0 /\ k' = mutex_fresh_owner_mark(k, m, t)
  <2>1. k.owner[m] = NoTask
    BY <1>1, <1>3 DEF OwnOK
  <2>2. Marked(k', k, m, t)
    BY <1>1, <1>3, <2>1, Mark
  <2>3. OnlyOwners(k', k)
    BY <2>2 DEF Marked, OnlyOwners
  <2>4. /\ k'.owner[m] = t
        /\ \A n \in Mutex : n # m => /\ k'.owner[n] = k.owner[n]
                                     /\ k'.owner_orig_prio[n] = k.owner_orig_prio[n]
    BY <1>1, <2>2 DEF Marked, KState
  <2> QED
    BY <1>1, <1>2, <2>1, <2>3, <2>4, OwnersKeep
<1>4. CASE /\ k.owner[m] = t /\ k.pend_nesting[m] < MaxNesting
           /\ k' = [k EXCEPT !.pend_nesting[m] = @ + 1]
  <2>1. k.pend_nesting[m] + 1 \in Nat \ {0} /\ k.owner[m] # NoTask
    BY <1>1, <1>4 DEF KState
  <2>2. k' = [k EXCEPT !.pend_nesting[m] = k.pend_nesting[m] + 1]
    BY <1>1, <1>4 DEF KState
  <2>3. OnlyOwners(k', k) /\ k'.owner = k.owner /\ k'.owner_orig_prio = k.owner_orig_prio
    BY <1>1, <2>1, <2>2, Nest
  <2> QED
    BY <1>2, <2>3, OwnersKeep
<1> QED
  BY <1>3, <1>4 DEF PendFree

\* The return of tos_mutex_pend_timed.
LEMMA ReturnKeeps ==
  ASSUME IInv, NEW t \in Task, Return(t)
  PROVE  IInv'
<1>1. /\ k \in KState /\ Struct(k) /\ OwnOK(k) /\ ~k.sched_locked /\ t \in Thread
      /\ t \in Ready(k) /\ t = k.curr /\ ~k.pendsv /\ k.pending_obj[t] = NoMutex
  BY Caller DEF Return, Calls
<1>2. /\ k' = [k EXCEPT !.pend_state[t] = "NONE"]
      /\ pc' = [pc EXCEPT ![t] = "run"] /\ bid' = [bid EXCEPT ![t] = INVALID]
      /\ asked' = [asked EXCEPT ![t] = NoMutex]
      /\ UNCHANGED <<base, left, raised>> /\ pc[t] = "return"
  BY DEF Return, Calls
<1>3. Types
  BY DEF IInv
<1> DEFINE states == [k.pend_state EXCEPT ![t] = "NONE"]
<1>4. states \in [Thread -> PendState] /\ k' = [k EXCEPT !.pend_state = states]
  BY <1>1, <1>2 DEF KState, PendState
<1> HIDE DEF states
<1>5. /\ k' \in KState /\ k'.pend_state = states
      /\ SamePrios(k', k) /\ SameQueue(k', k) /\ SameWaits(k', k) /\ SameTimes(k', k)
      /\ SameOwners(k', k) /\ SameNext(k', k) /\ SameRest(k', k)
  BY <1>1, <1>4
     DEF KState, SamePrios, SameQueue, SameWaits, SameTimes, SameOwners, SameNext, SameRest
<1>6. Struct(k') /\ OwnOK(k') /\ Ready(k') = Ready(k)
  <2>1. SameStruct(k', k)
    BY <1>5 DEF SameStruct, SamePrios, SameTimes, SameRest
  <2> QED
    BY <1>1, <1>5, <2>1, StructSame, OwnSame
<1>7. \A u \in Task : u # t => k'.pend_state[u] = k.pend_state[u]
  BY <1>1, <1>5 DEF KState, states
<1>8. Types'
  BY <1>2, <1>3, PrioFacts DEF Types
<1>9. Lists' /\ Manned'
  BY <1>1, <1>5, <1>6 DEF IInv, Lists, Manned, SameOwners, SameWaits, SameRest
<1>10. Runs'
  BY <1>1, <1>2, <1>3, <1>5, <1>6 DEF IInv, Runs, Types, SameNext, SameRest
<1>11. Answers'
  <2>1. k'.pending_obj = k.pending_obj /\ k'.owner = k.owner
    BY <1>5 DEF SameWaits, SameOwners
  <2> QED
    BY <1>1, <1>2, <1>3, <1>7, <2>1 DEF IInv, Answers, Types
<1>12. Times'
  BY <1>2, <1>5, TicksAlone DEF IInv, Times, SameTimes, TimesOf
<1>13. Inherits'
  <2>1. \A u \in Task : k.pending_obj[u] \in Mutex => u # t
    BY <1>1, ConstantsAssumption
  <2> QED
    BY <1>2, <1>3, <1>5, <2>1 DEF IInv, Inherits, Types, SameWaits, SameOwners, SamePrios
<1>14. Bases'
  BY <1>2, <1>5 DEF IInv, Bases, OwnsNothing, SamePrios, SameOwners
<1>15. Bests'
  <2>1. \A u \in Task : pc[u] = "sched" => pc'[u] = "sched"
    BY <1>2, <1>3 DEF Types
  <2> QED
    BY <1>1, <1>2, <1>5, <1>6, <2>1 DEF IInv, Bests, Best, SameNext, SameRest, SamePrios
<1> QED
  BY <1>8, <1>9, <1>10, <1>11, <1>12, <1>13, <1>14, <1>15 DEF IInv

\* A step that changes nothing but who runs next.
LEMMA SwitchKeeps ==
  ASSUME IInv, UNCHANGED <<base, left, asked, bid, raised>>, Struct(k'),
         SamePrios(k', k), SameQueue(k', k), SameWaits(k', k), SameTimes(k', k),
         SameOwners(k', k), k'.pend_state = k.pend_state,
         k'.sched_locked = k.sched_locked, k'.deleted = k.deleted,
         Runs', Bests', pc' \in [Task -> {"run", "sched", "return"}],
         \A t \in Task : \/ pc'[t] = pc[t]
                         \/ pc'[t] = IF asked[t] = NoMutex THEN "run" ELSE "return"
  PROVE  IInv'
<1>1. Types' /\ Lists' /\ Manned'
  BY OwnSame DEF IInv, Types, Lists, Manned, SameOwners, SameWaits
<1>2. Answers'
  <2>1. \A t \in Task : /\ pc'[t] = "run" => asked[t] = NoMutex
                        /\ pc'[t] = "return" => asked[t] # NoMutex
    BY DEF IInv, Answers
  <2> QED
    BY <2>1 DEF IInv, Answers, SameWaits, SameOwners
<1>3. Times'
  BY TicksAlone DEF IInv, Times, SameTimes, TimesOf
<1>4. Inherits' /\ Bases'
  BY DEF IInv, Inherits, Bases, OwnsNothing, SamePrios, SameWaits, SameOwners
<1> QED
  BY <1>1, <1>2, <1>3, <1>4 DEF IInv

\* The knl_sched that ends a call.
LEMMA SchedKeeps ==
  ASSUME IInv, NEW t \in Task, Sched(t)
  PROVE  IInv'
<1>1. /\ k' = knl_sched(k) /\ t = k.curr /\ ~k.pendsv
      /\ pc' = [pc EXCEPT ![t] = IF asked[t] = NoMutex THEN "run" ELSE "return"]
      /\ UNCHANGED <<base, left, asked, bid, raised>>
  BY DEF Sched, Calls, Running
<1>2. Scheduled(k', k) /\ Struct(k') /\ Ready(k') = Ready(k) /\ Struct(k) /\ ~k.sched_locked
  BY <1>1, KnlSched DEF IInv, Lists
<1>3. /\ SamePrios(k', k) /\ SameQueue(k', k) /\ SameWaits(k', k) /\ SameTimes(k', k)
      /\ SameOwners(k', k) /\ SameRest(k', k) /\ k'.pend_state = k.pend_state
      /\ k'.next = highest_ready_task(k) /\ (k'.pendsv <=> k'.next # k.curr)
  BY <1>1, <1>2 DEF Scheduled
<1>4. Best(k', k'.next)
  BY <1>2, <1>3, BestIs DEF Best, SamePrios
<1>5. Runs' /\ Bests'
  BY <1>3, <1>4 DEF Runs, Bests, Best, SameRest
<1>6. Types
  BY DEF IInv
<1>7. /\ pc' \in [Task -> {"run", "sched", "return"}]
      /\ \A u \in Task : \/ pc'[u] = pc[u]
                         \/ pc'[u] = IF asked[u] = NoMutex THEN "run" ELSE "return"
  BY <1>1, <1>6 DEF Types
<1> QED
  BY <1>1, <1>2, <1>3, <1>5, <1>7, SwitchKeeps DEF SameRest

\* The context switch.
LEMMA PendSVKeeps ==
  ASSUME IInv, PendSV
  PROVE  IInv'
<1>1. /\ k' = [k EXCEPT !.curr = k.next, !.pendsv = FALSE] /\ k.pendsv
      /\ UNCHANGED <<pc, base, left, asked, bid, raised>>
      /\ k \in KState /\ Struct(k)
  BY DEF PendSV, IInv, Lists, Struct
<1>2. /\ k' \in KState /\ k'.curr = k.next /\ ~k'.pendsv /\ k'.next = k.next
      /\ SamePrios(k', k) /\ SameQueue(k', k) /\ SameWaits(k', k) /\ SameTimes(k', k)
      /\ SameOwners(k', k) /\ k'.pend_state = k.pend_state
      /\ k'.sched_locked = k.sched_locked /\ k'.deleted = k.deleted
  BY <1>1 DEF KState, SamePrios, SameQueue, SameWaits, SameTimes, SameOwners
<1>3. Struct(k') /\ Ready(k') = Ready(k)
  <2>1. SameStruct(k', k)
    BY <1>2 DEF SameStruct, SamePrios, SameTimes
  <2> QED
    BY <1>1, <1>2, <2>1, StructSame
<1>4. Runs' /\ Bests'
  BY <1>1, <1>2, <1>3 DEF IInv, Runs, Bests, Best, SamePrios
<1>5. pc' \in [Task -> {"run", "sched", "return"}]
  BY <1>1 DEF IInv, Types
<1> QED
  BY <1>1, <1>2, <1>3, <1>4, <1>5, SwitchKeeps

\* A task that is about to call knl_sched runs.
LEMMA AboutToSched ==
  ASSUME IInv, NEW t \in Task, Running(t), pc' = [pc EXCEPT ![t] = "sched"],
         SameNext(k', k), k'.curr = k.curr
  PROVE  Runs' /\ Bests'
<1>1. pc'[t] = "sched" /\ t = k'.curr /\ ~k'.pendsv
  BY DEF IInv, Types, Running, SameNext
<1> QED
  BY <1>1 DEF Runs, Bests

\* The answers that stand, when a step changes nothing about the owners.
LEMMA AnswersStand ==
  ASSUME IInv, asked' = asked, k'.owner = k.owner, NEW state,
         state \in {"TIMEOUT", "OWNER_DIE"},
         \A t \in Task : /\ pc'[t] = "run" => asked[t] = NoMutex
                         /\ pc'[t] = "return" => asked[t] # NoMutex,
         \A t \in Task :
           \/ k'.pending_obj[t] = k.pending_obj[t] /\ k'.pend_state[t] = k.pend_state[t]
           \/ /\ k.pending_obj[t] # NoMutex /\ k'.pending_obj[t] = NoMutex
              /\ k'.pend_state[t] = state
  PROVE  Answers'
<1> SUFFICES ASSUME NEW t \in Task
             PROVE  /\ k'.pending_obj[t] \in {NoMutex, asked[t]}
                    /\ asked[t] # NoMutex /\ k'.pending_obj[t] = NoMutex =>
                         /\ k'.pend_state[t] \in {"POST", "TIMEOUT", "OWNER_DIE"}
                         /\ k'.pend_state[t] = "POST" <=> k'.owner[asked[t]] = t
  BY DEF Answers
<1>1. /\ k.pending_obj[t] \in {NoMutex, asked[t]}
      /\ asked[t] # NoMutex /\ k.pending_obj[t] = NoMutex =>
           /\ k.pend_state[t] \in {"POST", "TIMEOUT", "OWNER_DIE"}
           /\ k.pend_state[t] = "POST" <=> k.owner[asked[t]] = t
  BY DEF IInv, Answers
<1>2. CASE k'.pending_obj[t] = k.pending_obj[t] /\ k'.pend_state[t] = k.pend_state[t]
  BY <1>1, <1>2
<1>3. CASE /\ k.pending_obj[t] # NoMutex /\ k'.pending_obj[t] = NoMutex
           /\ k'.pend_state[t] = state
  <2>1. k.pending_obj[t] = asked[t] /\ asked[t] \in Mutex
    BY <1>1, <1>3 DEF IInv, Types
  <2>2. k.owner[asked[t]] # t
    BY <2>1 DEF IInv, Manned
  <2> QED
    BY <1>3, <2>2
<1> QED
  BY <1>2, <1>3

\* What Delay leaves.
LEMMA DelayIs ==
  ASSUME IInv, NEW t \in Task, NEW ticks \in Delays, Delay(t, ticks)
  PROVE  Delayed(k', k, t, ticks)
<1>1. Struct(k) /\ t \in Ready(k) /\ ticks \in Nat
  BY Caller, ConstantsAssumption DEF Delay, Calls
<1> QED
  BY <1>1, Sleeps DEF Delay

\* tos_task_delay.
LEMMA DelayKeeps ==
  ASSUME IInv, NEW t \in Task, NEW ticks \in Delays, Delay(t, ticks)
  PROVE  IInv'
<1>1. /\ k \in KState /\ Struct(k) /\ OwnOK(k) /\ ~k.sched_locked /\ Running(t)
      /\ t \in Ready(k) /\ t \notin Sleeping(k) /\ pc[t] = "run"
  BY Caller DEF Delay, Calls
<1>2. /\ pc' = [pc EXCEPT ![t] = "sched"] /\ left' = [left EXCEPT ![t] = ticks]
      /\ UNCHANGED <<base, asked, bid, raised>>
  BY DEF Delay
<1>3. ticks \in Nat /\ 1 <= ticks
  BY ConstantsAssumption
<1>4. Delayed(k', k, t, ticks)
  BY DelayIs
<1>5. Types
  BY DEF IInv
<1>6. Types'
  BY <1>2, <1>3, <1>5 DEF Types
<1>7. Lists' /\ Manned'
  BY <1>1, <1>4, OwnSame
     DEF IInv, Lists, Manned, Delayed, SameOwners, SameRest, SameWaits
<1>8. Runs' /\ Bests'
  BY <1>1, <1>2, <1>4, AboutToSched DEF Delayed, SameRest
<1>9. Answers'
  <2>1. \A u \in Task : /\ pc'[u] = "run" => asked[u] = NoMutex
                        /\ pc'[u] = "return" => asked[u] # NoMutex
    BY <1>2, <1>5 DEF IInv, Answers, Types
  <2>2. /\ k'.owner = k.owner /\ k'.pending_obj = k.pending_obj
        /\ k'.pend_state = k.pend_state
    BY <1>4 DEF Delayed, SameOwners, SameWaits
  <2> QED
    BY <1>2, <2>1, <2>2, AnswersStand
<1>10. Times'
  <2>1. ListOf(k.tick_list, Sleeping(k)) /\ TicksFrom(k, left, 1) /\ left \in [Task -> Nat]
    BY <1>1, <1>5 DEF IInv, Struct, Times, Types
  <2>2. TicksFrom(tick_task_place(k, t, ticks), left', 1)
    BY <1>1, <1>2, <1>3, <2>1, PlaceKeepsTicks
  <2> QED
    BY <1>4, <2>2, TicksAlone DEF Times, Delayed
<1>11. Inherits' /\ Bases'
  BY <1>2, <1>4
     DEF IInv, Inherits, Bases, OwnsNothing, Delayed, SamePrios, SameWaits, SameOwners
<1> QED
  BY <1>6, <1>7, <1>8, <1>9, <1>10, <1>11 DEF IInv

\* What Tick leaves.
LEMMA TickIs ==
  ASSUME IInv, NEW up, Tick(up)
  PROVE  /\ Ticked(k', k) /\ left' = OneLess(k, left)
         /\ left' \in [Task -> Nat] /\ TicksFrom(k', left', 1)
<1>1. /\ Struct(k) /\ ~k.sched_locked
      /\ left \in [Task -> Nat] /\ TicksFrom(k, left, 1)
  BY DEF IInv, Lists, Types, Times
<1>2. /\ left' = OneLess(k, left)
      /\ k' = SwitchTo(robin_sched(tick_update(k), up),
                       highest_ready_task(robin_sched(tick_update(k), up)))
  BY DEF Tick, OneLess
<1> QED
  BY <1>1, <1>2, Ticks

\* The tick interrupt.
LEMMA TickKeeps ==
  ASSUME IInv, NEW up, Tick(up)
  PROVE  IInv'
<1>1. k \in KState /\ Struct(k) /\ OwnOK(k) /\ ~k.sched_locked /\ Types
  BY DEF IInv, Lists, Struct
<1>2. UNCHANGED <<pc, base, asked, bid, raised>>
  BY DEF Tick
<1>3. /\ Ticked(k', k) /\ left' \in [Task -> Nat] /\ TicksFrom(k', left', 1)
  BY TickIs
<1>4. Types' /\ Times'
  BY <1>1, <1>2, <1>3 DEF Types, Times
<1>5. Lists' /\ Manned'
  <2>1. \A t \in Task : k'.pending_obj[t] \in Mutex => k'.pending_obj[t] = k.pending_obj[t]
    BY <1>3, ConstantsAssumption DEF Ticked, Thread
  <2> QED
    BY <1>1, <1>3, <2>1, OwnSame DEF IInv, Lists, Manned, Ticked, SameOwners, SameRest
<1>6. Best(k', k'.next) /\ (k'.pendsv <=> k.pendsv \/ k'.next # k'.curr)
  BY <1>3, BestIs DEF Ticked, Dispatched, SameRest
<1>7. Runs' /\ Bests'
  BY <1>1, <1>2, <1>3, <1>6 DEF IInv, Runs, Bests, Best, Ticked, SameRest
<1>8. Answers'
  <2>1. \A u \in Task : /\ pc'[u] = "run" => asked[u] = NoMutex
                        /\ pc'[u] = "return" => asked[u] # NoMutex
    BY <1>2 DEF IInv, Answers
  <2> QED
    BY <1>2, <1>3, <2>1, AnswersStand DEF Ticked, SameOwners, Thread
<1>9. Inherits'
  <2>1. \A t \in Task : k'.pending_obj[t] \in Mutex => k'.pending_obj[t] = k.pending_obj[t]
    BY <1>3, ConstantsAssumption DEF Ticked, Thread
  <2> QED
    BY <1>2, <1>3, <2>1 DEF IInv, Inherits, Ticked, SamePrios, SameOwners
<1>10. Bases'
  BY <1>2, <1>3 DEF IInv, Bases, OwnsNothing, Ticked, SamePrios, SameOwners
<1> QED
  BY <1>4, <1>5, <1>7, <1>8, <1>9, <1>10 DEF IInv

\* What Destroy leaves.
LEMMA DieIs ==
  ASSUME IInv, NEW t \in Task, Destroy(t)
  PROVE  Died(k', k, t)
<1>1. Struct(k) /\ OwnOK(k) /\ ~k.sched_locked /\ t \in Ready(k)
  BY Caller DEF Destroy, Calls
<1> QED
  BY <1>1, Die DEF Destroy

\* tos_task_destroy: whoever waited for the task's mutexes is told so.
LEMMA DestroyKeeps ==
  ASSUME IInv, NEW t \in Task, Destroy(t)
  PROVE  IInv'
<1>1. /\ k \in KState /\ Struct(k) /\ OwnOK(k) /\ ~k.sched_locked /\ Running(t)
      /\ t \in Thread /\ t \in Ready(k) /\ k.pending_obj[t] = NoMutex /\ pc[t] = "run"
      /\ NoTask \notin Task /\ NoMutex \notin Mutex /\ k.deleted \subseteq Task
  BY Caller DEF Destroy, Calls, KState
<1>2. /\ pc' = [pc EXCEPT ![t] = "sched"] /\ UNCHANGED <<base, left, asked, bid, raised>>
      /\ asked[t] = NoMutex /\ Types
  BY <1>1 DEF Destroy, IInv, Answers
<1>3. Died(k', k, t)
  BY DieIs
<1>4. /\ \A o \in Mutex : IF k.owner[o] = t THEN k'.owner[o] = NoTask
                          ELSE /\ k'.owner[o] = k.owner[o]
                               /\ k'.owner_orig_prio[o] = k.owner_orig_prio[o]
      /\ \A u \in Task :
           IF k.pending_obj[u] \in Mutex /\ k.owner[k.pending_obj[u]] = t
             THEN k'.pending_obj[u] = NoMutex /\ (u # t => k'.pend_state[u] = "OWNER_DIE")
             ELSE /\ k'.pending_obj[u] = k.pending_obj[u]
                  /\ u # t => k'.pend_state[u] = k.pend_state[u]
      /\ \A u \in Task : u # t =>
           k'.prio[u] = k.prio[u] /\ k'.prio_pending[u] = k.prio_pending[u]
      /\ k'.deleted = k.deleted \cup {t}
  BY <1>3 DEF Died, Thread
\* Those who still wait, wait for somebody else.
<1>5. ASSUME NEW u \in Task, k'.pending_obj[u] \in Mutex
      PROVE  /\ u # t /\ k'.pending_obj[u] = k.pending_obj[u]
             /\ k.owner[k.pending_obj[u]] \in Task \ {u, t}
             /\ k'.owner[k.pending_obj[u]] = k.owner[k.pending_obj[u]]
  <2>1. /\ k'.pending_obj[u] = k.pending_obj[u]
        /\ k.owner[k.pending_obj[u]] # t
    BY <1>1, <1>4, <1>5
  <2>2. k.owner[k.pending_obj[u]] \in Task \ {u}
    BY <1>5, <2>1 DEF IInv, Manned
  <2> QED
    BY <1>1, <1>4, <1>5, <2>1, <2>2
<1>6. Types' /\ Lists'
  BY <1>2, <1>3 DEF Types, Lists, Died
<1>7. Manned'
  <2>1. \A m \in Mutex : k'.owner[m] \notin k'.deleted
    BY <1>1, <1>4 DEF IInv, Manned
  <2> QED
    BY <1>5, <2>1 DEF Manned
<1>8. Runs' /\ Bests'
  BY <1>1, <1>2, <1>3, AboutToSched DEF Died
<1>9. Answers'
  <2>1. ASSUME NEW u \in Task
        PROVE  /\ pc'[u] = "run" => asked[u] = NoMutex
               /\ pc'[u] = "return" => asked[u] # NoMutex
    BY <1>2 DEF IInv, Answers, Types
  <2>2. ASSUME NEW u \in Task
        PROVE  /\ k'.pending_obj[u] \in {NoMutex, asked[u]}
               /\ asked[u] # NoMutex /\ k'.pending_obj[u] = NoMutex =>
                    /\ k'.pend_state[u] \in {"POST", "TIMEOUT", "OWNER_DIE"}
                    /\ k'.pend_state[u] = "POST" <=> k'.owner[asked[u]] = u
    <3>1. /\ k.pending_obj[u] \in {NoMutex, asked[u]}
          /\ asked[u] # NoMutex /\ k.pending_obj[u] = NoMutex =>
               /\ k.pend_state[u] \in {"POST", "TIMEOUT", "OWNER_DIE"}
               /\ k.pend_state[u] = "POST" <=> k.owner[asked[u]] = u
      BY DEF IInv, Answers
    <3>2. CASE k.pending_obj[u] \in Mutex /\ k.owner[k.pending_obj[u]] = t
      <4>1. k.pending_obj[u] = asked[u] /\ k'.pending_obj[u] = NoMutex
        BY <1>1, <1>4, <3>1, <3>2
      <4>2. u # t /\ k'.pend_state[u] = "OWNER_DIE" /\ k'.owner[asked[u]] = NoTask
        BY <1>1, <1>4, <3>2, <4>1
      <4> QED
        BY <1>1, <4>1, <4>2
    <3>3. CASE ~(k.pending_obj[u] \in Mutex /\ k.owner[k.pending_obj[u]] = t)
      <4>1. k'.pending_obj[u] = k.pending_obj[u] /\ (u # t => k'.pend_state[u] = k.pend_state[u])
        BY <1>4, <3>3
      <4>2. CASE u = t
        BY <1>2, <3>1, <4>1, <4>2
      <4>3. CASE u # t /\ asked[u] # NoMutex /\ k.pending_obj[u] = NoMutex
        <5>1. asked[u] \in Mutex
          BY <1>2, <4>3 DEF Types
        <5>2. k.owner[asked[u]] = u <=> k'.owner[asked[u]] = u
          BY <1>1, <1>4, <4>3, <5>1
        <5> QED
          BY <3>1, <4>1, <4>3, <5>2
      <4> QED
        BY <3>1, <4>1, <4>2, <4>3
    <3> QED
      BY <3>2, <3>3
  <2> QED
    BY <1>2, <2>1, <2>2 DEF Answers
<1>10. Times'
  BY <1>2, <1>3 DEF IInv, Times, Types, Died, KeepsTicks
<1>11. Inherits'
  <2> SUFFICES ASSUME NEW u \in Task, k'.pending_obj[u] \in Mutex
               PROVE  k'.prio[u] <= bid[u] /\ k'.prio[k'.owner[k'.pending_obj[u]]] <= bid[u]
    BY <1>2 DEF Inherits
  <2>1. k.prio[u] <= bid[u] /\ k.prio[k.owner[k.pending_obj[u]]] <= bid[u]
    BY <1>5 DEF IInv, Inherits
  <2> QED
    BY <1>4, <1>5, <2>1
<1>12. Bases'
  <2>1. ASSUME NEW u \in Task, u # t
        PROVE  /\ OwnsNothing(k', u) => OwnsNothing(k, u)
               /\ k'.prio[u] = k.prio[u] /\ k'.prio_pending[u] = k.prio_pending[u]
               /\ \A m \in Mutex : k'.owner[m] = u =>
                    k.owner[m] = u /\ k'.owner_orig_prio[m] = k.owner_orig_prio[m]
    BY <1>1, <1>4, <2>1 DEF OwnsNothing
  <2>2. k'.prio_pending[t] = INVALID /\ \A m \in Mutex : k'.owner[m] # t
    BY <1>1, <1>3, <1>4 DEF Died
  <2>3. t \notin raised => k'.prio[t] = base[t]
    <3>1. /\ base[t] \in 0..PrioIdle - 1
          /\ t \notin raised =>
               /\ k.prio_pending[t] \in {INVALID, base[t]}
               /\ \A m \in Mutex : k.owner[m] = t => k.owner_orig_prio[m] = base[t]
               /\ OwnsNothing(k, t) => k.prio[t] = base[t]
      BY <1>2 DEF IInv, Bases, Types
    <3> QED
      BY <1>3, <3>1 DEF Died
  <2>4. ASSUME NEW u \in Task
        PROVE  /\ OwnsNothing(k', u) => k'.prio_pending[u] = INVALID
               /\ u \notin raised =>
                    /\ k'.prio_pending[u] \in {INVALID, base[u]}
                    /\ \A m \in Mutex : k'.owner[m] = u => k'.owner_orig_prio[m] = base[u]
                    /\ OwnsNothing(k', u) => k'.prio[u] = base[u]
    <3>1. CASE u = t
      BY <2>2, <2>3, <3>1
    <3>2. CASE u # t
      BY <2>1, <3>2 DEF IInv, Bases
    <3> QED
      BY <3>1, <3>2
  <2> QED
    BY <1>2, <2>4 DEF Bases
<1> QED
  BY <1>6, <1>7, <1>8, <1>9, <1>10, <1>11, <1>12 DEF IInv

\* What PendWait leaves.
LEMMA WaitIs ==
  ASSUME IInv, NEW t \in Task, NEW m \in Mutex, NEW timeout \in Timeouts,
         PendWait(t, m, timeout)
  PROVE  /\ k.pending_obj[t] = NoMutex /\ k.owner[m] \notin {NoTask, t}
         /\ k.owner[m] \in Task \ {t} /\ timeout \in Nat \ {0}
         /\ Waiting(k', k, t, m, timeout)
<1>1. /\ k \in KState /\ Struct(k) /\ OwnOK(k) /\ ~k.sched_locked
      /\ t \in Ready(k) /\ k.pending_obj[t] = NoMutex /\ NoTask \notin Task
  BY Caller DEF PendWait, Calls
<1>2. k.pend_nesting[m] > 0 /\ k.owner[m] # t
  BY DEF PendWait
<1>3. k.owner[m] # NoTask /\ k.owner[m] \in Task \cup {NoTask}
  <2>1. k.owner \in [Mutex -> Task \cup {NoTask}] /\ k.pend_nesting \in [Mutex -> Nat]
    BY <1>1, Fields
  <2>2. k.pend_nesting[m] = 0 <=> k.owner[m] = NoTask
    BY <1>1 DEF OwnOK
  <2> QED
    BY <1>2, <2>1, <2>2
<1>4. k.owner[m] \in Task \ {t} /\ k.owner[m] \notin k.deleted
  BY <1>2, <1>3 DEF IInv, Manned
<1>5. timeout \in Nat \ {0}
  BY ConstantsAssumption
<1> QED
  BY <1>1, <1>2, <1>3, <1>4, <1>5, Waits DEF PendWait

\* tos_mutex_pend_timed that waits.
LEMMA PendWaitKeeps ==
  ASSUME IInv, NEW t \in Task, NEW m \in Mutex, NEW timeout \in Timeouts,
         PendWait(t, m, timeout)
  PROVE  IInv'
<1> DEFINE o == k.owner[m]
           ticks == IF timeout = FOREVER THEN 0 ELSE timeout
<1>1. /\ k \in KState /\ Struct(k) /\ OwnOK(k) /\ ~k.sched_locked /\ Running(t)
      /\ t \in Thread /\ t \in Ready(k) /\ t = k.curr /\ ~k.pendsv /\ pc[t] = "run"
      /\ NoTask \notin Task /\ NoMutex \notin Mutex /\ Types
  BY Caller DEF PendWait, Calls, IInv
<1>2. /\ pc' = [pc EXCEPT ![t] = "sched"] /\ left' = [left EXCEPT ![t] = ticks]
      /\ asked' = [asked EXCEPT ![t] = m] /\ bid' = [bid EXCEPT ![t] = k.prio[t]]
      /\ raised' = Raised /\ base' = base
  BY DEF PendWait
<1>3. o \in Task \ {t}
  BY WaitIs
<1>4. ticks \in Nat
  BY WaitIs
<1>5. Waiting(k', k, t, m, timeout)
  BY WaitIs
<1> HIDE DEF o, ticks
<1>6. /\ Struct(k') /\ OwnOK(k') /\ SameOwners(k', k) /\ SameRest(k', k)
      /\ k'.pending_obj = [k.pending_obj EXCEPT ![t] = m]
      /\ k'.pend_state = [k.pend_state EXCEPT ![t] = "NONE"]
      /\ Ready(k') = Ready(k) \ {t}
      /\ \A u \in Thread : u # o =>
           k'.prio[u] = k.prio[u] /\ k'.prio_pending[u] = k.prio_pending[u]
      /\ k'.prio[o] <= k.prio[t] /\ k'.prio[o] <= k.prio[o]
      /\ \A n \in Mutex : k.owner[n] = o => \A w \in Waiters(k, n) :
           k'.prio[o] = k.prio[o] \/ k'.prio[o] <= k.prio[w]
      /\ \A remains \in [Task -> Nat] : TicksFrom(k, remains, 1) =>
           TicksFrom(k', [remains EXCEPT ![t] = ticks], 1)
      /\ \/ SameNext(k', k)
         \/ /\ k'.next \in Ready(k) /\ (k'.pendsv <=> k.pendsv \/ k'.next # k.curr)
            /\ \A u \in Ready(k) : k'.prio[k'.next] <= k'.prio[u]
  BY <1>5 DEF Waiting, o, ticks
<1>7. /\ k'.pending_obj[t] = m
      /\ \A u \in Task : u # t => /\ k'.pending_obj[u] = k.pending_obj[u]
                                  /\ k'.pend_state[u] = k.pend_state[u]
      /\ k'.owner = k.owner /\ k'.owner_orig_prio = k.owner_orig_prio
      /\ k'.curr = k.curr /\ k'.deleted = k.deleted
  BY <1>1, <1>6 DEF KState, Thread, SameOwners, SameRest
<1>8. \A u \in Thread : k.prio[u] \in Nat /\ k'.prio[u] \in Nat
  BY <1>1, <1>6, PrioFacts DEF Struct, KState
<1>9. pc'[t] = "sched" /\ t = k'.curr
  BY <1>1, <1>2, <1>7 DEF Types
<1>10. Lists' /\ Manned'
  <2>1. ~k'.sched_locked
    BY <1>1, <1>6 DEF SameRest
  <2>2. \A u \in Task : k'.pending_obj[u] \in Mutex =>
          k'.owner[k'.pending_obj[u]] \in Task \ {u}
    BY <1>3, <1>7 DEF IInv, Manned, o
  <2> QED
    BY <1>6, <1>7, <2>1, <2>2 DEF Lists, IInv, Manned
<1>11. Runs'
  BY <1>1, <1>6, <1>9 DEF Runs, SameNext
<1>12. Bests'
  <2>1. CASE ~k'.pendsv
    BY <1>9, <2>1 DEF Bests
  <2>2. CASE k'.pendsv
    <3>1. Best(k', k'.next)
      BY <1>1, <1>6, <2>2 DEF Best, SameNext
    <3> QED
      BY <2>2, <3>1 DEF Bests
  <2> QED
    BY <2>1, <2>2
<1>13. Answers'
  <2> SUFFICES ASSUME NEW u \in Task
               PROVE  /\ pc'[u] = "run" => asked'[u] = NoMutex
                      /\ pc'[u] = "return" => asked'[u] # NoMutex
                      /\ k'.pending_obj[u] \in {NoMutex, asked'[u]}
                      /\ asked'[u] # NoMutex /\ k'.pending_obj[u] = NoMutex =>
                           /\ k'.pend_state[u] \in {"POST", "TIMEOUT", "OWNER_DIE"}
                           /\ k'.pend_state[u] = "POST" <=> k'.owner[asked'[u]] = u
    BY DEF Answers
  <2>1. CASE u = t
    <3>1. asked'[t] = m /\ m # NoMutex
      BY <1>1, <1>2 DEF Types
    <3> QED
      BY <1>7, <1>9, <2>1, <3>1
  <2>2. CASE u # t
    <3>1. asked'[u] = asked[u] /\ pc'[u] = pc[u]
      BY <1>1, <1>2, <2>2 DEF Types
    <3> QED
      BY <1>7, <2>2, <3>1 DEF IInv, Answers
  <2> QED
    BY <2>1, <2>2
<1>14. Times'
  BY <1>1, <1>2, <1>6 DEF IInv, Times, Types
<1>15. Inherits'
  <2> SUFFICES ASSUME NEW u \in Task, k'.pending_obj[u] \in Mutex
               PROVE  k'.prio[u] <= bid'[u] /\ k'.prio[k.owner[k'.pending_obj[u]]] <= bid'[u]
    BY <1>7 DEF Inherits
  <2>1. CASE u = t
    <3>1. bid'[t] = k.prio[t] /\ k'.prio[t] = k.prio[t] /\ k.owner[m] = o
      BY <1>1, <1>2, <1>3, <1>6 DEF Types, o
    <3> QED
      BY <1>1, <1>6, <1>7, <1>8, <2>1, <3>1
  <2>2. CASE u # t
    <3> DEFINE n == k.pending_obj[u]
    <3>1. n \in Mutex /\ k'.pending_obj[u] = n /\ bid'[u] = bid[u] /\ bid[u] \in Nat
      BY <1>1, <1>2, <1>7, <2>2, PrioFacts DEF Types
    <3>2. k.prio[u] <= bid[u] /\ k.prio[k.owner[n]] <= bid[u] /\ k.owner[n] \in Task
      BY <3>1 DEF IInv, Inherits, Manned
    <3>3. u \in Waiters(k, n)
      BY DEF Waiters
    <3> HIDE DEF n
    <3>4. u \in Thread /\ k.owner[n] \in Thread /\ o \in Thread
      BY <1>3, <3>2 DEF Thread
    <3>5. k'.prio[u] <= bid[u]
      BY <1>6, <1>8, <3>1, <3>2, <3>4
    <3>6. k'.prio[k.owner[n]] <= bid[u]
      <4>1. CASE k.owner[n] = o
        <5>1. k'.prio[o] = k.prio[o] \/ k'.prio[o] <= k.prio[u]
          BY <1>6, <3>1, <3>3, <4>1
        <5> QED
          BY <1>8, <3>1, <3>2, <3>4, <4>1, <5>1
      <4>2. CASE k.owner[n] # o
        BY <1>6, <3>2, <3>4, <4>2
      <4> QED
        BY <4>1, <4>2
    <3> QED
      BY <3>1, <3>5, <3>6
  <2> QED
    BY <2>1, <2>2
<1>16. Bases' /\ raised' \in SUBSET Task
  <2>1. \A u \in Task : OwnsNothing(k', u) =>
          /\ OwnsNothing(k, u) /\ k'.prio[u] = k.prio[u]
          /\ k'.prio_pending[u] = k.prio_pending[u]
    BY <1>6, <1>7 DEF OwnsNothing, Thread, o
  <2>2. \A u \in Task : OwnsNothing(k', u) => k'.prio_pending[u] = INVALID
    BY <2>1 DEF IInv, Bases
  <2>3. \A u \in Task \ raised : OwnsNothing(k', u) => k'.prio[u] = base[u]
    BY <2>1 DEF IInv, Bases
  <2> QED
    BY <1>2, <1>6, <1>7, <2>2, <2>3, RaisedBases
<1>17. Types'
  <2>1. k.prio[t] \in 0..INVALID
    <3>1. k.prio \in [Thread -> Prio]
      BY <1>1, Fields
    <3> QED
      BY <1>1, <3>1, PrioFacts DEF Thread
  <2> QED
    BY <1>1, <1>2, <1>4, <1>16, <2>1 DEF Types
<1> QED
  BY <1>10, <1>11, <1>12, <1>13, <1>14, <1>15, <1>16, <1>17 DEF IInv

\* tos_mutex_post of a mutex that nobody waits for.
LEMMA ReleasedKeeps ==
  ASSUME IInv, NEW t \in Task, NEW m \in Mutex, Calls(t, "run"), k.owner[m] = t,
         UNCHANGED <<pc, base, left, asked, bid>>, raised' = Raised,
         Released(k', k, m), k'.pend_list[m] = <<>>
  PROVE  IInv'
<1>1. /\ k \in KState /\ Struct(k) /\ OwnOK(k) /\ ~k.sched_locked /\ pc[t] = "run"
      /\ t \in Thread /\ t \in Ready(k) /\ t = k.curr /\ ~k.pendsv
      /\ k.pending_obj[t] = NoMutex /\ NoTask \notin Task /\ NoMutex \notin Mutex
      /\ Types /\ asked[t] = NoMutex
  BY Caller DEF Calls, IInv, Answers
<1>2. /\ Struct(k') /\ OwnOK(k') /\ SameTimes(k', k) /\ SameRest(k', k)
      /\ k'.pend_state = k.pend_state /\ k'.pending_obj = k.pending_obj
      /\ Ready(k') = Ready(k)
      /\ k'.owner = [k.owner EXCEPT ![m] = NoTask]
      /\ k'.owner_orig_prio = [k.owner_orig_prio EXCEPT ![m] = INVALID]
      /\ \A u \in Thread : u # t =>
           k'.prio[u] = k.prio[u] /\ k'.prio_pending[u] = k.prio_pending[u]
      /\ \A o \in Mutex : k'.owner[o] = t => \A w \in Waiters(k, o) :
           k'.prio[t] = k.prio[t] \/ k'.prio[t] <= k.prio[w]
      /\ k'.mutex_own_list[t] = <<>> => k'.prio_pending[t] = INVALID
      /\ \A b \in 0..PrioIdle - 1 :
           k.prio_pending[t] \in {INVALID, b} /\ k.owner_orig_prio[m] = b =>
             /\ k'.prio_pending[t] \in {INVALID, b}
             /\ k'.mutex_own_list[t] = <<>> => k'.prio[t] = b
      /\ (SameNext(k', k) /\ k'.prio = k.prio) \/ Dispatched(k', k)
  BY <1>1 DEF Released
<1>3. /\ k'.owner[m] = NoTask
      /\ \A o \in Mutex : o # m => /\ k'.owner[o] = k.owner[o]
                                   /\ k'.owner_orig_prio[o] = k.owner_orig_prio[o]
      /\ k'.curr = k.curr /\ k'.deleted = k.deleted /\ ~k'.sched_locked
  BY <1>1, <1>2 DEF KState, SameRest
<1>4. \A u \in Thread : k.prio[u] \in Nat /\ k'.prio[u] \in Nat
  BY <1>1, <1>2, PrioFacts DEF Struct, KState
<1>5. \A u \in Task : k.pending_obj[u] # m
  <2>1. ListOf(k'.pend_list[m], Waiters(k', m))
    BY <1>2 DEF Struct, PendOK
  <2>2. Waiters(k', m) = {}
    BY <2>1, EmptyList
  <2> QED
    BY <1>2, <2>2 DEF Waiters
<1>6. Lists' /\ Manned'
  <2>1. \A u \in Task : k'.pending_obj[u] \in Mutex =>
          k'.owner[k'.pending_obj[u]] \in Task \ {u}
    BY <1>2, <1>3, <1>5 DEF IInv, Manned
  <2>2. \A o \in Mutex : k'.owner[o] \notin k'.deleted
    BY <1>1, <1>3 DEF IInv, Manned, KState
  <2> QED
    BY <1>2, <1>3, <2>1, <2>2 DEF Lists, Manned
<1>7. Runs' /\ Bests'
  <2>1. CASE SameNext(k', k) /\ k'.prio = k.prio
    BY <1>1, <1>2, <1>3, <2>1 DEF IInv, Runs, Bests, Best, SameNext
  <2>2. CASE Dispatched(k', k)
    <3>1. Best(k', k'.next) /\ (k'.pendsv <=> k'.next # k'.curr)
      BY <1>1, <1>2, <1>3, <2>2, BestIs DEF Dispatched
    <3> QED
      BY <1>1, <1>2, <1>3, <3>1 DEF Runs, Bests, Best
  <2> QED
    BY <1>2, <2>1, <2>2
<1>8. Answers'
  <2> SUFFICES ASSUME NEW u \in Task, asked[u] # NoMutex
               PROVE  k'.owner[asked[u]] = u <=> k.owner[asked[u]] = u
    BY <1>2 DEF IInv, Answers
  <2>1. asked[u] \in Mutex /\ u # t
    BY <1>1 DEF Types
  <2> QED
    BY <1>1, <1>3, <2>1
<1>9. Times'
  BY <1>2, TicksAlone DEF IInv, Times, SameTimes, TimesOf
<1>10. Inherits'
  <2> SUFFICES ASSUME NEW u \in Task, k.pending_obj[u] \in Mutex
               PROVE  /\ k'.prio[u] <= bid[u]
                      /\ k'.prio[k'.owner[k.pending_obj[u]]] <= bid[u]
    BY <1>2 DEF Inherits
  <2> DEFINE n == k.pending_obj[u]
  <2>1. n \in Mutex /\ u # t /\ bid[u] \in Nat /\ k'.owner[n] = k.owner[n]
    BY <1>1, <1>3, <1>5, PrioFacts DEF Types
  <2>2. k.prio[u] <= bid[u] /\ k.prio[k.owner[n]] <= bid[u] /\ k.owner[n] \in Task
    BY <2>1 DEF IInv, Inherits, Manned
  <2>3. u \in Waiters(k, n)
    BY DEF Waiters
  <2> HIDE DEF n
  <2>4. u \in Thread /\ k.owner[n] \in Thread
    BY <2>2 DEF Thread
  <2>5. k'.prio[u] <= bid[u]
    BY <1>2, <2>1, <2>2, <2>4
  <2>6. k'.prio[k.owner[n]] <= bid[u]
    <3>1. CASE k.owner[n] = t
      <4>1. k'.prio[t] = k.prio[t] \/ k'.prio[t] <= k.prio[u]
        BY <1>2, <2>1, <2>3, <3>1
      <4> QED
        BY <1>1, <1>4, <2>1, <2>2, <2>4, <3>1, <4>1
    <3>2. CASE k.owner[n] # t
      BY <1>2, <2>2, <2>4, <3>2
    <3> QED
      BY <3>1, <3>2
  <2> QED
    BY <2>1, <2>5, <2>6 DEF n
<1>11. Bases' /\ raised' \in SUBSET Task
  <2>1. ASSUME NEW u \in Task, OwnsNothing(k', u), u # t
        PROVE  /\ OwnsNothing(k, u) /\ k'.prio[u] = k.prio[u]
               /\ k'.prio_pending[u] = k.prio_pending[u]
    <3>1. \A o \in Mutex : k.owner[o] # u
      BY <1>3, <2>1 DEF OwnsNothing
    <3> QED
      BY <1>2, <2>1, <3>1 DEF OwnsNothing, Thread
  <2>2. OwnsNothing(k', t) => k'.mutex_own_list[t] = <<>>
    BY <1>1, <1>2, OwnsNothingIs
  <2>3. \A u \in Task : OwnsNothing(k', u) => k'.prio_pending[u] = INVALID
    BY <1>2, <2>1, <2>2 DEF IInv, Bases
  <2>4. t \notin raised /\ OwnsNothing(k', t) => k'.prio[t] = base[t]
    <3>1. /\ base[t] \in 0..PrioIdle - 1
          /\ t \notin raised => /\ k.prio_pending[t] \in {INVALID, base[t]}
                                /\ k.owner_orig_prio[m] = base[t]
      BY <1>1 DEF IInv, Bases, Types
    <3> QED
      BY <1>2, <2>2, <3>1
  <2>5. \A u \in Task \ raised : OwnsNothing(k', u) => k'.prio[u] = base[u]
    BY <2>1, <2>4 DEF IInv, Bases
  <2>6. \A o \in Mutex : k'.owner[o] = k.owner[o] =>
          k'.owner_orig_prio[o] = k.owner_orig_prio[o]
    BY <1>1, <1>3
  <2> QED
    BY <1>2, <2>3, <2>5, <2>6, RaisedBases
<1>12. Types'
  BY <1>1, <1>11 DEF Types
<1> QED
  BY <1>6, <1>7, <1>8, <1>9, <1>10, <1>11, <1>12 DEF IInv

\* tos_mutex_post of a mutex that passes to a waiter.
LEMMA PassedKeeps ==
  ASSUME IInv, NEW t \in Task, NEW m \in Mutex, Calls(t, "run"), k.owner[m] = t,
         UNCHANGED <<base, left, asked, bid>>, raised' = Raised,
         pc' = [pc EXCEPT ![t] = "sched"], NEW heir, Passed(k', k, m, heir)
  PROVE  IInv'
<1>1. /\ k \in KState /\ Struct(k) /\ OwnOK(k) /\ ~k.sched_locked /\ pc[t] = "run"
      /\ t \in Thread /\ t \in Ready(k) /\ t = k.curr /\ ~k.pendsv
      /\ k.pending_obj[t] = NoMutex /\ NoTask \notin Task /\ NoMutex \notin Mutex
      /\ Types /\ asked[t] = NoMutex
  BY Caller DEF Calls, IInv, Answers
<1>2. /\ Struct(k') /\ OwnOK(k') /\ SameRest(k', k) /\ KeepsTicks(k', k)
      /\ heir \in Waiters(k, m) /\ heir # t
      /\ k'.pending_obj = [k.pending_obj EXCEPT ![heir] = NoMutex]
      /\ k'.pend_state = [k.pend_state EXCEPT ![heir] = "POST"]
      /\ k'.owner = [k.owner EXCEPT ![m] = heir]
      /\ k'.owner_orig_prio = [k.owner_orig_prio EXCEPT ![m] = k.prio[heir]]
      /\ Ready(k') = Ready(k) \cup {heir}
      /\ \A u \in Thread : u # t =>
           k'.prio[u] = k.prio[u] /\ k'.prio_pending[u] = k.prio_pending[u]
      /\ \A w \in Waiters(k', m) : k'.prio[heir] <= k'.prio[w]
      /\ \A o \in Mutex : k'.owner[o] = t => \A w \in Waiters(k, o) :
           k'.prio[t] = k.prio[t] \/ k'.prio[t] <= k.prio[w]
      /\ OwnsNothing(k', t) => k'.prio_pending[t] = INVALID
      /\ \A b \in 0..PrioIdle - 1 :
           k.prio_pending[t] \in {INVALID, b} /\ k.owner_orig_prio[m] = b =>
             /\ k'.prio_pending[t] \in {INVALID, b}
             /\ OwnsNothing(k', t) => k'.prio[t] = b
      /\ k'.next \in Ready(k) \/ SameNext(k', k)
  BY DEF Passed
<1>3. heir \in Task /\ k.pending_obj[heir] = m /\ asked[heir] = m /\ heir \notin k.deleted
  <2>1. heir \in Task /\ k.pending_obj[heir] = m
    BY <1>2 DEF Waiters
  <2> QED
    BY <1>1, <2>1 DEF IInv, Answers, Struct
<1>4. /\ k'.owner[m] = heir
      /\ \A o \in Mutex : o # m => /\ k'.owner[o] = k.owner[o]
                                   /\ k'.owner_orig_prio[o] = k.owner_orig_prio[o]
      /\ k'.pending_obj[heir] = NoMutex /\ k'.pend_state[heir] = "POST"
      /\ \A u \in Task : u # heir => /\ k'.pending_obj[u] = k.pending_obj[u]
                                     /\ k'.pend_state[u] = k.pend_state[u]
      /\ k'.curr = k.curr /\ k'.deleted = k.deleted /\ ~k'.sched_locked
  BY <1>1, <1>2, <1>3 DEF KState, SameRest, Thread
<1>5. \A u \in Thread : k.prio[u] \in Nat /\ k'.prio[u] \in Nat
  BY <1>1, <1>2, PrioFacts DEF Struct, KState
<1>6. pc'[t] = "sched" /\ t = k'.curr /\ \A u \in Task : u # t => pc'[u] = pc[u]
  BY <1>1, <1>4 DEF Types
<1>7. Lists' /\ Manned'
  <2>1. \A u \in Task : k'.pending_obj[u] \in Mutex =>
          k'.owner[k'.pending_obj[u]] \in Task \ {u}
    BY <1>1, <1>3, <1>4 DEF IInv, Manned
  <2>2. \A o \in Mutex : k'.owner[o] \notin k'.deleted
    BY <1>3, <1>4 DEF IInv, Manned
  <2> QED
    BY <1>2, <1>4, <2>1, <2>2 DEF Lists, Manned
<1>8. Runs' /\ Bests'
  BY <1>1, <1>2, <1>6 DEF Runs, Bests, SameNext
<1>9. Answers'
  <2> SUFFICES ASSUME NEW u \in Task
               PROVE  /\ pc'[u] = "run" => asked[u] = NoMutex
                      /\ pc'[u] = "return" => asked[u] # NoMutex
                      /\ k'.pending_obj[u] \in {NoMutex, asked[u]}
                      /\ asked[u] # NoMutex /\ k'.pending_obj[u] = NoMutex =>
                           /\ k'.pend_state[u] \in {"POST", "TIMEOUT", "OWNER_DIE"}
                           /\ k'.pend_state[u] = "POST" <=> k'.owner[asked[u]] = u
    BY DEF Answers
  <2>1. CASE u = heir
    BY <1>2, <1>3, <1>4, <1>6, <2>1 DEF IInv, Answers
  <2>2. CASE u = t
    BY <1>1, <1>2, <1>4, <1>6, <2>2
  <2>3. CASE u # heir /\ u # t
    <3>1. asked[u] # NoMutex => (k'.owner[asked[u]] = u <=> k.owner[asked[u]] = u)
      <4>1. asked[u] # NoMutex => asked[u] \in Mutex
        BY <1>1 DEF Types
      <4> QED
        BY <1>4, <2>3, <4>1
    <3> QED
      BY <1>4, <1>6, <2>3, <3>1 DEF IInv, Answers
  <2> QED
    BY <2>1, <2>2, <2>3
<1>10. Times'
  BY <1>1, <1>2 DEF IInv, Times, Types, KeepsTicks
<1>11. Inherits'
  <2> SUFFICES ASSUME NEW u \in Task, k'.pending_obj[u] \in Mutex
               PROVE  /\ k'.prio[u] <= bid[u]
                      /\ k'.prio[k'.owner[k'.pending_obj[u]]] <= bid[u]
    BY DEF Inherits
  <2> DEFINE n == k.pending_obj[u]
  <2>1. n \in Mutex /\ k'.pending_obj[u] = n /\ u # heir /\ u # t /\ bid[u] \in Nat
    BY <1>1, <1>2, <1>4, PrioFacts DEF Types
  <2>2. k.prio[u] <= bid[u] /\ k.prio[k.owner[n]] <= bid[u] /\ k.owner[n] \in Task
    BY <2>1 DEF IInv, Inherits, Manned
  <2>3. u \in Waiters(k, n) /\ u \in Waiters(k', n)
    BY <2>1 DEF Waiters
  <2> HIDE DEF n
  <2>4. u \in Thread /\ k.owner[n] \in Thread /\ heir \in Thread
    BY <1>3, <2>2 DEF Thread
  <2>5. k'.prio[u] = k.prio[u] /\ k'.prio[u] <= bid[u]
    BY <1>2, <2>1, <2>2, <2>4
  <2>6. k'.prio[k'.owner[n]] <= bid[u]
    <3>1. CASE n = m
      <4>1. k'.prio[heir] <= k'.prio[u]
        BY <1>2, <2>3, <3>1
      <4> QED
        BY <1>4, <1>5, <2>1, <2>4, <2>5, <3>1, <4>1
    <3>2. CASE n # m /\ k.owner[n] = t
      <4>1. k'.prio[t] = k.prio[t] \/ k'.prio[t] <= k.prio[u]
        BY <1>2, <1>4, <2>1, <2>3, <3>2
      <4> QED
        BY <1>1, <1>4, <1>5, <2>1, <2>2, <2>4, <3>2, <4>1
    <3>3. CASE n # m /\ k.owner[n] # t
      BY <1>2, <1>4, <2>1, <2>2, <2>4, <3>3
    <3> QED
      BY <3>1, <3>2, <3>3
  <2> QED
    BY <2>1, <2>5, <2>6
<1>12. Bases' /\ raised' \in SUBSET Task
  <2>1. ASSUME NEW u \in Task, OwnsNothing(k', u), u # t
        PROVE  /\ OwnsNothing(k, u) /\ k'.prio[u] = k.prio[u]
               /\ k'.prio_pending[u] = k.prio_pending[u]
    <3>1. \A o \in Mutex : k.owner[o] # u
      BY <1>4, <2>1 DEF OwnsNothing
    <3> QED
      BY <1>2, <2>1, <3>1 DEF OwnsNothing, Thread
  <2>2. \A u \in Task : OwnsNothing(k', u) => k'.prio_pending[u] = INVALID
    BY <1>2, <2>1 DEF IInv, Bases
  <2>3. t \notin raised /\ OwnsNothing(k', t) => k'.prio[t] = base[t]
    <3>1. /\ base[t] \in 0..PrioIdle - 1
          /\ t \notin raised => /\ k.prio_pending[t] \in {INVALID, base[t]}
                                /\ k.owner_orig_prio[m] = base[t]
      BY <1>1 DEF IInv, Bases, Types
    <3> QED
      BY <1>2, <3>1
  <2>4. \A u \in Task \ raised : OwnsNothing(k', u) => k'.prio[u] = base[u]
    BY <2>1, <2>3 DEF IInv, Bases
  <2>5. \A o \in Mutex : k'.owner[o] = k.owner[o] =>
          k'.owner_orig_prio[o] = k.owner_orig_prio[o]
    BY <1>2, <1>4
  <2> QED
    BY <1>2, <2>2, <2>4, <2>5, RaisedBases
<1>13. Types'
  BY <1>1, <1>12 DEF Types
<1> QED
  BY <1>7, <1>8, <1>9, <1>10, <1>11, <1>12, <1>13 DEF IInv

\* A post counts down, or frees the mutex, or passes it to a waiter.
LEMMA PostIs ==
  ASSUME IInv, NEW t \in Task, NEW m \in Mutex, Post(t, m)
  PROVE  /\ Calls(t, "run") /\ k.owner[m] = t
         /\ UNCHANGED <<base, left, asked, bid>> /\ raised' = Raised
         /\ \/ /\ OnlyOwners(k', k) /\ k'.owner = k.owner
               /\ k'.owner_orig_prio = k.owner_orig_prio /\ pc' = pc
            \/ Released(k', k, m) /\ k'.pend_list[m] = <<>> /\ pc' = pc
            \/ /\ \E heir \in Task : Passed(k', k, m, heir)
               /\ pc' = [pc EXCEPT ![t] = "sched"]
<1> DEFINE s == mutex_old_owner_release(k, m)
           heir == Head(s.pend_list[m])
<1>1. /\ k \in KState /\ Struct(k) /\ OwnOK(k) /\ ~k.sched_locked /\ t \in Thread
      /\ k.pending_obj[t] = NoMutex /\ t \notin k.deleted /\ NoTask \notin Task
      /\ Calls(t, "run")
  BY Caller DEF Post, Calls
<1>2. k.owner[m] = t
  BY <1>1, OwnIs DEF Post, Innermost
<1>3. UNCHANGED <<base, left, asked, bid>> /\ raised' = Raised
  BY DEF Post
<1>4. CASE k.pend_nesting[m] > 1 /\ k' = [k EXCEPT !.pend_nesting[m] = @ - 1] /\ pc' = pc
  <2>1. k.pend_nesting[m] - 1 \in Nat \ {0} /\ k.owner[m] # NoTask
    <3>1. k.pend_nesting \in [Mutex -> Nat] /\ t \in Task /\ NoTask \notin Task
      BY <1>1, Fields
    <3> QED
      BY <1>2, <1>4, <3>1
  <2>2. k' = [k EXCEPT !.pend_nesting[m] = k.pend_nesting[m] - 1]
    BY <1>4
  <2>3. OnlyOwners(k', k) /\ k'.owner = k.owner /\ k'.owner_orig_prio = k.owner_orig_prio
    BY <1>1, <2>1, <2>2, Nest
  <2> QED
    BY <1>1, <1>2, <1>3, <1>4, <2>3
<1>5. CASE s.pend_list[m] = <<>> /\ k' = s /\ pc' = pc
  <2>1. Released(k', k, m)
    BY <1>1, <1>2, <1>5, Release
  <2> QED
    BY <1>1, <1>2, <1>3, <1>5, <2>1
<1>6. CASE /\ s.pend_list[m] # <<>>
           /\ k' = pend_task_wakeup(mutex_new_owner_mark(s, m, heir), heir, "POST")
           /\ pc' = [pc EXCEPT ![t] = "sched"]
  <2>1. Passed(k', k, m, heir)
    BY <1>1, <1>2, <1>6, PassOn
  <2>2. heir \in Task
    BY <2>1 DEF Passed, Waiters
  <2> QED
    BY <1>1, <1>2, <1>3, <1>6, <2>1, <2>2
<1> QED
  BY <1>4, <1>5, <1>6 DEF Post

\* tos_mutex_post.
LEMMA PostKeeps ==
  ASSUME IInv, NEW t \in Task, NEW m \in Mutex, Post(t, m)
  PROVE  IInv'
BY PostIs, OwnersKeep, ReleasedKeeps, PassedKeeps

LEMMA StutterKeeps == IInv /\ UNCHANGED vars => IInv'
BY DEF IInv, Types, Lists, Manned, Runs, Answers, Times, Inherits, Bases, Bests, vars

\* Each step keeps the invariant.
LEMMA StepRight == IInv /\ [Next]_vars => IInv'
<1> SUFFICES ASSUME IInv, [Next]_vars PROVE IInv'
  OBVIOUS
<1>1. CASE \E t \in Task : TaskStep(t)
  <2>1. PICK t \in Task : TaskStep(t)
    BY <1>1
  <2> QED
    BY <2>1, PendFreeKeeps, PostKeeps, PendWaitKeeps, DelayKeeps, DestroyKeeps,
       SchedKeeps, ReturnKeeps DEF TaskStep
<1>2. CASE \E up \in BOOLEAN : Tick(up)
  BY <1>2, TickKeeps
<1>3. CASE PendSV
  BY <1>3, PendSVKeeps
<1>4. CASE UNCHANGED vars
  BY <1>4, StutterKeeps
<1> QED
  BY <1>1, <1>2, <1>3, <1>4 DEF Next

LEMMA AlwaysIInv == Spec => []IInv
BY InitRight, StepRight, PTL DEF Spec

-----------------------------------------------------------------------------
(* What the invariant says of the properties.                              *)

\* The lists of the queue hold each ready task once.
LEMMA ReadyQueueHolds ==
  ASSUME IInv
  PROVE  ReadyQueueRight
<1>1. k \in KState /\ Struct(k) /\ QueueOK(k, Ready(k))
  BY DEF IInv, Lists, Struct
<1>2. ASSUME NEW t \in Thread, NEW p \in Prio
      PROVE  Cardinality({i \in DOMAIN k.task_list[p] : k.task_list[p][i] = t})
               = IF IsReady(k, t) /\ k.prio[t] = p THEN 1 ELSE 0
  <2> DEFINE list == k.task_list[p]
             S == {u \in Ready(k) : k.prio[u] = p}
             places == {i \in DOMAIN list : list[i] = t}
  <2>1. ListOf(list, S)
    BY <1>1 DEF QueueOK
  <2>2. t \in S <=> IsReady(k, t) /\ k.prio[t] = p
    BY DEF Ready
  <2> HIDE DEF S
  <2>3. CASE t \in S
    <3>1. PICK i \in DOMAIN list : list[i] = t
      BY <2>1, <2>3 DEF ListOf
    <3>2. places = {i}
      BY <2>1, <3>1 DEF ListOf
    <3> QED
      BY <2>2, <2>3, <3>2, FS_Singleton
  <2>4. CASE t \notin S
    <3>1. places = {}
      BY <2>1, <2>4, ListType
    <3> QED
      BY <2>2, <2>4, <3>1, FS_EmptySet
  <2> QED
    BY <2>3, <2>4
<1>3. k.highest_prio = Min({k.prio[t] : t \in {u \in Thread : IsReady(k, u)}})
  <2> DEFINE T == {k.prio[t] : t \in Ready(k)}
             best == highest_ready_task(k)
  <2>1. /\ best \in Ready(k) /\ k.prio[best] = k.highest_prio
        /\ \A u \in Ready(k) : k.prio[best] <= k.prio[u]
    BY <1>1, BestIs DEF Best
  <2>2. T \in SUBSET Nat
    BY <1>1, PrioFacts DEF KState, Ready
  <2>3. k.highest_prio \in T /\ \A y \in T : k.highest_prio <= y
    BY <2>1
  <2> HIDE DEF T
  <2>4. Min(T) = k.highest_prio
    BY <2>2, <2>3, LeastIs
  <2> QED
    BY <2>4 DEF T, Ready
<1> QED
  BY <1>2, <1>3 DEF ReadyQueueRight

\* The ready queue holds each ready task once, under its present priority, and
\* highest_prio is the best of theirs, through inheritance, wake-ups, the end of
\* tasks and the interrupt.
THEOREM QueueRight == Spec => []ReadyQueueRight
BY AlwaysIInv, ReadyQueueHolds, PTL

\* Ranked lists of the waiters are sorted.
LEMMA PendListsHold ==
  ASSUME IInv
  PROVE  PendListsSorted
<1> SUFFICES ASSUME NEW m \in Mutex,
                    NEW i \in DOMAIN k.pend_list[m], NEW j \in DOMAIN k.pend_list[m]
             PROVE  /\ k.pending_obj[k.pend_list[m][i]] = m
                    /\ i < j => /\ k.pend_list[m][i] # k.pend_list[m][j]
                                /\ k.prio[k.pend_list[m][i]] <= k.prio[k.pend_list[m][j]]
  BY DEF PendListsSorted
<1> DEFINE list == k.pend_list[m]
<1>1. ListOf(list, Waiters(k, m)) /\ Ranked(list, k.prio)
  BY DEF IInv, Lists, Struct, PendOK
<1>2. list[i] \in Waiters(k, m) /\ i \in Nat /\ j \in Nat
  BY <1>1, ListType
<1>3. i < j => list[i] # list[j] /\ k.prio[list[i]] <= k.prio[list[j]]
  BY <1>1, <1>2 DEF ListOf, Ranked
<1> QED
  BY <1>2, <1>3 DEF Waiters

\* A pend list is always in the order of its tasks' present priorities, also
\* when one of them inherits a priority or gives one back while it waits.
THEOREM PendListsRight == Spec => []PendListsSorted
BY AlwaysIInv, PendListsHold, PTL

\* The differences add up to what is left.
LEMMA TickListHolds ==
  ASSUME IInv
  PROVE  TickListExact
<1>1. /\ k \in KState /\ ListOf(k.tick_list, Sleeping(k))
      /\ left \in [Task -> Nat] /\ TicksFrom(k, left, 1)
  BY DEF IInv, Lists, Struct, Types, Times
<1>2. DOMAIN k.tick_list = 1..Len(k.tick_list) /\ \A i \in DOMAIN k.tick_list : k.tick_list[i] \in Task
  BY <1>1, ListType DEF Sleeping
<1>3. \A i \in 1..Len(k.tick_list) : Due(k, i) = left[k.tick_list[i]]
  BY <1>1, DueAdds
<1>4. \A i \in 1..Len(k.tick_list) : 1 <= left[k.tick_list[i]]
  BY <1>1 DEF TicksFrom
<1> QED
  BY <1>1, <1>2, <1>3, <1>4 DEF TickListExact

\* The differences in the tick list add up to the ticks each sleeping task has
\* left, whoever goes to sleep, is woken early or times out beside it.
THEOREM TickListRight == Spec => []TickListExact
BY AlwaysIInv, TickListHolds, PTL

\* Who is in a pend list waits for the mutex.
LEMMA InheritanceHolds ==
  ASSUME IInv
  PROVE  OwnerInherits
<1> SUFFICES ASSUME NEW m \in Mutex, NEW i \in DOMAIN k.pend_list[m]
             PROVE  k.prio[k.owner[m]] <= bid[k.pend_list[m][i]]
  BY DEF OwnerInherits
<1>1. ListOf(k.pend_list[m], Waiters(k, m))
  BY DEF IInv, Lists, Struct, PendOK
<1>2. k.pend_list[m][i] \in Waiters(k, m)
  BY <1>1, ListType
<1> QED
  BY <1>2 DEF IInv, Inherits, Waiters

\* The owner of a mutex keeps at least the priority each of its waiters had
\* when it began to wait, until it gives the mutex up.
THEOREM OwnerKeepsBids == Spec => []OwnerInherits
BY AlwaysIInv, InheritanceHolds, PTL

\* A task that owns no mutex is back at the priority it was created with, but
\* for the two cases BaseWhenFree names.
THEOREM FallsBack == Spec => []BaseWhenFree
<1>1. ASSUME IInv PROVE BaseWhenFree
  <2> SUFFICES ASSUME NEW t \in Task, k.mutex_own_list[t] = <<>>, t \notin raised
               PROVE  k.prio[t] = base[t]
    BY DEF BaseWhenFree
  <2>1. OwnsNothing(k, t)
    BY <1>1, OwnsNothingIs DEF IInv, Lists, Thread
  <2> QED
    BY <1>1, <2>1 DEF IInv, Bases
<1> QED
  BY <1>1, AlwaysIInv, PTL

\* tos_mutex_pend_timed answers K_ERR_NONE to the owner and to nobody else,
\* whichever of post, timeout and the owner's end came first.
THEOREM AnswersRight == Spec => []ReturnsOwner
<1>1. ASSUME IInv PROVE ReturnsOwner
  <2> SUFFICES ASSUME NEW t \in Task, Calls(t, "return")
               PROVE  /\ k.pend_state[t] = "POST" <=> k.owner[asked[t]] = t
                      /\ k.pend_state[t] \in {"POST", "TIMEOUT", "OWNER_DIE"}
    BY DEF ReturnsOwner
  <2>1. k.pending_obj[t] = NoMutex /\ pc[t] = "return"
    BY <1>1, Caller DEF Calls
  <2> QED
    BY <1>1, <2>1 DEF IInv, Answers
<1> QED
  BY <1>1, AlwaysIInv, PTL

\* A task of the best ready priority runs, unless a switch is pending or
\* somebody who was switched away is yet to call knl_sched.
THEOREM BestRuns == Spec => []RunsBest
<1>1. ASSUME IInv PROVE RunsBest
  <2> SUFFICES ASSUME ~k.pendsv, k.curr \in Task => pc[k.curr] = "run"
               PROVE  \/ k.prio[k.curr] = k.highest_prio
                      \/ \E t \in Task : t # k.curr /\ pc[t] = "sched" /\ IsReady(k, t)
    BY DEF RunsBest
  <2>1. CASE Best(k, k.curr)
    BY <1>1, <2>1, BestIs DEF IInv, Lists
  <2>2. CASE \E t \in Task : pc[t] = "sched" /\ t \in Ready(k)
    BY <2>2 DEF Ready
  <2> QED
    BY <1>1, <2>1, <2>2 DEF IInv, Bests
<1> QED
  BY <1>1, AlwaysIInv, PTL

-----------------------------------------------------------------------------
(* The promise of the mutexes, step by step.                               *)

LEMMA PromiseInit == Init => Promise!Init
<1> SUFFICES ASSUME Init PROVE Promise!Init
  OBVIOUS
<1>1. k.owner = [m \in Mutex |-> NoTask] /\ k.pending_obj = [t \in Thread |-> NoMutex]
  BY DEF Init
<1> QED
  BY <1>1 DEF Promise!Init, Thread

waiting == [t \in Task |-> k.pending_obj[t]]

\* Each step of the kernel is one of the promise, or changes neither owners nor waits.
LEMMA PromiseStep == IInv /\ [Next]_vars => [Promise!Next]_(Promise!vars)
<1> SUFFICES ASSUME IInv, [Next]_vars PROVE [Promise!Next]_(Promise!vars)
  OBVIOUS
<1>1. /\ k \in KState /\ Struct(k) /\ OwnOK(k) /\ ~k.sched_locked
      /\ NoTask \notin Task /\ NoMutex \notin Mutex /\ Task \subseteq Thread
  BY ConstantsAssumption DEF IInv, Lists, Struct, Thread
<1>2. /\ Promise!vars = <<k.owner, waiting>> /\ (Promise!vars)' = <<k'.owner, waiting'>>
      /\ waiting' = [t \in Task |-> k'.pending_obj[t]]
  BY DEF Promise!vars, waiting
\* A step that leaves owners and waits alone.
<1>3. ASSUME k'.owner = k.owner, k'.pending_obj = k.pending_obj
      PROVE  [Promise!Next]_(Promise!vars)
  BY <1>2, <1>3 DEF waiting
<1>4. ASSUME NEW t \in Task, NEW m \in Mutex, PendFree(t, m)
      PROVE  [Promise!Next]_(Promise!vars)
  <2>1. k.pending_obj[t] = NoMutex
    BY <1>4, Caller DEF PendFree, Calls
  <2>2. CASE k.pend_nesting[m] = 0 /\ k' = mutex_fresh_owner_mark(k, m, t)
    <3>1. k.owner[m] = NoTask
      BY <1>1, <2>2 DEF OwnOK
    <3>2. Marked(k', k, m, t)
      BY <1>1, <2>2, <3>1, Mark
    <3>3. Promise!Take(t, m)
      BY <2>1, <3>1, <3>2 DEF Promise!Take, Marked, SameWaits
    <3> QED
      BY <3>3 DEF Promise!Next
  <2>3. CASE /\ k.owner[m] = t /\ k.pend_nesting[m] < MaxNesting
             /\ k' = [k EXCEPT !.pend_nesting[m] = @ + 1]
    <3>1. k'.owner = k.owner /\ k'.pending_obj = k.pending_obj
      BY <1>1, <2>3 DEF KState
    <3> QED
      BY <1>3, <3>1
  <2> QED
    BY <1>4, <2>2, <2>3 DEF PendFree
<1>5. ASSUME NEW t \in Task, NEW m \in Mutex, NEW timeout \in Timeouts,
             PendWait(t, m, timeout)
      PROVE  [Promise!Next]_(Promise!vars)
  <2>1. /\ k.pending_obj[t] = NoMutex /\ k.owner[m] \notin {NoTask, t}
        /\ Waiting(k', k, t, m, timeout)
    BY <1>5, WaitIs
  <2>2. k'.owner = k.owner /\ waiting' = [waiting EXCEPT ![t] = m]
    BY <1>1, <2>1 DEF Waiting, SameOwners, waiting, KState
  <2>3. Promise!Wait(t, m)
    BY <1>1, <2>1, <2>2 DEF Promise!Wait, waiting
  <2> QED
    BY <2>3 DEF Promise!Next
<1>6. ASSUME NEW t \in Task, NEW m \in Mutex, Post(t, m)
      PROVE  [Promise!Next]_(Promise!vars)
  <2>1. k.owner[m] = t /\ k.pending_obj[t] = NoMutex
    BY <1>6, PostIs, Caller DEF Calls
  <2>2. CASE OnlyOwners(k', k) /\ k'.owner = k.owner
    BY <1>3, <2>2 DEF OnlyOwners, SameWaits
  <2>3. CASE Released(k', k, m) /\ k'.pend_list[m] = <<>>
    <3>1. /\ k'.owner = [k.owner EXCEPT ![m] = NoTask]
          /\ k'.pending_obj = k.pending_obj /\ Struct(k')
      BY <2>3 DEF Released
    <3>2. ListOf(k'.pend_list[m], Waiters(k', m))
      BY <3>1 DEF Struct, PendOK
    <3>3. Waiters(k', m) = {}
      BY <2>3, <3>2, EmptyList
    <3>4. Promise!Release(m)
      BY <3>1, <3>3 DEF Promise!Release, Promise!Waiters, Waiters
    <3> QED
      BY <3>4 DEF Promise!Next
  <2>4. CASE \E heir \in Task : Passed(k', k, m, heir)
    <3>1. PICK heir \in Task : Passed(k', k, m, heir)
      BY <2>4
    <3>2. /\ k'.owner = [k.owner EXCEPT ![m] = heir] /\ heir \in Waiters(k, m)
          /\ k'.pending_obj = [k.pending_obj EXCEPT ![heir] = NoMutex]
      BY <3>1 DEF Passed
    <3>3. waiting' = [waiting EXCEPT ![heir] = NoMutex]
      BY <1>1, <3>2 DEF waiting, KState
    <3>4. waiting[k.owner[m]] = NoMutex /\ heir \in Promise!Waiters(m)
      BY <2>1, <3>2 DEF waiting, Waiters, Promise!Waiters
    <3>5. Promise!PassOn(m, heir)
      BY <1>1, <2>1, <3>2, <3>3, <3>4 DEF Promise!PassOn, waiting
    <3> QED
      BY <3>5 DEF Promise!Next
  <2> QED
    BY <1>6, <2>2, <2>3, <2>4, PostIs
<1>7. ASSUME NEW t \in Task, Destroy(t)
      PROVE  [Promise!Next]_(Promise!vars)
  <2>1. Died(k', k, t)
    BY <1>7, DieIs
  <2>2. k'.owner = [m \in Mutex |-> IF k.owner[m] = t THEN NoTask ELSE k.owner[m]]
    <3>1. k'.owner \in [Mutex -> Task \cup {NoTask}]
      BY <2>1 DEF Died, Struct, KState
    <3> QED
      BY <2>1, <3>1 DEF Died
  <2>3. waiting' = [u \in Task |-> IF waiting[u] # NoMutex /\ k.owner[waiting[u]] = t
                                     THEN NoMutex ELSE waiting[u]]
    <3>1. \A u \in Task : k.pending_obj[u] \in Mutex <=> k.pending_obj[u] # NoMutex
      BY <1>1 DEF KState
    <3> QED
      BY <1>1, <2>1, <3>1 DEF Died, waiting
  <2>4. Promise!Die(t)
    BY <2>2, <2>3 DEF Promise!Die, waiting
  <2> QED
    BY <2>4 DEF Promise!Next
<1>8. ASSUME NEW up \in BOOLEAN, Tick(up)
      PROVE  [Promise!Next]_(Promise!vars)
  <2>1. Ticked(k', k)
    BY <1>8, TickIs
  <2>2. k'.owner = k.owner
    BY <2>1 DEF Ticked, SameOwners
  <2>3. PICK tasks \in SUBSET Task :
           tasks = {u \in Task : k'.pending_obj[u] # k.pending_obj[u]}
    OBVIOUS
  <2>4. waiting' = [u \in Task |-> IF u \in tasks THEN NoMutex ELSE waiting[u]]
    BY <1>1, <2>1, <2>3 DEF Ticked, waiting
  <2>5. Promise!GiveUp(tasks)
    BY <2>2, <2>4 DEF Promise!GiveUp, waiting
  <2> QED
    BY <2>5 DEF Promise!Next
<1>9. ASSUME NEW t \in Task, NEW ticks \in Delays, Delay(t, ticks)
      PROVE  [Promise!Next]_(Promise!vars)
  <2>1. Delayed(k', k, t, ticks)
    BY <1>9, DelayIs
  <2> QED
    BY <1>3, <2>1 DEF Delayed, SameOwners, SameWaits
<1>10. ASSUME NEW t \in Task, Sched(t) \/ Return(t)
       PROVE  [Promise!Next]_(Promise!vars)
  <2>1. CASE Sched(t)
    <3>1. Scheduled(k', k)
      BY <1>1, <2>1, KnlSched DEF Sched
    <3> QED
      BY <1>3, <3>1 DEF Scheduled, SameOwners, SameWaits
  <2>2. CASE Return(t)
    <3>1. k'.owner = k.owner /\ k'.pending_obj = k.pending_obj
      BY <1>1, <2>2 DEF Return, KState
    <3> QED
      BY <1>3, <3>1
  <2> QED
    BY <1>10, <2>1, <2>2
<1>11. ASSUME PendSV PROVE [Promise!Next]_(Promise!vars)
  <2>1. k'.owner = k.owner /\ k'.pending_obj = k.pending_obj
    BY <1>1, <1>11 DEF PendSV, KState
  <2> QED
    BY <1>3, <2>1
<1>12. CASE UNCHANGED vars
  BY <1>3, <1>12 DEF vars
<1>13. CASE \E t \in Task : TaskStep(t)
  BY <1>4, <1>5, <1>6, <1>7, <1>9, <1>10, <1>13 DEF TaskStep
<1> QED
  BY <1>8, <1>11, <1>12, <1>13 DEF Next

\* The kernel implements the promise of its mutexes: one owner each, who alone
\* gives it up; whoever waits comes before whoever asks later, and nobody is
\* left waiting for a task that has ended.
THEOREM MutexPromiseKept == Spec => KeepsMutexPromise
BY AlwaysIInv, PromiseInit, PromiseStep, PTL DEF Spec, KeepsMutexPromise, Promise!Spec
=============================================================================
