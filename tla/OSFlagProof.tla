------------------------------ MODULE OSFlagProof ------------------------------
(***************************************************************************)
(* Event flags, for every number of tasks, groups and flags.  Whatever the *)
(* application does, the ready list and the scheduler are right and a pend *)
(* that returns OS_ERR_NONE has been given flags that meet what it asked   *)
(* for.  Where no group is deleted while a task is in its pend (Careful),  *)
(* each wait list holds the nodes of who waits, and nobody sleeps on flags *)
(* that are there.                                                         *)
(*                                                                         *)
(* In this order: linked lists in general, the nodes that a post unlinks,  *)
(* what a pend is granted, the kernel's part, the lists, and missed flags. *)
(***************************************************************************)
EXTENDS OSFlag, OSCoreProof, FiniteSetTheorems

-----------------------------------------------------------------------------
(***************************************************************************)
(* Linked lists.  Each element has a place, a number of its own in the     *)
(* list, which the links follow upwards.  Places need not be adjacent: an  *)
(* element that leaves takes nobody else's away, and one that is linked in *)
(* front gets a number below that of the first.                            *)
(***************************************************************************)
Chain(S, head, next, place) ==
  /\ head \in S \cup {Null}
  /\ \A x \in S : head # Null /\ place[head] <= place[x]
  /\ \A x, y \in S : place[x] = place[y] => x = y
  /\ \A x \in S : next[x] \in S \cup {Null} /\ (next[x] # Null => place[x] < place[next[x]])
  /\ \A x, y \in S : place[x] < place[y] => next[x] # Null /\ place[next[x]] <= place[y]

\* The links backwards are those forwards.
Back(S, head, next, prev) ==
  /\ \A x \in S : prev[x] \in S \cup {Null} /\ (prev[x] = Null <=> x = head)
  /\ \A x, y \in S : next[x] = y <=> prev[y] = x

InFront(place, x, head) ==
  [place EXCEPT ![x] = IF head = Null THEN 0 ELSE place[head] - 1]

\* Linking in front keeps a list one.
LEMMA ChainAdd ==
  ASSUME NEW C, Null \notin C, NEW D, NEW S, S \subseteq C, NEW x \in C, x \notin S, NEW head,
         NEW next \in [C -> D], NEW place \in [C -> Int], Chain(S, head, next, place),
         NEW next2, next2 = [next EXCEPT ![x] = head]
  PROVE  /\ InFront(place, x, head) \in [C -> Int]
         /\ Chain(S \cup {x}, x, next2, InFront(place, x, head))
<1> DEFINE p2 == InFront(place, x, head)
<1>1. /\ p2 \in [C -> Int] /\ \A y \in C : y # x => p2[y] = place[y]
      /\ \A y \in S : p2[x] < p2[y]
      /\ \A y \in S : y \in C /\ y # x /\ p2[y] = place[y] /\ place[y] \in Int
  BY DEF InFront, Chain
<1>2. next2[x] = head /\ \A y \in S : next2[y] = next[y]
  OBVIOUS
<1>3. x # Null /\ Null \notin S
  OBVIOUS
<1> HIDE DEF p2
<1>i. p2[x] \in Int /\ \A y \in S : p2[y] \in Int
  BY <1>1
<1>4. \A y \in S \cup {x} : p2[x] <= p2[y]
  BY <1>1, <1>i
<1>5. \A y, z \in S \cup {x} : p2[y] = p2[z] => y = z
  BY <1>1 DEF Chain
<1>6. \A y \in S \cup {x} : next2[y] \in S \cup {x} \cup {Null}
                            /\ (next2[y] # Null => p2[y] < p2[next2[y]])
  <2>1. CASE head = Null
    BY <1>1, <1>2, <1>3, <2>1 DEF Chain
  <2>2. CASE head # Null
    BY <1>1, <1>2, <1>3, <2>2 DEF Chain
  <2> QED
    BY <2>1, <2>2
<1>7. ASSUME NEW y \in S \cup {x}, NEW z \in S \cup {x}, p2[y] < p2[z]
      PROVE  next2[y] # Null /\ p2[next2[y]] <= p2[z]
  <2>1. z \in S
    BY <1>1, <1>4, <1>7, <1>i
  <2>2. CASE y = x
    BY <1>1, <1>2, <2>1, <2>2 DEF Chain
  <2>3. CASE y \in S
    <3>1. next[y] # Null /\ next[y] \in S /\ place[next[y]] <= place[z]
      BY <1>1, <1>7, <2>1, <2>3 DEF Chain
    <3> QED
      BY <1>1, <1>2, <2>1, <2>3, <3>1
  <2> QED
    BY <2>2, <2>3
<1> QED
  BY <1>1, <1>4, <1>5, <1>6, <1>7, <1>3 DEF Chain, p2

\* Whoever is in a list knows its neighbours, and the first has none before it.
LEMMA BackAdd ==
  ASSUME NEW C, Null \notin C, NEW S, S \subseteq C, NEW x \in C, x \notin S,
         NEW head \in S \cup {Null}, NEW next, NEW prev,
         \A y \in S : head # Null /\ next[y] \in S \cup {Null},
         Back(S, head, next, prev),
         NEW next2, next2[x] = head, \A y \in S : next2[y] = next[y],
         NEW prev2, prev2[x] = Null, head # Null => prev2[head] = x,
         \A y \in S : y # head => prev2[y] = prev[y]
  PROVE  Back(S \cup {x}, x, next2, prev2)
<1>1. next2[x] = head /\ \A y \in S : next2[y] = next[y]
  OBVIOUS
<1>2. x # Null /\ Null \notin S /\ x # head
  OBVIOUS
<1>3. /\ prev2[x] = Null
      /\ head # Null => prev2[head] = x
      /\ \A y \in S : y # head => prev2[y] = prev[y]
  OBVIOUS
<1>4. \A y \in S \cup {x} : prev2[y] \in S \cup {x} \cup {Null} /\ (prev2[y] = Null <=> y = x)
  BY <1>2, <1>3 DEF Back
<1>5. \A y, z \in S \cup {x} : next2[y] = z <=> prev2[z] = y
  BY <1>1, <1>2, <1>3 DEF Back
<1> QED
  BY <1>4, <1>5 DEF Back

\* The links of S as they are once x has been taken out.
Bypass(S, x, next, prev, next2) ==
  \A y \in S : y # x => next2[y] = IF y = prev[x] THEN next[x] ELSE next[y]

\* Taking any out, by the links of its neighbours, keeps a list one.
LEMMA ChainDrop ==
  ASSUME NEW C, Null \notin C, NEW D, NEW S, S \subseteq C, NEW x \in S, NEW head,
         NEW next \in [C -> D], NEW prev \in [C -> D], NEW place \in [C -> Int],
         Chain(S, head, next, place), Back(S, head, next, prev),
         NEW next2, Bypass(S, x, next, prev, next2),
         NEW head2, head2 = IF head = x THEN next[x] ELSE head
  PROVE  Chain(S \ {x}, head2, next2, place)
<1> USE DEF Bypass
<1> DEFINE R == S \ {x}
<1>1. x \in C /\ Null \notin S
  OBVIOUS
<1>2. \A y \in R : place[y] \in Int /\ place[x] \in Int
  OBVIOUS
<1>3. next[x] # x /\ next[x] \in R \cup {Null}
  BY <1>1, <1>2 DEF Chain
<1>4. \A y \in R : next[y] = x <=> y = prev[x]
  BY DEF Back
<1>5. head2 \in R \cup {Null}
  BY <1>3 DEF Chain
<1>6. \A y \in R : head2 # Null /\ place[head2] <= place[y]
  <2>1. CASE head = x
    <3>1. ASSUME NEW y \in R PROVE place[x] < place[y]
      <4>1. place[x] <= place[y] /\ place[x] # place[y]
        BY <2>1 DEF Chain
      <4> QED
        BY <1>2, <4>1
    <3> QED
      BY <2>1, <3>1 DEF Chain
  <2>2. CASE head # x
    BY <2>2 DEF Chain
  <2> QED
    BY <2>1, <2>2
<1>7. ASSUME NEW y \in R
      PROVE  next2[y] \in R \cup {Null} /\ (next2[y] # Null => place[y] < place[next2[y]])
  <2>1. CASE y = prev[x]
    <3>1. next2[y] = next[x] /\ next[y] = x
      BY <1>4, <2>1
    <3>2. place[y] < place[x]
      BY <1>1, <3>1 DEF Chain
    <3>3. next[x] # Null => place[x] < place[next[x]] /\ place[next[x]] \in Int
      BY <1>2, <1>3 DEF Chain
    <3> QED
      BY <1>2, <1>3, <3>1, <3>2, <3>3
  <2>2. CASE y # prev[x]
    BY <1>4, <2>2 DEF Chain
  <2> QED
    BY <2>1, <2>2
<1>8. ASSUME NEW y \in R, NEW z \in R, place[y] < place[z]
      PROVE  next2[y] # Null /\ place[next2[y]] <= place[z]
  <2>0. next[y] # Null /\ place[next[y]] <= place[z]
    BY <1>8 DEF Chain
  <2>1. CASE y = prev[x]
    <3>1. next2[y] = next[x] /\ next[y] = x
      BY <1>4, <2>1
    <3>2. place[x] < place[z]
      <4>1. place[x] <= place[z] /\ place[x] # place[z]
        BY <2>0, <3>1 DEF Chain
      <4> QED
        BY <1>2, <4>1
    <3> QED
      BY <3>1, <3>2 DEF Chain
  <2>2. CASE y # prev[x]
    BY <1>4, <2>0, <2>2
  <2> QED
    BY <2>1, <2>2
<1>9. \A y, z \in R : place[y] = place[z] => y = z
  BY DEF Chain
<1> QED
  BY <1>5, <1>6, <1>7, <1>8, <1>9 DEF Chain

LEMMA BackDrop ==
  ASSUME NEW C, Null \notin C, NEW D, NEW S, S \subseteq C, NEW x \in S, NEW head \in S \cup {Null},
         NEW next \in [C -> D], NEW prev \in [C -> D], NEW place \in [C -> Int],
         Chain(S, head, next, place), Back(S, head, next, prev),
         NEW next2, Bypass(S, x, next, prev, next2),
         NEW prev2, Bypass(S, x, prev, next, prev2),
         NEW head2, head2 = IF head = x THEN next[x] ELSE head
  PROVE  Back(S \ {x}, head2, next2, prev2)
<1> USE DEF Bypass
<1> DEFINE R == S \ {x}
<1>1. x \in C /\ Null \notin S
  OBVIOUS
<1>2. \A y \in S : next[y] \in S \cup {Null} /\ next[y] # y
  <2>1. \A y \in S : y # Null /\ place[y] \in Int
    BY <1>1
  <2> QED
    BY <2>1 DEF Chain
<1>3. \A y \in S : prev[y] \in S \cup {Null} /\ prev[y] # y
  BY <1>1, <1>2 DEF Back
<1>4. \A y \in R : (next[y] = x <=> y = prev[x]) /\ (prev[y] = x <=> y = next[x])
  BY DEF Back
<1>5. prev[x] = Null <=> x = head
  BY DEF Back
<1>6. \A y \in R : prev2[y] \in R \cup {Null} /\ (prev2[y] = Null <=> y = head2)
  <2> SUFFICES ASSUME NEW y \in R
               PROVE  prev2[y] \in R \cup {Null} /\ (prev2[y] = Null <=> y = head2)
    OBVIOUS
  <2>1. CASE y = next[x]
    <3>1. prev2[y] = prev[x] /\ prev[y] = x
      BY <1>4, <2>1
    <3>2. y # head
      BY <1>1, <3>1 DEF Back
    <3> QED
      BY <1>3, <1>5, <2>1, <3>1, <3>2
  <2>2. CASE y # next[x]
    <3>1. prev2[y] = prev[y] /\ prev[y] # x
      BY <1>4, <2>2
    <3>2. prev[y] = Null <=> y = head
      BY DEF Back
    <3> QED
      BY <1>3, <2>2, <3>1, <3>2
  <2> QED
    BY <2>1, <2>2
<1>7. \A y, z \in R : next2[y] = z <=> prev2[z] = y
  <2> SUFFICES ASSUME NEW y \in R, NEW z \in R
               PROVE  next2[y] = z <=> prev2[z] = y
    OBVIOUS
  <2>1. next[y] = z <=> prev[z] = y
    BY DEF Back
  <2>2. prev2[z] = (IF z = next[x] THEN prev[x] ELSE prev[z])
        /\ next2[y] = (IF y = prev[x] THEN next[x] ELSE next[y])
    OBVIOUS
  <2> QED
    BY <1>4, <2>1, <2>2
<1> QED
  BY <1>6, <1>7 DEF Back

\* Taking the first out of a list linked one way.
LEMMA FirstLeaves ==
  ASSUME NEW S, NEW x \in S, NEW next, NEW place, Chain(S, x, next, place),
         Null \notin S, \A y \in S : place[y] \in Int,
         NEW next2, \A y \in S : y # x => next2[y] = next[y]
  PROVE  Chain(S \ {x}, next[x], next2, place)
<1> DEFINE R == S \ {x}
<1>1. \A y \in R : place[x] < place[y]
  <2>1. \A y \in R : place[x] <= place[y] /\ place[x] # place[y]
    BY DEF Chain
  <2> QED
    BY <2>1
<1>2. \A y \in S : next[y] \in R \cup {Null}
  <2>1. ASSUME NEW y \in S, next[y] = x PROVE FALSE
    <3>1. place[y] < place[x]
      BY <2>1 DEF Chain
    <3> QED
      BY <1>1, <3>1
  <2> QED
    BY <2>1 DEF Chain
<1>3. \A y \in R : next[x] # Null /\ place[next[x]] <= place[y]
  BY <1>1 DEF Chain
<1>4. \A y \in R : next2[y] \in R \cup {Null} /\ (next2[y] # Null => place[y] < place[next2[y]])
  BY <1>2 DEF Chain
<1> QED
  BY <1>2, <1>3, <1>4 DEF Chain

\* A list none of whose elements is touched stays as it is.
LEMMA ChainSame ==
  ASSUME NEW S, NEW head, NEW next, NEW place, Chain(S, head, next, place),
         NEW next2, NEW place2, \A y \in S : next2[y] = next[y] /\ place2[y] = place[y]
  PROVE  Chain(S, head, next2, place2)
BY DEF Chain

LEMMA BackSame ==
  ASSUME NEW S, NEW head, NEW next, NEW prev, Back(S, head, next, prev),
         NEW next2, NEW prev2, \A y \in S : next2[y] = next[y] /\ prev2[y] = prev[y]
  PROVE  Back(S, head, next2, prev2)
BY DEF Back

\* ListFrom walks a list one element at a time.
Walk(next, p, C, n, f) ==
  f = [i \in 0..n |-> IF i = 0 THEN <<>> ELSE Longer(next, p, C, f[i - 1])]

LEMMA WalkExists ==
  ASSUME NEW next, NEW p, NEW C, NEW n \in Nat
  PROVE  \E f : Walk(next, p, C, n, f)
<1> DEFINE Bad == {m \in Nat : ~\E f : Walk(next, p, C, m, f)}
<1>1. SUFFICES ASSUME Bad # {} PROVE FALSE
  OBVIOUS
<1>2. PICK m \in Bad : \A k \in Bad : m <= k
  <2>1. Bad \subseteq Nat
    OBVIOUS
  <2> HIDE DEF Bad
  <2> QED
    BY <1>1, <2>1, LeastExists
<1>3. m \in Nat /\ ~\E f : Walk(next, p, C, m, f)
  OBVIOUS
<1>4. CASE m = 0
  <2> DEFINE f == [i \in 0..m |-> <<>>]
  <2>1. Walk(next, p, C, m, f)
    BY <1>4 DEF Walk
  <2> QED
    BY <1>3, <2>1
<1>5. CASE m # 0
  <2>1. m - 1 \in Nat /\ ~(m <= m - 1)
    BY <1>3, <1>5
  <2>2. PICK f : Walk(next, p, C, m - 1, f)
    BY <1>2, <2>1
  <2> DEFINE g == [i \in 0..m |-> IF i = 0 THEN <<>> ELSE Longer(next, p, C, f[i - 1])]
  <2>3. ASSUME NEW i \in 0..m - 1
        PROVE  g[i] = f[i]
    <3>1. i \in 0..m
      BY <1>3
    <3>2. f[i] = IF i = 0 THEN <<>> ELSE Longer(next, p, C, f[i - 1])
      BY <2>2 DEF Walk
    <3> QED
      BY <3>1, <3>2
  <2>4. ASSUME NEW i \in 0..m, i # 0
        PROVE  g[i - 1] = f[i - 1]
    <3>1. i - 1 \in 0..m - 1
      BY <1>3, <2>4
    <3> QED
      BY <2>3, <3>1
  <2>5. g = [i \in 0..m |-> IF i = 0 THEN <<>> ELSE Longer(next, p, C, g[i - 1])]
    <3>1. \A i \in 0..m : g[i] = IF i = 0 THEN <<>> ELSE Longer(next, p, C, g[i - 1])
      BY <2>4
    <3>2. g = [i \in 0..m |-> g[i]]
      OBVIOUS
    <3> HIDE DEF g
    <3> QED
      BY <3>1, <3>2
  <2> HIDE DEF g
  <2> QED
    BY <1>3, <2>5 DEF Walk
<1> QED
  BY <1>4, <1>5

\* Wherever the links lead, the walk stays among the elements.
LEMMA ListTyped ==
  ASSUME NEW C, IsFiniteSet(C), NEW head, NEW next
  PROVE  ListFrom(next, head, C) \in Seq(C)
<1> DEFINE N  == Cardinality(C)
           at == CHOOSE f : Walk(next, head, C, N, f)
           Bad == {i \in 0..N : at[i] \notin Seq(C)}
<1>n. N \in Nat
  BY FS_CardinalityType
<1>1. Walk(next, head, C, N, at)
  BY <1>n, WalkExists
<1>2. ListFrom(next, head, C) = at[N]
  BY DEF ListFrom, Walk
<1> HIDE DEF at
<1>3. at[0] = <<>> /\ \A i \in 1..N : at[i] = Longer(next, head, C, at[i - 1])
  BY <1>n, <1>1 DEF Walk
<1>4. ASSUME Bad # {} PROVE FALSE
  <2>1. Bad \subseteq Nat
    BY <1>n
  <2>2. PICK m \in Bad : \A k \in Bad : m <= k
    <3> HIDE DEF Bad
    <3> QED
      BY <1>4, <2>1, LeastExists
  <2>3. m # 0
    <3>1. <<>> \in Seq(C)
      OBVIOUS
    <3> QED
      BY <1>3, <2>2, <3>1
  <2>4. m \in 1..N /\ m - 1 \in 0..N /\ ~(m <= m - 1)
    BY <1>n, <2>2, <2>3
  <2>5. at[m - 1] \in Seq(C)
    BY <2>2, <2>4
  <2>6. at[m] \in Seq(C)
    <3>1. at[m] = Longer(next, head, C, at[m - 1])
      BY <1>3, <2>4
    <3>2. PICK s : s = at[m - 1]
      OBVIOUS
    <3>3. \A q \in C : Append(s, q) \in Seq(C)
      BY <2>5, <3>2
    <3> QED
      BY <2>5, <3>1, <3>2, <3>3 DEF Longer
  <2> QED
    BY <2>2, <2>6
<1> QED
  BY <1>n, <1>2, <1>4

\* s holds the elements of S whose places come first, in the order of the links.
Part(s, S, head, next, place) ==
  /\ s \in Seq(S)
  /\ Len(s) > 0 => s[1] = head
  /\ \A i \in 1..Len(s) - 1 : s[i + 1] = next[s[i]]
  /\ \A i, j \in 1..Len(s) : i < j => place[s[i]] < place[s[j]]
  /\ \A y \in S : Len(s) > 0 /\ place[y] <= place[s[Len(s)]]
                  => \E i \in 1..Len(s) : s[i] = y

Whole(s, S) == \A y \in S : \E i \in 1..Len(s) : s[i] = y

LEMMA LongerPart ==
  ASSUME NEW C, Null \notin C, NEW S, S \subseteq C, NEW head, NEW next,
         NEW place \in [C -> Int], Chain(S, head, next, place), NEW s,
         Part(s, S, head, next, place)
  PROVE  LET s2 == Longer(next, head, C, s) IN
         /\ Part(s2, S, head, next, place)
         /\ IF Whole(s, S) THEN s2 = s ELSE Len(s2) = Len(s) + 1
<1> DEFINE y  == IF s = <<>> THEN head ELSE next[s[Len(s)]]
           s2 == Append(s, y)
<1>1. /\ s \in Seq(S) /\ Len(s) \in Nat /\ (s = <<>> <=> Len(s) = 0)
      /\ \A i \in 1..Len(s) : s[i] \in S
  BY DEF Part
<1>2. \A z \in S : z \in C /\ place[z] \in Int /\ z # Null
  OBVIOUS
<1>3. Longer(next, head, C, s) = IF y \in C THEN s2 ELSE s
  BY DEF Longer
<1>4. Len(s) > 0 => Len(s) \in 1..Len(s) /\ s[Len(s)] \in S
  BY <1>1
<1>5. CASE y = Null
  <2>1. Whole(s, S)
    <3> SUFFICES ASSUME NEW z \in S PROVE \E i \in 1..Len(s) : s[i] = z
      BY DEF Whole
    <3>1. s # <<>>
      BY <1>5 DEF Chain
    <3>2. next[s[Len(s)]] = Null /\ s[Len(s)] \in S /\ Len(s) > 0
      BY <1>1, <1>4, <1>5, <3>1
    <3>3. ~(place[s[Len(s)]] < place[z])
      BY <3>2 DEF Chain
    <3>4. place[z] <= place[s[Len(s)]]
      BY <1>2, <3>2, <3>3
    <3> QED
      BY <3>2, <3>4 DEF Part
  <2>2. Longer(next, head, C, s) = s
    BY <1>3, <1>5
  <2> QED
    BY <2>1, <2>2
<1>6. CASE y # Null
  <2>1. y \in S /\ y \in C
    BY <1>1, <1>4, <1>6 DEF Chain
  <2>2. \A i \in 1..Len(s) : place[s[i]] < place[y]
    <3> SUFFICES ASSUME NEW i \in 1..Len(s) PROVE place[s[i]] < place[y]
      OBVIOUS
    <3>1. Len(s) > 0 /\ s # <<>> /\ y = next[s[Len(s)]]
      BY <1>1
    <3>2. place[s[Len(s)]] < place[y]
      BY <1>4, <1>6, <3>1 DEF Chain
    <3>3. i = Len(s) \/ place[s[i]] < place[s[Len(s)]]
      BY <1>1, <1>4, <3>1 DEF Part
    <3>4. place[s[i]] \in Int /\ place[s[Len(s)]] \in Int /\ place[y] \in Int
      BY <1>1, <1>2, <1>4, <2>1, <3>1
    <3> QED
      BY <3>2, <3>3, <3>4
  <2>3. ~Whole(s, S)
    <3> SUFFICES ASSUME NEW i \in 1..Len(s), s[i] = y PROVE FALSE
      BY <2>1 DEF Whole
    <3>1. place[y] < place[y] /\ place[y] \in Int
      BY <1>2, <2>1, <2>2
    <3> QED
      BY <3>1
  <2>4. PICK n : n = Len(s)
    OBVIOUS
  <2>5. /\ s2 \in Seq(S) /\ Len(s2) = n + 1 /\ n \in Nat /\ s2[n + 1] = y
        /\ \A i \in 1..n : s2[i] = s[i]
    BY <1>1, <2>1, <2>4
  <2> HIDE DEF s2
  <2>6. s2[1] = head
    <3>1. CASE n = 0
      BY <1>1, <2>4, <2>5, <3>1
    <3>2. CASE n # 0
      BY <2>4, <2>5, <3>2 DEF Part
    <3> QED
      BY <3>1, <3>2
  <2>7. ASSUME NEW i \in 1..n
        PROVE  s2[i + 1] = next[s2[i]]
    <3>1. CASE i = n
      <4>1. s # <<>>
        BY <1>1, <2>4, <2>5, <2>7
      <4> QED
        BY <2>4, <2>5, <3>1, <4>1
    <3>2. CASE i # n
      <4>1. i \in 1..n - 1 /\ i + 1 \in 1..n
        BY <2>5, <3>2
      <4> QED
        BY <2>4, <2>5, <4>1 DEF Part
    <3> QED
      BY <3>1, <3>2
  <2>8. ASSUME NEW i \in 1..n + 1, NEW j \in 1..n + 1, i < j
        PROVE  place[s2[i]] < place[s2[j]]
    <3>1. i \in 1..n
      BY <2>5, <2>8
    <3>2. CASE j = n + 1
      BY <2>2, <2>4, <2>5, <3>1, <3>2
    <3>3. CASE j # n + 1
      <4>1. j \in 1..n
        BY <2>5, <3>3
      <4> QED
        BY <2>4, <2>5, <2>8, <3>1, <4>1 DEF Part
    <3> QED
      BY <3>2, <3>3
  <2>9. ASSUME NEW z \in S, place[z] <= place[y]
        PROVE  \E i \in 1..n + 1 : s2[i] = z
    <3>1. CASE place[z] = place[y]
      <4>1. z = y /\ n + 1 \in 1..n + 1
        BY <2>1, <2>5, <3>1 DEF Chain
      <4> QED
        BY <2>5, <4>1
    <3>2. CASE place[z] # place[y]
      <4>1. place[z] < place[y]
        BY <1>2, <2>1, <2>9, <3>2
      <4>2. s # <<>>
        <5>1. place[head] <= place[z]
          BY DEF Chain
        <5> QED
          BY <1>2, <2>1, <4>1, <5>1
      <4>3. s[n] \in S /\ y = next[s[n]] /\ n > 0
        BY <1>1, <1>4, <2>4, <4>2
      <4>4. ~(place[s[n]] < place[z])
        <5>1. place[s[n]] < place[z] => place[y] <= place[z]
          BY <4>3 DEF Chain
        <5> QED
          BY <1>2, <2>1, <4>1, <5>1
      <4>5. place[z] <= place[s[n]]
        BY <1>2, <4>3, <4>4
      <4>6. PICK i \in 1..n : s[i] = z
        BY <2>4, <4>3, <4>5 DEF Part
      <4> QED
        BY <2>5, <4>6
    <3> QED
      BY <3>1, <3>2
  <2>10. Part(s2, S, head, next, place)
    <3>1. n + 1 - 1 = n
      BY <2>5
    <3> QED
      BY <2>5, <2>6, <2>7, <2>8, <2>9, <3>1 DEF Part
  <2> QED
    BY <1>3, <2>1, <2>3, <2>4, <2>5, <2>10
<1> QED
  BY <1>5, <1>6

\* The walk meets each element of the list once.
LEMMA ListIs ==
  ASSUME NEW C, IsFiniteSet(C), Null \notin C, NEW S, S \subseteq C, NEW head, NEW next,
         NEW place \in [C -> Int],
         Chain(S, head, next, place)
  PROVE  LET s == ListFrom(next, head, C) IN
         /\ Part(s, S, head, next, place)
         /\ Whole(s, S) /\ ToSet(s) = S /\ IsInjective(s)
<1> DEFINE N  == Cardinality(C)
           at == CHOOSE f : Walk(next, head, C, N, f)
           Fine(i) == /\ Part(at[i], S, head, next, place)
                      /\ Len(at[i]) = i \/ Whole(at[i], S)
           Bad == {i \in 0..N : ~Fine(i)}
<1>n. N \in Nat
  BY FS_CardinalityType
<1>1. Walk(next, head, C, N, at)
  BY <1>n, WalkExists
<1>2. ListFrom(next, head, C) = at[N]
  BY DEF ListFrom, Walk
<1> HIDE DEF at
<1>3. at[0] = <<>> /\ \A i \in 1..N : at[i] = Longer(next, head, C, at[i - 1])
  BY <1>n, <1>1 DEF Walk
<1>4. ASSUME Bad # {} PROVE FALSE
  <2>1. Bad \subseteq Nat
    BY <1>n
  <2>2. PICK m \in Bad : \A k \in Bad : m <= k
    <3> HIDE DEF Bad
    <3> QED
      BY <1>4, <2>1, LeastExists
  <2>3. m # 0
    <3>1. Part(<<>>, S, head, next, place) /\ Len(<<>>) = 0
      BY DEF Part
    <3> QED
      BY <1>3, <2>2, <3>1
  <2>4. m \in 1..N /\ m - 1 \in 0..N /\ ~(m <= m - 1)
    BY <1>n, <2>2, <2>3
  <2>5. Fine(m - 1)
    BY <2>2, <2>4
  <2>6. /\ Part(at[m], S, head, next, place)
        /\ IF Whole(at[m - 1], S) THEN at[m] = at[m - 1] ELSE Len(at[m]) = Len(at[m - 1]) + 1
    BY <1>3, <2>4, <2>5, LongerPart
  <2>7. Len(at[m]) = m \/ Whole(at[m], S)
    BY <2>4, <2>5, <2>6
  <2> QED
    BY <2>2, <2>6, <2>7
<1>5. PICK s : s = ListFrom(next, head, C)
  OBVIOUS
<1>6. Part(s, S, head, next, place) /\ (Len(s) = N \/ Whole(s, S))
  <2>1. Fine(N)
    BY <1>n, <1>4
  <2> QED
    BY <1>2, <1>5, <2>1
<1>7. PICK n : n = Len(s)
  OBVIOUS
<1>8. n \in Nat /\ \A i \in 1..n : s[i] \in S
  BY <1>6, <1>7 DEF Part
<1>9. s \in Injection(1..n, S)
  <2>1. s \in [1..n -> S]
    BY <1>6, <1>7 DEF Part
  <2>2. ASSUME NEW i \in 1..n, NEW j \in 1..n, s[i] = s[j], i # j
        PROVE  FALSE
    <3>1. i < j \/ j < i
      BY <1>8, <2>2
    <3>2. place[s[i]] < place[s[j]] \/ place[s[j]] < place[s[i]]
      BY <1>6, <1>7, <3>1 DEF Part
    <3>3. place[s[i]] \in Int
      BY <1>8
    <3> QED
      BY <2>2, <3>2, <3>3
  <2> QED
    BY <2>1, <2>2 DEF Injection, IsInjective
<1>10. /\ IsFiniteSet(S) /\ Cardinality(S) <= N /\ Cardinality(S) \in Nat
       /\ Cardinality(1..n) = n
  <2>1. IsFiniteSet(S) /\ Cardinality(S) <= N /\ Cardinality(S) \in Nat
    BY FS_Subset, FS_CardinalityType
  <2>2. n = Cardinality(1..n) \/ (n = 0 /\ 1..n = {})
    BY <1>8, FS_Interval
  <2> QED
    BY <1>8, <2>1, <2>2, FS_EmptySet
<1>11. n <= Cardinality(S) /\ (n = Cardinality(S) <=> s \in Surjection(1..n, S))
  BY <1>9, <1>10, FS_Injection
<1>12. n = Cardinality(S) /\ s \in Surjection(1..n, S)
  <2>1. CASE n = N
    BY <1>n, <1>8, <1>10, <1>11, <2>1
  <2>2. CASE Whole(s, S)
    <3>1. s \in Surjection(1..n, S)
      BY <1>7, <1>9, <2>2 DEF Whole, Injection, Surjection
    <3> QED
      BY <1>11, <3>1
  <2> QED
    BY <1>6, <1>7, <2>1, <2>2
<1>13. ToSet(s) = S /\ Whole(s, S) /\ IsInjective(s)
  <2>1. DOMAIN s = 1..n
    BY <1>9 DEF Injection
  <2>2. \A y \in S : \E i \in 1..n : s[i] = y
    BY <1>12 DEF Surjection
  <2>3. IsInjective(s)
    BY <1>9 DEF Injection
  <2> QED
    BY <1>7, <1>8, <2>1, <2>2, <2>3 DEF ToSet, Whole
<1> QED
  BY <1>5, <1>6, <1>13

-----------------------------------------------------------------------------
(* The wait lists: what unlinking nodes does to them *)

LEMMA NullFacts ==
  /\ Null \notin Task /\ Null \notin Group /\ Task \cap Group = {}
  /\ IsFiniteSet(Task) /\ IsFiniteSet(Group) /\ Cardinality(Group) = OS_MAX_FLAGS
  /\ Task \subseteq AllTask
<1>1. OS_MAX_FLAGS \in Nat /\ OS_MAX_FLAGS > 0
  BY FlagAssumption
<1>2. IsFiniteSet(Group) /\ Cardinality(Group) = OS_MAX_FLAGS
  BY <1>1, FS_Interval DEF Group
<1> QED
  BY <1>1, <1>2, FlagAssumption DEF Group, Null, AllTask

LinksTyped(l) ==
  /\ l.first \in [Group -> Group \cup Task \cup {Null}]
  /\ l.next \in [Task -> Group \cup Task \cup {Null}]
  /\ l.prev \in [Task -> Task \cup {Null}]

\* The nodes of S are the wait list of g.
Listed(l, g, S, place) ==
  /\ Chain(S, l.first[g], l.next, place)
  /\ Back(S, l.first[g], l.next, l.prev)

\* Only the list of g, with nodes of S, is another.
SameElsewhere(l, m, g, S) ==
  /\ \A h \in Group \ {g} : m.first[h] = l.first[h]
  /\ \A u \in Task \ S : m.next[u] = l.next[u] /\ m.prev[u] = l.prev[u]

LEMMA UnlinkTyped ==
  ASSUME NEW l, LinksTyped(l), NEW x \in Task
  PROVE  LinksTyped(OS_FlagUnlink(l, x))
BY NullFacts DEF LinksTyped, OS_FlagUnlink

\* OS_FlagUnlink takes the node, and no other, out of the list it is in.
LEMMA UnlinkDrops ==
  ASSUME NEW l, LinksTyped(l), NEW g \in Group, NEW S, S \subseteq Task,
         NEW place \in [Task -> Int], Listed(l, g, S, place),
         NEW x \in S, node[x].grp = g
  PROVE  /\ Listed(OS_FlagUnlink(l, x), g, S \ {x}, place)
         /\ SameElsewhere(l, OS_FlagUnlink(l, x), g, S)
<1> DEFINE m == OS_FlagUnlink(l, x)
<1>1. /\ m.first = IF l.prev[x] = Null THEN [l.first EXCEPT ![g] = l.next[x]] ELSE l.first
      /\ m.next = IF l.prev[x] = Null THEN l.next ELSE [l.next EXCEPT ![l.prev[x]] = l.next[x]]
      /\ m.prev = IF l.next[x] \in Task THEN [l.prev EXCEPT ![l.next[x]] = l.prev[x]] ELSE l.prev
  BY DEF OS_FlagUnlink
<1> HIDE DEF m
<1>2. PICK first : first = l.first[g]
  OBVIOUS
<1>3. /\ Chain(S, first, l.next, place) /\ Back(S, first, l.next, l.prev)
      /\ first \in S \cup {Null}
  BY <1>2 DEF Listed, Chain
<1>4. /\ l.prev[x] \in S \cup {Null} /\ (l.prev[x] = Null <=> x = first)
      /\ l.next[x] \in S \cup {Null}
      /\ x \in Task /\ \A y \in S : y \in Task /\ y # Null
  BY <1>3, NullFacts DEF Chain, Back
<1>5. m.first[g] = IF first = x THEN l.next[x] ELSE first
  BY <1>1, <1>2, <1>4 DEF LinksTyped
<1>6. Bypass(S, x, l.next, l.prev, m.next)
  BY <1>1, <1>4 DEF Bypass, LinksTyped
<1>7. Bypass(S, x, l.prev, l.next, m.prev)
  BY <1>1, <1>4, NullFacts DEF Bypass, LinksTyped
<1>8. l.next \in [Task -> Group \cup Task \cup {Null}] /\ l.prev \in [Task -> Group \cup Task \cup {Null}]
  BY DEF LinksTyped
<1>9. Chain(S \ {x}, m.first[g], m.next, place)
  BY <1>3, <1>5, <1>6, <1>8, NullFacts, ChainDrop
<1>10. Back(S \ {x}, m.first[g], m.next, m.prev)
  BY <1>3, <1>5, <1>6, <1>7, <1>8, NullFacts, BackDrop
<1>11. \A h \in Group \ {g} : m.first[h] = l.first[h]
  BY <1>1 DEF LinksTyped
<1>12. ASSUME NEW u \in Task, u \notin S
       PROVE  m.next[u] = l.next[u] /\ m.prev[u] = l.prev[u]
  <2>1. u # l.prev[x] /\ u # l.next[x]
    BY <1>4, <1>12, NullFacts
  <2> QED
    BY <1>1, <2>1 DEF LinksTyped
<1> QED
  BY <1>9, <1>10, <1>11, <1>12 DEF Listed, SameElsewhere, m

\* Unlinks takes them out one after the other.
Step(l, s, T, n, f) ==
  f = [i \in 0..n |-> IF i = 0 THEN l
                      ELSE IF s[i] \in T THEN OS_FlagUnlink(f[i - 1], s[i]) ELSE f[i - 1]]

LEMMA StepsExist ==
  ASSUME NEW l, NEW s, NEW T, NEW n \in Nat
  PROVE  \E f : Step(l, s, T, n, f)
<1> DEFINE Bad == {m \in Nat : ~\E f : Step(l, s, T, m, f)}
<1>1. SUFFICES ASSUME Bad # {} PROVE FALSE
  OBVIOUS
<1>2. PICK m \in Bad : \A k \in Bad : m <= k
  <2>1. Bad \subseteq Nat
    OBVIOUS
  <2> HIDE DEF Bad
  <2> QED
    BY <1>1, <2>1, LeastExists
<1>3. m \in Nat /\ ~\E f : Step(l, s, T, m, f)
  OBVIOUS
<1>4. CASE m = 0
  <2> DEFINE f == [i \in 0..m |-> l]
  <2>1. Step(l, s, T, m, f)
    BY <1>4 DEF Step
  <2> QED
    BY <1>3, <2>1
<1>5. CASE m # 0
  <2>1. m - 1 \in Nat /\ ~(m <= m - 1)
    BY <1>3, <1>5
  <2>2. PICK f : Step(l, s, T, m - 1, f)
    BY <1>2, <2>1
  <2> DEFINE e(h, i) == IF i = 0 THEN l
                        ELSE IF s[i] \in T THEN OS_FlagUnlink(h[i - 1], s[i]) ELSE h[i - 1]
             h2 == [i \in 0..m |-> e(f, i)]
  <2>3. ASSUME NEW i \in 0..m - 1
        PROVE  h2[i] = f[i]
    <3>1. i \in 0..m
      BY <1>3
    <3>2. f[i] = e(f, i)
      BY <2>2 DEF Step
    <3> HIDE DEF e
    <3> QED
      BY <3>1, <3>2
  <2>4. ASSUME NEW i \in 0..m, i # 0
        PROVE  h2[i - 1] = f[i - 1]
    <3>1. i - 1 \in 0..m - 1
      BY <1>3, <2>4
    <3> HIDE DEF h2
    <3> QED
      BY <2>3, <3>1
  <2>5. h2 = [i \in 0..m |-> e(h2, i)]
    <3>1. \A i \in 0..m : h2[i] = e(f, i)
      OBVIOUS
    <3>2. h2 = [i \in 0..m |-> h2[i]]
      OBVIOUS
    <3> HIDE DEF h2
    <3>3. \A i \in 0..m : e(f, i) = e(h2, i)
      BY <2>4
    <3> QED
      BY <3>1, <3>2, <3>3
  <2> HIDE DEF h2
  <2> QED
    BY <1>3, <2>5 DEF Step
<1> QED
  BY <1>4, <1>5

\* The nodes of S that are left after the first i of s.
Left(S, s, T, i) == S \ {u \in T : \E j \in 1..i : s[j] = u}

LEMMA UnlinksDrop ==
  ASSUME NEW l, LinksTyped(l), NEW g \in Group, NEW S, S \subseteq Task,
         NEW place \in [Task -> Int], Listed(l, g, S, place),
         NEW s \in Seq(S), IsInjective(s), NEW T, \A u \in S : node[u].grp = g
  PROVE  /\ LinksTyped(Unlinks(l, s, T))
         /\ Listed(Unlinks(l, s, T), g, S \ (T \cap ToSet(s)), place)
         /\ SameElsewhere(l, Unlinks(l, s, T), g, S)
<1>n. PICK n : n = Len(s)
  OBVIOUS
<1> DEFINE after == CHOOSE f : Step(l, s, T, n, f)
           Fine(i) == /\ LinksTyped(after[i])
                      /\ Listed(after[i], g, Left(S, s, T, i), place)
                      /\ SameElsewhere(l, after[i], g, S)
           Bad == {i \in 0..n : ~Fine(i)}
<1>s. n \in Nat /\ DOMAIN s = 1..n /\ \A i \in 1..n : s[i] \in S
  BY <1>n
<1>1. Step(l, s, T, n, after)
  BY <1>s, StepsExist
<1>2. Unlinks(l, s, T) = after[n]
  BY <1>n DEF Unlinks, Step
<1> HIDE DEF after
<1>3. /\ after[0] = l
      /\ \A i \in 1..n : after[i] = IF s[i] \in T THEN OS_FlagUnlink(after[i - 1], s[i])
                                                  ELSE after[i - 1]
  BY <1>s, <1>1 DEF Step
<1>4. Fine(0)
  <2>1. Left(S, s, T, 0) = S
    BY DEF Left
  <2> QED
    BY <1>3, <2>1 DEF SameElsewhere
<1>5. ASSUME NEW i \in 1..n, Fine(i - 1)
      PROVE  Fine(i)
  <2>1. PICK S1 : S1 = Left(S, s, T, i - 1)
    OBVIOUS
  <2>2. PICK a : a = after[i - 1]
    OBVIOUS
  <2>3. S1 \subseteq S /\ i \in Nat /\ s[i] \in S
    BY <1>s, <2>1 DEF Left
  <2>4. LinksTyped(a) /\ Listed(a, g, S1, place) /\ SameElsewhere(l, a, g, S)
    BY <1>5, <2>1, <2>2
  <2>5. \A u : (\E j \in 1..i : s[j] = u) <=> u = s[i] \/ \E j \in 1..i - 1 : s[j] = u
    BY <2>3
  <2>6. CASE s[i] \in T
    <3>1. \A j \in 1..i - 1 : s[j] # s[i]
      BY <1>s, <2>3 DEF IsInjective
    <3>2. s[i] \in S1
      BY <2>1, <2>3, <3>1 DEF Left
    <3>3. Left(S, s, T, i) = S1 \ {s[i]}
      BY <2>1, <2>5, <2>6 DEF Left
    <3>4. PICK x \in S1 : x = s[i]
      BY <3>2
    <3>5. S1 \subseteq Task /\ x \in Task /\ node[x].grp = g
      BY <2>3, <3>4
    <3>6. PICK b : b = OS_FlagUnlink(a, x)
      OBVIOUS
    <3>7. Listed(b, g, S1 \ {x}, place) /\ SameElsewhere(a, b, g, S1)
      BY <2>4, <3>5, <3>6, UnlinkDrops
    <3>8. LinksTyped(b)
      BY <2>4, <3>5, <3>6, UnlinkTyped
    <3>9. SameElsewhere(l, b, g, S)
      BY <2>3, <2>4, <3>7 DEF SameElsewhere
    <3>10. after[i] = b
      BY <1>3, <2>2, <2>6, <3>4, <3>6
    <3> QED
      BY <3>3, <3>4, <3>7, <3>8, <3>9, <3>10
  <2>7. CASE s[i] \notin T
    <3>1. Left(S, s, T, i) = S1
      BY <2>1, <2>5, <2>7 DEF Left
    <3> QED
      BY <1>3, <2>2, <2>4, <2>7, <3>1
  <2> QED
    BY <2>6, <2>7
<1>6. ASSUME Bad # {} PROVE FALSE
  <2>1. Bad \subseteq Nat
    BY <1>s
  <2>2. PICK m \in Bad : \A k \in Bad : m <= k
    <3> HIDE DEF Bad
    <3> QED
      BY <1>6, <2>1, LeastExists
  <2>3. m \in 0..n /\ ~Fine(m)
    BY <2>2
  <2> HIDE DEF Fine
  <2>4. m # 0
    BY <1>4, <2>3
  <2>5. m \in 1..n /\ m - 1 \in 0..n /\ ~(m <= m - 1)
    BY <1>s, <2>3, <2>4
  <2>6. Fine(m - 1)
    BY <2>2, <2>5
  <2> QED
    BY <1>5, <2>3, <2>5, <2>6
<1>7. Fine(n)
  BY <1>s, <1>6
<1>8. Left(S, s, T, n) = S \ (T \cap ToSet(s))
  BY <1>s DEF Left, ToSet
<1> QED
  BY <1>2, <1>7, <1>8

-----------------------------------------------------------------------------
(* What a pend returns with *)

Node == [grp : Group \cup {Null}, flags : SUBSET Bit, type : Type]

PendTypeOK ==
  /\ OSTCBStat \in [AllTask -> SUBSET Flag]
  /\ OSTCBStatPend \in [AllTask -> PendResult]
  /\ OSTCBDly \in [AllTask -> Nat]
  /\ pc \in [AllTask -> Pc]
  /\ node \in [Task -> Node]
  /\ OSTCBFlagsRdy \in [Task -> SUBSET Bit]

\* The delay of a pend that has ended is over too: no tick changes its result.
EndedNoDly == \A t \in Task : InPend(t) /\ "PEND" \notin OSTCBStat[t] => OSTCBDly[t] = 0

GrantInv == PendTypeOK /\ EndedNoDly /\ GrantedFlagsMeet

LEMMA TaskInAll == Task \subseteq AllTask
BY DEF AllTask

LEMMA InitPend == Init => GrantInv
BY DEF Init, CoreInit, GrantInv, PendTypeOK, EndedNoDly, GrantedFlagsMeet, InPend,
       NoNode, Node, Type, Group, Null, Pc, PendResult, AllTask

\* Nothing a pend depends on changes but whether its task is suspended, or how
\* far it is in the pend.
LEMMA SamePends ==
  ASSUME GrantInv, PendTypeOK',
         UNCHANGED <<OSTCBStatPend, OSTCBDly, node, OSTCBFlagsRdy>>,
         \A t \in Task : /\ InPend(t)' <=> InPend(t)
                         /\ "PEND" \in OSTCBStat'[t] <=> "PEND" \in OSTCBStat[t]
  PROVE  GrantInv'
BY DEF GrantInv, PendTypeOK, EndedNoDly, GrantedFlagsMeet, Queued

-----------------------------------------------------------------------------
(* The services                                                            *)

\* The flags found ready are among those asked for.
LEMMA RdyAsked ==
  ASSUME NEW F, NEW flags, NEW type
  PROVE  FlagsRdy(F, flags, type) \subseteq flags
BY DEF FlagsRdy

\* Making tasks ready ends their pends with the result: OK only if the flags
\* handed over meet what each asked for.
LEMMA TaskRdyKeeps ==
  ASSUME GrantInv, NEW T, NEW rdy \in [Task -> SUBSET Bit],
         NEW result \in {"OK", "ABORT"},
         OS_FlagTaskRdy(T, rdy, result),
         node' = node, pc' \in [AllTask -> Pc],
         \A t \in Task : InPend(t)' <=> InPend(t),
         result = "OK" => \A t \in Task \cap T :
                            /\ rdy[t] \subseteq node[t].flags
                            /\ Met(rdy[t], node[t].flags, node[t].type)
  PROVE  GrantInv'
<1> USE DEF GrantInv, PendTypeOK
<1>1. /\ \A t \in AllTask : OSTCBDly'[t] = IF t \in T THEN 0 ELSE OSTCBDly[t]
      /\ \A t \in Task : OSTCBFlagsRdy'[t] = IF t \in T THEN rdy[t] ELSE OSTCBFlagsRdy[t]
      /\ \A t \in AllTask : OSTCBStat'[t] = IF t \in T THEN OSTCBStat[t] \ {"PEND"}
                                                       ELSE OSTCBStat[t]
      /\ \A t \in AllTask : OSTCBStatPend'[t] = IF t \in T THEN result
                                                           ELSE OSTCBStatPend[t]
  BY DEF OS_FlagTaskRdy
<1>2. PendTypeOK'
  BY DEF OS_FlagTaskRdy, PendResult
<1>3. EndedNoDly'
  BY <1>1, TaskInAll DEF EndedNoDly
<1>4. GrantedFlagsMeet'
  <2> SUFFICES ASSUME NEW t \in Task, InPend(t), ~Queued(t)', OSTCBStatPend'[t] = "OK"
               PROVE  /\ OSTCBFlagsRdy'[t] \subseteq node[t].flags
                      /\ Met(OSTCBFlagsRdy'[t], node[t].flags, node[t].type)
    BY DEF GrantedFlagsMeet
  <2>1. CASE t \in T
    BY <1>1, <2>1, TaskInAll
  <2>2. CASE t \notin T
    BY <1>1, <2>2, TaskInAll DEF GrantedFlagsMeet, Queued
  <2> QED
    BY <2>1, <2>2
<1> QED
  BY <1>2, <1>3, <1>4

LEMMA PostKeeps ==
  ASSUME GrantInv, NEW t \in Task, NEW g \in Group, NEW flags, NEW opt,
         OSFlagPost(t, g, flags, opt)
  PROVE  GrantInv'
<1> DEFINE F == IF opt = "SET" THEN OSFlagFlags[g] \cup flags ELSE OSFlagFlags[g] \ flags
           rdy == [u \in Task |-> FlagsRdy(F, node[u].flags, node[u].type)]
           woken == {u \in ToSet(WaitList(g)) : Met(rdy[u], node[u].flags, node[u].type)}
<1>1. /\ pc[t] = "task" /\ OS_FlagTaskRdy(woken, rdy, "OK") /\ node' = node
      /\ pc' = IF Readies(woken) THEN [pc EXCEPT ![t] = "sched"] ELSE pc
  BY DEF OSFlagPost, Calls, InTask
<1>2. rdy \in [Task -> SUBSET Bit]
  <2>1. \A u \in Task : node[u].flags \subseteq Bit
    BY DEF GrantInv, PendTypeOK, Node
  <2> QED
    BY <2>1, RdyAsked
<1>3. \A u \in Task \cap woken : /\ rdy[u] \subseteq node[u].flags
                                 /\ Met(rdy[u], node[u].flags, node[u].type)
  <2>1. \A u \in woken : Met(rdy[u], node[u].flags, node[u].type)
    OBVIOUS
  <2>2. \A u \in Task : rdy[u] \subseteq node[u].flags
    BY RdyAsked
  <2> QED
    BY <2>1, <2>2
<1> HIDE DEF rdy, woken
<1>4. pc' \in [AllTask -> Pc] /\ \A u \in Task : InPend(u)' <=> InPend(u)
  BY <1>1, TaskInAll DEF GrantInv, PendTypeOK, Pc, InPend
<1> QED
  BY <1>1, <1>2, <1>3, <1>4, TaskRdyKeeps

LEMMA DelKeeps ==
  ASSUME GrantInv, NEW t \in Task, NEW g \in Group, NEW opt, OSFlagDel(t, g, opt)
  PROVE  GrantInv'
<1> DEFINE T == ToSet(WaitList(g))
           none == [u \in Task |-> {}]
<1>1. /\ pc[t] = "task" /\ OS_FlagTaskRdy(T, none, "ABORT") /\ node' = node
      /\ pc' = IF WaitList(g) = <<>> THEN pc ELSE [pc EXCEPT ![t] = "sched"]
  BY DEF OSFlagDel, Calls, InTask
<1>2. none \in [Task -> SUBSET Bit]
  OBVIOUS
<1> HIDE DEF T, none
<1>3. pc' \in [AllTask -> Pc] /\ \A u \in Task : InPend(u)' <=> InPend(u)
  BY <1>1, TaskInAll DEF GrantInv, PendTypeOK, Pc, InPend
<1> QED
  BY <1>1, <1>2, <1>3, TaskRdyKeeps

\* A pend that begins has not been granted.
LEMMA PendKeeps ==
  ASSUME GrantInv, NEW t \in Task, NEW g \in Group, NEW flags \in SUBSET Bit,
         NEW type \in Type, NEW n \in Nat, OSFlagPend(t, g, flags, type, n)
  PROVE  GrantInv'
<1> USE DEF GrantInv, PendTypeOK
<1> DEFINE own == [grp |-> g, flags |-> flags, type |-> type]
<1>1. /\ OSTCBStat' = [OSTCBStat EXCEPT ![t] = @ \cup {"PEND"}]
      /\ OSTCBStatPend' = [OSTCBStatPend EXCEPT ![t] = "OK"]
      /\ OSTCBDly' = [OSTCBDly EXCEPT ![t] = n]
      /\ node' = [node EXCEPT ![t] = own]
      /\ pc' = [pc EXCEPT ![t] = "pendsched"]
      /\ OSTCBFlagsRdy' = OSTCBFlagsRdy
  BY DEF OSFlagPend, OS_FlagBlock
<1>2. PendTypeOK'
  <2>1. own \in Node
    BY DEF Node
  <2> HIDE DEF own
  <2> QED
    BY <1>1, <2>1, TaskInAll DEF Flag, PendResult, Pc
<1>3. "PEND" \in OSTCBStat'[t]
  BY <1>1, TaskInAll
<1>4. \A u \in Task : u # t =>
        /\ OSTCBStat'[u] = OSTCBStat[u] /\ OSTCBStatPend'[u] = OSTCBStatPend[u]
        /\ OSTCBDly'[u] = OSTCBDly[u] /\ node'[u] = node[u] /\ pc'[u] = pc[u]
  BY <1>1, TaskInAll
<1>5. EndedNoDly'
  BY <1>3, <1>4 DEF EndedNoDly, InPend
<1>6. GrantedFlagsMeet'
  BY <1>1, <1>3, <1>4 DEF GrantedFlagsMeet, InPend, Queued
<1> QED
  BY <1>2, <1>5, <1>6

LEMMA PendEndKeeps ==
  ASSUME GrantInv, NEW t \in Task, OSFlagPendEnd(t)
  PROVE  GrantInv'
<1> USE DEF GrantInv, PendTypeOK
<1>1. /\ OSTCBStat' \in {OSTCBStat, [OSTCBStat EXCEPT ![t] = {}]}
      /\ OSTCBStatPend' = [OSTCBStatPend EXCEPT ![t] = "OK"]
      /\ OSTCBDly' = OSTCBDly
      /\ node' = [node EXCEPT ![t] = NoNode]
      /\ pc' = [pc EXCEPT ![t] = "task"]
      /\ OSTCBFlagsRdy' = [OSTCBFlagsRdy EXCEPT ![t] = {}]
  BY DEF OSFlagPendEnd
<1>2. PendTypeOK'
  <2>1. NoNode \in Node
    BY DEF Node, NoNode, Type
  <2> QED
    BY <1>1, <2>1, TaskInAll DEF PendResult, Pc
<1>3. ~InPend(t)'
  BY <1>1, TaskInAll DEF InPend
<1>4. \A u \in Task : u # t =>
        /\ OSTCBStat'[u] = OSTCBStat[u] /\ OSTCBStatPend'[u] = OSTCBStatPend[u]
        /\ node'[u] = node[u] /\ pc'[u] = pc[u] /\ OSTCBFlagsRdy'[u] = OSTCBFlagsRdy[u]
  BY <1>1, TaskInAll
<1>5. EndedNoDly'
  BY <1>1, <1>3, <1>4 DEF EndedNoDly, InPend
<1>6. GrantedFlagsMeet'
  BY <1>3, <1>4 DEF GrantedFlagsMeet, InPend, Queued
<1> QED
  BY <1>2, <1>5, <1>6

LEMMA FlagTaskKeeps ==
  ASSUME GrantInv, NEW t \in Task, FlagTask(t)
  PROVE  GrantInv'
<1>1. CASE OSFlagCreate(t, {})
  BY <1>1, SamePends DEF OSFlagCreate, coreVars, tcbVars, callVars, GrantInv, PendTypeOK,
     InPend
<1>2. ASSUME NEW g \in Group, NEW ask \in Asks[g], NEW pend \in BOOLEAN,
             Take(t, g, ask.flags, ask.type, pend)
      PROVE  GrantInv'
  BY <1>2, SamePends DEF Take, coreVars, tcbVars, callVars, GrantInv, PendTypeOK, InPend
<1>3. ASSUME NEW g \in Group, NEW ask \in Asks[g], NEW n \in 0..MaxTicks,
             OSFlagPend(t, g, ask.flags, ask.type, n)
      PROVE  GrantInv'
  <2>1. ask \in [flags : SUBSET Bit, type : Type]
    BY FlagAssumption
  <2>2. ask.flags \in SUBSET Bit /\ ask.type \in Type /\ n \in Nat
    BY <2>1, CoreAssumption
  <2> QED
    BY <1>3, <2>2, PendKeeps
<1> QED
  BY <1>1, <1>2, <1>3, PendEndKeeps, DelKeeps, PostKeeps DEF FlagTask

-----------------------------------------------------------------------------
(* The kernel                                                              *)

\* A tick makes a pend time out, and no other result of a pend its own.
LEMMA TickKeeps ==
  ASSUME GrantInv, OSTimeTick, node' = node, OSTCBFlagsRdy' = OSTCBFlagsRdy
  PROVE  GrantInv'
<1> USE DEF GrantInv, PendTypeOK
<1> DEFINE ends == {t \in Task : OSTCBDly[t] # 0 /\ OSTCBDly[t] = 1}
<1>1. /\ pc' = pc
      /\ OSTCBDly' = [t \in AllTask |-> IF t \in Task /\ OSTCBDly[t] # 0
                                        THEN OSTCBDly[t] - 1 ELSE OSTCBDly[t]]
      /\ OSTCBStat' = [t \in AllTask |-> IF t \in ends THEN OSTCBStat[t] \ {"PEND"}
                                                       ELSE OSTCBStat[t]]
      /\ OSTCBStatPend' = [t \in AllTask |->
           IF t \in ends THEN (IF "PEND" \in OSTCBStat[t] THEN "TO" ELSE "OK")
                         ELSE OSTCBStatPend[t]]
  BY DEF OSTimeTick, DlyEnds, callVars
<1>2. PendTypeOK'
  BY <1>1 DEF PendResult
<1>3. ASSUME NEW t \in Task, InPend(t), t \in ends
      PROVE  OSTCBStatPend'[t] = "TO" /\ OSTCBDly'[t] = 0
  <2>1. "PEND" \in OSTCBStat[t]
    BY <1>3 DEF EndedNoDly
  <2> QED
    BY <1>1, <1>3, <2>1, TaskInAll
<1>4. ASSUME NEW t \in Task, t \notin ends
      PROVE  /\ OSTCBStatPend'[t] = OSTCBStatPend[t] /\ OSTCBStat'[t] = OSTCBStat[t]
             /\ OSTCBDly[t] = 0 => OSTCBDly'[t] = 0
  BY <1>1, <1>4, TaskInAll
<1>5. \A t \in Task : InPend(t)' <=> InPend(t)
  BY <1>1 DEF InPend
<1> HIDE DEF ends
<1>6. EndedNoDly'
  BY <1>3, <1>4, <1>5 DEF EndedNoDly
<1>7. GrantedFlagsMeet'
  BY <1>3, <1>4, <1>5 DEF GrantedFlagsMeet, Queued
<1> QED
  BY <1>2, <1>6, <1>7

LEMMA KernelKeeps ==
  ASSUME GrantInv, Kernel, node' = node, OSTCBFlagsRdy' = OSTCBFlagsRdy
  PROVE  GrantInv'
<1> USE DEF GrantInv, PendTypeOK
<1>1. CASE PendSV_Handler \/ Tick \/ SysTickExit
  BY <1>1, SamePends DEF PendSV_Handler, Tick, SysTickExit, tcbVars, callVars, InPend
<1>2. ASSUME NEW t \in Task, OS_Sched(t)
      PROVE  GrantInv'
  <2>1. UNCHANGED <<OSTCBStat, OSTCBStatPend, OSTCBDly>>
    BY <1>2 DEF OS_Sched, tcbVars
  <2>2. pc' = [pc EXCEPT ![t] = IF pc[t] = "pendsched" THEN "wake" ELSE "task"]
        /\ pc[t] \in {"sched", "pendsched"}
    BY <1>2 DEF OS_Sched
  <2>3. pc' \in [AllTask -> Pc]
    BY <2>2 DEF Pc
  <2>4. \A u \in Task : InPend(u)' <=> InPend(u)
    BY <2>2, TaskInAll DEF InPend
  <2> QED
    BY <2>1, <2>3, <2>4, SamePends
<1>3. ASSUME NEW t \in Task, NEW u \in Suspends, OSTaskSuspend(t, u) \/ OSTaskResume(t, u)
      PROVE  GrantInv'
  <2>1. u \in AllTask
    BY FlagAssumption, TaskInAll
  <2>2. /\ OSTCBStat' = [OSTCBStat EXCEPT ![u] = @ \cup {"SUSPEND"}]
           \/ OSTCBStat' = [OSTCBStat EXCEPT ![u] = @ \ {"SUSPEND"}]
        /\ pc[t] = "task" /\ pc' \in {pc, [pc EXCEPT ![t] = "sched"]}
        /\ UNCHANGED <<OSTCBStatPend, OSTCBDly>>
    BY <1>3 DEF OSTaskSuspend, OSTaskResume
  <2>3. PendTypeOK'
    BY <2>1, <2>2 DEF Flag, Pc
  <2>4. \A v \in Task : "PEND" \in OSTCBStat'[v] <=> "PEND" \in OSTCBStat[v]
    BY <2>1, <2>2, TaskInAll
  <2>5. \A v \in Task : InPend(v)' <=> InPend(v)
    BY <2>2, TaskInAll DEF InPend
  <2> QED
    BY <2>2, <2>3, <2>4, <2>5, SamePends
<1> QED
  BY <1>1, <1>2, <1>3, TickKeeps DEF Kernel

LEMMA NextPend == GrantInv /\ [Next]_flagVars => GrantInv'
<1> SUFFICES ASSUME GrantInv, [Next]_flagVars PROVE GrantInv'
  OBVIOUS
<1>1. CASE UNCHANGED flagVars
  BY <1>1, SamePends DEF flagVars, coreVars, tcbVars, callVars, GrantInv, PendTypeOK, InPend
<1> QED
  BY <1>1, KernelKeeps, FlagTaskKeeps DEF Next

\* Whatever posts, timeouts, suspensions and deletions come between the grant
\* and the return, the flags a pend returns meet what it asked for: for every
\* number of tasks, groups and flags.
THEOREM FlagsAlwaysMeet == Spec => []GrantedFlagsMeet
<1>1. GrantInv => GrantedFlagsMeet
  BY DEF GrantInv
<1> QED
  BY <1>1, InitPend, NextPend, PTL DEF Spec

-----------------------------------------------------------------------------
(***************************************************************************)
(* The kernel's lists.  No event is used: the pends on a group are in no   *)
(* wait list of OSEventTbl.                                                *)
(***************************************************************************)
QuietEvents == /\ \A e \in Event : OSEventTbl[e] = {}
               /\ \A t \in AllTask : pevent[t] = NoEvent

BaseInv == CoreTypeInv /\ KernelInv /\ ReadyInv /\ QuietEvents

LEMMA InitBase == Init => BaseInv
<1> SUFFICES ASSUME Init PROVE BaseInv
  OBVIOUS
<1>1. CoreInit
  BY DEF Init
<1>2. QuietEvents
  BY <1>1 DEF CoreInit, QuietEvents
<1> QED
  BY <1>1, <1>2, CoreInitTyped, CoreInitKernel, CoreInitLists DEF BaseInv, ListInv

\* A step of the services that leaves the kernel's variables alone.
LEMMA SameBase ==
  ASSUME BaseInv, UNCHANGED coreVars
  PROVE  BaseInv'
<1> USE DEF BaseInv, CoreTypeInv, TypeOK, coreVars, swVars, nestVars, tcbVars, callVars
<1>1. PrioInv' /\ SwTypeOK' /\ RestTypeOK'
  BY DEF PrioInv, PrioMapOK, SwTypeOK, RestTypeOK
<1>2. CoreTypeInv'
  BY <1>1, TypedByParts
<1>3. KernelInv'
  BY DEF KernelInv, CurInv, Stale, NestInv, LockInv, SchedInv
<1>4. ReadyInv' /\ QuietEvents'
  BY DEF ReadyInv, QuietEvents
<1> QED
  BY <1>2, <1>3, <1>4

\* What a service body leaves to show once the kernel's types are.
LEMMA ServiceBase ==
  ASSUME BaseInv, NEW t \in Task, Running(t), pc[t] \in {"task", "wake"},
         UNCHANGED <<swVars, nestVars, OSTCBPrio, OSTCBEventPtr, OSEventTbl, pevent>>,
         OSRdyTbl' \subseteq {OSTCBPrio[u] : u \in AllTask}, IdlePrio \in OSRdyTbl',
         OSTCBStat' \in [AllTask -> SUBSET Flag],
         OSTCBStatPend' \in [AllTask -> PendResult],
         OSTCBDly' \in [AllTask -> 0..MaxTicks],
         pc' \in [AllTask -> Pc], ReadyInv',
         OSLockNesting > 0 => pc'[t] \in {"task", "sched"},
         pc'[t] \in {"sched", "pendsched"} \/ OSRdyTbl' = OSRdyTbl
  PROVE  BaseInv'
<1>1. PrioInv'
  BY DEF BaseInv, CoreTypeInv, PrioInv, PrioMapOK
<1>2. SwTypeOK'
  BY DEF BaseInv, CoreTypeInv, TypeOK, SwTypeOK, swVars
<1>3. RestTypeOK'
  BY DEF BaseInv, CoreTypeInv, TypeOK, RestTypeOK, nestVars
<1>4. CoreTypeInv'
  BY <1>1, <1>2, <1>3, TypedByParts
<1>5. KernelInv'
  BY ServiceKernel DEF BaseInv
<1>6. QuietEvents'
  BY DEF BaseInv, QuietEvents
<1> QED
  BY <1>4, <1>5, <1>6 DEF BaseInv

\* The tasks that are made ready, the suspended ones apart, are in the ready list.
LEMMA TaskRdyBase ==
  ASSUME BaseInv, NEW T \in SUBSET Task, NEW rdy, NEW result \in {"OK", "ABORT"},
         OS_FlagTaskRdy(T, rdy, result), OSTCBPrio' = OSTCBPrio
  PROVE  /\ OSRdyTbl' \subseteq {OSTCBPrio[u] : u \in AllTask} /\ IdlePrio \in OSRdyTbl'
         /\ OSTCBStat' \in [AllTask -> SUBSET Flag]
         /\ OSTCBStatPend' \in [AllTask -> PendResult]
         /\ OSTCBDly' \in [AllTask -> 0..MaxTicks]
         /\ OSTCBEventPtr' = OSTCBEventPtr
         /\ ReadyInv'
         /\ ~Readies(T) => OSRdyTbl' = OSRdyTbl
<1> USE DEF BaseInv, CoreTypeInv, TypeOK
<1> DEFINE R == {u \in T : "SUSPEND" \notin OSTCBStat[u]}
<1>1. R \in SUBSET AllTask
  BY DEF AllTask
<1>2. OSRdyTbl' = OSRdyTbl \cup {OSTCBPrio[v] : v \in R}
  BY DEF OS_FlagTaskRdy
<1>3. OSRdyTbl' \subseteq {OSTCBPrio[u] : u \in AllTask} /\ IdlePrio \in OSRdyTbl'
  BY <1>1, <1>2 DEF PrioInv
<1>4. 0 \in 0..MaxTicks
  BY CoreAssumption
<1>5. OSTCBDly' \in [AllTask -> 0..MaxTicks]
  BY <1>4 DEF OS_FlagTaskRdy
<1>6. /\ OSTCBStat' \in [AllTask -> SUBSET Flag]
      /\ OSTCBStatPend' \in [AllTask -> PendResult]
      /\ OSTCBEventPtr' = OSTCBEventPtr
  BY DEF OS_FlagTaskRdy, PendResult
<1>7. ReadyInv'
  <2> SUFFICES ASSUME NEW u \in AllTask
               PROVE  OSTCBPrio[u] \in OSRdyTbl' <=> OSTCBStat'[u] = {} /\ OSTCBDly'[u] = 0
    BY DEF ReadyInv
  <2>1. OSTCBPrio[u] \in OSRdyTbl' <=> OSTCBPrio[u] \in OSRdyTbl \/ u \in R
    BY <1>1, <1>2, ReadyMember
  <2>2. OSTCBPrio[u] \in OSRdyTbl <=> OSTCBStat[u] = {} /\ OSTCBDly[u] = 0
    BY DEF ReadyInv
  <2>3. CASE u \in T
    <3>1. OSTCBStat'[u] = OSTCBStat[u] \ {"PEND"} /\ OSTCBDly'[u] = 0
      BY <2>3 DEF OS_FlagTaskRdy
    <3>2. OSTCBStat[u] \subseteq {"PEND", "SUSPEND"}
      BY DEF Flag
    <3>3. OSTCBStat'[u] = {} <=> "SUSPEND" \notin OSTCBStat[u]
      BY <3>1, <3>2
    <3> QED
      BY <2>1, <2>2, <2>3, <3>1, <3>3
  <2>4. CASE u \notin T
    <3>1. OSTCBStat'[u] = OSTCBStat[u] /\ OSTCBDly'[u] = OSTCBDly[u] /\ u \notin R
      BY <2>4 DEF OS_FlagTaskRdy
    <3> QED
      BY <2>1, <2>2, <3>1
  <2> QED
    BY <2>3, <2>4
<1>8. ~Readies(T) => OSRdyTbl' = OSRdyTbl
  <2>1. ~Readies(T) => R = {}
    BY DEF Readies
  <2> QED
    BY <1>2, <2>1
<1> QED
  BY <1>3, <1>5, <1>6, <1>7, <1>8

\* The walk along a wait list meets tasks only, wherever the links lead.
LEMMA WaitersAreTasks ==
  ASSUME NEW g
  PROVE  ToSet(WaitList(g)) \in SUBSET Task
<1>1. WaitList(g) \in Seq(Task)
  BY NullFacts, ListTyped DEF WaitList
<1> QED
  BY <1>1 DEF ToSet

LEMMA PostBase ==
  ASSUME BaseInv, NEW t \in Task, NEW g \in Group, NEW flags, NEW opt,
         OSFlagPost(t, g, flags, opt)
  PROVE  BaseInv'
<1> DEFINE F == IF opt = "SET" THEN OSFlagFlags[g] \cup flags ELSE OSFlagFlags[g] \ flags
           rdy == [u \in Task |-> FlagsRdy(F, node[u].flags, node[u].type)]
           woken == {u \in ToSet(WaitList(g)) : Met(rdy[u], node[u].flags, node[u].type)}
<1>1. /\ Running(t) /\ pc[t] = "task" /\ OS_FlagTaskRdy(woken, rdy, "OK")
      /\ pc' = IF Readies(woken) THEN [pc EXCEPT ![t] = "sched"] ELSE pc
      /\ UNCHANGED <<swVars, nestVars, OSTCBPrio, OSEventTbl, pevent>>
  BY DEF OSFlagPost, Calls, InTask
<1>2. woken \in SUBSET Task
  BY WaitersAreTasks
<1> HIDE DEF woken, rdy
<1>3. pc' \in [AllTask -> Pc] /\ pc'[t] \in {"task", "sched"}
      /\ (Readies(woken) => pc'[t] = "sched")
  BY <1>1, TaskInAll DEF BaseInv, CoreTypeInv, TypeOK, Pc
<1> QED
  BY <1>1, <1>2, <1>3, TaskRdyBase, ServiceBase

LEMMA DelBase ==
  ASSUME BaseInv, NEW t \in Task, NEW g \in Group, NEW opt, OSFlagDel(t, g, opt)
  PROVE  BaseInv'
<1> DEFINE T == ToSet(WaitList(g))
           none == [u \in Task |-> {}]
<1>1. /\ Running(t) /\ pc[t] = "task" /\ OS_FlagTaskRdy(T, none, "ABORT")
      /\ pc' = IF WaitList(g) = <<>> THEN pc ELSE [pc EXCEPT ![t] = "sched"]
      /\ UNCHANGED <<swVars, nestVars, OSTCBPrio, OSEventTbl, pevent>>
  BY DEF OSFlagDel, Calls, InTask
<1>2. T \in SUBSET Task
  BY WaitersAreTasks
<1>3. WaitList(g) = <<>> => T = {}
  BY DEF ToSet
<1> HIDE DEF T, none
<1>4. pc' \in [AllTask -> Pc] /\ pc'[t] \in {"task", "sched"}
      /\ (Readies(T) => pc'[t] = "sched")
  BY <1>1, <1>3, TaskInAll DEF BaseInv, CoreTypeInv, TypeOK, Pc, Readies
<1> QED
  BY <1>1, <1>2, <1>4, TaskRdyBase, ServiceBase

LEMMA PendBase ==
  ASSUME BaseInv, NEW t \in Task, NEW g, NEW flags, NEW type, NEW n \in 0..MaxTicks,
         OSFlagPend(t, g, flags, type, n)
  PROVE  BaseInv'
<1> USE DEF BaseInv
<1>1. /\ Running(t) /\ pc[t] = "task" /\ OSLockNesting = 0
      /\ OSTCBStat' = [OSTCBStat EXCEPT ![t] = @ \cup {"PEND"}]
      /\ OSTCBStatPend' = [OSTCBStatPend EXCEPT ![t] = "OK"]
      /\ OSTCBDly' = [OSTCBDly EXCEPT ![t] = n]
      /\ OSRdyTbl' = OSRdyTbl \ {OSTCBPrio[t]}
      /\ pc' = [pc EXCEPT ![t] = "pendsched"]
      /\ UNCHANGED <<swVars, nestVars, OSTCBPrio, OSTCBEventPtr, OSEventTbl, pevent>>
  BY DEF OSFlagPend, OS_FlagBlock, Calls, InTask
<1>2. /\ OSTCBStat' \in [AllTask -> SUBSET Flag]
      /\ OSTCBStatPend' \in [AllTask -> PendResult]
      /\ OSTCBDly' \in [AllTask -> 0..MaxTicks]
      /\ pc' \in [AllTask -> Pc] /\ pc'[t] = "pendsched"
  BY <1>1, TaskInAll DEF CoreTypeInv, TypeOK, Flag, PendResult, Pc
<1>3. ReadyInv'
  <2> SUFFICES ASSUME NEW u \in AllTask
               PROVE  OSTCBPrio[u] \in OSRdyTbl' <=> OSTCBStat'[u] = {} /\ OSTCBDly'[u] = 0
    BY <1>1 DEF ReadyInv
  <2>1. OSTCBPrio[u] \in OSRdyTbl' <=> OSTCBPrio[u] \in OSRdyTbl /\ u # t
    BY <1>1, TaskInAll, ReadyMember
  <2>2. OSTCBPrio[u] \in OSRdyTbl <=> OSTCBStat[u] = {} /\ OSTCBDly[u] = 0
    BY DEF ReadyInv
  <2>3. u = t => "PEND" \in OSTCBStat'[u]
    BY <1>1 DEF CoreTypeInv, TypeOK
  <2>4. u # t => OSTCBStat'[u] = OSTCBStat[u] /\ OSTCBDly'[u] = OSTCBDly[u]
    BY <1>1 DEF CoreTypeInv, TypeOK
  <2> QED
    BY <2>1, <2>2, <2>3, <2>4
<1>4. OSRdyTbl' \subseteq {OSTCBPrio[u] : u \in AllTask} /\ IdlePrio \in OSRdyTbl'
  BY <1>1, ReadyListTyped
<1> QED
  BY <1>1, <1>2, <1>3, <1>4, ServiceBase

\* The task that comes back from a pend is ready: nothing holds it back.
LEMMA WakesFree ==
  ASSUME BaseInv, NEW t \in Task, Running(t), pc[t] = "wake"
  PROVE  OSTCBStat[t] = {} /\ OSTCBDly[t] = 0
BY RunsReady, TaskInAll DEF BaseInv, ReadyInv

LEMMA PendEndBase ==
  ASSUME BaseInv, NEW t \in Task, OSFlagPendEnd(t)
  PROVE  BaseInv'
<1>1. /\ Running(t) /\ pc[t] = "wake"
      /\ OSTCBStat' = OSTCBStat \/ OSTCBStat' = [OSTCBStat EXCEPT ![t] = {}]
      /\ OSTCBStatPend' = [OSTCBStatPend EXCEPT ![t] = "OK"]
      /\ pc' = [pc EXCEPT ![t] = "task"]
      /\ UNCHANGED <<OSRdyTbl, swVars, nestVars, OSTCBPrio, OSTCBDly, OSTCBEventPtr,
                     OSEventTbl, pevent>>
  BY DEF OSFlagPendEnd
<1>2. OSTCBStat' = OSTCBStat
  <2>1. OSTCBStat[t] = {} /\ OSTCBStat \in [AllTask -> SUBSET Flag]
    BY <1>1, WakesFree DEF BaseInv, CoreTypeInv, TypeOK
  <2> QED
    BY <1>1, <2>1
<1>3. /\ OSTCBStatPend' \in [AllTask -> PendResult]
      /\ pc' \in [AllTask -> Pc] /\ pc'[t] = "task"
  BY <1>1, TaskInAll DEF BaseInv, CoreTypeInv, TypeOK, PendResult, Pc
<1>4. ReadyInv'
  BY <1>1, <1>2 DEF BaseInv, ReadyInv
<1>5. OSRdyTbl' \subseteq {OSTCBPrio[u] : u \in AllTask} /\ IdlePrio \in OSRdyTbl'
  BY <1>1 DEF BaseInv, CoreTypeInv, PrioInv
<1>6. OSTCBStat' \in [AllTask -> SUBSET Flag] /\ OSTCBDly' \in [AllTask -> 0..MaxTicks]
  BY <1>1, <1>2 DEF BaseInv, CoreTypeInv, TypeOK
<1> QED
  BY <1>1, <1>3, <1>4, <1>5, <1>6, ServiceBase

LEMMA FlagTaskBase ==
  ASSUME BaseInv, NEW t \in Task, FlagTask(t)
  PROVE  BaseInv'
<1>1. CASE OSFlagCreate(t, {})
  BY <1>1, SameBase DEF OSFlagCreate
<1>2. ASSUME NEW g \in Group, NEW ask \in Asks[g], NEW pend \in BOOLEAN,
             Take(t, g, ask.flags, ask.type, pend)
      PROVE  BaseInv'
  BY <1>2, SameBase DEF Take
<1> QED
  BY <1>1, <1>2, PendBase, PendEndBase, DelBase, PostBase DEF FlagTask

LEMMA KernelBase ==
  ASSUME BaseInv, Kernel
  PROVE  BaseInv'
<1> USE DEF BaseInv
<1>1. CASE PendSV_Handler \/ OSTimeTick \/ SysTickExit
  <2>1. QuietEvents'
    BY <1>1 DEF QuietEvents, PendSV_Handler, OSTimeTick, SysTickExit, callVars
  <2> QED
    BY <1>1, <2>1, HandlersTyped, HandlersKernel, HandlersReady
<1>2. CASE Tick
  <2>1. UNCHANGED <<OSRdyTbl, swVars, OSTCBPrio, tcbVars, OSEventTbl, callVars>> /\ SysTickEnter
    BY <1>2 DEF Tick
  <2>2. PrioInv' /\ SwTypeOK'
    BY <2>1 DEF CoreTypeInv, TypeOK, PrioInv, PrioMapOK, SwTypeOK, swVars
  <2>3. RestTypeOK'
    BY <2>1 DEF CoreTypeInv, TypeOK, RestTypeOK, SysTickEnter, tcbVars, callVars
  <2>4. CoreTypeInv'
    BY <2>2, <2>3, TypedByParts
  <2>5. KernelInv'
    BY <2>1, SysTickEnterKernel
  <2>6. ReadyInv' /\ QuietEvents'
    BY <2>1 DEF ReadyInv, QuietEvents, tcbVars, callVars
  <2> QED
    BY <2>4, <2>5, <2>6
<1>3. ASSUME NEW t \in Task, NEW u \in Suspends,
             OSTaskSuspend(t, u) \/ OSTaskResume(t, u)
      PROVE  BaseInv'
  <2>1. u \in Task
    BY FlagAssumption
  <2>2. CoreTask(t)
    BY <1>3, <2>1 DEF CoreTask
  <2>3. QuietEvents'
    BY <1>3 DEF QuietEvents, OSTaskSuspend, OSTaskResume
  <2> QED
    BY <2>2, <2>3, CoreTaskTyped, CoreTaskKernel, CoreTaskReady
<1>4. ASSUME NEW t \in Task, OS_Sched(t)
      PROVE  BaseInv'
  <2>1. CoreTask(t)
    BY <1>4 DEF CoreTask
  <2>2. QuietEvents'
    BY <1>4 DEF QuietEvents, OS_Sched
  <2> QED
    BY <2>1, <2>2, CoreTaskTyped, CoreTaskKernel, CoreTaskReady
<1> QED
  BY <1>1, <1>2, <1>3, <1>4 DEF Kernel

LEMMA AlwaysBase == Spec => []BaseInv
<1>1. BaseInv /\ [Next]_flagVars => BaseInv'
  BY SameBase, FlagTaskBase, KernelBase DEF Next, flagVars
<1> QED
  BY <1>1, InitBase, PTL DEF Spec

\* The pends and posts of event flag groups keep the ready list and the
\* scheduler right, whatever the application does, also where it deletes a group
\* that tasks are about to leave.
THEOREM FlagListsOK == Spec => []ListsOK
<1>1. BaseInv => ListsOK
  <2> SUFFICES ASSUME BaseInv PROVE ListsOK
    OBVIOUS
  <2>1. ReadyListOK
    BY DEF BaseInv, CoreTypeInv, PrioInv, ReadyInv, ReadyListOK
  <2>2. HighestRuns
    BY DEF BaseInv, KernelInv, SchedInv, HighestRuns
  <2>3. WaitListOK
    BY CoreAssumption, TaskInAll DEF BaseInv, QuietEvents, WaitListOK
  <2> QED
    BY <2>1, <2>2, <2>3 DEF ListsOK
<1> QED
  BY <1>1, AlwaysBase, PTL

-----------------------------------------------------------------------------
(***************************************************************************)
(* The nodes and the free groups, when no group is deleted under a pend    *)
(* (Careful): which task's node is in which list, where it is in it, and   *)
(* that each pend is in a group that exists.                               *)
(***************************************************************************)
OwnTypeOK ==
  /\ OSFlagType \in [Group -> BOOLEAN]
  /\ OSFlagFlags \in [Group -> SUBSET Bit]
  /\ LinksTyped(links)

\* The group of a pend exists, and nothing aborts it.
CallInv == \A t \in Task :
  /\ InPend(t) <=> node[t].grp # Null
  /\ InPend(t) => /\ OSFlagType[node[t].grp] /\ OSTCBStatPend[t] # "ABORT"
                  /\ \E ask \in Asks[node[t].grp] : /\ ask.flags = node[t].flags
                                                    /\ ask.type = node[t].type
  /\ "PEND" \in OSTCBStat[t] => InPend(t) /\ OSTCBStatPend[t] = "OK"

Members(g) == {t \in Task : Queued(t) /\ node[t].grp = g}
Unused == {g \in Group : ~OSFlagType[g]}

Lists(tp, gp) ==
  /\ tp \in [Task -> Int] /\ gp \in [Group -> Int]
  /\ \A g \in Group : OSFlagType[g] => Listed(links, g, Members(g), tp)
  /\ Chain(Unused, OSFlagFreeList, links.first, gp)

Placed == \E tp, gp : Lists(tp, gp)

CareInv == OwnTypeOK /\ CallInv /\ Placed

LEMMA InitCare == Init => CareInv
<1> SUFFICES ASSUME Init PROVE CareInv
  OBVIOUS
<1> USE DEF Init
<1>g. /\ OS_MAX_FLAGS \in Nat /\ OS_MAX_FLAGS > 0 /\ 1 \in Group /\ Group \subseteq Int
      /\ \A g \in Group : g # Null /\ g >= 1 /\ g <= OS_MAX_FLAGS
      /\ \A g \in Group : g # OS_MAX_FLAGS => g + 1 \in Group
  BY FlagAssumption DEF Group, Null
<1>1. OwnTypeOK
  BY <1>g DEF OwnTypeOK, LinksTyped
<1>2. CallInv
  BY TaskInAll DEF CallInv, CoreInit, InPend, NoNode
<1>3. \A g \in Group : Members(g) = {}
  BY TaskInAll DEF Members, Queued, InPend, CoreInit
<1>4. Unused = Group /\ OSFlagFreeList = 1
      /\ links.first = [g \in Group |-> IF g = OS_MAX_FLAGS THEN Null ELSE g + 1]
  BY DEF Unused
<1> DEFINE gp == [g \in Group |-> g]
           tp == [t \in Task |-> 0]
<1>5. Chain(Group, 1, links.first, gp)
  <2>1. \A x \in Group : gp[x] = x /\ x \in Int
    BY <1>g
  <2>2. \A x \in Group : links.first[x] = IF x = OS_MAX_FLAGS THEN Null ELSE x + 1
    BY <1>4
  <2> HIDE DEF gp
  <2>3. \A x \in Group : /\ links.first[x] \in Group \cup {Null}
                         /\ links.first[x] # Null => gp[x] < gp[links.first[x]]
    BY <1>g, <2>1, <2>2
  <2>4. ASSUME NEW x \in Group, NEW y \in Group, gp[x] < gp[y]
        PROVE  links.first[x] # Null /\ gp[links.first[x]] <= gp[y]
    <3>1. x < y /\ x # OS_MAX_FLAGS /\ x + 1 \in Group
      BY <1>g, <2>1, <2>4
    <3>2. links.first[x] = x + 1 /\ gp[x + 1] = x + 1 /\ gp[y] = y /\ x + 1 # Null
      BY <1>g, <2>1, <2>2, <3>1
    <3> QED
      BY <2>1, <3>1, <3>2
  <2>5. 1 # Null /\ \A x \in Group : gp[1] <= gp[x]
    BY <1>g, <2>1
  <2> QED
    BY <1>g, <2>1, <2>3, <2>4, <2>5 DEF Chain
<1>6. Lists(tp, gp)
  BY <1>g, <1>4, <1>5 DEF Lists
<1> QED
  BY <1>1, <1>2, <1>6 DEF CareInv, Placed

\* Members are in a pend of a group that exists.
LEMMA MembersUse ==
  ASSUME CallInv, GrantInv, NEW g
  PROVE  /\ Members(g) \subseteq Task
         /\ \A t \in Members(g) : InPend(t) /\ node[t].grp = g /\ g \in Group /\ OSFlagType[g]
BY DEF CallInv, Members, Queued, GrantInv, PendTypeOK, Node

\* The walk along the wait list of a group meets its members.
LEMMA WaitListIs ==
  ASSUME NEW tp, NEW gp, Lists(tp, gp), NEW g \in Group, OSFlagType[g]
  PROVE  /\ Part(WaitList(g), Members(g), links.first[g], links.next, tp)
         /\ ToSet(WaitList(g)) = Members(g) /\ IsInjective(WaitList(g))
         /\ WaitList(g) \in Seq(Members(g))
<1>1. Members(g) \subseteq Task
  BY DEF Members
<1>2. PICK S : S = Members(g)
  OBVIOUS
<1>3. Chain(S, links.first[g], links.next, tp) /\ tp \in [Task -> Int]
  BY <1>2 DEF Lists, Listed
<1>4. PICK s : s = WaitList(g)
  OBVIOUS
<1>5. Part(s, S, links.first[g], links.next, tp) /\ ToSet(s) = S /\ IsInjective(s)
  BY <1>1, <1>2, <1>3, <1>4, NullFacts, ListIs DEF WaitList
<1> QED
  BY <1>2, <1>4, <1>5 DEF Part

\* Steps that leave the groups and the nodes alone and take no task in or out
\* of a list.
LEMMA SameCare ==
  ASSUME CareInv, UNCHANGED <<OSFlagType, links, OSFlagFreeList, node>>,
         OSFlagFlags' \in [Group -> SUBSET Bit],
         \A t \in Task : /\ InPend(t)' <=> InPend(t)
                         /\ Queued(t)' <=> Queued(t)
                         /\ InPend(t) => OSTCBStatPend'[t] # "ABORT"
                         /\ "PEND" \in OSTCBStat'[t] => InPend(t) /\ OSTCBStatPend'[t] = "OK"
  PROVE  CareInv'
<1>1. OwnTypeOK'
  BY DEF CareInv, OwnTypeOK
<1>2. CallInv'
  BY DEF CareInv, CallInv
<1>3. \A g : Members(g)' = Members(g)
  BY DEF Members
<1>4. Unused' = Unused
  BY DEF Unused
<1>5. PICK tp, gp : Lists(tp, gp)
  BY DEF CareInv, Placed
<1>6. Lists(tp, gp)'
  BY <1>3, <1>4, <1>5 DEF Lists
<1> QED
  BY <1>1, <1>2, <1>6 DEF CareInv, Placed

\* A group that is made takes the first of the free ones and has no node.
LEMMA CreateCare ==
  ASSUME GrantInv, CareInv, NEW t \in Task, OSFlagCreate(t, {})
  PROVE  CareInv'
<1> DEFINE g == OSFlagFreeList
<1>1. /\ g \in Group
      /\ OSFlagFreeList' = links.first[g]
      /\ OSFlagType' = [OSFlagType EXCEPT ![g] = TRUE]
      /\ OSFlagFlags' = [OSFlagFlags EXCEPT ![g] = {}]
      /\ links'.first = [links.first EXCEPT ![g] = Null]
      /\ links'.next = links.next /\ links'.prev = links.prev
      /\ UNCHANGED <<node, pc, OSTCBStat, OSTCBStatPend>>
  BY DEF OSFlagCreate, FirstSet, coreVars, tcbVars, callVars
<1>2. PICK tp, gp : Lists(tp, gp)
  BY DEF CareInv, Placed
<1> HIDE DEF g
<1>3. OwnTypeOK'
  BY <1>1 DEF CareInv, OwnTypeOK, LinksTyped
<1>4. \A h \in Group : OSFlagType'[h] = (h = g \/ OSFlagType[h])
  BY <1>1 DEF CareInv, OwnTypeOK
<1>5. CallInv'
  <2>1. \A u \in Task : InPend(u) => node[u].grp \in Group
    BY DEF CareInv, CallInv, GrantInv, PendTypeOK, Node
  <2> QED
    BY <1>1, <1>4, <2>1 DEF CareInv, CallInv, InPend
<1>6. g \in Unused /\ Chain(Unused, g, links.first, gp) /\ Unused \subseteq Group
  BY <1>1, <1>2, NullFacts DEF Lists, Chain, Unused, g
<1>7. Unused' = Unused \ {g}
  BY <1>4 DEF Unused
<1>8. \A h : Members(h)' = Members(h)
  BY <1>1 DEF Members, Queued, InPend
<1>9. Members(g) = {}
  BY <1>6, MembersUse DEF Unused, CareInv
<1>10. Chain(Unused \ {g}, links.first[g], links'.first, gp)
  <2>1. \A y \in Unused : y # g => links'.first[y] = links.first[y]
    BY <1>1, <1>6 DEF CareInv, OwnTypeOK, LinksTyped
  <2>2. Null \notin Unused /\ \A y \in Unused : gp[y] \in Int
    BY <1>2, <1>6, NullFacts DEF Lists
  <2>3. PICK next2 : next2 = links'.first
    OBVIOUS
  <2> QED
    BY <1>6, <2>1, <2>2, <2>3, FirstLeaves
<1>11. ASSUME NEW h \in Group, OSFlagType'[h]
       PROVE  Listed(links', h, Members(h), tp)
  <2>1. CASE h = g
    <3>1. links'.first[h] = Null
      BY <1>1, <2>1 DEF CareInv, OwnTypeOK, LinksTyped
    <3> QED
      BY <1>9, <2>1, <3>1 DEF Listed, Chain, Back
  <2>2. CASE h # g
    <3>1. links'.first[h] = links.first[h] /\ OSFlagType[h]
      BY <1>1, <1>4, <1>11, <2>2 DEF CareInv, OwnTypeOK, LinksTyped
    <3> QED
      BY <1>1, <1>2, <3>1 DEF Lists, Listed
  <2> QED
    BY <2>1, <2>2
<1>12. Lists(tp, gp)'
  BY <1>1, <1>2, <1>7, <1>8, <1>10, <1>11 DEF Lists
<1> QED
  BY <1>3, <1>5, <1>12 DEF CareInv, Placed

\* A group that nobody pends on has an empty list, and is put in front of the
\* free ones.
LEMMA DelCare ==
  ASSUME Careful, BaseInv, GrantInv, CareInv, NEW t \in Task, NEW g \in Group, NEW opt,
         OSFlagDel(t, g, opt)
  PROVE  CareInv'
<1>1. OSFlagType[g] /\ \A u \in Task : node[u].grp # g
  BY DEF OSFlagDel, Calls, MayDelete
<1>2. PICK tp, gp : Lists(tp, gp)
  BY DEF CareInv, Placed
<1>3. Members(g) = {}
  BY <1>1 DEF Members
<1>4. PICK s : s = WaitList(g)
  OBVIOUS
<1>5. s \in Seq({}) /\ ToSet(s) = {} /\ IsInjective(s)
  BY <1>1, <1>2, <1>3, <1>4, WaitListIs
<1>6. PICK l : l = Unlinks(links, s, {})
  OBVIOUS
<1>7. LinksTyped(l) /\ SameElsewhere(links, l, g, {})
  <2>1. Listed(links, g, {}, tp) /\ tp \in [Task -> Int] /\ LinksTyped(links)
    BY <1>1, <1>2, <1>3 DEF Lists, CareInv, OwnTypeOK
  <2> QED
    BY <1>5, <1>6, <2>1, UnlinksDrop
<1>8. /\ OS_FlagTaskRdy({}, [u \in Task |-> {}], "ABORT")
      /\ OSFlagType' = [OSFlagType EXCEPT ![g] = FALSE]
      /\ OSFlagFlags' = [OSFlagFlags EXCEPT ![g] = {}]
      /\ OSFlagFreeList' = g
      /\ links' = Freed(l, g)
      /\ pc' \in {pc, [pc EXCEPT ![t] = "sched"]} /\ pc[t] = "task"
      /\ node' = node
  BY <1>4, <1>5, <1>6 DEF OSFlagDel, Calls, InTask
<1>9. /\ links'.first = [l.first EXCEPT ![g] = OSFlagFreeList]
      /\ links'.next = l.next /\ links'.prev = l.prev
  BY <1>8 DEF Freed, FirstSet
<1>10. OSFlagFreeList \in Unused \cup {Null} /\ Unused \subseteq Group /\ g \notin Unused
  BY <1>1, <1>2 DEF Lists, Chain, Unused
<1>11. OwnTypeOK'
  BY <1>7, <1>8, <1>9, <1>10 DEF CareInv, OwnTypeOK, LinksTyped
<1>12. OSTCBStat' = OSTCBStat /\ OSTCBStatPend' = OSTCBStatPend
  BY <1>8 DEF OS_FlagTaskRdy, BaseInv, CoreTypeInv, TypeOK
<1>13. \A u \in Task : InPend(u)' <=> InPend(u)
  BY <1>8, TaskInAll DEF InPend, BaseInv, CoreTypeInv, TypeOK
<1>14. \A h \in Group : OSFlagType'[h] = (h # g /\ OSFlagType[h])
  BY <1>8 DEF CareInv, OwnTypeOK
<1>15. CallInv'
  <2>1. \A u \in Task : node[u].grp \in Group \cup {Null}
    BY DEF GrantInv, PendTypeOK, Node
  <2> QED
    BY <1>1, <1>8, <1>12, <1>13, <1>14, <2>1 DEF CareInv, CallInv
<1>16. \A h : Members(h)' = Members(h)
  BY <1>8, <1>12, <1>13 DEF Members, Queued
<1>17. Unused' = Unused \cup {g}
  BY <1>14 DEF Unused
<1>18. ASSUME NEW h \in Group, OSFlagType'[h]
       PROVE  Listed(links', h, Members(h), tp)
  <2>1. h # g /\ OSFlagType[h]
    BY <1>14, <1>18
  <2>2. links'.first[h] = links.first[h]
    BY <1>7, <1>9, <2>1 DEF LinksTyped, SameElsewhere
  <2>3. \A y \in Members(h) : links'.next[y] = links.next[y] /\ links'.prev[y] = links.prev[y]
    BY <1>7, <1>9 DEF SameElsewhere, Members
  <2>4. PICK S, first, next2, prev2 :
          /\ S = Members(h) /\ first = links.first[h]
          /\ next2 = links'.next /\ prev2 = links'.prev
    OBVIOUS
  <2>5. Chain(S, first, links.next, tp) /\ Back(S, first, links.next, links.prev)
    BY <1>2, <2>1, <2>4 DEF Lists, Listed
  <2>6. Chain(S, first, next2, tp) /\ Back(S, first, next2, prev2)
    BY <2>3, <2>4, <2>5, ChainSame, BackSame
  <2> QED
    BY <2>2, <2>4, <2>6 DEF Listed
<1>19. PICK gp2 : gp2 = InFront(gp, g, OSFlagFreeList)
  OBVIOUS
<1>20. gp2 \in [Group -> Int] /\ Chain(Unused \cup {g}, g, links'.first, gp2)
  <2>1. gp \in [Group -> Int] /\ Chain(Unused, OSFlagFreeList, links.first, gp)
    BY <1>2 DEF Lists
  <2>2. \A y \in Unused : l.first[y] = links.first[y]
    BY <1>7, <1>10 DEF SameElsewhere
  <2>3. PICK next1, next2 : next1 = l.first /\ next2 = links'.first
    OBVIOUS
  <2>4. Chain(Unused, OSFlagFreeList, next1, gp)
    BY <2>1, <2>2, <2>3, ChainSame
  <2>5. next1 \in [Group -> Group \cup Task \cup {Null}]
    BY <1>7, <2>3 DEF LinksTyped
  <2>6. next2 = [next1 EXCEPT ![g] = OSFlagFreeList]
    BY <1>9, <2>3
  <2>7. InFront(gp, g, OSFlagFreeList) \in [Group -> Int]
        /\ Chain(Unused \cup {g}, g, next2, InFront(gp, g, OSFlagFreeList))
    BY <1>10, <2>1, <2>4, <2>5, <2>6, NullFacts, ChainAdd
  <2> QED
    BY <1>19, <2>3, <2>7
<1>21. Lists(tp, gp2)'
  BY <1>2, <1>8, <1>16, <1>17, <1>18, <1>20 DEF Lists
<1> QED
  BY <1>11, <1>15, <1>21 DEF CareInv, Placed

\* OS_FlagBlock links the node in front.
LEMMA PendCare ==
  ASSUME BaseInv, GrantInv, CareInv, NEW t \in Task, NEW g \in Group,
         NEW ask \in Asks[g], NEW n, OSFlagPend(t, g, ask.flags, ask.type, n)
  PROVE  CareInv'
<1> DEFINE old == links.first[g]
           own == [grp |-> g, flags |-> ask.flags, type |-> ask.type]
<1>1. /\ OSFlagType[g] /\ pc[t] = "task"
      /\ OSTCBStat' = [OSTCBStat EXCEPT ![t] = @ \cup {"PEND"}]
      /\ OSTCBStatPend' = [OSTCBStatPend EXCEPT ![t] = "OK"]
      /\ node' = [node EXCEPT ![t] = own]
      /\ links'.first = [links.first EXCEPT ![g] = t]
      /\ links'.next = [links.next EXCEPT ![t] = old]
      /\ links'.prev = [u \in Task |-> IF u = old THEN t ELSE IF u = t THEN Null
                                                           ELSE links.prev[u]]
      /\ pc' = [pc EXCEPT ![t] = "pendsched"]
      /\ UNCHANGED <<OSFlagType, OSFlagFlags, OSFlagFreeList>>
  BY DEF OSFlagPend, OS_FlagBlock, Calls, InTask
<1>2. PICK tp, gp : Lists(tp, gp)
  BY DEF CareInv, Placed
<1>3. PICK S : S = Members(g)
  OBVIOUS
<1>4. /\ Chain(S, old, links.next, tp) /\ Back(S, old, links.next, links.prev)
      /\ tp \in [Task -> Int] /\ S \subseteq Task
  BY <1>1, <1>2, <1>3 DEF Lists, Listed, Members
<1>5. t \notin S /\ \A h : t \notin Members(h)
  BY <1>1, <1>3 DEF Members, Queued, InPend
<1>6. old \in S \cup {Null} /\ old # t
  BY <1>4, <1>5, NullFacts DEF Chain
<1>7. own.grp = g /\ own.flags = ask.flags /\ own.type = ask.type
  OBVIOUS
<1> HIDE DEF own, old
<1>8. /\ OSTCBStatPend'[t] = "OK" /\ InPend(t)' /\ "PEND" \in OSTCBStat'[t] /\ node'[t] = own
      /\ \A u \in Task \ {t} :
           /\ OSTCBStat'[u] = OSTCBStat[u] /\ OSTCBStatPend'[u] = OSTCBStatPend[u]
           /\ node'[u] = node[u] /\ (InPend(u)' <=> InPend(u)) /\ (Queued(u)' <=> Queued(u))
  BY <1>1, TaskInAll DEF BaseInv, CoreTypeInv, TypeOK, GrantInv, PendTypeOK, InPend, Queued
<1>9. OwnTypeOK'
  <2>1. old \in Task \cup {Null}
    BY <1>4, <1>6
  <2>2. links'.first \in [Group -> Group \cup Task \cup {Null}]
    BY <1>1 DEF CareInv, OwnTypeOK, LinksTyped
  <2>3. links'.next \in [Task -> Group \cup Task \cup {Null}]
    BY <1>1, <2>1 DEF CareInv, OwnTypeOK, LinksTyped
  <2>4. links'.prev \in [Task -> Task \cup {Null}]
    BY <1>1 DEF CareInv, OwnTypeOK, LinksTyped
  <2> QED
    BY <1>1, <2>2, <2>3, <2>4 DEF CareInv, OwnTypeOK, LinksTyped
<1>10. CallInv'
  BY <1>1, <1>7, <1>8, NullFacts DEF CareInv, CallInv
<1>11. Members(g)' = S \cup {t} /\ \A h \in Group \ {g} : Members(h)' = Members(h)
  <2>1. Queued(t)' /\ node'[t].grp = g
    BY <1>7, <1>8 DEF Queued
  <2> QED
    BY <1>3, <1>5, <1>8, <2>1 DEF Members
<1>12. PICK tp2 : tp2 = InFront(tp, t, old)
  OBVIOUS
<1>13. /\ tp2 \in [Task -> Int] /\ \A u \in Task \ {t} : tp2[u] = tp[u]
  BY <1>4, <1>6, <1>12 DEF InFront
<1>14. links.next \in [Task -> Group \cup Task \cup {Null}]
       /\ links.prev \in [Task -> Group \cup Task \cup {Null}]
  BY DEF CareInv, OwnTypeOK, LinksTyped
<1>15. PICK next2, prev2 : next2 = links'.next /\ prev2 = links'.prev
  OBVIOUS
<1>16. Chain(S \cup {t}, t, next2, tp2)
  BY <1>1, <1>4, <1>5, <1>12, <1>14, <1>15, NullFacts, ChainAdd
<1>17. Back(S \cup {t}, t, next2, prev2)
  <2>1. \A y \in S : old # Null /\ links.next[y] \in S \cup {Null}
    BY <1>4 DEF Chain
  <2> QED
    <3>1. next2[t] = old /\ \A y \in S : next2[y] = links.next[y]
      BY <1>1, <1>4, <1>5, <1>14, <1>15
    <3>2. /\ prev2[t] = Null /\ (old # Null => prev2[old] = t)
          /\ \A y \in S : y # old => prev2[y] = links.prev[y]
      BY <1>1, <1>4, <1>5, <1>6, <1>15
    <3> QED
      BY <1>4, <1>5, <1>6, <2>1, <3>1, <3>2, NullFacts, BackAdd
<1>18. links'.first[g] = t /\ \A h \in Group \ {g} : links'.first[h] = links.first[h]
  BY <1>1 DEF CareInv, OwnTypeOK, LinksTyped
<1>19. ASSUME NEW h \in Group, OSFlagType[h]
       PROVE  Listed(links', h, Members(h)', tp2)
  <2>1. CASE h = g
    BY <1>11, <1>15, <1>16, <1>17, <1>18, <2>1 DEF Listed
  <2>2. CASE h # g
    <3>1. PICK R, first : R = Members(h) /\ first = links.first[h]
      OBVIOUS
    <3>2. Chain(R, first, links.next, tp) /\ Back(R, first, links.next, links.prev)
      BY <1>2, <1>19, <3>1 DEF Lists, Listed
    <3>3. R \subseteq Task \ {t} /\ old \notin R
      BY <1>3, <1>5, <1>6, <2>2, <3>1, NullFacts DEF Members
    <3>4. \A y \in R : next2[y] = links.next[y] /\ prev2[y] = links.prev[y] /\ tp2[y] = tp[y]
      BY <1>1, <1>13, <1>14, <1>15, <3>3
    <3>5. Chain(R, first, next2, tp2) /\ Back(R, first, next2, prev2)
      BY <3>2, <3>4, ChainSame, BackSame
    <3> QED
      BY <1>11, <1>15, <1>18, <2>2, <3>1, <3>5 DEF Listed
  <2> QED
    BY <2>1, <2>2
<1>20. Chain(Unused, OSFlagFreeList, links'.first, gp) /\ Unused' = Unused
  <2>1. \A y \in Unused : links'.first[y] = links.first[y]
    BY <1>1, <1>18 DEF Unused
  <2>2. PICK next1 : next1 = links'.first
    OBVIOUS
  <2>3. Unused' = Unused
    BY <1>1 DEF Unused
  <2> QED
    BY <1>2, <2>1, <2>2, <2>3, ChainSame DEF Lists
<1>21. Lists(tp2, gp)'
  BY <1>1, <1>2, <1>13, <1>19, <1>20 DEF Lists
<1> QED
  BY <1>9, <1>10, <1>21 DEF CareInv, Placed

\* The task that runs again after its pend is in a list only if it timed out,
\* and then takes itself out.
LEMMA PendEndCare ==
  ASSUME BaseInv, GrantInv, CareInv, NEW t \in Task, OSFlagPendEnd(t)
  PROVE  CareInv'
<1> DEFINE g == node[t].grp
           l == Unlinked(t)
           F == IF OSTCBStatPend[t] = "OK"
                THEN [OSFlagFlags EXCEPT ![g] = Consumed(@, OSTCBFlagsRdy[t], node[t].type)]
                ELSE OSFlagFlags
<1>1. /\ Running(t) /\ pc[t] = "wake" /\ InPend(t)
      /\ OSFlagFlags' = F
      /\ links'.first = l.first
      /\ links'.next = [l.next EXCEPT ![t] = Null]
      /\ links'.prev = [l.prev EXCEPT ![t] = Null]
      /\ node' = [node EXCEPT ![t] = NoNode]
      /\ OSTCBStatPend' = [OSTCBStatPend EXCEPT ![t] = "OK"]
      /\ pc' = [pc EXCEPT ![t] = "task"]
      /\ OSTCBStat' = OSTCBStat \/ OSTCBStat' = [OSTCBStat EXCEPT ![t] = {}]
      /\ UNCHANGED <<OSFlagType, OSFlagFreeList>>
  BY DEF OSFlagPendEnd, InPend
<1>2. PICK tp, gp : Lists(tp, gp)
  BY DEF CareInv, Placed
<1>3. OSTCBStat[t] = {} /\ g \in Group /\ OSFlagType[g] /\ OSTCBStatPend[t] \in {"OK", "TO"}
  BY <1>1, WakesFree, TaskInAll
  DEF BaseInv, CoreTypeInv, TypeOK, PendResult, CareInv, CallInv, GrantInv, PendTypeOK, Node
<1>4. Queued(t) <=> OSTCBStatPend[t] = "TO"
  BY <1>1, <1>3 DEF Queued
<1>5. l = IF OSTCBStatPend[t] = "OK" THEN links ELSE OS_FlagUnlink(links, t)
  BY DEF Unlinked
<1>6. F \in [Group -> SUBSET Bit]
  <2>1. OSTCBFlagsRdy[t] \subseteq Bit /\ OSFlagFlags \in [Group -> SUBSET Bit]
    BY DEF GrantInv, PendTypeOK, CareInv, OwnTypeOK
  <2>2. Consumed(OSFlagFlags[g], OSTCBFlagsRdy[t], node[t].type) \subseteq Bit
    BY <1>3, <2>1 DEF Consumed
  <2> QED
    BY <2>1, <2>2
<1> HIDE DEF l, F, g
<1>7. LinksTyped(l)
  BY <1>5, UnlinkTyped DEF CareInv, OwnTypeOK
<1>8. OwnTypeOK'
  BY <1>1, <1>6, <1>7, NullFacts DEF CareInv, OwnTypeOK, LinksTyped
<1>9. /\ ~InPend(t)' /\ ~Queued(t)' /\ node'[t].grp = Null
      /\ OSTCBStat'[t] = {}
      /\ \A u \in Task \ {t} :
           /\ OSTCBStat'[u] = OSTCBStat[u] /\ OSTCBStatPend'[u] = OSTCBStatPend[u]
           /\ node'[u] = node[u] /\ (InPend(u)' <=> InPend(u)) /\ (Queued(u)' <=> Queued(u))
  BY <1>1, <1>3, TaskInAll
  DEF BaseInv, CoreTypeInv, TypeOK, GrantInv, PendTypeOK, InPend, Queued, NoNode
<1>10. CallInv'
  BY <1>1, <1>9 DEF CareInv, CallInv
<1>11. \A h : Members(h)' = Members(h) \ {t}
  <2>1. \A h : \A u \in Task \ {t} : u \in Members(h)' <=> u \in Members(h)
    BY <1>9 DEF Members
  <2>2. \A h : t \notin Members(h)'
    BY <1>9 DEF Members
  <2>3. \A h : Members(h) \subseteq Task /\ Members(h)' \subseteq Task
    BY DEF Members
  <2> QED
    BY <2>1, <2>2, <2>3
<1>12. \A h \in Group \ {g} : t \notin Members(h)
  BY DEF Members, g
<1>13. /\ \A h \in Group \ {g} : l.first[h] = links.first[h]
       /\ \A u \in Task \ Members(g) : l.next[u] = links.next[u] /\ l.prev[u] = links.prev[u]
       /\ Listed(l, g, Members(g) \ {t}, tp)
  <2>1. PICK S : S = Members(g)
    OBVIOUS
  <2>2. Listed(links, g, S, tp) /\ S \subseteq Task /\ tp \in [Task -> Int]
    BY <1>2, <1>3, <2>1 DEF Lists, Members
  <2>3. CASE OSTCBStatPend[t] = "OK"
    <3>1. t \notin S /\ l = links
      BY <1>4, <1>5, <2>1, <2>3 DEF Members
    <3>2. S \ {t} = S
      BY <3>1
    <3> QED
      BY <2>1, <2>2, <3>1, <3>2
  <2>4. CASE OSTCBStatPend[t] = "TO"
    <3>1. t \in S /\ node[t].grp = g
      BY <1>4, <2>1, <2>4 DEF Members, g
    <3>2. l = OS_FlagUnlink(links, t)
      BY <1>5, <2>4
    <3>3. LinksTyped(links)
      BY DEF CareInv, OwnTypeOK
    <3>4. Listed(l, g, S \ {t}, tp) /\ SameElsewhere(links, l, g, S)
      BY <1>3, <2>2, <3>1, <3>2, <3>3, UnlinkDrops
    <3> QED
      BY <2>1, <3>4 DEF SameElsewhere
  <2> QED
    BY <1>3, <2>3, <2>4
<1>14. \A u \in Task \ {t} : links'.next[u] = l.next[u] /\ links'.prev[u] = l.prev[u]
  BY <1>1, <1>7 DEF LinksTyped
<1>15. ASSUME NEW h \in Group, OSFlagType[h]
       PROVE  Listed(links', h, Members(h) \ {t}, tp)
  <2>1. PICK R, first, next2, prev2 :
          /\ R = Members(h) \ {t} /\ first = l.first[h]
          /\ next2 = links'.next /\ prev2 = links'.prev
    OBVIOUS
  <2>2. Listed(l, h, R, tp)
    <3>1. CASE h = g
      BY <1>13, <2>1, <3>1
    <3>2. CASE h # g
      <4>1. R = Members(h) /\ R \subseteq Task \ Members(g)
        BY <1>12, <2>1, <3>2 DEF Members
      <4>2. \A y \in R : l.next[y] = links.next[y] /\ l.prev[y] = links.prev[y]
        BY <1>13, <4>1
      <4>3. Chain(R, first, links.next, tp) /\ Back(R, first, links.next, links.prev)
        BY <1>2, <1>13, <1>15, <2>1, <3>2, <4>1 DEF Lists, Listed
      <4>4. PICK next1, prev1 : next1 = l.next /\ prev1 = l.prev
        OBVIOUS
      <4>5. Chain(R, first, next1, tp) /\ Back(R, first, next1, prev1)
        BY <4>2, <4>3, <4>4, ChainSame, BackSame
      <4> QED
        BY <2>1, <4>4, <4>5 DEF Listed
    <3> QED
      BY <3>1, <3>2
  <2>3. \A y \in R : next2[y] = l.next[y] /\ prev2[y] = l.prev[y]
    BY <1>14, <2>1 DEF Members
  <2>4. PICK next1, prev1 : next1 = l.next /\ prev1 = l.prev
    OBVIOUS
  <2>5. Chain(R, first, next1, tp) /\ Back(R, first, next1, prev1)
    BY <2>1, <2>2, <2>4 DEF Listed
  <2>6. Chain(R, first, next2, tp) /\ Back(R, first, next2, prev2)
    BY <2>3, <2>4, <2>5, ChainSame, BackSame
  <2> QED
    BY <1>1, <2>1, <2>6 DEF Listed
<1>16. Chain(Unused, OSFlagFreeList, links'.first, gp) /\ Unused' = Unused
  <2>1. \A y \in Unused : links'.first[y] = links.first[y]
    BY <1>1, <1>3, <1>13 DEF Unused
  <2>2. PICK next1 : next1 = links'.first
    OBVIOUS
  <2>3. Unused' = Unused
    BY <1>1 DEF Unused
  <2> QED
    BY <1>2, <2>1, <2>2, <2>3, ChainSame DEF Lists
<1>17. Lists(tp, gp)'
  BY <1>1, <1>2, <1>11, <1>15, <1>16 DEF Lists
<1> QED
  BY <1>8, <1>10, <1>17 DEF CareInv, Placed

\* A post takes out of the list those it wakes.
LEMMA PostCare ==
  ASSUME BaseInv, GrantInv, CareInv, NEW t \in Task, NEW g \in Group,
         NEW flags \in SUBSET Bit, NEW opt, OSFlagPost(t, g, flags, opt)
  PROVE  CareInv'
<1> DEFINE F == IF opt = "SET" THEN OSFlagFlags[g] \cup flags ELSE OSFlagFlags[g] \ flags
           rdy == [u \in Task |-> FlagsRdy(F, node[u].flags, node[u].type)]
           W == {u \in ToSet(WaitList(g)) : Met(rdy[u], node[u].flags, node[u].type)}
           l == Unlinks(links, WaitList(g), W)
<1>1. /\ OSFlagType[g] /\ pc[t] = "task"
      /\ OSFlagFlags' = [OSFlagFlags EXCEPT ![g] = F]
      /\ OS_FlagTaskRdy(W, rdy, "OK")
      /\ links' = l
      /\ pc' \in {pc, [pc EXCEPT ![t] = "sched"]}
      /\ UNCHANGED <<OSFlagType, OSFlagFreeList, node>>
  BY DEF OSFlagPost, Calls, InTask
<1>2. PICK tp, gp : Lists(tp, gp)
  BY DEF CareInv, Placed
<1>3. PICK S : S = Members(g)
  OBVIOUS
<1>4. WaitList(g) \in Seq(S) /\ IsInjective(WaitList(g)) /\ ToSet(WaitList(g)) = S
  BY <1>1, <1>2, <1>3, WaitListIs
<1>5. W \subseteq S /\ S \subseteq Task /\ W \cap ToSet(WaitList(g)) = W
  BY <1>3, <1>4 DEF Members
<1>6. F \subseteq Bit
  BY DEF CareInv, OwnTypeOK
<1> HIDE DEF F, rdy, W, l
<1>7. LinksTyped(l) /\ Listed(l, g, S \ W, tp) /\ SameElsewhere(links, l, g, S)
  <2>1. /\ LinksTyped(links) /\ Listed(links, g, S, tp) /\ tp \in [Task -> Int]
        /\ \A u \in S : node[u].grp = g
    BY <1>1, <1>2, <1>3 DEF CareInv, OwnTypeOK, Lists, Members
  <2>2. PICK s : s = WaitList(g)
    OBVIOUS
  <2>3. s \in Seq(S) /\ IsInjective(s) /\ l = Unlinks(links, s, W)
    BY <1>4, <2>2 DEF l
  <2>4. LinksTyped(l) /\ Listed(l, g, S \ (W \cap ToSet(s)), tp) /\ SameElsewhere(links, l, g, S)
    BY <1>5, <2>1, <2>3, UnlinksDrop
  <2> QED
    BY <1>5, <2>2, <2>4
<1>8. OwnTypeOK'
  BY <1>1, <1>6, <1>7 DEF CareInv, OwnTypeOK
<1>9. \A u \in Task :
        /\ InPend(u)' <=> InPend(u)
        /\ OSTCBStat'[u] = IF u \in W THEN OSTCBStat[u] \ {"PEND"} ELSE OSTCBStat[u]
        /\ OSTCBStatPend'[u] = IF u \in W THEN "OK" ELSE OSTCBStatPend[u]
  BY <1>1, TaskInAll DEF BaseInv, CoreTypeInv, TypeOK, OS_FlagTaskRdy, InPend
<1>10. CallInv'
  BY <1>1, <1>9 DEF CareInv, CallInv
<1>11. \A u \in Task : Queued(u)' <=> Queued(u) /\ u \notin W
  BY <1>9 DEF Queued
<1>12. Members(g)' = S \ W /\ \A h \in Group \ {g} : Members(h)' = Members(h)
  BY <1>1, <1>3, <1>5, <1>11 DEF Members
<1>13. ASSUME NEW h \in Group, OSFlagType[h]
       PROVE  Listed(links', h, Members(h)', tp)
  <2>1. CASE h = g
    BY <1>1, <1>7, <1>12, <2>1
  <2>2. CASE h # g
    <3>1. PICK R, first, next2, prev2 :
            /\ R = Members(h) /\ first = links.first[h]
            /\ next2 = links'.next /\ prev2 = links'.prev
      OBVIOUS
    <3>2. Chain(R, first, links.next, tp) /\ Back(R, first, links.next, links.prev)
      BY <1>2, <1>13, <3>1 DEF Lists, Listed
    <3>3. R \subseteq Task \ S
      BY <1>3, <2>2, <3>1 DEF Members
    <3>4. \A y \in R : next2[y] = links.next[y] /\ prev2[y] = links.prev[y]
      BY <1>1, <1>7, <3>1, <3>3 DEF SameElsewhere
    <3>5. Chain(R, first, next2, tp) /\ Back(R, first, next2, prev2)
      BY <3>2, <3>4, ChainSame, BackSame
    <3>6. links'.first[h] = first
      BY <1>1, <1>7, <2>2, <3>1 DEF SameElsewhere
    <3> QED
      BY <1>12, <2>2, <3>1, <3>5, <3>6 DEF Listed
  <2> QED
    BY <2>1, <2>2
<1>14. Chain(Unused, OSFlagFreeList, links'.first, gp) /\ Unused' = Unused
  <2>1. \A y \in Unused : links'.first[y] = links.first[y]
    BY <1>1, <1>7 DEF Unused, SameElsewhere
  <2>2. PICK next1 : next1 = links'.first
    OBVIOUS
  <2>3. Unused' = Unused
    BY <1>1 DEF Unused
  <2> QED
    BY <1>2, <2>1, <2>2, <2>3, ChainSame DEF Lists
<1>15. Lists(tp, gp)'
  BY <1>1, <1>2, <1>13, <1>14 DEF Lists
<1> QED
  BY <1>8, <1>10, <1>15 DEF CareInv, Placed

LEMMA FlagTaskCare ==
  ASSUME Careful, BaseInv, GrantInv, CareInv, NEW t \in Task, FlagTask(t)
  PROVE  CareInv'
<1>1. ASSUME NEW g \in Group, NEW ask \in Asks[g], NEW pend \in BOOLEAN,
             Take(t, g, ask.flags, ask.type, pend)
      PROVE  CareInv'
  <2> DEFINE rdy == FlagsRdy(OSFlagFlags[g], ask.flags, ask.type)
  <2>1. /\ OSFlagFlags' = [OSFlagFlags EXCEPT ![g] = Consumed(@, rdy, ask.type)]
        /\ UNCHANGED <<coreVars, OSFlagType, OSFlagFreeList, links, node>>
    BY <1>1 DEF Take
  <2>2. ask \in [flags : SUBSET Bit, type : Type]
    BY FlagAssumption
  <2>3. rdy \subseteq Bit
    BY <2>2, RdyAsked
  <2> HIDE DEF rdy
  <2>4. Consumed(OSFlagFlags[g], rdy, ask.type) \subseteq Bit
    BY <2>3 DEF Consumed, CareInv, OwnTypeOK
  <2>5. OSFlagFlags' \in [Group -> SUBSET Bit]
    BY <2>1, <2>4 DEF CareInv, OwnTypeOK
  <2>6. \A u \in Task : /\ InPend(u)' <=> InPend(u)
                        /\ Queued(u)' <=> Queued(u)
                        /\ InPend(u) => OSTCBStatPend'[u] # "ABORT"
                        /\ "PEND" \in OSTCBStat'[u] => InPend(u) /\ OSTCBStatPend'[u] = "OK"
    BY <2>1 DEF coreVars, tcbVars, callVars, InPend, Queued, CareInv, CallInv
  <2> QED
    BY <2>1, <2>5, <2>6, SameCare
<1>2. ASSUME NEW g \in Group, NEW flags \in Posts[g], NEW opt, OSFlagPost(t, g, flags, opt)
      PROVE  CareInv'
  <2>1. flags \in SUBSET Bit
    BY FlagAssumption
  <2> QED
    BY <1>2, <2>1, PostCare
<1> QED
  BY <1>1, <1>2, CreateCare, DelCare, PendCare, PendEndCare DEF FlagTask

LEMMA KernelCare ==
  ASSUME BaseInv, GrantInv, CareInv, Kernel,
         UNCHANGED <<OSFlagType, OSFlagFlags, OSFlagFreeList, links, node>>
  PROVE  CareInv'
<1>0. OSFlagFlags' \in [Group -> SUBSET Bit]
  BY DEF CareInv, OwnTypeOK
<1>1. ASSUME \A u \in Task : /\ InPend(u)' <=> InPend(u)
                             /\ "PEND" \in OSTCBStat'[u] <=> "PEND" \in OSTCBStat[u],
             OSTCBStatPend' = OSTCBStatPend
      PROVE  CareInv'
  <2>1. \A u \in Task : /\ Queued(u)' <=> Queued(u)
                        /\ InPend(u) => OSTCBStatPend'[u] # "ABORT"
                        /\ "PEND" \in OSTCBStat'[u] => InPend(u) /\ OSTCBStatPend'[u] = "OK"
    BY <1>1 DEF Queued, CareInv, CallInv
  <2> QED
    BY <1>0, <1>1, <2>1, SameCare
<1>2. CASE PendSV_Handler \/ Tick \/ SysTickExit
  BY <1>1, <1>2 DEF PendSV_Handler, Tick, SysTickExit, tcbVars, callVars, InPend
<1>3. ASSUME NEW u \in Task, OS_Sched(u)
      PROVE  CareInv'
  <2>1. /\ pc' = [pc EXCEPT ![u] = IF pc[u] = "pendsched" THEN "wake" ELSE "task"]
        /\ pc[u] \in {"sched", "pendsched"} /\ UNCHANGED <<OSTCBStat, OSTCBStatPend>>
    BY <1>3 DEF OS_Sched, tcbVars
  <2>2. \A v \in Task : InPend(v)' <=> InPend(v)
    BY <2>1, TaskInAll DEF InPend, BaseInv, CoreTypeInv, TypeOK
  <2> QED
    BY <1>1, <2>1, <2>2
<1>4. ASSUME NEW u \in Task, NEW w \in Suspends, OSTaskSuspend(u, w) \/ OSTaskResume(u, w)
      PROVE  CareInv'
  <2>1. /\ OSTCBStat' \in {[OSTCBStat EXCEPT ![w] = @ \cup {"SUSPEND"}],
                           [OSTCBStat EXCEPT ![w] = @ \ {"SUSPEND"}]}
        /\ pc[u] = "task" /\ pc' \in {pc, [pc EXCEPT ![u] = "sched"]}
        /\ OSTCBStatPend' = OSTCBStatPend
    BY <1>4 DEF OSTaskSuspend, OSTaskResume
  <2>2. \A v \in Task : /\ InPend(v)' <=> InPend(v)
                        /\ "PEND" \in OSTCBStat'[v] <=> "PEND" \in OSTCBStat[v]
    BY <2>1, TaskInAll DEF InPend, BaseInv, CoreTypeInv, TypeOK
  <2> QED
    BY <1>1, <2>1, <2>2
<1>5. CASE OSTimeTick
  <2> DEFINE ends == {u \in Task : OSTCBDly[u] # 0 /\ OSTCBDly[u] = 1}
  <2>1. /\ pc' = pc
        /\ OSTCBStat' = [u \in AllTask |-> IF u \in ends THEN OSTCBStat[u] \ {"PEND"}
                                                         ELSE OSTCBStat[u]]
        /\ OSTCBStatPend' = [u \in AllTask |->
             IF u \in ends THEN (IF "PEND" \in OSTCBStat[u] THEN "TO" ELSE "OK")
                           ELSE OSTCBStatPend[u]]
    BY <1>5 DEF OSTimeTick, DlyEnds, callVars
  <2>2. ASSUME NEW u \in Task
        PROVE  /\ InPend(u)' <=> InPend(u)
               /\ Queued(u)' <=> Queued(u)
               /\ InPend(u) => OSTCBStatPend'[u] # "ABORT"
               /\ "PEND" \in OSTCBStat'[u] => InPend(u) /\ OSTCBStatPend'[u] = "OK"
    <3>1. InPend(u)' <=> InPend(u)
      BY <2>1 DEF InPend
    <3>2. CASE u \in ends
      <4>1. InPend(u) => "PEND" \in OSTCBStat[u]
        BY <3>2 DEF GrantInv, EndedNoDly
      <4>2. /\ "PEND" \notin OSTCBStat'[u]
            /\ OSTCBStatPend'[u] = IF "PEND" \in OSTCBStat[u] THEN "TO" ELSE "OK"
        BY <2>1, <3>2, TaskInAll
      <4> QED
        BY <3>1, <4>1, <4>2 DEF Queued
    <3>3. CASE u \notin ends
      <4>1. OSTCBStat'[u] = OSTCBStat[u] /\ OSTCBStatPend'[u] = OSTCBStatPend[u]
        BY <2>1, <3>3, TaskInAll
      <4> QED
        BY <3>1, <4>1 DEF Queued, CareInv, CallInv
    <3> QED
      BY <3>2, <3>3
  <2> QED
    BY <1>0, <2>2, SameCare
<1> QED
  BY <1>2, <1>3, <1>4, <1>5 DEF Kernel

LEMMA AlwaysGrant == Spec => []GrantInv
BY InitPend, NextPend, PTL DEF Spec

LEMMA AlwaysCare == ASSUME Careful PROVE Spec => []CareInv
<1>1. BaseInv /\ GrantInv /\ CareInv /\ [Next]_flagVars => CareInv'
  <2> SUFFICES ASSUME BaseInv, GrantInv, CareInv, [Next]_flagVars PROVE CareInv'
    OBVIOUS
  <2>1. CASE UNCHANGED flagVars
    BY <2>1, SameCare DEF flagVars, coreVars, tcbVars, callVars, InPend, Queued, CareInv,
       CallInv, OwnTypeOK
  <2> QED
    BY <2>1, KernelCare, FlagTaskCare DEF Next
<1> QED
  BY <1>1, InitCare, AlwaysBase, AlwaysGrant, PTL DEF Spec

\* The types of the groups, the links and the nodes, for every number of tasks,
\* groups and flags.  The free list stays one of groups only because no group
\* is deleted under a pend.
THEOREM FlagTyped == ASSUME Careful PROVE Spec => []FlagTypeOK
<1>1. BaseInv /\ GrantInv /\ CareInv => FlagTypeOK
  <2> SUFFICES ASSUME BaseInv, GrantInv, CareInv PROVE FlagTypeOK
    OBVIOUS
  <2>1. OSFlagFreeList \in Group \cup {Null}
    BY DEF CareInv, Placed, Lists, Chain, Unused
  <2> QED
    BY <2>1 DEF FlagTypeOK, BaseInv, CoreTypeInv, GrantInv, PendTypeOK, Node, CareInv,
       OwnTypeOK, LinksTyped
<1> QED
  BY <1>1, AlwaysBase, AlwaysGrant, AlwaysCare, PTL

\* Whatever posts, timeouts and returns come in whatever order, the wait list of
\* a group holds the nodes of the tasks that still wait there, once each and
\* linked both ways: OSFlagPost walks no dead stack frame and misses no task
\* (OS_FlagBlock, OS_FlagUnlink).
THEOREM NodesAlwaysOK == ASSUME Careful PROVE Spec => []NodesOK
<1>1. CareInv => NodesOK
  <2> SUFFICES ASSUME CareInv, NEW g \in Group, OSFlagType[g]
               PROVE  LET s == WaitList(g) IN
                 /\ IsInjective(s)
                 /\ ToSet(s) = {t \in Task : Queued(t) /\ node[t].grp = g}
                 /\ \A i \in DOMAIN s : links.prev[s[i]] = IF i = 1 THEN Null ELSE s[i - 1]
    BY DEF NodesOK
  <2>1. PICK tp, gp : Lists(tp, gp)
    BY DEF CareInv, Placed
  <2>2. PICK s, S, first : s = WaitList(g) /\ S = Members(g) /\ first = links.first[g]
    OBVIOUS
  <2>3. /\ Part(s, S, first, links.next, tp) /\ ToSet(s) = S /\ IsInjective(s)
        /\ Back(S, first, links.next, links.prev) /\ s \in Seq(S)
    BY <2>1, <2>2, WaitListIs DEF Lists, Listed
  <2>4. DOMAIN s = 1..Len(s) /\ Len(s) \in Nat /\ \A i \in 1..Len(s) : s[i] \in S
    BY <2>3
  <2>5. ASSUME NEW i \in 1..Len(s)
        PROVE  links.prev[s[i]] = IF i = 1 THEN Null ELSE s[i - 1]
    <3>1. CASE i = 1
      <4>1. s[1] = first
        BY <2>3, <2>4, <3>1 DEF Part
      <4> QED
        BY <2>3, <2>4, <3>1, <4>1 DEF Back
    <3>2. CASE i # 1
      <4>1. i - 1 \in 1..Len(s) - 1 /\ i - 1 \in 1..Len(s) /\ i - 1 + 1 = i
        BY <2>4, <3>2
      <4>2. links.next[s[i - 1]] = s[i]
        BY <2>3, <4>1 DEF Part
      <4> QED
        BY <2>3, <2>4, <3>2, <4>1, <4>2 DEF Back
    <3> QED
      BY <3>1, <3>2
  <2>6. S = {t \in Task : Queued(t) /\ node[t].grp = g}
    BY <2>2 DEF Members
  <2> QED
    BY <2>2, <2>3, <2>4, <2>5, <2>6
<1> QED
  BY <1>1, AlwaysCare, PTL

-----------------------------------------------------------------------------
(* No task sleeps on flags that are there *)

\* A pend that was not met is not by fewer of its flags either.
LEMMA FewerNotMet ==
  ASSUME NEW flags, NEW type, NEW some, some \subseteq flags,
         NEW fewer, fewer \subseteq some, ~Met(some, flags, type)
  PROVE  ~Met(fewer, flags, type)
BY DEF Met

\* Consuming flags takes none away from a waiter of the same sense but those
\* it waits for: it does not meet it.
LEMMA ConsumingHides ==
  ASSUME NEW F, NEW rdy, NEW c \in Type, NEW w \in Type, c.consume => c.sense = w.sense,
         NEW flags
  PROVE  FlagsRdy(Consumed(F, rdy, c), flags, w) \subseteq FlagsRdy(F, flags, w)
<1>1. c.sense \in {"SET", "CLR"} /\ w.sense \in {"SET", "CLR"}
  BY DEF Type
<1> QED
  BY <1>1 DEF FlagsRdy, Consumed

Sleeps(t) == InPend(t) /\ "PEND" \in OSTCBStat[t] /\ Undisturbed(node[t].grp)
Unmet(n, F) == ~Met(FlagsRdy(F, n.flags, n.type), n.flags, n.type)

LEMMA ConsumeMisses ==
  ASSUME GrantInv, CareInv, NoMissedFlags, NEW g \in Group, NEW ask \in Asks[g], NEW rdy,
         OSFlagFlags' = [OSFlagFlags EXCEPT ![g] = Consumed(@, rdy, ask.type)],
         NEW u \in Task, Sleeps(u)
  PROVE  Unmet(node[u], OSFlagFlags'[node[u].grp])
<1>1. PICK n : n = node[u]
  OBVIOUS
<1>2. n.grp \in Group /\ Unmet(n, OSFlagFlags[n.grp])
  BY <1>1 DEF Sleeps, NoMissedFlags, Unmet, CareInv, CallInv, GrantInv, PendTypeOK, Node
<1>3. CASE n.grp # g
  BY <1>1, <1>2, <1>3 DEF CareInv, OwnTypeOK
<1>4. CASE n.grp = g
  <2>1. PICK own \in Asks[g] : own.flags = n.flags /\ own.type = n.type
    BY <1>1, <1>4 DEF Sleeps, CareInv, CallInv
  <2>2. ask.type \in Type /\ own.type \in Type
    <3>1. ask \in [flags : SUBSET Bit, type : Type] /\ own \in [flags : SUBSET Bit, type : Type]
      BY FlagAssumption
    <3> QED
      BY <3>1
  <2>3. ask.type.consume => ask.type.sense = own.type.sense
    BY <1>1, <1>4 DEF Sleeps, Undisturbed
  <2>4. PICK F : F = OSFlagFlags[g]
    OBVIOUS
  <2>5. PICK F2 : F2 = Consumed(F, rdy, ask.type)
    OBVIOUS
  <2>6. OSFlagFlags'[g] = F2
    BY <2>4, <2>5 DEF CareInv, OwnTypeOK
  <2>7. FlagsRdy(F2, n.flags, n.type) \subseteq FlagsRdy(F, n.flags, n.type)
    BY <2>1, <2>2, <2>3, <2>5, ConsumingHides
  <2>8. ~Met(FlagsRdy(F2, n.flags, n.type), n.flags, n.type)
    BY <1>2, <1>4, <2>4, <2>7, RdyAsked, FewerNotMet DEF Unmet
  <2> QED
    BY <1>1, <1>4, <2>6, <2>8 DEF Unmet
<1> QED
  BY <1>3, <1>4

LEMMA FlagTaskMisses ==
  ASSUME Careful, BaseInv, GrantInv, CareInv, NoMissedFlags, NEW t \in Task, FlagTask(t)
  PROVE  NoMissedFlags'
<1> SUFFICES ASSUME NEW u \in Task, Sleeps(u)'
             PROVE  Unmet(node'[u], OSFlagFlags'[node'[u].grp])
  BY DEF NoMissedFlags, Sleeps, Unmet
<1>1. Sleeps(u) => Unmet(node[u], OSFlagFlags[node[u].grp])
  BY DEF NoMissedFlags, Sleeps, Unmet
<1>2. node[u].grp \in Group \cup {Null}
  BY DEF GrantInv, PendTypeOK, Node
<1>3. CASE OSFlagCreate(t, {})
  <2>1. /\ OSFlagFlags' = [OSFlagFlags EXCEPT ![OSFlagFreeList] = {}] /\ OSFlagFreeList \in Group
        /\ UNCHANGED <<pc, OSTCBStat, node>>
    BY <1>3 DEF OSFlagCreate, coreVars, tcbVars, callVars
  <2>2. Sleeps(u)
    BY <2>1 DEF Sleeps, InPend
  <2>3. ~OSFlagType[OSFlagFreeList]
    BY <2>1, NullFacts DEF CareInv, Placed, Lists, Chain, Unused
  <2>4. OSFlagType[node[u].grp]
    BY <2>2 DEF Sleeps, CareInv, CallInv
  <2> QED
    BY <1>1, <1>2, <2>1, <2>2, <2>3, <2>4 DEF CareInv, OwnTypeOK
<1>4. CASE OSFlagPendEnd(t)
  <2> DEFINE n == node[t]
  <2>1. /\ OSFlagFlags' = IF OSTCBStatPend[t] = "OK"
             THEN [OSFlagFlags EXCEPT ![n.grp] = Consumed(@, OSTCBFlagsRdy[t], n.type)]
             ELSE OSFlagFlags
        /\ node' = [node EXCEPT ![t] = NoNode]
        /\ pc' = [pc EXCEPT ![t] = "task"]
        /\ OSTCBStat' \in {OSTCBStat, [OSTCBStat EXCEPT ![t] = {}]}
        /\ InPend(t)
    BY <1>4 DEF OSFlagPendEnd, InPend
  <2>2. u # t
    BY <2>1, TaskInAll DEF Sleeps, InPend, BaseInv, CoreTypeInv, TypeOK
  <2>3. node'[u] = node[u] /\ Sleeps(u)
    BY <2>1, <2>2, TaskInAll DEF Sleeps, InPend, GrantInv, PendTypeOK
  <2>4. PICK ask \in Asks[n.grp] : ask.type = n.type
    BY <2>1 DEF CareInv, CallInv
  <2>5. n.grp \in Group
    BY <2>1 DEF CareInv, CallInv, GrantInv, PendTypeOK, Node
  <2> HIDE DEF n
  <2>6. CASE OSTCBStatPend[t] = "OK"
    <3>1. OSFlagFlags' = [OSFlagFlags EXCEPT ![n.grp] = Consumed(@, OSTCBFlagsRdy[t], ask.type)]
      BY <2>1, <2>4, <2>6
    <3> QED
      BY <2>3, <2>5, <3>1, ConsumeMisses
  <2>7. CASE OSTCBStatPend[t] # "OK"
    BY <1>1, <2>1, <2>3, <2>7
  <2> QED
    BY <2>6, <2>7
<1>5. ASSUME NEW g \in Group, NEW opt, OSFlagDel(t, g, opt)
      PROVE  Unmet(node'[u], OSFlagFlags'[node'[u].grp])
  <2> DEFINE T == ToSet(WaitList(g))
             none == [v \in Task |-> {}]
  <2>1. /\ OSFlagFlags' = [OSFlagFlags EXCEPT ![g] = {}] /\ node' = node
        /\ node[u].grp # g /\ pc[t] = "task"
        /\ pc' \in {pc, [pc EXCEPT ![t] = "sched"]}
        /\ OS_FlagTaskRdy(T, none, "ABORT")
    BY <1>5 DEF OSFlagDel, MayDelete, Calls, InTask
  <2> HIDE DEF T, none
  <2>2. "PEND" \in OSTCBStat'[u] => "PEND" \in OSTCBStat[u]
    BY <2>1, TaskInAll DEF OS_FlagTaskRdy
  <2>3. Sleeps(u)
    BY <2>1, <2>2, TaskInAll DEF Sleeps, InPend, GrantInv, PendTypeOK
  <2> QED
    BY <1>1, <2>1, <2>3 DEF CareInv, OwnTypeOK
<1>6. ASSUME NEW g \in Group, NEW flags, NEW opt, OSFlagPost(t, g, flags, opt)
      PROVE  Unmet(node'[u], OSFlagFlags'[node'[u].grp])
  <2> DEFINE F == IF opt = "SET" THEN OSFlagFlags[g] \cup flags ELSE OSFlagFlags[g] \ flags
             rdy == [v \in Task |-> FlagsRdy(F, node[v].flags, node[v].type)]
             W == {v \in ToSet(WaitList(g)) : Met(rdy[v], node[v].flags, node[v].type)}
  <2>1. /\ OSFlagFlags' = [OSFlagFlags EXCEPT ![g] = F] /\ node' = node
        /\ OSFlagType[g] /\ pc[t] = "task"
        /\ pc' \in {pc, [pc EXCEPT ![t] = "sched"]}
        /\ OS_FlagTaskRdy(W, rdy, "OK")
    BY <1>6 DEF OSFlagPost, Calls, InTask
  <2>2. rdy[u] = FlagsRdy(F, node[u].flags, node[u].type)
    OBVIOUS
  <2>3. u \notin W => u \notin ToSet(WaitList(g)) \/ ~Met(rdy[u], node[u].flags, node[u].type)
    OBVIOUS
  <2> HIDE DEF F, rdy, W
  <2>4. OSTCBStat'[u] = IF u \in W THEN OSTCBStat[u] \ {"PEND"} ELSE OSTCBStat[u]
    BY <2>1, TaskInAll DEF OS_FlagTaskRdy
  <2>5. u \notin W /\ Sleeps(u)
    BY <2>1, <2>4, TaskInAll DEF Sleeps, InPend, GrantInv, PendTypeOK
  <2>6. CASE node[u].grp = g
    <3>1. u \in Members(g)
      BY <2>5, <2>6 DEF Members, Queued, Sleeps
    <3>2. u \in ToSet(WaitList(g))
      BY <2>1, <3>1, WaitListIs DEF CareInv, Placed
    <3>3. Unmet(node[u], F)
      BY <2>2, <2>3, <2>5, <3>2 DEF Unmet
    <3> QED
      BY <2>1, <2>6, <3>3 DEF CareInv, OwnTypeOK
  <2>7. CASE node[u].grp # g
    BY <1>1, <2>1, <2>5, <2>7 DEF CareInv, OwnTypeOK
  <2> QED
    BY <2>6, <2>7
<1>7. ASSUME NEW g \in Group, NEW ask \in Asks[g], NEW pend \in BOOLEAN,
             Take(t, g, ask.flags, ask.type, pend)
      PROVE  Unmet(node'[u], OSFlagFlags'[node'[u].grp])
  <2> DEFINE rdy == FlagsRdy(OSFlagFlags[g], ask.flags, ask.type)
  <2>1. /\ OSFlagFlags' = [OSFlagFlags EXCEPT ![g] = Consumed(@, rdy, ask.type)]
        /\ UNCHANGED <<pc, OSTCBStat, node>>
    BY <1>7 DEF Take, coreVars, tcbVars, callVars
  <2> HIDE DEF rdy
  <2>2. Sleeps(u)
    BY <2>1 DEF Sleeps, InPend
  <2> QED
    BY <2>1, <2>2, ConsumeMisses
<1>8. ASSUME NEW g \in Group, NEW ask \in Asks[g], NEW n \in 0..MaxTicks,
             OSFlagPend(t, g, ask.flags, ask.type, n)
      PROVE  Unmet(node'[u], OSFlagFlags'[node'[u].grp])
  <2> DEFINE own == [grp |-> g, flags |-> ask.flags, type |-> ask.type]
  <2>1. /\ OSFlagFlags' = OSFlagFlags
        /\ node' = [node EXCEPT ![t] = own]
        /\ pc' = [pc EXCEPT ![t] = "pendsched"]
        /\ OSTCBStat' = [OSTCBStat EXCEPT ![t] = @ \cup {"PEND"}]
        /\ ~Met(FlagsRdy(OSFlagFlags[g], ask.flags, ask.type), ask.flags, ask.type)
    BY <1>8 DEF OSFlagPend, OS_FlagBlock
  <2>2. Unmet(own, OSFlagFlags[own.grp])
    BY <2>1 DEF Unmet
  <2> HIDE DEF own
  <2>3. CASE u = t
    BY <2>1, <2>2, <2>3 DEF GrantInv, PendTypeOK
  <2>4. CASE u # t
    <3>1. node'[u] = node[u] /\ Sleeps(u)
      BY <2>1, <2>4, TaskInAll DEF Sleeps, InPend, GrantInv, PendTypeOK
    <3> QED
      BY <1>1, <2>1, <3>1
  <2> QED
    BY <2>3, <2>4
<1> QED
  BY <1>3, <1>4, <1>5, <1>6, <1>7, <1>8 DEF FlagTask

LEMMA KernelMisses ==
  ASSUME BaseInv, NoMissedFlags, Kernel, UNCHANGED <<OSFlagFlags, node>>
  PROVE  NoMissedFlags'
<1> USE DEF BaseInv, CoreTypeInv, TypeOK
<1> SUFFICES ASSUME \A u \in Task : Sleeps(u)' => Sleeps(u)
             PROVE  NoMissedFlags'
  <2>1. ASSUME NEW u \in Task
        PROVE  /\ InPend(u)' => InPend(u)
               /\ "PEND" \in OSTCBStat'[u] => "PEND" \in OSTCBStat[u]
    <3>1. CASE PendSV_Handler \/ Tick \/ SysTickExit
      BY <3>1 DEF PendSV_Handler, Tick, SysTickExit, tcbVars, callVars, InPend
    <3>2. CASE OSTimeTick
      BY <3>2, TaskInAll DEF OSTimeTick, DlyEnds, callVars, InPend
    <3>3. ASSUME NEW v \in Task, OS_Sched(v)
          PROVE  /\ InPend(u)' => InPend(u)
                 /\ "PEND" \in OSTCBStat'[u] => "PEND" \in OSTCBStat[u]
      BY <3>3, TaskInAll DEF OS_Sched, tcbVars, InPend
    <3>4. ASSUME NEW v \in Task, NEW w \in Suspends, OSTaskSuspend(v, w) \/ OSTaskResume(v, w)
          PROVE  /\ InPend(u)' => InPend(u)
                 /\ "PEND" \in OSTCBStat'[u] => "PEND" \in OSTCBStat[u]
      BY <3>4, TaskInAll DEF OSTaskSuspend, OSTaskResume, InPend
    <3> QED
      BY <3>1, <3>2, <3>3, <3>4 DEF Kernel
  <2> QED
    BY <2>1 DEF Sleeps
<1> QED
  BY DEF NoMissedFlags, Sleeps

\* No post is missed: a task that pends on a group whose consuming pends all have
\* the sense of the others does not sleep on flags that meet what it asked for,
\* whatever the order of posts, pends, timeouts and returns.
THEOREM NoPostMissed == ASSUME Careful PROVE Spec => []NoMissedFlags
<1>1. Init => NoMissedFlags
  BY TaskInAll DEF Init, CoreInit, NoMissedFlags, InPend
<1>2. BaseInv /\ GrantInv /\ CareInv /\ NoMissedFlags /\ [Next]_flagVars => NoMissedFlags'
  <2> SUFFICES ASSUME BaseInv, GrantInv, CareInv, NoMissedFlags, [Next]_flagVars
               PROVE  NoMissedFlags'
    OBVIOUS
  <2>1. CASE UNCHANGED flagVars
    BY <2>1 DEF flagVars, coreVars, tcbVars, callVars, InPend, NoMissedFlags
  <2> QED
    BY <2>1, KernelMisses, FlagTaskMisses DEF Next
<1> QED
  BY <1>1, <1>2, AlwaysBase, AlwaysGrant, AlwaysCare, PTL DEF Spec

===============================================================================
