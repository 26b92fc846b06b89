------------------------------ MODULE OSTmrProof ------------------------------
(***************************************************************************)
(* Theorems about the timers (OSTmr), for every number of timers and       *)
(* spokes, every width of the time and every set of kinds of timers, and   *)
(* callbacks that leave the noted timer alone (Careful).                   *)
(***************************************************************************)
EXTENDS OSTmr, FiniteSetTheorems, NaturalsInduction, TLAPS

-----------------------------------------------------------------------------
(***************************************************************************)
(* Linked lists.  Each timer has a place, a number of its own in the list  *)
(* it is in, which the links follow upwards.  Places need not be adjacent: *)
(* a timer that leaves takes nobody else's away, and one that is linked in *)
(* front gets a number below that of the first.                            *)
(***************************************************************************)
Links == [Timer -> Timer \cup {Null}]
Places == [Timer -> Int]

Chain(S, head, next, place) ==
  /\ head \in S \cup {Null}
  /\ \A x \in S : head # Null /\ place[head] <= place[x]
  /\ \A x, y \in S : place[x] = place[y] => x = y
  /\ \A x \in S : next[x] \in S \cup {Null} /\ (next[x] # Null => place[x] < place[next[x]])
  /\ \A x, y \in S : place[x] < place[y] => next[x] # Null /\ place[next[x]] <= place[y]

\* The links backwards are those forwards.
Back(S, head, next, prev) ==
  /\ \A x \in S : prev[x] \in S \cup {Null} /\ (prev[x] = Null <=> x = head)
  /\ \A x, y \in S : next[x] = y <=> prev[y] = x

InFront(place, x, head) ==
  [place EXCEPT ![x] = IF head = Null THEN 0 ELSE place[head] - 1]

LEMMA TimerFacts == /\ Null \notin Timer
                    /\ OS_TMR_CFG_MAX \in Nat /\ OS_TMR_CFG_WHEEL_SIZE \in Nat /\ TimeMod \in Nat
                    /\ OS_TMR_CFG_MAX > 0 /\ OS_TMR_CFG_WHEEL_SIZE > 0 /\ TimeMod > 0
                    /\ MaxSignals \in Nat /\ MaxSignals > 0
BY TmrAssumption DEF Null, Timer

LEMMA ChainAdd ==
  ASSUME NEW S, S \subseteq Timer, NEW x \in Timer, x \notin S, NEW head,
         NEW next \in Links, NEW place \in Places, Chain(S, head, next, place),
         NEW next2, next2 = [next EXCEPT ![x] = head]
  PROVE  /\ InFront(place, x, head) \in Places
         /\ Chain(S \cup {x}, x, next2, InFront(place, x, head))
<1> DEFINE p2 == InFront(place, x, head)
<1>1. /\ p2 \in Places /\ \A y \in Timer : y # x => p2[y] = place[y]
      /\ \A y \in S : p2[x] < p2[y]
      /\ \A y \in S : y \in Timer /\ y # x /\ p2[y] = place[y] /\ place[y] \in Int
  BY DEF InFront, Places, Chain
<1>2. next2[x] = head /\ \A y \in S : next2[y] = next[y]
  BY DEF Links
<1>3. x # Null /\ Null \notin S
  BY TimerFacts
<1> HIDE DEF p2
<1>4. \A y \in S \cup {x} : p2[x] <= p2[y]
  BY <1>1 DEF Places
<1>5. \A y, z \in S \cup {x} : p2[y] = p2[z] => y = z
  BY <1>1 DEF Chain, Places
<1>6. \A y \in S \cup {x} : next2[y] \in S \cup {x} \cup {Null}
                            /\ (next2[y] # Null => p2[y] < p2[next2[y]])
  <2>1. CASE head = Null
    BY <1>1, <1>2, <1>3, <2>1 DEF Chain
  <2>2. CASE head # Null
    BY <1>1, <1>2, <1>3, <2>2 DEF Chain
  <2> QED
    BY <2>1, <2>2
<1>7. ASSUME NEW y \in S \cup {x}, NEW z \in S \cup {x}, p2[y] < p2[z]
      PROVE  next2[y] # Null /\ p2[next2[y]] <= p2[z]
  <2>1. z \in S
    BY <1>1, <1>4, <1>7 DEF Places
  <2>2. CASE y = x
    BY <1>1, <1>2, <2>1, <2>2 DEF Chain
  <2>3. CASE y \in S
    <3>1. next[y] # Null /\ next[y] \in S /\ place[next[y]] <= place[z]
      BY <1>1, <1>7, <2>1, <2>3 DEF Chain
    <3> QED
      BY <1>1, <1>2, <2>1, <2>3, <3>1
  <2> QED
    BY <2>2, <2>3
<1> QED
  BY <1>1, <1>4, <1>5, <1>6, <1>7, <1>3 DEF Chain, p2

\* Whoever is in a list knows its neighbours, and the first has none before it.
LEMMA BackAdd ==
  ASSUME NEW S, S \subseteq Timer, NEW x \in Timer, x \notin S, NEW head \in S \cup {Null},
         NEW next \in Links, NEW prev \in Links,
         \A y \in S : head # Null /\ next[y] \in S \cup {Null},
         Back(S, head, next, prev),
         NEW next2, next2 = [next EXCEPT ![x] = head],
         NEW prev2, prev2 = [y \in Timer |-> CASE y = x    -> Null
                                               [] y = head -> x
                                               [] OTHER    -> prev[y]]
  PROVE  Back(S \cup {x}, x, next2, prev2)
<1>1. next2[x] = head /\ \A y \in S : next2[y] = next[y]
  BY DEF Links
<1>2. x # Null /\ Null \notin S /\ x # head
  BY TimerFacts
<1>3. /\ prev2[x] = Null
      /\ head # Null => prev2[head] = x
      /\ \A y \in S : y # head => prev2[y] = prev[y]
  BY <1>2
<1>4. \A y \in S \cup {x} : prev2[y] \in S \cup {x} \cup {Null} /\ (prev2[y] = Null <=> y = x)
  BY <1>2, <1>3 DEF Back
<1>5. \A y, z \in S \cup {x} : next2[y] = z <=> prev2[z] = y
  BY <1>1, <1>2, <1>3 DEF Back
<1> QED
  BY <1>4, <1>5 DEF Back


\* The links of S as they are once x has been taken out.
Bypass(S, x, next, prev, next2) ==
  \A y \in S : y # x => next2[y] = IF y = prev[x] THEN next[x] ELSE next[y]

LEMMA ChainDrop ==
  ASSUME NEW S, S \subseteq Timer, NEW x \in S, NEW head,
         NEW next \in Links, NEW prev \in Links, NEW place \in Places,
         Chain(S, head, next, place), Back(S, head, next, prev),
         NEW next2, Bypass(S, x, next, prev, next2),
         NEW head2, head2 = IF head = x THEN next[x] ELSE head
  PROVE  Chain(S \ {x}, head2, next2, place)
<1> USE DEF Bypass
<1> DEFINE R == S \ {x}
<1>1. x \in Timer /\ Null \notin S
  BY TimerFacts
<1>2. \A y \in R : place[y] \in Int /\ place[x] \in Int
  BY DEF Places
<1>3. next[x] # x /\ next[x] \in R \cup {Null}
  BY <1>1, <1>2 DEF Chain, Places
<1>4. \A y \in R : next[y] = x <=> y = prev[x]
  BY DEF Back
<1>5. head2 \in R \cup {Null}
  BY <1>3 DEF Chain
<1>6. \A y \in R : head2 # Null /\ place[head2] <= place[y]
  <2>1. CASE head = x
    <3>1. ASSUME NEW y \in R PROVE place[x] < place[y]
      <4>1. place[x] <= place[y] /\ place[x] # place[y]
        BY <2>1 DEF Chain
      <4> QED
        BY <1>2, <4>1
    <3> QED
      BY <2>1, <3>1 DEF Chain
  <2>2. CASE head # x
    BY <2>2 DEF Chain
  <2> QED
    BY <2>1, <2>2
<1>7. ASSUME NEW y \in R
      PROVE  next2[y] \in R \cup {Null} /\ (next2[y] # Null => place[y] < place[next2[y]])
  <2>1. CASE y = prev[x]
    <3>1. next2[y] = next[x] /\ next[y] = x
      BY <1>4, <2>1
    <3>2. place[y] < place[x]
      BY <1>1, <3>1 DEF Chain
    <3>3. next[x] # Null => place[x] < place[next[x]] /\ place[next[x]] \in Int
      BY <1>2, <1>3 DEF Chain
    <3> QED
      BY <1>2, <1>3, <3>1, <3>2, <3>3
  <2>2. CASE y # prev[x]
    BY <1>4, <2>2 DEF Chain
  <2> QED
    BY <2>1, <2>2
<1>8. ASSUME NEW y \in R, NEW z \in R, place[y] < place[z]
      PROVE  next2[y] # Null /\ place[next2[y]] <= place[z]
  <2>0. next[y] # Null /\ place[next[y]] <= place[z]
    BY <1>8 DEF Chain
  <2>1. CASE y = prev[x]
    <3>1. next2[y] = next[x] /\ next[y] = x
      BY <1>4, <2>1
    <3>2. place[x] < place[z]
      <4>1. place[x] <= place[z] /\ place[x] # place[z]
        BY <2>0, <3>1 DEF Chain
      <4> QED
        BY <1>2, <4>1
    <3> QED
      BY <3>1, <3>2 DEF Chain
  <2>2. CASE y # prev[x]
    BY <1>4, <2>0, <2>2
  <2> QED
    BY <2>1, <2>2
<1>9. \A y, z \in R : place[y] = place[z] => y = z
  BY DEF Chain
<1> QED
  BY <1>5, <1>6, <1>7, <1>8, <1>9 DEF Chain

LEMMA BackDrop ==
  ASSUME NEW S, S \subseteq Timer, NEW x \in S, NEW head \in S \cup {Null},
         NEW next \in Links, NEW prev \in Links, NEW place \in Places,
         Chain(S, head, next, place), Back(S, head, next, prev),
         NEW next2, Bypass(S, x, next, prev, next2),
         NEW prev2, Bypass(S, x, prev, next, prev2),
         NEW head2, head2 = IF head = x THEN next[x] ELSE head
  PROVE  Back(S \ {x}, head2, next2, prev2)
<1> USE DEF Bypass
<1> DEFINE R == S \ {x}
<1>1. x \in Timer /\ Null \notin S
  BY TimerFacts
<1>2. \A y \in S : next[y] \in S \cup {Null} /\ next[y] # y
  <2>1. \A y \in S : y # Null /\ place[y] \in Int
    BY <1>1 DEF Places
  <2> QED
    BY <2>1 DEF Chain
<1>3. \A y \in S : prev[y] \in S \cup {Null} /\ prev[y] # y
  BY <1>1, <1>2 DEF Back
<1>4. \A y \in R : (next[y] = x <=> y = prev[x]) /\ (prev[y] = x <=> y = next[x])
  BY DEF Back
<1>5. prev[x] = Null <=> x = head
  BY DEF Back
<1>6. \A y \in R : prev2[y] \in R \cup {Null} /\ (prev2[y] = Null <=> y = head2)
  <2> SUFFICES ASSUME NEW y \in R
               PROVE  prev2[y] \in R \cup {Null} /\ (prev2[y] = Null <=> y = head2)
    OBVIOUS
  <2>1. CASE y = next[x]
    <3>1. prev2[y] = prev[x] /\ prev[y] = x
      BY <1>4, <2>1
    <3>2. y # head
      BY <1>1, <3>1 DEF Back
    <3> QED
      BY <1>3, <1>5, <2>1, <3>1, <3>2
  <2>2. CASE y # next[x]
    <3>1. prev2[y] = prev[y] /\ prev[y] # x
      BY <1>4, <2>2
    <3>2. prev[y] = Null <=> y = head
      BY DEF Back
    <3> QED
      BY <1>3, <2>2, <3>1, <3>2
  <2> QED
    BY <2>1, <2>2
<1>7. \A y, z \in R : next2[y] = z <=> prev2[z] = y
  <2> SUFFICES ASSUME NEW y \in R, NEW z \in R
               PROVE  next2[y] = z <=> prev2[z] = y
    OBVIOUS
  <2>1. next[y] = z <=> prev[z] = y
    BY DEF Back
  <2>2. prev2[z] = (IF z = next[x] THEN prev[x] ELSE prev[z])
        /\ next2[y] = (IF y = prev[x] THEN next[x] ELSE next[y])
    OBVIOUS
  <2> QED
    BY <1>4, <2>1, <2>2
<1> QED
  BY <1>6, <1>7 DEF Back

LEMMA FirstLeaves ==
  ASSUME NEW S, NEW x \in S, NEW next, NEW place, Chain(S, x, next, place),
         Null \notin S, \A y \in S : place[y] \in Int,
         NEW next2, \A y \in S : y # x => next2[y] = next[y]
  PROVE  Chain(S \ {x}, next[x], next2, place)
<1> DEFINE R == S \ {x}
<1>1. \A y \in R : place[x] < place[y]
  <2>1. \A y \in R : place[x] <= place[y] /\ place[x] # place[y]
    BY DEF Chain
  <2> QED
    BY <2>1
<1>2. \A y \in S : next[y] \in R \cup {Null}
  <2>1. ASSUME NEW y \in S, next[y] = x PROVE FALSE
    <3>1. place[y] < place[x]
      BY <2>1 DEF Chain
    <3> QED
      BY <1>1, <3>1
  <2> QED
    BY <2>1 DEF Chain
<1>3. \A y \in R : next[x] # Null /\ place[next[x]] <= place[y]
  BY <1>1 DEF Chain
<1>4. \A y \in R : next2[y] \in R \cup {Null} /\ (next2[y] # Null => place[y] < place[next2[y]])
  BY <1>2 DEF Chain
<1> QED
  BY <1>2, <1>3, <1>4 DEF Chain

\* A list none of whose timers is touched stays as it is.
LEMMA ChainSame ==
  ASSUME NEW S, NEW head, NEW next, NEW place, Chain(S, head, next, place),
         NEW next2, NEW place2, \A y \in S : next2[y] = next[y] /\ place2[y] = place[y]
  PROVE  Chain(S, head, next2, place2)
BY DEF Chain

LEMMA BackSame ==
  ASSUME NEW S, NEW head, NEW next, NEW prev, Back(S, head, next, prev),
         NEW next2, NEW prev2, \A y \in S : next2[y] = next[y] /\ prev2[y] = prev[y]
  PROVE  Back(S, head, next2, prev2)
BY DEF Back

-----------------------------------------------------------------------------
(***************************************************************************)
(* The wheel: S names the timers in each spoke.  What OSTmr_Link and       *)
(* OSTmr_Unlink make of a good wheel is one.                               *)
(***************************************************************************)
Wheels == [next : Links, prev : Links,
           first : [Spoke -> Timer \cup {Null}], entries : [Spoke -> Int]]
Sets == [Spoke -> SUBSET Timer]

Good(w, S, place) ==
  /\ \A k \in Spoke : /\ Chain(S[k], w.first[k], w.next, place)
                      /\ Back(S[k], w.first[k], w.next, w.prev)
                      /\ w.entries[k] = Cardinality(S[k])
  /\ \A j, k \in Spoke : \A y \in Timer : y \in S[j] /\ y \in S[k] => j = k

LEMMA WheelFields ==
  ASSUME NEW w \in Wheels
  PROVE  /\ w.next \in Links /\ w.prev \in Links
         /\ w.first \in [Spoke -> Timer \cup {Null}] /\ w.entries \in [Spoke -> Int]
BY DEF Wheels

LEMMA SpokeTyped == \A n \in Nat : SpokeOf(n) \in Spoke
<1> SUFFICES ASSUME NEW n \in Nat PROVE SpokeOf(n) \in Spoke
  OBVIOUS
<1>1. OS_TMR_CFG_WHEEL_SIZE \in Nat /\ OS_TMR_CFG_WHEEL_SIZE > 0
  BY TimerFacts
<1> QED
  BY <1>1 DEF SpokeOf, Spoke

\* The number of entries goes with the set.
LEMMA Counts ==
  ASSUME NEW S, S \subseteq Timer
  PROVE  /\ IsFiniteSet(S) /\ Cardinality(S) \in Nat /\ Cardinality(S) <= OS_TMR_CFG_MAX
         /\ IsFiniteSet(Timer) /\ Cardinality(Timer) = OS_TMR_CFG_MAX
         /\ \A x \in Timer : x \notin S => Cardinality(S \cup {x}) = Cardinality(S) + 1
         /\ \A x \in S : Cardinality(S \ {x}) = Cardinality(S) - 1
<1>1. OS_TMR_CFG_MAX \in Nat
  BY TimerFacts
<1>2. IsFiniteSet(Timer) /\ Cardinality(Timer) = OS_TMR_CFG_MAX
  BY <1>1, FS_Interval DEF Timer
<1>3. IsFiniteSet(S) /\ Cardinality(S) <= OS_TMR_CFG_MAX
  BY <1>2, FS_Subset
<1>4. Cardinality(S) \in Nat
  BY <1>3, FS_CardinalityType
<1>5. \A x \in Timer : x \notin S => Cardinality(S \cup {x}) = Cardinality(S) + 1
  BY <1>3, FS_AddElement
<1>6. \A x \in S : Cardinality(S \ {x}) = Cardinality(S) - 1
  BY <1>3, FS_RemoveElement
<1> QED
  BY <1>2, <1>3, <1>4, <1>5, <1>6

LEMMA LinkGood ==
  ASSUME NEW w \in Wheels, NEW S \in Sets, NEW place \in Places, Good(w, S, place),
         NEW x \in Timer, \A k \in Spoke : x \notin S[k], NEW match \in Nat
  PROVE  LET k  == SpokeOf(match)
             w2 == OSTmr_Link(w, x, match)
             p2 == InFront(place, x, w.first[k])
         IN /\ k \in Spoke /\ w2 \in Wheels /\ p2 \in Places
            /\ Good(w2, [S EXCEPT ![k] = @ \cup {x}], p2)
            /\ w2.next = [w.next EXCEPT ![x] = w.first[k]]
            /\ \A y \in Timer : y # x => p2[y] = place[y]
<1> DEFINE k  == SpokeOf(match)
           w2 == OSTmr_Link(w, x, match)
           head == w.first[k]
           p2 == InFront(place, x, head)
           S2 == [S EXCEPT ![k] = @ \cup {x}]
<1>1. k \in Spoke
  BY SpokeTyped
<1>2. /\ w.next \in Links /\ w.prev \in Links
      /\ w.first \in [Spoke -> Timer \cup {Null}] /\ w.entries \in [Spoke -> Int]
  BY WheelFields
<1>3. /\ w2.next = [w.next EXCEPT ![x] = head]
      /\ w2.prev = [y \in Timer |-> CASE y = x    -> Null
                                      [] y = head -> x
                                      [] OTHER    -> w.prev[y]]
      /\ w2.first = [w.first EXCEPT ![k] = x]
      /\ w2.entries = [w.entries EXCEPT ![k] = @ + 1]
  BY DEF OSTmr_Link
<1>4. head \in Timer \cup {Null} /\ (head # Null => head \in S[k])
  BY <1>1, <1>2 DEF Good, Chain
<1>5. w2 \in Wheels
  <2>1. w2.next \in Links
    BY <1>2, <1>3, <1>4 DEF Links
  <2>2. w2.prev \in Links
    <3>1. ASSUME NEW y \in Timer
          PROVE  (CASE y = x -> Null [] y = head -> x [] OTHER -> w.prev[y])
                   \in Timer \cup {Null}
      <4>1. x # head
        BY <1>1, <1>4, TimerFacts
      <4> QED
        BY <1>2, <4>1 DEF Links
    <3> QED
      BY <1>3, <3>1 DEF Links
  <2>3. w2.first \in [Spoke -> Timer \cup {Null}] /\ w2.entries \in [Spoke -> Int]
    <3> HIDE DEF w2, k, head
    <3> QED
      BY <1>1, <1>2, <1>3
  <2>4. w2 = [next |-> w2.next, prev |-> w2.prev, first |-> w2.first, entries |-> w2.entries]
    BY DEF OSTmr_Link
  <2> HIDE DEF w2
  <2> QED
    BY <2>1, <2>2, <2>3, <2>4 DEF Wheels
<1>6. S[k] \subseteq Timer /\ x \notin S[k] /\ S2[k] = S[k] \cup {x}
      /\ Chain(S[k], head, w.next, place) /\ Back(S[k], head, w.next, w.prev)
  BY <1>1 DEF Sets, Good
<1>7. p2 \in Places /\ Chain(S2[k], x, w2.next, p2)
  <2>1. /\ InFront(place, x, head) \in Places
        /\ Chain(S[k] \cup {x}, x, w2.next, InFront(place, x, head))
    <3> HIDE DEF w2, k, S2, p2, head
    <3> QED
      BY <1>2, <1>3, <1>6, ChainAdd
  <2> QED
    BY <1>6, <2>1
<1>8. Back(S2[k], x, w2.next, w2.prev)
  <2>1. head \in S[k] \cup {Null}
        /\ \A y \in S[k] : head # Null /\ w.next[y] \in S[k] \cup {Null}
    BY <1>6 DEF Chain
  <2> HIDE DEF w2, k, S2, head
  <2> QED
    BY <1>2, <1>3, <1>6, <2>1, BackAdd
<1>9. w2.first[k] = x /\ w2.entries[k] = Cardinality(S2[k])
  <2>1. w2.entries[k] = w.entries[k] + 1
    BY <1>1, <1>2, <1>3
  <2>2. w.entries[k] = Cardinality(S[k])
    BY <1>1 DEF Good
  <2>3. Cardinality(S2[k]) = Cardinality(S[k]) + 1
    BY <1>6, Counts
  <2> QED
    BY <1>1, <1>2, <1>3, <2>1, <2>2, <2>3
<1>10. \A y \in Timer : y # x => p2[y] = place[y]
  BY DEF InFront, Places
<1>11. ASSUME NEW j \in Spoke, j # k
       PROVE  /\ Chain(S2[j], w2.first[j], w2.next, p2)
              /\ Back(S2[j], w2.first[j], w2.next, w2.prev)
              /\ w2.entries[j] = Cardinality(S2[j])
  <2>1. S2[j] = S[j] /\ w2.first[j] = w.first[j] /\ w2.entries[j] = w.entries[j]
    BY <1>2, <1>3, <1>11 DEF Sets
  <2>2. S[j] \subseteq Timer /\ x \notin S[j] /\ head \notin S[j]
    BY <1>1, <1>4, <1>11, TimerFacts DEF Sets, Good
  <2>3. \A y \in S[j] : w2.next[y] = w.next[y] /\ w2.prev[y] = w.prev[y] /\ p2[y] = place[y]
    BY <1>2, <1>3, <1>10, <2>2 DEF Links
  <2>4. /\ Chain(S[j], w.first[j], w.next, place) /\ Back(S[j], w.first[j], w.next, w.prev)
        /\ w.entries[j] = Cardinality(S[j])
    BY DEF Good
  <2> HIDE DEF w2, S2, p2, head
  <2> QED
    BY <2>1, <2>3, <2>4, ChainSame, BackSame
<1>12. \A j \in Spoke : S2[j] = IF j = k THEN S[k] \cup {x} ELSE S[j]
  BY <1>1 DEF Sets
<1>13. \A i, j \in Spoke : \A y \in Timer : y \in S2[i] /\ y \in S2[j] => i = j
  BY <1>12 DEF Good
<1>14. Good(w2, S2, p2)
  <2> HIDE DEF w2, S2, p2, head, k
  <2> QED
    BY <1>7, <1>8, <1>9, <1>11, <1>13 DEF Good
<1> QED
  BY <1>1, <1>3, <1>5, <1>7, <1>10, <1>14

LEMMA UnlinkGood ==
  ASSUME NEW w \in Wheels, NEW S \in Sets, NEW place \in Places, Good(w, S, place),
         OSTmrMatch \in [Timer -> Nat], NEW x \in Timer, x \in S[SpokeOf(OSTmrMatch[x])]
  PROVE  LET k  == SpokeOf(OSTmrMatch[x])
             w2 == OSTmr_Unlink(w, x)
         IN /\ k \in Spoke /\ w2 \in Wheels
            /\ Good(w2, [S EXCEPT ![k] = @ \ {x}], place)
            /\ \A y \in Timer : y # x =>
                 w2.next[y] = IF y = w.prev[x] THEN w.next[x] ELSE w.next[y]
            /\ w.prev[x] \in S[k] \cup {Null} /\ w.next[x] \in S[k] \cup {Null}
<1> DEFINE k  == SpokeOf(OSTmrMatch[x])
           w2 == OSTmr_Unlink(w, x)
           next == w.next[x]
           prev == w.prev[x]
           head == w.first[k]
           S2 == [S EXCEPT ![k] = @ \ {x}]
<1>1. k \in Spoke
  BY SpokeTyped
<1>2. /\ w.next \in Links /\ w.prev \in Links
      /\ w.first \in [Spoke -> Timer \cup {Null}] /\ w.entries \in [Spoke -> Int]
  BY WheelFields
<1>3. /\ w2.next = [y \in Timer |-> CASE y = x -> Null
                                      [] y = prev /\ head # x -> next
                                      [] OTHER -> w.next[y]]
      /\ w2.prev = [y \in Timer |-> CASE y = x -> Null
                                      [] y = next -> IF head = x THEN Null ELSE prev
                                      [] OTHER -> w.prev[y]]
      /\ w2.first = [w.first EXCEPT ![k] = IF @ = x THEN next ELSE @]
      /\ w2.entries = [w.entries EXCEPT ![k] = @ - 1]
      /\ w2 = [next |-> w2.next, prev |-> w2.prev, first |-> w2.first, entries |-> w2.entries]
  BY DEF OSTmr_Unlink
<1>4. /\ S[k] \subseteq Timer /\ x \in S[k] /\ head \in S[k] \cup {Null}
      /\ Chain(S[k], head, w.next, place) /\ Back(S[k], head, w.next, w.prev)
  BY <1>1 DEF Sets, Good, Chain
<1> HIDE DEF w2, k, head, next, prev
<1>5. /\ next \in S[k] \cup {Null} /\ prev \in S[k] \cup {Null}
      /\ next # x /\ prev # x /\ (prev = Null <=> head = x)
  <2>1. next \in S[k] \cup {Null} /\ prev \in S[k] \cup {Null} /\ (prev = Null <=> head = x)
    BY <1>4 DEF Chain, Back, next, prev
  <2>2. next # x
    <3>1. x # Null /\ place[x] \in Int
      BY TimerFacts DEF Places
    <3> QED
      BY <1>4, <3>1 DEF Chain, next
  <2>3. prev # x
    BY <1>4, <2>2 DEF Back, next, prev
  <2> QED
    BY <2>1, <2>2, <2>3
<1>6. /\ \A y \in Timer : y # x => w2.next[y] = IF y = prev THEN next ELSE w.next[y]
      /\ \A y \in Timer : y # x => w2.prev[y] = IF y = next THEN prev ELSE w.prev[y]
      /\ w2.next[x] = Null /\ w2.prev[x] = Null
  <2>1. \A y \in Timer : y # Null
    BY TimerFacts
  <2>2. ASSUME NEW y \in Timer, y # x
        PROVE  w2.next[y] = IF y = prev THEN next ELSE w.next[y]
    <3>1. y = prev => head # x
      BY <1>5, <2>1
    <3>2. w2.next[y] = CASE y = x -> Null
                         [] y = prev /\ head # x -> next
                         [] OTHER -> w.next[y]
      BY <1>3
    <3> QED
      BY <2>2, <3>1, <3>2
  <2>3. ASSUME NEW y \in Timer, y # x
        PROVE  w2.prev[y] = IF y = next THEN prev ELSE w.prev[y]
    <3>1. w2.prev[y] = CASE y = x -> Null
                         [] y = next -> IF head = x THEN Null ELSE prev
                         [] OTHER -> w.prev[y]
      BY <1>3
    <3> QED
      BY <1>5, <2>3, <3>1
  <2>4. w2.next[x] = Null /\ w2.prev[x] = Null
    <3>1. w2.next[x] = CASE x = x -> Null
                         [] x = prev /\ head # x -> next
                         [] OTHER -> w.next[x]
      BY <1>3
    <3>2. w2.prev[x] = CASE x = x -> Null
                         [] x = next -> IF head = x THEN Null ELSE prev
                         [] OTHER -> w.prev[x]
      BY <1>3
    <3> QED
      BY <1>5, <3>1, <3>2
  <2> QED
    BY <2>2, <2>3, <2>4
<1>7. w2 \in Wheels
  <2>0. next \in Timer \cup {Null} /\ prev \in Timer \cup {Null}
    BY <1>4, <1>5
  <2>1. w2.next \in Links
    <3>1. \A y \in Timer : w2.next[y] \in Timer \cup {Null}
      BY <1>2, <1>6, <2>0 DEF Links
    <3>2. w2.next = [y \in Timer |-> w2.next[y]]
      BY <1>3
    <3> QED
      BY <3>1, <3>2 DEF Links
  <2>2. w2.prev \in Links
    <3>1. \A y \in Timer : w2.prev[y] \in Timer \cup {Null}
      BY <1>2, <1>6, <2>0 DEF Links
    <3>2. w2.prev = [y \in Timer |-> w2.prev[y]]
      BY <1>3
    <3> QED
      BY <3>1, <3>2 DEF Links
  <2>3. w2.first \in [Spoke -> Timer \cup {Null}] /\ w2.entries \in [Spoke -> Int]
    BY <1>1, <1>2, <1>3, <2>0
  <2> QED
    BY <1>3, <2>1, <2>2, <2>3 DEF Wheels
<1>8. S2[k] = S[k] \ {x} /\ \A j \in Spoke : j # k => S2[j] = S[j]
  BY <1>1 DEF Sets
<1>9. w2.first[k] = (IF head = x THEN next ELSE head)
      /\ \A j \in Spoke : j # k => w2.first[j] = w.first[j] /\ w2.entries[j] = w.entries[j]
  BY <1>1, <1>2, <1>3 DEF head
<1>10. /\ Chain(S2[k], w2.first[k], w2.next, place)
       /\ Back(S2[k], w2.first[k], w2.next, w2.prev)
  <2>1. /\ \A y \in S[k] : y # x => w2.next[y] = IF y = w.prev[x] THEN w.next[x] ELSE w.next[y]
        /\ \A y \in S[k] : y # x => w2.prev[y] = IF y = w.next[x] THEN w.prev[x] ELSE w.prev[y]
        /\ w2.first[k] = IF head = x THEN w.next[x] ELSE head
    BY <1>4, <1>6, <1>9 DEF next, prev
  <2>2. Bypass(S[k], x, w.next, w.prev, w2.next) /\ Bypass(S[k], x, w.prev, w.next, w2.prev)
    BY <2>1 DEF Bypass
  <2>3. Chain(S[k] \ {x}, w2.first[k], w2.next, place)
    BY <1>2, <1>4, <2>1, <2>2, ChainDrop
  <2>4. Back(S[k] \ {x}, w2.first[k], w2.next, w2.prev)
    BY <1>2, <1>4, <2>1, <2>2, BackDrop
  <2> QED
    BY <1>8, <2>3, <2>4
<1>11. w2.entries[k] = Cardinality(S2[k])
  <2>1. w2.entries[k] = w.entries[k] - 1
    BY <1>1, <1>2, <1>3
  <2>2. w.entries[k] = Cardinality(S[k])
    BY <1>1 DEF Good
  <2>3. Cardinality(S[k] \ {x}) = Cardinality(S[k]) - 1
    BY <1>4, Counts
  <2> QED
    BY <1>8, <2>1, <2>2, <2>3
<1>12. ASSUME NEW j \in Spoke, j # k
       PROVE  /\ Chain(S2[j], w2.first[j], w2.next, place)
              /\ Back(S2[j], w2.first[j], w2.next, w2.prev)
              /\ w2.entries[j] = Cardinality(S2[j])
  <2>1. S[j] \subseteq Timer /\ \A y \in S[j] : y \notin S[k] /\ y # Null
    BY <1>1, <1>12, TimerFacts DEF Sets, Good
  <2>2. \A y \in S[j] : w2.next[y] = w.next[y] /\ w2.prev[y] = w.prev[y]
    BY <1>4, <1>5, <1>6, <2>1
  <2>3. /\ Chain(S[j], w.first[j], w.next, place) /\ Back(S[j], w.first[j], w.next, w.prev)
        /\ w.entries[j] = Cardinality(S[j])
    BY DEF Good
  <2>4. /\ Chain(S[j], w.first[j], w2.next, place)
        /\ Back(S[j], w.first[j], w2.next, w2.prev)
    BY <2>2, <2>3, ChainSame, BackSame
  <2> QED
    BY <1>8, <1>9, <1>12, <2>3, <2>4
<1>13. \A i, j \in Spoke : \A y \in Timer : y \in S2[i] /\ y \in S2[j] => i = j
  BY <1>8 DEF Good
<1>14. Good(w2, S2, place)
  <2> HIDE DEF S2
  <2> QED
    BY <1>10, <1>11, <1>12, <1>13 DEF Good
<1> QED
  BY <1>1, <1>5, <1>6, <1>7, <1>14 DEF w2, k, next, prev

-----------------------------------------------------------------------------
(* Time, which wraps                                                       *)

LEMMA TimeWraps ==
  ASSUME NEW d \in 0..TimeMod - 1, NEW t \in 0..TimeMod - 1
  PROVE  /\ (d + t) % TimeMod \in 0..TimeMod - 1
         /\ (d + t) % TimeMod = IF d + t < TimeMod THEN d + t ELSE d + t - TimeMod
<1>0. /\ TimeMod \in Nat /\ TimeMod > 0 /\ d \in Nat /\ t \in Nat /\ d + t \in Nat
      /\ d < TimeMod /\ t < TimeMod
  BY TimerFacts
<1> DEFINE q == (d + t) \div TimeMod
           r == (d + t) % TimeMod
<1>1. r \in 0..TimeMod - 1 /\ q \in Int
  BY <1>0
<1>2. \A m, n : m = q /\ n = r => d + t = TimeMod * m + n
  BY <1>0
<1>3. q \in Int /\ r \in 0..TimeMod - 1 /\ d + t = TimeMod * q + r
  BY <1>1, <1>2
<1> USE <1>0
<1> HIDE DEF q, r
<1>4. ASSUME q <= -1 PROVE FALSE
  <2>1. TimeMod * q <= TimeMod * (-1)
    BY <1>3, <1>4
  <2> QED
    BY <1>3, <2>1
<1>5. ASSUME q >= 2 PROVE FALSE
  <2>1. TimeMod * q >= TimeMod * 2
    BY <1>3, <1>5
  <2> QED
    BY <1>3, <2>1
<1>6. q = 0 \/ q = 1
  BY <1>3, <1>4, <1>5
<1>7. r = IF d + t < TimeMod THEN d + t ELSE d + t - TimeMod
  BY <1>3, <1>6
<1> QED
  BY <1>1, <1>7 DEF r

\* The ticks from a time t to the time a.
LEMMA TimeLeft ==
  ASSUME NEW a \in 0..TimeMod - 1, NEW t \in 0..TimeMod - 1
  PROVE  (a - t) % TimeMod = IF t <= a THEN a - t ELSE a - t + TimeMod
<1>0. /\ TimeMod \in Nat /\ TimeMod > 0 /\ a \in Nat /\ t \in Nat /\ a - t \in Int
      /\ a < TimeMod /\ t < TimeMod
  BY TimerFacts
<1> DEFINE q == (a - t) \div TimeMod
           r == (a - t) % TimeMod
<1>1. r \in 0..TimeMod - 1 /\ q \in Int
  BY <1>0
<1>2. \A m, n : m = q /\ n = r => a - t = TimeMod * m + n
  BY <1>0
<1>3. q \in Int /\ r \in 0..TimeMod - 1 /\ a - t = TimeMod * q + r
  BY <1>1, <1>2
<1> USE <1>0
<1> HIDE DEF q, r
<1>4. ASSUME q <= -2 PROVE FALSE
  <2>1. TimeMod * q <= TimeMod * (-2)
    BY <1>3, <1>4
  <2> QED
    BY <1>3, <2>1
<1>5. ASSUME q >= 1 PROVE FALSE
  <2>1. TimeMod * q >= TimeMod * 1
    BY <1>3, <1>5
  <2> QED
    BY <1>3, <2>1
<1>6. q = 0 \/ q = -1
  BY <1>3, <1>4, <1>5
<1>7. r = IF t <= a THEN a - t ELSE a - t + TimeMod
  BY <1>3, <1>6
<1> QED
  BY <1>7 DEF r

-----------------------------------------------------------------------------
(* The inductive invariant                                                 *)

Listed == [k \in Spoke |-> {x \in Timer : OSTmrState[x] = "RUNNING"
                                          /\ SpokeOf(OSTmrMatch[x]) = k}]
Unused == {x \in Timer : OSTmrState[x] = "UNUSED"}

TypeInv ==
  /\ OSTmrTime \in 0..TimeMod - 1
  /\ OSTmrState \in [Timer -> {"UNUSED", "STOPPED", "RUNNING", "COMPLETED"}]
  /\ kind \in [Timer -> Kind \cup {NoKind}]
  /\ OSTmrMatch \in [Timer -> 0..TimeMod - 1]
  /\ wheel \in Wheels
  /\ OSTmrFreeList \in Timer \cup {Null} /\ OSTmrUsed \in Int
  /\ signals \in 0..MaxSignals
  /\ pc \in {"pend", "walk", "callback"}
  /\ ptmr \in Timer \cup {Null} /\ ptmr_next \in Timer \cup {Null}

KindInv == \A x \in Timer : OSTmrState[x] # "UNUSED" => kind[x] \in Kind

CountInv == OSTmrUsed = OS_TMR_CFG_MAX - Cardinality(Unused)

ListInv(place) == /\ Good(wheel, Listed, place)
                  /\ Chain(Unused, OSTmrFreeList, OSTmrNext, place)

\* The timer the walk comes to next.
Ahead == CASE pc = "walk"     -> ptmr
           [] pc = "callback" -> ptmr_next
           [] OTHER           -> Null

Due(x) == OSTmrState[x] = "RUNNING" /\ OSTmrMatch[x] = OSTmrTime

\* It is in the spoke of the time that is now, and no timer that is due is
\* behind it.
WalkInv(place) ==
  /\ Ahead # Null => Ahead \in Timer /\ Ahead \in Listed[SpokeOf(OSTmrTime)]
  /\ \A x \in Timer : Due(x) => Ahead # Null /\ place[Ahead] <= place[x]

Placed == \E place \in Places : ListInv(place) /\ WalkInv(place)

IInv == TypeInv /\ KindInv /\ CountInv /\ Placed

LEMMA ListedSets ==
  /\ Listed \in Sets
  /\ \A k \in Spoke : \A x \in Timer :
       x \in Listed[k] <=> OSTmrState[x] = "RUNNING" /\ SpokeOf(OSTmrMatch[x]) = k
BY DEF Listed, Sets

LEMMA KindFacts ==
  ASSUME NEW k \in Kind
  PROVE  /\ k.dly \in 0..TimeMod - 1 /\ k.period \in 0..TimeMod - 1 /\ k.periodic \in BOOLEAN
         /\ k.dly = 0 \/ k.periodic => k.period > 0
BY TmrAssumption

\* What a timer is set to is another time than now, as far off as it asks for.
LEMMA MatchFacts ==
  ASSUME TypeInv, NEW x \in Timer, kind[x] \in Kind
  PROVE  /\ MatchStart(x) \in 0..TimeMod - 1 /\ MatchStart(x) # OSTmrTime
         /\ kind[x].periodic => MatchPeriodic(x) \in 0..TimeMod - 1 /\ MatchPeriodic(x) # OSTmrTime
         /\ (MatchStart(x) - OSTmrTime) % TimeMod
              = IF kind[x].dly = 0 THEN kind[x].period ELSE kind[x].dly
         /\ kind[x].periodic => (MatchPeriodic(x) - OSTmrTime) % TimeMod = kind[x].period
<1>1. /\ kind[x].dly \in 0..TimeMod - 1 /\ kind[x].period \in 0..TimeMod - 1
      /\ kind[x].dly = 0 \/ kind[x].periodic => kind[x].period > 0
      /\ OSTmrTime \in 0..TimeMod - 1 /\ TimeMod \in Nat /\ TimeMod > 0
  BY KindFacts, TimerFacts DEF TypeInv
<1>2. ASSUME NEW d \in 0..TimeMod - 1, d > 0
      PROVE  /\ (d + OSTmrTime) % TimeMod \in 0..TimeMod - 1
             /\ (d + OSTmrTime) % TimeMod # OSTmrTime
             /\ (((d + OSTmrTime) % TimeMod) - OSTmrTime) % TimeMod = d
  <2> DEFINE a == (d + OSTmrTime) % TimeMod
  <2>1. /\ a \in 0..TimeMod - 1
        /\ a = IF d + OSTmrTime < TimeMod THEN d + OSTmrTime ELSE d + OSTmrTime - TimeMod
    BY <1>1, TimeWraps
  <2> HIDE DEF a
  <2>2. (a - OSTmrTime) % TimeMod = IF OSTmrTime <= a THEN a - OSTmrTime
                                                      ELSE a - OSTmrTime + TimeMod
    BY <1>1, <2>1, TimeLeft
  <2>3. a # OSTmrTime /\ (a - OSTmrTime) % TimeMod = d
    BY <1>1, <1>2, <2>1, <2>2
  <2> QED
    BY <2>1, <2>3 DEF a
<1>3. CASE kind[x].dly = 0
  BY <1>1, <1>2, <1>3 DEF MatchStart, MatchPeriodic
<1>4. CASE kind[x].dly # 0
  <2>1. kind[x].dly > 0
    BY <1>1, <1>4
  <2>2. MatchStart(x) = (kind[x].dly + OSTmrTime) % TimeMod
    BY <1>4 DEF MatchStart
  <2>3. /\ MatchStart(x) \in 0..TimeMod - 1 /\ MatchStart(x) # OSTmrTime
        /\ (MatchStart(x) - OSTmrTime) % TimeMod = kind[x].dly
    BY <1>1, <1>2, <2>1, <2>2
  <2>4. kind[x].periodic => /\ MatchPeriodic(x) \in 0..TimeMod - 1
                            /\ MatchPeriodic(x) # OSTmrTime
                            /\ (MatchPeriodic(x) - OSTmrTime) % TimeMod = kind[x].period
    BY <1>1, <1>2 DEF MatchPeriodic
  <2> QED
    BY <1>4, <2>3, <2>4
<1> QED
  BY <1>3, <1>4

-----------------------------------------------------------------------------
(***************************************************************************)
(* What a service does to the lists: it takes a timer out of the wheel,    *)
(* puts it into one, or moves it between the free list and the others.     *)
(***************************************************************************)
Rest(x) == [k \in Spoke |-> Listed[k] \ {x}]
Taken(x) == IF OSTmrState[x] = "RUNNING" THEN OSTmr_Unlink(wheel, x) ELSE wheel

LEMMA WheelIsNext == \A w \in Wheels : WheelIs(w) => wheel' = w /\ OSTmrNext' = w.next
<1> SUFFICES ASSUME NEW w \in Wheels, WheelIs(w) PROVE wheel' = w /\ OSTmrNext' = w.next
  OBVIOUS
<1>1. w = [next |-> w.next, prev |-> w.prev, first |-> w.first, entries |-> w.entries]
  BY DEF Wheels
<1> QED
  BY <1>1 DEF WheelIs, wheel

LEMMA TakenGood ==
  ASSUME TypeInv, NEW place \in Places, ListInv(place), NEW x \in Timer, x \notin Unused
  PROVE  /\ Taken(x) \in Wheels /\ Rest(x) \in Sets
         /\ Good(Taken(x), Rest(x), place)
         /\ \A k \in Spoke : x \notin Rest(x)[k]
         /\ Chain(Unused, OSTmrFreeList, Taken(x).next, place)
<1>1. /\ wheel \in Wheels /\ Good(wheel, Listed, place) /\ Listed \in Sets
      /\ Chain(Unused, OSTmrFreeList, OSTmrNext, place) /\ wheel.next = OSTmrNext
      /\ OSTmrMatch \in [Timer -> Nat]
  BY ListedSets, TimerFacts DEF TypeInv, ListInv, wheel
<1>2. Rest(x) \in Sets /\ \A k \in Spoke : x \notin Rest(x)[k]
  BY <1>1 DEF Rest, Sets
<1>3. CASE OSTmrState[x] = "RUNNING"
  <2> DEFINE k == SpokeOf(OSTmrMatch[x])
  <2>1. k \in Spoke /\ x \in Listed[k]
    BY <1>1, <1>3, SpokeTyped, ListedSets
  <2>2. /\ Taken(x) \in Wheels
        /\ Good(Taken(x), [Listed EXCEPT ![k] = @ \ {x}], place)
        /\ \A y \in Timer : y # x =>
             Taken(x).next[y] = IF y = wheel.prev[x] THEN wheel.next[x] ELSE wheel.next[y]
        /\ wheel.prev[x] \in Listed[k] \cup {Null}
    BY <1>1, <1>3, <2>1, UnlinkGood DEF Taken
  <2>3. [Listed EXCEPT ![k] = @ \ {x}] = Rest(x)
    <3>1. \A j \in Spoke : j # k => Listed[j] \ {x} = Listed[j]
      BY <2>1, ListedSets
    <3>2. Listed = [j \in Spoke |-> Listed[j]]
      BY DEF Listed
    <3> HIDE DEF k
    <3> QED
      BY <3>1, <3>2 DEF Rest
  <2>4. \A y \in Unused : y \in Timer /\ y # x /\ y # wheel.prev[x]
    BY <1>3, <2>1, <2>2, ListedSets, TimerFacts DEF Unused
  <2>5. \A y \in Unused : Taken(x).next[y] = OSTmrNext[y]
    BY <1>1, <2>2, <2>4
  <2>6. Chain(Unused, OSTmrFreeList, Taken(x).next, place)
    BY <1>1, <2>5, ChainSame
  <2> QED
    BY <1>2, <2>2, <2>3, <2>6
<1>4. CASE OSTmrState[x] # "RUNNING"
  <2>1. Taken(x) = wheel
    BY <1>4 DEF Taken
  <2>2. Rest(x) = Listed
    <3>1. \A j \in Spoke : Listed[j] \ {x} = Listed[j]
      BY <1>4, ListedSets
    <3>2. Listed = [j \in Spoke |-> Listed[j]]
      BY DEF Listed
    <3> QED
      BY <3>1, <3>2 DEF Rest
  <2> QED
    BY <1>1, <1>2, <2>1, <2>2
<1> QED
  BY <1>3, <1>4

\* A timer that leaves the wheel, or was not in it, and is not in the free list.
LEMMA LeavesWheel ==
  ASSUME TypeInv, NEW place \in Places, ListInv(place), NEW x \in Timer, x \notin Unused,
         NEW state \in {"STOPPED", "COMPLETED"},
         OSTmrState' = [OSTmrState EXCEPT ![x] = state],
         OSTmrMatch' = OSTmrMatch, WheelIs(Taken(x)), OSTmrFreeList' = OSTmrFreeList
  PROVE  wheel' \in Wheels /\ Unused' = Unused /\ ListInv(place)'
<1>1. /\ Taken(x) \in Wheels /\ Good(Taken(x), Rest(x), place)
      /\ Chain(Unused, OSTmrFreeList, Taken(x).next, place)
  BY TakenGood
<1>2. wheel' = Taken(x) /\ OSTmrNext' = Taken(x).next
  BY <1>1, WheelIsNext
<1>3. Listed' = Rest(x)
  <2>1. \A k \in Spoke : {y \in Timer : OSTmrState'[y] = "RUNNING" /\ SpokeOf(OSTmrMatch'[y]) = k}
                           = Listed[k] \ {x}
    BY DEF TypeInv, Listed
  <2> QED
    BY <2>1 DEF Listed, Rest, SpokeOf
<1>4. Unused' = Unused
  BY DEF Unused, TypeInv
<1> QED
  BY <1>1, <1>2, <1>3, <1>4 DEF ListInv

\* A timer that is set to match, whether it was in the wheel or not.
LEMMA EntersWheel ==
  ASSUME TypeInv, NEW place \in Places, ListInv(place), NEW x \in Timer, x \notin Unused,
         NEW match \in Nat,
         OSTmrState' = [OSTmrState EXCEPT ![x] = "RUNNING"],
         OSTmrMatch' = [OSTmrMatch EXCEPT ![x] = match],
         WheelIs(OSTmr_Link(Taken(x), x, match)), OSTmrFreeList' = OSTmrFreeList
  PROVE  /\ wheel' \in Wheels /\ Unused' = Unused
         /\ \E p2 \in Places : /\ ListInv(p2)'
                               /\ \A y \in Timer : y # x => p2[y] = place[y]
<1> DEFINE k  == SpokeOf(match)
           w2 == OSTmr_Link(Taken(x), x, match)
           S2 == [Rest(x) EXCEPT ![k] = @ \cup {x}]
<1>1. /\ Taken(x) \in Wheels /\ Rest(x) \in Sets /\ Good(Taken(x), Rest(x), place)
      /\ \A j \in Spoke : x \notin Rest(x)[j]
      /\ Chain(Unused, OSTmrFreeList, Taken(x).next, place)
  BY TakenGood
<1>2. PICK p2 \in Places :
         /\ k \in Spoke /\ w2 \in Wheels /\ Good(w2, S2, p2)
         /\ w2.next = [Taken(x).next EXCEPT ![x] = Taken(x).first[k]]
         /\ \A y \in Timer : y # x => p2[y] = place[y]
  BY <1>1, LinkGood
<1>3. wheel' = w2 /\ OSTmrNext' = w2.next
  BY <1>2, WheelIsNext
<1>4. Listed' = S2
  <2>1. \A j \in Spoke : {y \in Timer : OSTmrState'[y] = "RUNNING" /\ SpokeOf(OSTmrMatch'[y]) = j}
                           = IF j = k THEN (Listed[j] \ {x}) \cup {x} ELSE Listed[j] \ {x}
    BY DEF TypeInv, Listed
  <2>2. \A j \in Spoke : S2[j] = IF j = k THEN (Listed[j] \ {x}) \cup {x} ELSE Listed[j] \ {x}
    BY <1>2 DEF Rest
  <2>3. S2 = [j \in Spoke |-> S2[j]]
    BY <1>1 DEF Rest
  <2> HIDE DEF S2
  <2> QED
    BY <2>1, <2>2, <2>3 DEF Listed, SpokeOf
<1>5. Unused' = Unused
  BY DEF Unused, TypeInv
<1>6. Chain(Unused, OSTmrFreeList, w2.next, p2)
  <2>1. \A y \in Unused : y \in Timer /\ y # x
    BY DEF Unused
  <2>2. \A y \in Unused : w2.next[y] = Taken(x).next[y] /\ p2[y] = place[y]
    BY <1>1, <1>2, <2>1, WheelFields DEF Links
  <2> HIDE DEF w2
  <2> QED
    BY <1>1, <2>2, ChainSame
<1>7. ListInv(p2)'
  <2> HIDE DEF w2, S2
  <2> QED
    BY <1>2, <1>3, <1>4, <1>5, <1>6 DEF ListInv
<1> QED
  BY <1>2, <1>3, <1>5, <1>7

\* OSTmr_Free: the timer is put in front of the free list.
LEMMA EntersFreeList ==
  ASSUME TypeInv, NEW place \in Places, ListInv(place), NEW x \in Timer, x \notin Unused,
         OSTmrState' = [OSTmrState EXCEPT ![x] = "UNUSED"],
         OSTmrMatch' = [OSTmrMatch EXCEPT ![x] = 0],
         WheelIs(Loose(Taken(x), x, OSTmrFreeList)),
         OSTmrFreeList' = x
  PROVE  /\ wheel' \in Wheels /\ Unused' = Unused \cup {x}
         /\ \E p2 \in Places : /\ ListInv(p2)'
                               /\ \A y \in Timer : y # x => p2[y] = place[y]
<1> DEFINE w  == Taken(x)
           w2 == Loose(w, x, OSTmrFreeList)
<1>1. /\ w \in Wheels /\ Rest(x) \in Sets /\ Good(w, Rest(x), place)
      /\ \A j \in Spoke : x \notin Rest(x)[j]
      /\ Chain(Unused, OSTmrFreeList, w.next, place)
  BY TakenGood
<1>2. w.next \in Links /\ w.prev \in Links
      /\ w = [next |-> w.next, prev |-> w.prev, first |-> w.first, entries |-> w.entries]
  BY <1>1 DEF Wheels
<1>3. /\ w2.next = [w.next EXCEPT ![x] = OSTmrFreeList]
      /\ w2.prev = [w.prev EXCEPT ![x] = Null]
      /\ w2.first = w.first /\ w2.entries = w.entries
      /\ w2 = [next |-> w2.next, prev |-> w2.prev, first |-> w2.first, entries |-> w2.entries]
  BY DEF Loose
<1> HIDE DEF w, w2
<1>4. w2 \in Wheels
  <2>1. w2.next \in Links /\ w2.prev \in Links
    BY <1>2, <1>3 DEF Links, TypeInv
  <2>2. w2.first \in [Spoke -> Timer \cup {Null}] /\ w2.entries \in [Spoke -> Int]
    BY <1>1, <1>3, WheelFields
  <2> QED
    BY <1>3, <2>1, <2>2 DEF Wheels
<1>5. wheel' = w2 /\ OSTmrNext' = w2.next
  BY <1>4, WheelIsNext DEF w, w2
<1>6. Listed' = Rest(x)
  <2>1. \A k \in Spoke : {y \in Timer : OSTmrState'[y] = "RUNNING" /\ SpokeOf(OSTmrMatch'[y]) = k}
                           = Listed[k] \ {x}
    BY DEF TypeInv, Listed
  <2> QED
    BY <2>1 DEF Listed, Rest, SpokeOf
<1>7. Unused' = Unused \cup {x}
  BY DEF Unused, TypeInv
<1>8. Unused \subseteq Timer
  BY DEF Unused
<1>9. PICK p2 \in Places :
        /\ p2 = InFront(place, x, OSTmrFreeList)
        /\ Chain(Unused \cup {x}, x, w2.next, p2)
  BY <1>1, <1>2, <1>3, <1>8, ChainAdd
<1>10. \A y \in Timer : y # x => p2[y] = place[y]
  BY <1>9 DEF InFront, Places
<1>11. ASSUME NEW k \in Spoke
       PROVE  /\ Chain(Rest(x)[k], w2.first[k], w2.next, p2)
              /\ Back(Rest(x)[k], w2.first[k], w2.next, w2.prev)
              /\ w2.entries[k] = Cardinality(Rest(x)[k])
  <2>1. \A y \in Rest(x)[k] : y \in Timer /\ y # x
    BY <1>1 DEF Sets
  <2>2. \A y \in Rest(x)[k] : /\ w2.next[y] = w.next[y] /\ w2.prev[y] = w.prev[y]
                              /\ p2[y] = place[y]
    BY <1>2, <1>3, <1>10, <2>1 DEF Links
  <2>3. /\ Chain(Rest(x)[k], w.first[k], w.next, place)
        /\ Back(Rest(x)[k], w.first[k], w.next, w.prev)
        /\ w.entries[k] = Cardinality(Rest(x)[k])
    BY <1>1 DEF Good
  <2>4. /\ Chain(Rest(x)[k], w.first[k], w2.next, p2)
        /\ Back(Rest(x)[k], w.first[k], w2.next, w2.prev)
    BY <2>2, <2>3, ChainSame, BackSame
  <2> QED
    BY <1>3, <2>3, <2>4
<1>12. Good(w2, Rest(x), p2)
  BY <1>1, <1>11 DEF Good
<1>13. ListInv(p2)'
  BY <1>5, <1>6, <1>7, <1>9, <1>12 DEF ListInv
<1> QED
  BY <1>4, <1>5, <1>7, <1>10, <1>13

\* OSTmr_Alloc: the first timer of the free list leaves it.
LEMMA LeavesFreeList ==
  ASSUME TypeInv, NEW place \in Places, ListInv(place), NEW x, x = OSTmrFreeList, x # Null,
         OSTmrState' = [OSTmrState EXCEPT ![x] = "STOPPED"],
         OSTmrMatch' = OSTmrMatch,
         WheelIs(Loose(wheel, x, Null)),
         OSTmrFreeList' = OSTmrNext[x]
  PROVE  /\ x \in Unused /\ wheel' \in Wheels /\ Unused' = Unused \ {x}
         /\ ListInv(place)'
<1> DEFINE w2 == Loose(wheel, x, Null)
<1>1. /\ wheel \in Wheels /\ Good(wheel, Listed, place) /\ Listed \in Sets
      /\ Chain(Unused, OSTmrFreeList, OSTmrNext, place) /\ wheel.next = OSTmrNext
  BY ListedSets DEF TypeInv, ListInv, wheel
<1>2. x \in Unused /\ x \in Timer /\ Unused \subseteq Timer
  BY <1>1 DEF Chain, Unused
<1>3. wheel.next \in Links /\ wheel.prev \in Links
      /\ wheel = [next |-> wheel.next, prev |-> wheel.prev, first |-> wheel.first,
                  entries |-> wheel.entries]
  BY <1>1 DEF Wheels
<1>4. /\ w2.next = [wheel.next EXCEPT ![x] = Null]
      /\ w2.prev = [wheel.prev EXCEPT ![x] = Null]
      /\ w2.first = wheel.first /\ w2.entries = wheel.entries
      /\ w2 = [next |-> w2.next, prev |-> w2.prev, first |-> w2.first, entries |-> w2.entries]
  BY DEF Loose
<1> HIDE DEF w2
<1>5. w2 \in Wheels
  <2>1. w2.next \in Links /\ w2.prev \in Links
    BY <1>3, <1>4 DEF Links
  <2>2. w2.first \in [Spoke -> Timer \cup {Null}] /\ w2.entries \in [Spoke -> Int]
    BY <1>1, <1>4, WheelFields
  <2> QED
    BY <1>4, <2>1, <2>2 DEF Wheels
<1>6. wheel' = w2 /\ OSTmrNext' = w2.next
  BY <1>5, WheelIsNext DEF w2
<1>7. Listed' = Listed
  <2>1. \A k \in Spoke : {y \in Timer : OSTmrState'[y] = "RUNNING" /\ SpokeOf(OSTmrMatch'[y]) = k}
                           = {y \in Timer : OSTmrState[y] = "RUNNING" /\ SpokeOf(OSTmrMatch[y]) = k}
    BY <1>2 DEF TypeInv, Unused
  <2> QED
    BY <2>1 DEF Listed, SpokeOf
<1>8. Unused' = Unused \ {x}
  BY <1>2 DEF Unused, TypeInv
<1>9. ASSUME NEW k \in Spoke
      PROVE  /\ Chain(Listed[k], w2.first[k], w2.next, place)
             /\ Back(Listed[k], w2.first[k], w2.next, w2.prev)
             /\ w2.entries[k] = Cardinality(Listed[k])
  <2>1. \A y \in Listed[k] : y \in Timer /\ y # x
    BY <1>2, ListedSets DEF Sets, Unused
  <2>2. \A y \in Listed[k] : w2.next[y] = wheel.next[y] /\ w2.prev[y] = wheel.prev[y]
    BY <1>3, <1>4, <2>1 DEF Links
  <2>3. /\ Chain(Listed[k], wheel.first[k], wheel.next, place)
        /\ Back(Listed[k], wheel.first[k], wheel.next, wheel.prev)
        /\ wheel.entries[k] = Cardinality(Listed[k])
    BY <1>1 DEF Good
  <2>4. /\ Chain(Listed[k], wheel.first[k], w2.next, place)
        /\ Back(Listed[k], wheel.first[k], w2.next, w2.prev)
    BY <2>2, <2>3, ChainSame, BackSame
  <2> QED
    BY <1>4, <2>3, <2>4
<1>10. Good(w2, Listed, place)
  BY <1>1, <1>9 DEF Good
<1>11. Chain(Unused \ {x}, OSTmrNext[x], w2.next, place)
  <2>1. \A y \in Unused : y # x => w2.next[y] = OSTmrNext[y]
    BY <1>1, <1>2, <1>3, <1>4 DEF Links
  <2>2. Null \notin Unused /\ \A y \in Unused : place[y] \in Int
    BY <1>2, TimerFacts DEF Places
  <2> QED
    BY <1>1, <1>2, <2>1, <2>2, FirstLeaves
<1>12. ListInv(place)'
  BY <1>6, <1>7, <1>8, <1>10, <1>11 DEF ListInv
<1> QED
  BY <1>2, <1>5, <1>6, <1>8, <1>12

-----------------------------------------------------------------------------
(* The walk                                                                *)

\* A service that leaves the noted timer alone, and leaves the one it is about
\* not due, changes nothing for the walk.
LEMMA WalkKept ==
  ASSUME TypeInv, NEW place \in Places, WalkInv(place), NEW x \in Timer, x # Ahead,
         UNCHANGED taskVars, NEW p2 \in Places, ~Due(x)',
         \A y \in Timer : y # x => /\ OSTmrState'[y] = OSTmrState[y]
                                   /\ OSTmrMatch'[y] = OSTmrMatch[y]
                                   /\ p2[y] = place[y]
  PROVE  WalkInv(p2)'
<1>1. Ahead' = Ahead /\ OSTmrTime' = OSTmrTime
  BY DEF Ahead, taskVars
<1>2. \A y \in Timer : Due(y)' => y # x /\ Due(y)
  BY <1>1 DEF Due
<1>3. Ahead # Null => Ahead \in Timer /\ Ahead \in Listed[SpokeOf(OSTmrTime)]
  BY DEF WalkInv
<1>4. SpokeOf(OSTmrTime) \in Spoke
  BY SpokeTyped, TimerFacts DEF TypeInv
<1>5. Ahead # Null => Ahead \in Timer /\ Ahead \in Listed'[SpokeOf(OSTmrTime)]
  BY <1>3, <1>4 DEF Listed, SpokeOf
<1>6. \A y \in Timer : Due(y)' => Ahead # Null /\ p2[Ahead] <= p2[y]
  BY <1>2, <1>3 DEF WalkInv
<1>7. SpokeOf(OSTmrTime)' = SpokeOf(OSTmrTime)
  BY <1>1 DEF SpokeOf
<1> QED
  BY <1>1, <1>5, <1>6, <1>7 DEF WalkInv

\* Services are called when the task waits, or by a callback.
LEMMA NotNoted ==
  ASSUME Careful, NEW x \in Timer, Called, MayTouch(x)
  PROVE  x # Ahead
BY TimerFacts DEF Called, MayTouch, Ahead

LEMMA CreateKeeps ==
  ASSUME IInv, NEW k \in Kind, OSTmrCreate(k)
  PROVE  IInv'
<1>0. PICK x : x = OSTmrFreeList
  OBVIOUS
<1>1. PICK place \in Places : ListInv(place) /\ WalkInv(place)
  BY DEF IInv, Placed
<1>2. /\ x # Null /\ UNCHANGED taskVars
      /\ OSTmrState' = [OSTmrState EXCEPT ![x] = "STOPPED"]
      /\ OSTmrMatch' = OSTmrMatch /\ OSTmrFreeList' = OSTmrNext[x]
      /\ OSTmrUsed' = OSTmrUsed + 1 /\ kind' = [kind EXCEPT ![x] = k]
      /\ WheelIs(Loose(wheel, x, Null))
  BY <1>0 DEF OSTmrCreate
<1>3. x \in Unused /\ wheel' \in Wheels /\ Unused' = Unused \ {x} /\ ListInv(place)'
  BY <1>0, <1>1, <1>2, LeavesFreeList DEF IInv
<1>4. x \in Timer /\ OSTmrState[x] = "UNUSED"
  BY <1>3 DEF Unused
<1>5. x # Ahead
  <2>1. OSTmrTime \in Nat
    BY TimerFacts DEF IInv, TypeInv
  <2>2. Ahead # Null => OSTmrState[Ahead] = "RUNNING"
    BY <1>1, <2>1, SpokeTyped, ListedSets DEF WalkInv
  <2> QED
    BY <1>2, <1>4, <2>2
<1>6. WalkInv(place)'
  <2>1. ~Due(x)'
    BY <1>2, <1>4 DEF Due, IInv, TypeInv
  <2>2. \A y \in Timer : y # x => OSTmrState'[y] = OSTmrState[y] /\ OSTmrMatch'[y] = OSTmrMatch[y]
    BY <1>2 DEF IInv, TypeInv
  <2> QED
    BY <1>1, <1>2, <1>4, <1>5, <2>1, <2>2, WalkKept DEF IInv
<1>7. TypeInv'
  <2>1. OSTmrFreeList' \in Timer \cup {Null}
    BY <1>2, <1>4 DEF IInv, TypeInv, wheel, Wheels, Links
  <2> QED
    BY <1>2, <1>3, <1>4, <2>1 DEF IInv, TypeInv, taskVars
<1>8. KindInv'
  BY <1>2, <1>4 DEF IInv, TypeInv, KindInv
<1>9. CountInv'
  <2>1. Cardinality(Unused \ {x}) = Cardinality(Unused) - 1 /\ Cardinality(Unused) \in Nat
    BY <1>3, Counts DEF Unused
  <2> QED
    BY <1>2, <1>3, <2>1, TimerFacts DEF IInv, CountInv
<1> QED
  BY <1>3, <1>6, <1>7, <1>8, <1>9 DEF IInv, Placed

LEMMA StartKeeps ==
  ASSUME Careful, IInv, NEW x \in Timer, OSTmrStart(x)
  PROVE  IInv'
<1>1. PICK place \in Places : ListInv(place) /\ WalkInv(place)
  BY DEF IInv, Placed
<1>2. /\ Called /\ MayTouch(x) /\ OSTmrState[x] # "UNUSED" /\ UNCHANGED taskVars
      /\ OSTmrState' = [OSTmrState EXCEPT ![x] = "RUNNING"]
      /\ OSTmrMatch' = [OSTmrMatch EXCEPT ![x] = MatchStart(x)]
      /\ WheelIs(OSTmr_Link(Taken(x), x, MatchStart(x)))
      /\ UNCHANGED <<kind, OSTmrFreeList, OSTmrUsed>>
  BY DEF OSTmrStart, Taken
<1>3. MatchStart(x) \in 0..TimeMod - 1 /\ MatchStart(x) # OSTmrTime
  BY <1>2, MatchFacts DEF IInv, KindInv
<1>4. /\ wheel' \in Wheels /\ Unused' = Unused
      /\ \E p2 \in Places : ListInv(p2)' /\ \A y \in Timer : y # x => p2[y] = place[y]
  <2>1. x \notin Unused /\ MatchStart(x) \in Nat
    BY <1>2, <1>3, TimerFacts DEF Unused
  <2> QED
    BY <1>1, <1>2, <2>1, EntersWheel DEF IInv
<1>5. PICK p2 \in Places : ListInv(p2)' /\ \A y \in Timer : y # x => p2[y] = place[y]
  BY <1>4
<1>6. WalkInv(p2)'
  <2>1. ~Due(x)'
    BY <1>2, <1>3 DEF Due, IInv, TypeInv, taskVars
  <2>2. \A y \in Timer : y # x => OSTmrState'[y] = OSTmrState[y] /\ OSTmrMatch'[y] = OSTmrMatch[y]
    BY <1>2 DEF IInv, TypeInv
  <2> QED
    BY <1>1, <1>2, <1>5, <2>1, <2>2, NotNoted, WalkKept DEF IInv
<1>7. TypeInv'
  BY <1>2, <1>3, <1>4 DEF IInv, TypeInv, taskVars
<1>8. KindInv'
  BY <1>2 DEF IInv, TypeInv, KindInv
<1>9. CountInv'
  BY <1>2, <1>4 DEF IInv, CountInv
<1> QED
  BY <1>5, <1>6, <1>7, <1>8, <1>9 DEF IInv, Placed

LEMMA StopKeeps ==
  ASSUME Careful, IInv, NEW x \in Timer, OSTmrStop(x)
  PROVE  IInv'
<1>1. PICK place \in Places : ListInv(place) /\ WalkInv(place)
  BY DEF IInv, Placed
<1>2. /\ Called /\ MayTouch(x) /\ OSTmrState[x] = "RUNNING" /\ UNCHANGED taskVars
      /\ OSTmrState' = [OSTmrState EXCEPT ![x] = "STOPPED"]
      /\ WheelIs(Taken(x))
      /\ UNCHANGED <<kind, OSTmrMatch, OSTmrFreeList, OSTmrUsed>>
  BY DEF OSTmrStop, Taken
<1>3. wheel' \in Wheels /\ Unused' = Unused /\ ListInv(place)'
  BY <1>1, <1>2, LeavesWheel DEF IInv, Unused
<1>4. WalkInv(place)'
  <2>1. ~Due(x)'
    BY <1>2 DEF Due, IInv, TypeInv
  <2>2. \A y \in Timer : y # x => OSTmrState'[y] = OSTmrState[y] /\ OSTmrMatch'[y] = OSTmrMatch[y]
    BY <1>2 DEF IInv, TypeInv
  <2> QED
    BY <1>1, <1>2, <2>1, <2>2, NotNoted, WalkKept DEF IInv
<1>5. TypeInv'
  BY <1>2, <1>3 DEF IInv, TypeInv, taskVars
<1>6. KindInv'
  BY <1>2 DEF IInv, TypeInv, KindInv
<1>7. CountInv'
  BY <1>2, <1>3 DEF IInv, CountInv
<1> QED
  BY <1>3, <1>4, <1>5, <1>6, <1>7 DEF IInv, Placed

LEMMA DelKeeps ==
  ASSUME Careful, IInv, NEW x \in Timer, OSTmrDel(x)
  PROVE  IInv'
<1>1. PICK place \in Places : ListInv(place) /\ WalkInv(place)
  BY DEF IInv, Placed
<1>2. /\ Called /\ MayTouch(x) /\ OSTmrState[x] # "UNUSED" /\ UNCHANGED taskVars
      /\ OSTmrState' = [OSTmrState EXCEPT ![x] = "UNUSED"]
      /\ OSTmrMatch' = [OSTmrMatch EXCEPT ![x] = 0]
      /\ WheelIs(Loose(Taken(x), x, OSTmrFreeList))
      /\ OSTmrFreeList' = x /\ OSTmrUsed' = OSTmrUsed - 1
      /\ kind' = [kind EXCEPT ![x] = NoKind]
  BY DEF OSTmrDel, Taken
<1>3. x \notin Unused
  BY <1>2 DEF Unused
<1>4. /\ wheel' \in Wheels /\ Unused' = Unused \cup {x}
      /\ \E p2 \in Places : ListInv(p2)' /\ \A y \in Timer : y # x => p2[y] = place[y]
  BY <1>1, <1>2, <1>3, EntersFreeList DEF IInv
<1>5. PICK p2 \in Places : ListInv(p2)' /\ \A y \in Timer : y # x => p2[y] = place[y]
  BY <1>4
<1>6. WalkInv(p2)'
  <2>1. ~Due(x)'
    BY <1>2 DEF Due, IInv, TypeInv
  <2>2. \A y \in Timer : y # x => OSTmrState'[y] = OSTmrState[y] /\ OSTmrMatch'[y] = OSTmrMatch[y]
    BY <1>2 DEF IInv, TypeInv
  <2> QED
    BY <1>1, <1>2, <1>5, <2>1, <2>2, NotNoted, WalkKept DEF IInv
<1>7. TypeInv'
  <2>1. 0 \in 0..TimeMod - 1
    BY TimerFacts
  <2> QED
    BY <1>2, <1>4, <2>1 DEF IInv, TypeInv, taskVars
<1>8. KindInv'
  BY <1>2 DEF IInv, TypeInv, KindInv
<1>9. CountInv'
  <2>1. Cardinality(Unused \cup {x}) = Cardinality(Unused) + 1 /\ Cardinality(Unused) \in Nat
    BY <1>3, Counts DEF Unused
  <2> QED
    BY <1>2, <1>4, <2>1, TimerFacts DEF IInv, CountInv
<1> QED
  BY <1>5, <1>6, <1>7, <1>8, <1>9 DEF IInv, Placed

\* A timer the walk comes to is in the wheel; so is, behind it, what follows it.
LEMMA AheadFacts ==
  ASSUME TypeInv, NEW place \in Places, ListInv(place), WalkInv(place), Ahead # Null
  PROVE  /\ Ahead \in Timer /\ OSTmrState[Ahead] = "RUNNING"
         /\ LET k == SpokeOf(OSTmrTime)
                y == OSTmrNext[Ahead]
            IN /\ k \in Spoke /\ SpokeOf(OSTmrMatch[Ahead]) = k
               /\ y # Null => y \in Timer /\ y # Ahead /\ y \in Listed[k]
               /\ \A z \in Timer : Due(z) /\ z # Ahead => y # Null /\ place[y] <= place[z]
<1> DEFINE k == SpokeOf(OSTmrTime)
           y == OSTmrNext[Ahead]
<1>1. k \in Spoke
  BY SpokeTyped, TimerFacts DEF TypeInv
<1>2. Ahead \in Timer /\ Ahead \in Listed[k]
  BY DEF WalkInv
<1>3. OSTmrState[Ahead] = "RUNNING" /\ SpokeOf(OSTmrMatch[Ahead]) = k
  BY <1>1, <1>2, ListedSets
<1>4. Chain(Listed[k], OSTmrFirst[k], OSTmrNext, place)
  BY <1>1 DEF ListInv, Good, wheel
<1>5. \A z \in Listed[k] : z \in Timer /\ place[z] \in Int
  BY <1>1, ListedSets DEF Sets, Places
<1>6. y # Null => y \in Timer /\ y # Ahead /\ y \in Listed[k]
  <2>1. y # Null => y \in Listed[k] /\ place[Ahead] < place[y]
    BY <1>2, <1>4, TimerFacts DEF Chain
  <2> QED
    BY <1>2, <1>5, <2>1
<1>7. ASSUME NEW z \in Timer, Due(z), z # Ahead
      PROVE  y # Null /\ place[y] <= place[z]
  <2>1. z \in Listed[k] /\ place[Ahead] <= place[z]
    BY <1>1, <1>7, ListedSets DEF Due, WalkInv
  <2>2. place[Ahead] # place[z]
    BY <1>2, <1>4, <1>7, <2>1 DEF Chain
  <2>3. place[Ahead] < place[z]
    BY <1>2, <1>5, <2>1, <2>2
  <2> QED
    BY <1>2, <1>4, <2>1, <2>3 DEF Chain
<1> QED
  BY <1>1, <1>2, <1>3, <1>6, <1>7

LEMMA SignalKeeps ==
  ASSUME IInv, OSTmrSignal
  PROVE  IInv'
<1>1. /\ UNCHANGED <<tmrVars, OSTmrTime, pc, ptmr, ptmr_next>>
      /\ signals' \in 0..MaxSignals
  BY TimerFacts DEF OSTmrSignal, IInv, TypeInv
<1>2. TypeInv' /\ KindInv' /\ CountInv'
  BY <1>1 DEF IInv, TypeInv, KindInv, CountInv, Unused, wheel, tmrVars, linkVars
<1>3. Placed'
  BY <1>1 DEF IInv, Placed, ListInv, WalkInv, Listed, Unused, Ahead, Due, wheel, tmrVars, linkVars,
     SpokeOf
<1> QED
  BY <1>2, <1>3 DEF IInv

\* The steps of the walk that touch no timer.
LEMMA WalkSteps ==
  ASSUME IInv, OSTmr_Task \/ Skip \/ CallbackEnd \/ WalkEnd
  PROVE  IInv'
<1>1. PICK place \in Places : ListInv(place) /\ WalkInv(place)
  BY DEF IInv, Placed
<1>2. UNCHANGED tmrVars
  BY DEF OSTmr_Task, Skip, CallbackEnd, WalkEnd
<1>3. KindInv' /\ CountInv' /\ ListInv(place)' /\ wheel' = wheel /\ Listed' = Listed
  BY <1>1, <1>2 DEF IInv, KindInv, CountInv, Unused, ListInv, Listed, wheel, tmrVars, linkVars,
     SpokeOf
<1>t. TypeInv
  BY DEF IInv
<1>4. CASE OSTmr_Task
  <2>1. /\ pc = "pend" /\ signals > 0 /\ signals' = signals - 1 /\ pc' = "walk"
        /\ OSTmrTime' = (OSTmrTime + 1) % TimeMod
        /\ ptmr' = OSTmrFirst[SpokeOf(OSTmrTime')] /\ ptmr_next' = ptmr_next
    BY <1>4 DEF OSTmr_Task
  <2>2. OSTmrTime' \in 0..TimeMod - 1 /\ OSTmrTime' \in Nat
    BY <1>t, <2>1, TimerFacts DEF TypeInv
  <2>3. PICK k : k = SpokeOf(OSTmrTime') /\ k \in Spoke
    BY <2>2, SpokeTyped
  <2>4. Chain(Listed[k], OSTmrFirst[k], OSTmrNext, place)
    BY <1>1, <2>3 DEF ListInv, Good, wheel
  <2>5. Ahead' = OSTmrFirst[k]
    BY <2>1, <2>3 DEF Ahead
  <2>6. Ahead' # Null => Ahead' \in Timer /\ Ahead' \in Listed[k]
    BY <2>3, <2>4, <2>5, ListedSets DEF Chain, Sets
  <2>7. \A x \in Timer : Due(x)' => x \in Listed[k]
    BY <1>2, <2>3, ListedSets DEF Due, tmrVars
  <2>8. \A x \in Timer : Due(x)' => Ahead' # Null /\ place[Ahead'] <= place[x]
    BY <2>4, <2>5, <2>7 DEF Chain
  <2>9. SpokeOf(OSTmrTime)' = k
    BY <2>3 DEF SpokeOf
  <2>10. WalkInv(place)'
    BY <1>3, <2>6, <2>8, <2>9 DEF WalkInv
  <2>11. TypeInv'
    <3>1. signals' \in 0..MaxSignals
      BY <1>t, <2>1, TimerFacts DEF TypeInv
    <3>2. ptmr' \in Timer \cup {Null}
      BY <2>1, <2>5, <2>6, <2>3
    <3> QED
      BY <1>t, <1>2, <1>3, <2>1, <2>2, <3>1, <3>2 DEF TypeInv, tmrVars
  <2> QED
    BY <1>3, <2>10, <2>11 DEF IInv, Placed
<1>5. CASE Skip
  <2>1. /\ pc = "walk" /\ ptmr # Null /\ OSTmrTime # OSTmrMatch[ptmr] /\ Ahead = ptmr
        /\ ptmr' = OSTmrNext[ptmr] /\ UNCHANGED <<OSTmrTime, signals, pc, ptmr_next>>
    BY <1>5 DEF Skip, Ahead
  <2>2. /\ Ahead' = OSTmrNext[ptmr] /\ ~Due(Ahead)
    BY <2>1 DEF Ahead, Due
  <2>3. PICK k : k = SpokeOf(OSTmrTime)
    OBVIOUS
  <2>4. /\ Ahead' # Null => Ahead' \in Timer /\ Ahead' \in Listed[k]
        /\ \A z \in Timer : Due(z) => Ahead' # Null /\ place[Ahead'] <= place[z]
    BY <1>t, <1>1, <2>1, <2>2, <2>3, AheadFacts
  <2>5. \A z \in Timer : Due(z)' <=> Due(z)
    BY <1>2, <2>1 DEF Due, tmrVars
  <2>6. SpokeOf(OSTmrTime)' = k
    BY <2>1, <2>3 DEF SpokeOf
  <2>7. WalkInv(place)'
    BY <1>3, <2>4, <2>5, <2>6 DEF WalkInv
  <2>8. TypeInv'
    <3>1. ptmr' \in Timer \cup {Null}
      BY <2>1, <2>2, <2>4
    <3> QED
      BY <1>t, <1>2, <1>3, <2>1, <3>1 DEF TypeInv, tmrVars
  <2> QED
    BY <1>3, <2>7, <2>8 DEF IInv, Placed
<1>6. CASE CallbackEnd \/ WalkEnd
  <2>1. /\ UNCHANGED <<OSTmrTime, signals>> /\ pc' \in {"walk", "pend"}
        /\ ptmr' \in {ptmr, ptmr_next} /\ ptmr_next' \in {ptmr_next, Null}
        /\ Ahead' = Ahead
    BY <1>6 DEF CallbackEnd, WalkEnd, Passed, Ahead
  <2>2. WalkInv(place)'
    <3>1. \A z \in Timer : Due(z)' <=> Due(z)
      BY <1>2, <2>1 DEF Due, tmrVars
    <3>2. SpokeOf(OSTmrTime)' = SpokeOf(OSTmrTime)
      BY <2>1 DEF SpokeOf
    <3> QED
      BY <1>1, <1>3, <2>1, <3>1, <3>2 DEF WalkInv
  <2>3. TypeInv'
    BY <1>t, <1>2, <1>3, <2>1 DEF TypeInv, tmrVars
  <2> QED
    BY <1>3, <2>2, <2>3 DEF IInv, Placed
<1> QED
  BY <1>4, <1>5, <1>6

LEMMA ExpireKeeps ==
  ASSUME IInv, Expire
  PROVE  IInv'
<1>t. TypeInv /\ KindInv
  BY DEF IInv
<1>1. PICK place \in Places : ListInv(place) /\ WalkInv(place)
  BY DEF IInv, Placed
<1>2. PICK x : x = ptmr
  OBVIOUS
<1>3. /\ pc = "walk" /\ x # Null /\ Ahead = x /\ OSTmrMatch[x] = OSTmrTime
      /\ ptmr_next' = OSTmrNext[x] /\ pc' = "callback"
      /\ UNCHANGED <<kind, OSTmrFreeList, OSTmrUsed, OSTmrTime, signals, ptmr>>
  BY <1>2 DEF Expire, Ahead
<1>4. x \in Timer /\ OSTmrState[x] = "RUNNING" /\ x \notin Unused
  BY <1>t, <1>1, <1>3, AheadFacts DEF Unused
<1>5. PICK k : k = SpokeOf(OSTmrTime)
  OBVIOUS
<1>6. PICK y : y = OSTmrNext[x]
  OBVIOUS
<1>7. /\ k \in Spoke
      /\ y # Null => y \in Timer /\ y # x /\ y \in Listed[k]
      /\ \A z \in Timer : Due(z) /\ z # x => y # Null /\ place[y] <= place[z]
  BY <1>t, <1>1, <1>3, <1>5, <1>6, AheadFacts
<1>8. kind[x] \in Kind
  BY <1>t, <1>4 DEF KindInv
<1>9. /\ wheel' \in Wheels /\ Unused' = Unused
      /\ OSTmrMatch' \in [Timer -> 0..TimeMod - 1]
      /\ \A z \in Timer : z # x => OSTmrMatch'[z] = OSTmrMatch[z]
      /\ \E s \in {"RUNNING", "COMPLETED"} : OSTmrState' = [OSTmrState EXCEPT ![x] = s]
      /\ ~Due(x)'
      /\ \E p2 \in Places : ListInv(p2)' /\ \A z \in Timer : z # x => p2[z] = place[z]
  <2>1. CASE kind[x].periodic
    <3>1. /\ OSTmrState' = [OSTmrState EXCEPT ![x] = "RUNNING"]
          /\ OSTmrMatch' = [OSTmrMatch EXCEPT ![x] = MatchPeriodic(x)]
          /\ WheelIs(OSTmr_Link(Taken(x), x, MatchPeriodic(x)))
      BY <1>2, <1>4, <2>1 DEF Expire, Taken
    <3>2. /\ MatchPeriodic(x) \in 0..TimeMod - 1 /\ MatchPeriodic(x) \in Nat
          /\ MatchPeriodic(x) # OSTmrTime
      BY <1>t, <1>4, <1>8, <2>1, MatchFacts, TimerFacts
    <3>3. /\ wheel' \in Wheels /\ Unused' = Unused
          /\ \E p2 \in Places : ListInv(p2)' /\ \A z \in Timer : z # x => p2[z] = place[z]
      BY <1>t, <1>1, <1>3, <1>4, <3>1, <3>2, EntersWheel
    <3>4. ~Due(x)'
      BY <1>t, <1>3, <1>4, <3>1, <3>2 DEF Due, TypeInv
    <3> QED
      BY <1>t, <1>4, <3>1, <3>2, <3>3, <3>4 DEF TypeInv
  <2>2. CASE ~kind[x].periodic
    <3>1. /\ OSTmrState' = [OSTmrState EXCEPT ![x] = "COMPLETED"]
          /\ OSTmrMatch' = OSTmrMatch
          /\ WheelIs(Taken(x))
      BY <1>2, <1>4, <2>2 DEF Expire, Taken
    <3>2. /\ wheel' \in Wheels /\ Unused' = Unused /\ ListInv(place)'
      BY <1>t, <1>1, <1>3, <1>4, <3>1, LeavesWheel
    <3>3. ~Due(x)'
      BY <1>t, <1>4, <3>1 DEF Due, TypeInv
    <3> QED
      BY <1>t, <1>4, <3>1, <3>2, <3>3 DEF TypeInv
  <2> QED
    BY <2>1, <2>2
<1>10. PICK p2 \in Places : ListInv(p2)' /\ \A z \in Timer : z # x => p2[z] = place[z]
  BY <1>9
<1>11. /\ OSTmrState' \in [Timer -> {"UNUSED", "STOPPED", "RUNNING", "COMPLETED"}]
       /\ OSTmrState'[x] # "UNUSED"
       /\ \A z \in Timer : z # x => OSTmrState'[z] = OSTmrState[z]
  BY <1>t, <1>4, <1>9 DEF TypeInv
<1>12. Ahead' = y
  BY <1>3, <1>6 DEF Ahead
<1>13. WalkInv(p2)'
  <2>1. \A z \in Timer : Due(z)' => z # x /\ Due(z)
    BY <1>3, <1>9, <1>11 DEF Due
  <2>2. \A z \in Timer : Due(z)' => y # Null /\ p2[y] <= p2[z]
    BY <1>7, <1>10, <2>1
  <2>3. y # Null => y \in Timer /\ y \in Listed'[k]
    <3>1. y # Null => OSTmrState[y] = "RUNNING" /\ SpokeOf(OSTmrMatch[y]) = k
      BY <1>7, ListedSets
    <3> QED
      BY <1>7, <1>9, <1>11, <3>1 DEF Listed, SpokeOf
  <2>4. SpokeOf(OSTmrTime)' = k
    BY <1>3, <1>5 DEF SpokeOf
  <2> QED
    BY <1>12, <2>2, <2>3, <2>4 DEF WalkInv
<1>14. TypeInv'
  <2>1. ptmr_next' \in Timer \cup {Null}
    BY <1>3, <1>6, <1>7
  <2> QED
    BY <1>t, <1>3, <1>9, <1>11, <2>1 DEF TypeInv
<1>15. KindInv' /\ CountInv'
  BY <1>3, <1>8, <1>9, <1>11 DEF IInv, KindInv, CountInv
<1> QED
  BY <1>10, <1>13, <1>14, <1>15 DEF IInv, Placed

LEMMA InitKeeps == Init => IInv
<1> SUFFICES ASSUME Init PROVE IInv
  OBVIOUS
<1>1. /\ OS_TMR_CFG_MAX \in Nat /\ OS_TMR_CFG_MAX > 0 /\ 0 \in 0..TimeMod - 1
      /\ 0 \in 0..MaxSignals /\ 1 \in Timer
  BY TimerFacts DEF Timer
<1>2. Unused = Timer /\ \A k \in Spoke : Listed[k] = {}
  BY DEF Init, Unused, Listed
<1>3. wheel \in Wheels /\ OSTmrNext \in Links
  <2>1. OSTmrNext \in Links /\ OSTmrPrev \in Links
    <3>1. \A x \in Timer : x # OS_TMR_CFG_MAX => x + 1 \in Timer
      BY <1>1 DEF Timer
    <3> QED
      BY <3>1 DEF Init, Links
  <2>2. OSTmrFirst \in [Spoke -> Timer \cup {Null}] /\ OSTmrEntries \in [Spoke -> Int]
    BY DEF Init
  <2> QED
    BY <2>1, <2>2 DEF wheel, Wheels
<1>4. TypeInv
  BY <1>1, <1>3 DEF Init, TypeInv
<1>5. KindInv
  BY DEF Init, KindInv
<1>6. CountInv
  BY <1>1, <1>2, Counts DEF Init, CountInv
<1> DEFINE place == [x \in Timer |-> x]
<1>7. place \in Places /\ \A x \in Timer : place[x] = x
  BY DEF Places, Timer
<1> HIDE DEF place
<1>8. Good(wheel, Listed, place)
  <2>1. \A k \in Spoke : OSTmrFirst[k] = Null /\ OSTmrEntries[k] = 0
    BY DEF Init
  <2>2. \A k \in Spoke : /\ Chain({}, OSTmrFirst[k], OSTmrNext, place)
                         /\ Back({}, OSTmrFirst[k], OSTmrNext, OSTmrPrev)
    BY <2>1 DEF Chain, Back
  <2>3. Cardinality({}) = 0
    BY FS_EmptySet
  <2> QED
    BY <1>2, <2>1, <2>2, <2>3 DEF Good, wheel
<1>9. Chain(Unused, OSTmrFreeList, OSTmrNext, place)
  <2>1. OSTmrFreeList = 1 /\ \A x \in Timer : OSTmrNext[x] = IF x = OS_TMR_CFG_MAX THEN Null ELSE x + 1
    BY DEF Init
  <2>2. \A x \in Timer : x \in Int /\ 1 <= x /\ x <= OS_TMR_CFG_MAX
                         /\ (x # OS_TMR_CFG_MAX => x + 1 \in Timer)
    BY <1>1 DEF Timer
  <2> QED
    BY <1>1, <1>2, <1>7, <2>1, <2>2, TimerFacts DEF Chain
<1>10. WalkInv(place)
  BY DEF Init, WalkInv, Ahead, Due
<1> QED
  BY <1>4, <1>5, <1>6, <1>7, <1>8, <1>9, <1>10 DEF IInv, Placed, ListInv

LEMMA NextKeeps == Careful /\ IInv /\ [Next]_vars => IInv'
<1> SUFFICES ASSUME Careful, IInv, [Next]_vars PROVE IInv'
  OBVIOUS
<1>1. CASE UNCHANGED vars
  BY <1>1 DEF vars, tmrVars, linkVars, taskVars, IInv, TypeInv, KindInv, CountInv, Placed, ListInv,
     WalkInv, Listed, Unused, Ahead, Due, wheel, SpokeOf
<1>2. CASE TaskStep
  BY <1>2, WalkSteps, ExpireKeeps DEF TaskStep
<1>3. CASE OSTmrSignal
  BY <1>3, SignalKeeps
<1>4. CASE \E k \in Kind : OSTmrCreate(k)
  BY <1>4, CreateKeeps
<1>5. CASE \E x \in Timer : OSTmrStart(x) \/ OSTmrStop(x) \/ OSTmrDel(x)
  BY <1>5, StartKeeps, StopKeeps, DelKeeps
<1> QED
  BY <1>1, <1>2, <1>3, <1>4, <1>5 DEF Next


LEMMA AlwaysIInv == ASSUME Careful PROVE Spec => []IInv
BY InitKeeps, NextKeeps, PTL DEF Spec

\* The type invariant: the counts of the wheel and of the timers in use stay in
\* range because they are the sizes of the lists.
THEOREM TmrTyped == ASSUME Careful PROVE Spec => []TmrTypeOK
<1>1. IInv => TmrTypeOK
  <2> SUFFICES ASSUME IInv PROVE TmrTypeOK
    OBVIOUS
  <2>1. PICK place \in Places : ListInv(place)
    BY DEF IInv, Placed
  <2>2. /\ OSTmrNext \in Links /\ OSTmrPrev \in Links
        /\ OSTmrFirst \in [Spoke -> Timer \cup {Null}] /\ OSTmrEntries \in [Spoke -> Int]
    <3>1. /\ wheel.next = OSTmrNext /\ wheel.prev = OSTmrPrev
          /\ wheel.first = OSTmrFirst /\ wheel.entries = OSTmrEntries
      BY DEF wheel
    <3> QED
      BY <3>1, WheelFields DEF IInv, TypeInv
  <2>3. \A k \in Spoke : OSTmrEntries[k] \in 0..OS_TMR_CFG_MAX
    <3> SUFFICES ASSUME NEW k \in Spoke PROVE OSTmrEntries[k] \in 0..OS_TMR_CFG_MAX
      OBVIOUS
    <3>1. OSTmrEntries[k] = Cardinality(Listed[k])
      BY <2>1 DEF ListInv, Good, wheel
    <3>2. Listed[k] \subseteq Timer
      BY DEF Listed
    <3>3. Cardinality(Listed[k]) \in Nat /\ Cardinality(Listed[k]) <= OS_TMR_CFG_MAX
      BY <3>2, Counts
    <3> QED
      BY <3>1, <3>3, TimerFacts
  <2>4. OSTmrUsed \in 0..OS_TMR_CFG_MAX
    <3>1. Cardinality(Unused) \in Nat /\ Cardinality(Unused) <= OS_TMR_CFG_MAX
      BY Counts DEF Unused
    <3> QED
      BY <3>1, TimerFacts DEF IInv, CountInv
  <2> QED
    BY <2>2, <2>3, <2>4 DEF IInv, TypeInv, TmrTypeOK, Links
<1> QED
  BY <1>1, AlwaysIInv, PTL


-----------------------------------------------------------------------------
(***************************************************************************)
(* The wheel implements the timers of Timers: the safety half of           *)
(* TimersImplement.                                                        *)
(***************************************************************************)

\* What is left to a timer that runs: nothing when it is due.
LEMMA LeftFacts ==
  ASSUME TypeInv, NEW x \in Timer
  PROVE  /\ OSTmrMatch[x] \in 0..TimeMod - 1 /\ OSTmrTime \in 0..TimeMod - 1
         /\ OSTmrState[x] # "RUNNING" => Left[x] = 0
         /\ OSTmrState[x] = "RUNNING" =>
              Left[x] = IF OSTmrTime <= OSTmrMatch[x] THEN OSTmrMatch[x] - OSTmrTime
                        ELSE OSTmrMatch[x] - OSTmrTime + TimeMod
         /\ OSTmrState[x] = "RUNNING" /\ Left[x] = 0 <=> Due(x)
<1>1. OSTmrMatch[x] \in 0..TimeMod - 1 /\ OSTmrTime \in 0..TimeMod - 1
  BY DEF TypeInv
<1>2. OSTmrState[x] # "RUNNING" => Left[x] = 0
  BY DEF Left
<1>3. OSTmrState[x] = "RUNNING" =>
        Left[x] = IF OSTmrTime <= OSTmrMatch[x] THEN OSTmrMatch[x] - OSTmrTime
                  ELSE OSTmrMatch[x] - OSTmrTime + TimeMod
  BY <1>1, TimeLeft DEF Left
<1>4. OSTmrState[x] = "RUNNING" /\ Left[x] = 0 <=> Due(x)
  BY <1>1, <1>3, TimerFacts DEF Due
<1> QED
  BY <1>1, <1>2, <1>3, <1>4

\* A step that sets one timer leaves the others the ticks they have.
LEMMA OneLeft ==
  ASSUME NEW x \in Timer, UNCHANGED OSTmrTime,
         \A y \in Timer : y # x => /\ OSTmrState'[y] = OSTmrState[y]
                                   /\ OSTmrMatch'[y] = OSTmrMatch[y]
  PROVE  Left' = [Left EXCEPT ![x] = IF OSTmrState'[x] = "RUNNING"
                                     THEN (OSTmrMatch'[x] - OSTmrTime) % TimeMod ELSE 0]
BY DEF Left

LEMMA TickRefined ==
  ASSUME IInv, OSTmr_Task
  PROVE  T!Tick
<1>1. /\ pc = "pend" /\ OSTmrTime' = (OSTmrTime + 1) % TimeMod
      /\ UNCHANGED <<OSTmrState, kind, OSTmrMatch>>
  BY DEF OSTmr_Task, tmrVars
<1>2. TypeInv /\ \E place \in Places : WalkInv(place)
  BY DEF IInv, Placed
<1>3. \A x \in Timer : ~Due(x)
  BY <1>1, <1>2 DEF WalkInv, Ahead
<1>4. ASSUME NEW x \in Timer
      PROVE  Left'[x] = IF OSTmrState[x] = "RUNNING" THEN Left[x] - 1 ELSE 0
  <2>1. Left'[x] = IF OSTmrState[x] = "RUNNING"
                   THEN (OSTmrMatch[x] - OSTmrTime') % TimeMod ELSE 0
    BY <1>1 DEF Left
  <2>2. CASE OSTmrState[x] = "RUNNING"
    <3> DEFINE a == OSTmrMatch[x]
               t == OSTmrTime
    <3>1. /\ a \in 0..TimeMod - 1 /\ t \in 0..TimeMod - 1 /\ a # t
          /\ Left[x] = IF t <= a THEN a - t ELSE a - t + TimeMod
      BY <1>2, <1>3, <2>2, LeftFacts DEF Due
    <3>2. 1 \in 0..TimeMod - 1
      BY <3>1, TimerFacts
    <3>3. PICK u \in 0..TimeMod - 1 :
            u = OSTmrTime' /\ u = IF 1 + t < TimeMod THEN 1 + t ELSE 1 + t - TimeMod
      <4>1. /\ (1 + t) % TimeMod \in 0..TimeMod - 1
            /\ (1 + t) % TimeMod = IF 1 + t < TimeMod THEN 1 + t ELSE 1 + t - TimeMod
        BY <3>1, <3>2, TimeWraps
      <4>2. OSTmrTime' = (1 + t) % TimeMod
        BY <1>1, <3>1
      <4> QED
        BY <4>1, <4>2
    <3>4. (a - u) % TimeMod = IF u <= a THEN a - u ELSE a - u + TimeMod
      BY <3>1, TimeLeft
    <3>5. Left'[x] = (a - u) % TimeMod
      BY <2>1, <2>2, <3>3
    <3> HIDE DEF a, t
    <3>6. (IF u <= a THEN a - u ELSE a - u + TimeMod)
            = (IF t <= a THEN a - t ELSE a - t + TimeMod) - 1
      BY <3>1, <3>3, TimerFacts
    <3> QED
      BY <2>2, <3>1, <3>4, <3>5, <3>6
  <2> QED
    BY <2>1, <2>2
<1>5. Left' = [x \in Timer |-> IF OSTmrState[x] = "RUNNING" THEN Left[x] - 1 ELSE 0]
  <2>1. Left' = [x \in Timer |-> Left'[x]]
    BY DEF Left
  <2> QED
    BY <1>4, <2>1
<1>6. {x \in Timer : OSTmrState[x] = "RUNNING" /\ Left[x] = 0} = {}
  BY <1>2, <1>3, LeftFacts
<1> QED
  BY <1>1, <1>5, <1>6 DEF T!Tick, T!Due

LEMMA FireRefined ==
  ASSUME IInv, Expire
  PROVE  \E x \in Timer : T!Fire(x)
<1>1. PICK x : x = ptmr
  OBVIOUS
<1>2. PICK place \in Places : ListInv(place) /\ WalkInv(place)
  BY DEF IInv, Placed
<1>3. TypeInv /\ KindInv
  BY DEF IInv
<1>4. /\ pc = "walk" /\ x # Null /\ Ahead = x /\ OSTmrMatch[x] = OSTmrTime
      /\ UNCHANGED <<kind, OSTmrTime>>
  BY <1>1 DEF Expire, Ahead
<1>5. x \in Timer /\ OSTmrState[x] = "RUNNING"
  BY <1>2, <1>3, <1>4, AheadFacts
<1>6. Due(x) /\ Left[x] = 0
  BY <1>3, <1>4, <1>5, LeftFacts DEF Due
<1>7. x \in T!Due
  BY <1>5, <1>6 DEF T!Due
<1>8. CASE kind[x].periodic
  <2>1. /\ OSTmrState' = [OSTmrState EXCEPT ![x] = "RUNNING"]
        /\ OSTmrMatch' = [OSTmrMatch EXCEPT ![x] = MatchPeriodic(x)]
    BY <1>1, <1>8 DEF Expire
  <2>2. OSTmrState' = OSTmrState
    BY <1>3, <1>5, <2>1 DEF TypeInv
  <2>3. /\ OSTmrMatch'[x] = MatchPeriodic(x)
        /\ \A y \in Timer : y # x => OSTmrMatch'[y] = OSTmrMatch[y]
    BY <1>3, <1>5, <2>1 DEF TypeInv
  <2>4. (MatchPeriodic(x) - OSTmrTime) % TimeMod = kind[x].period
    BY <1>3, <1>5, <1>8, MatchFacts DEF KindInv
  <2>5. Left' = [Left EXCEPT ![x] = kind[x].period]
    BY <1>4, <1>5, <2>2, <2>3, <2>4, OneLeft
  <2> QED
    BY <1>4, <1>5, <1>7, <1>8, <2>2, <2>5 DEF T!Fire
<1>9. CASE ~kind[x].periodic
  <2>1. OSTmrState' = [OSTmrState EXCEPT ![x] = "COMPLETED"] /\ OSTmrMatch' = OSTmrMatch
    BY <1>1, <1>9 DEF Expire
  <2>2. /\ OSTmrState'[x] # "RUNNING"
        /\ \A y \in Timer : y # x => OSTmrState'[y] = OSTmrState[y]
    BY <1>3, <1>5, <2>1 DEF TypeInv
  <2>3. Left' = [Left EXCEPT ![x] = 0]
    BY <1>4, <1>5, <2>1, <2>2, OneLeft
  <2>4. Left' = Left
    BY <1>5, <1>6, <2>3 DEF Left
  <2> QED
    BY <1>4, <1>5, <1>7, <1>9, <2>1, <2>4 DEF T!Fire
<1> QED
  BY <1>5, <1>8, <1>9


LEMMA CreateRefined ==
  ASSUME IInv, NEW k \in Kind, OSTmrCreate(k)
  PROVE  \E x \in Timer : T!Create(x)
<1>1. PICK x : x = OSTmrFreeList
  OBVIOUS
<1>2. PICK place \in Places : ListInv(place)
  BY DEF IInv, Placed
<1>3. TypeInv
  BY DEF IInv
<1>4. /\ x # Null /\ UNCHANGED <<OSTmrTime, OSTmrMatch>>
      /\ OSTmrState' = [OSTmrState EXCEPT ![x] = "STOPPED"]
      /\ kind' = [kind EXCEPT ![x] = k]
  BY <1>1 DEF OSTmrCreate, taskVars
<1>5. x \in Timer /\ OSTmrState[x] = "UNUSED"
  BY <1>1, <1>2, <1>4 DEF ListInv, Chain, Unused
<1>6. /\ OSTmrState'[x] # "RUNNING"
      /\ \A y \in Timer : y # x => OSTmrState'[y] = OSTmrState[y]
  BY <1>3, <1>4, <1>5 DEF TypeInv
<1>7. Left' = [Left EXCEPT ![x] = 0]
  BY <1>4, <1>5, <1>6, OneLeft
<1>8. Left[x] = 0
  BY <1>5 DEF Left
<1>9. Left' = Left
  BY <1>5, <1>7, <1>8 DEF Left
<1> QED
  BY <1>4, <1>5, <1>9 DEF T!Create

LEMMA StartRefined ==
  ASSUME IInv, NEW x \in Timer, OSTmrStart(x)
  PROVE  T!Start(x)
<1>1. TypeInv /\ KindInv
  BY DEF IInv
<1>2. /\ OSTmrState[x] # "UNUSED" /\ UNCHANGED <<OSTmrTime, kind>>
      /\ OSTmrState' = [OSTmrState EXCEPT ![x] = "RUNNING"]
      /\ OSTmrMatch' = [OSTmrMatch EXCEPT ![x] = MatchStart(x)]
  BY DEF OSTmrStart, taskVars
<1>3. /\ OSTmrState'[x] = "RUNNING" /\ OSTmrMatch'[x] = MatchStart(x)
      /\ \A y \in Timer : y # x => /\ OSTmrState'[y] = OSTmrState[y]
                                   /\ OSTmrMatch'[y] = OSTmrMatch[y]
  BY <1>1, <1>2 DEF TypeInv
<1>4. (MatchStart(x) - OSTmrTime) % TimeMod = T!FirstWait(kind[x])
  BY <1>1, <1>2, MatchFacts DEF KindInv, T!FirstWait
<1>5. Left' = [Left EXCEPT ![x] = T!FirstWait(kind[x])]
  BY <1>2, <1>3, <1>4, OneLeft
<1> QED
  BY <1>2, <1>5 DEF T!Start

LEMMA StopRefined ==
  ASSUME IInv, NEW x \in Timer, OSTmrStop(x)
  PROVE  T!Stop(x)
<1>1. TypeInv
  BY DEF IInv
<1>2. /\ OSTmrState[x] = "RUNNING" /\ UNCHANGED <<OSTmrTime, kind, OSTmrMatch>>
      /\ OSTmrState' = [OSTmrState EXCEPT ![x] = "STOPPED"]
  BY DEF OSTmrStop, taskVars
<1>3. /\ OSTmrState'[x] # "RUNNING"
      /\ \A y \in Timer : y # x => OSTmrState'[y] = OSTmrState[y]
  BY <1>1, <1>2 DEF TypeInv
<1>4. Left' = [Left EXCEPT ![x] = 0]
  BY <1>2, <1>3, OneLeft
<1> QED
  BY <1>2, <1>4 DEF T!Stop

LEMMA DelRefined ==
  ASSUME IInv, NEW x \in Timer, OSTmrDel(x)
  PROVE  T!Delete(x)
<1>1. TypeInv
  BY DEF IInv
<1>2. /\ OSTmrState[x] # "UNUSED" /\ UNCHANGED OSTmrTime
      /\ OSTmrState' = [OSTmrState EXCEPT ![x] = "UNUSED"]
      /\ OSTmrMatch' = [OSTmrMatch EXCEPT ![x] = 0]
      /\ kind' = [kind EXCEPT ![x] = NoKind]
  BY DEF OSTmrDel, taskVars
<1>3. /\ OSTmrState'[x] # "RUNNING"
      /\ \A y \in Timer : y # x => /\ OSTmrState'[y] = OSTmrState[y]
                                   /\ OSTmrMatch'[y] = OSTmrMatch[y]
  BY <1>1, <1>2 DEF TypeInv
<1>4. Left' = [Left EXCEPT ![x] = 0]
  BY <1>2, <1>3, OneLeft
<1> QED
  BY <1>2, <1>4 DEF T!Delete

\* Every step of the wheel is one of the timers, or none: no timer fires before
\* its time, a timer that is due fires before time goes on, and once only
\* (OSTmr_Task, and the services, those its callbacks call too).
THEOREM TimersImplementedSafely ==
  ASSUME Careful PROVE Spec => T!Init /\ [][T!Next]_(T!vars)
<1>1. Init => T!Init
  BY DEF Init, T!Init, Left
<1>2. IInv /\ [Next]_vars => [T!Next]_(T!vars)
  <2> SUFFICES ASSUME IInv, [Next]_vars PROVE [T!Next]_(T!vars)
    OBVIOUS
  <2>1. ASSUME UNCHANGED <<tmrVars, OSTmrTime>> PROVE UNCHANGED T!vars
    BY <2>1 DEF tmrVars, T!vars, Left
  <2>2. CASE UNCHANGED vars \/ OSTmrSignal \/ Skip \/ CallbackEnd \/ WalkEnd
    BY <2>1, <2>2 DEF vars, taskVars, OSTmrSignal, Skip, CallbackEnd, WalkEnd
  <2>3. CASE OSTmr_Task
    BY <2>3, TickRefined DEF T!Next
  <2>4. CASE Expire
    BY <2>4, FireRefined DEF T!Next
  <2>5. CASE \E k \in Kind : OSTmrCreate(k)
    BY <2>5, CreateRefined DEF T!Next
  <2>6. CASE \E x \in Timer : OSTmrStart(x) \/ OSTmrStop(x) \/ OSTmrDel(x)
    BY <2>6, StartRefined, StopRefined, DelRefined DEF T!Next
  <2> QED
    BY <2>2, <2>3, <2>4, <2>5, <2>6 DEF Next, TaskStep
<1> QED
  BY <1>1, <1>2, AlwaysIInv, PTL DEF Spec


-----------------------------------------------------------------------------
(***************************************************************************)
(* What ListFrom finds: it meets the timers of a list by their places, and *)
(* takes as many steps as there are timers at most.                        *)
(***************************************************************************)
LEMMA LeastExists ==
  ASSUME NEW S, S \subseteq Nat, S # {}
  PROVE  \E p \in S : \A q \in S : p <= q
<1> DEFINE Before == {pair \in Nat \X Nat : pair[1] < pair[2]}
<1>1. IsWellFoundedOn(Before, Nat)
  BY NatLessThanWellFounded, Zenon DEF OpToRel
<1>2. PICK p \in S : \A q \in S : <<q, p>> \notin Before
  BY <1>1, WFMin, Zenon
<1>3. ASSUME NEW q \in S
      PROVE  p <= q
  <2>1. p \in Nat /\ q \in Nat
    OBVIOUS
  <2>2. q < p => <<q, p>> \in Before
    BY <2>1
  <2> QED
    BY <1>2, <2>1, <2>2
<1> QED
  BY <1>3

Walk(x, n, f) == f = [i \in 0..n |-> IF i = 0 THEN <<>> ELSE Longer(f[i - 1], x)]

LEMMA WalkExists ==
  ASSUME NEW x, NEW n \in Nat
  PROVE  \E f : Walk(x, n, f)
<1> DEFINE Bad == {m \in Nat : ~\E f : Walk(x, m, f)}
<1>1. SUFFICES ASSUME Bad # {} PROVE FALSE
  OBVIOUS
<1>2. PICK m \in Bad : \A k \in Bad : m <= k
  <2>1. Bad \subseteq Nat
    OBVIOUS
  <2> HIDE DEF Bad
  <2> QED
    BY <1>1, <2>1, LeastExists
<1>3. m \in Nat /\ ~\E f : Walk(x, m, f)
  OBVIOUS
<1>4. CASE m = 0
  <2> DEFINE f == [i \in 0..m |-> <<>>]
  <2>1. Walk(x, m, f)
    BY <1>4 DEF Walk
  <2> QED
    BY <1>3, <2>1
<1>5. CASE m # 0
  <2>1. m - 1 \in Nat /\ ~(m <= m - 1)
    BY <1>3, <1>5
  <2>2. PICK f : Walk(x, m - 1, f)
    BY <1>2, <2>1
  <2> DEFINE g == [i \in 0..m |-> IF i = 0 THEN <<>> ELSE Longer(f[i - 1], x)]
  <2>3. ASSUME NEW i \in 0..m - 1
        PROVE  g[i] = f[i]
    <3>1. i \in 0..m
      BY <1>3
    <3>2. f[i] = IF i = 0 THEN <<>> ELSE Longer(f[i - 1], x)
      BY <2>2 DEF Walk
    <3> QED
      BY <3>1, <3>2
  <2>4. ASSUME NEW i \in 0..m, i # 0
        PROVE  g[i - 1] = f[i - 1]
    <3>1. i - 1 \in 0..m - 1
      BY <1>3, <2>4
    <3> QED
      BY <2>3, <3>1
  <2>5. g = [i \in 0..m |-> IF i = 0 THEN <<>> ELSE Longer(g[i - 1], x)]
    <3>1. \A i \in 0..m : g[i] = IF i = 0 THEN <<>> ELSE Longer(g[i - 1], x)
      BY <2>4
    <3>2. g = [i \in 0..m |-> g[i]]
      OBVIOUS
    <3> HIDE DEF g
    <3> QED
      BY <3>1, <3>2
  <2> HIDE DEF g
  <2> QED
    BY <1>3, <2>5 DEF Walk
<1> QED
  BY <1>4, <1>5

\* s holds the timers of S whose places come first, in the order of the links.
Part(s, S, head, next, place) ==
  /\ s \in Seq(S)
  /\ Len(s) > 0 => s[1] = head
  /\ \A i \in 1..Len(s) - 1 : s[i + 1] = next[s[i]]
  /\ \A i, j \in 1..Len(s) : i < j => place[s[i]] < place[s[j]]
  /\ \A y \in S : Len(s) > 0 /\ place[y] <= place[s[Len(s)]]
                  => \E i \in 1..Len(s) : s[i] = y

Whole(s, S) == \A y \in S : \E i \in 1..Len(s) : s[i] = y

LEMMA LongerPart ==
  ASSUME NEW S, S \subseteq Timer, NEW head, NEW place \in Places,
         Chain(S, head, OSTmrNext, place), NEW s, Part(s, S, head, OSTmrNext, place)
  PROVE  LET s2 == Longer(s, head) IN
         /\ Part(s2, S, head, OSTmrNext, place)
         /\ IF Whole(s, S) THEN s2 = s ELSE Len(s2) = Len(s) + 1
<1> DEFINE y  == IF s = <<>> THEN head ELSE OSTmrNext[s[Len(s)]]
           s2 == Append(s, y)
<1>1. /\ s \in Seq(S) /\ Len(s) \in Nat /\ (s = <<>> <=> Len(s) = 0)
      /\ \A i \in 1..Len(s) : s[i] \in S
  BY DEF Part
<1>2. \A z \in S : z \in Timer /\ place[z] \in Int /\ z # Null
  BY TimerFacts DEF Places
<1>3. Longer(s, head) = IF y = Null THEN s ELSE s2
  BY DEF Longer
<1>4. Len(s) > 0 => Len(s) \in 1..Len(s) /\ s[Len(s)] \in S
  BY <1>1
<1>5. CASE y = Null
  <2>1. Whole(s, S)
    <3> SUFFICES ASSUME NEW z \in S PROVE \E i \in 1..Len(s) : s[i] = z
      BY DEF Whole
    <3>1. s # <<>>
      BY <1>5 DEF Chain
    <3>2. OSTmrNext[s[Len(s)]] = Null /\ s[Len(s)] \in S /\ Len(s) > 0
      BY <1>1, <1>4, <1>5, <3>1
    <3>3. ~(place[s[Len(s)]] < place[z])
      BY <3>2 DEF Chain
    <3>4. place[z] <= place[s[Len(s)]]
      BY <1>2, <3>2, <3>3
    <3> QED
      BY <3>2, <3>4 DEF Part
  <2>2. Longer(s, head) = s
    BY <1>3, <1>5
  <2> QED
    BY <2>1, <2>2
<1>6. CASE y # Null
  <2>1. y \in S
    BY <1>1, <1>4, <1>6 DEF Chain
  <2>2. \A i \in 1..Len(s) : place[s[i]] < place[y]
    <3> SUFFICES ASSUME NEW i \in 1..Len(s) PROVE place[s[i]] < place[y]
      OBVIOUS
    <3>1. Len(s) > 0 /\ s # <<>> /\ y = OSTmrNext[s[Len(s)]]
      BY <1>1
    <3>2. place[s[Len(s)]] < place[y]
      BY <1>4, <1>6, <3>1 DEF Chain
    <3>3. i = Len(s) \/ place[s[i]] < place[s[Len(s)]]
      BY <1>1, <1>4, <3>1 DEF Part
    <3>4. place[s[i]] \in Int /\ place[s[Len(s)]] \in Int /\ place[y] \in Int
      BY <1>1, <1>2, <1>4, <2>1, <3>1
    <3> QED
      BY <3>2, <3>3, <3>4
  <2>3. ~Whole(s, S)
    <3> SUFFICES ASSUME NEW i \in 1..Len(s), s[i] = y PROVE FALSE
      BY <2>1 DEF Whole
    <3>1. place[y] < place[y] /\ place[y] \in Int
      BY <1>2, <2>1, <2>2
    <3> QED
      BY <3>1
  <2>4. PICK n : n = Len(s)
    OBVIOUS
  <2>5. /\ s2 \in Seq(S) /\ Len(s2) = n + 1 /\ n \in Nat /\ s2[n + 1] = y
        /\ \A i \in 1..n : s2[i] = s[i]
    BY <1>1, <2>1, <2>4
  <2> HIDE DEF s2
  <2>6. s2[1] = head
    <3>1. CASE n = 0
      BY <1>1, <2>4, <2>5, <3>1
    <3>2. CASE n # 0
      BY <2>4, <2>5, <3>2 DEF Part
    <3> QED
      BY <3>1, <3>2
  <2>7. ASSUME NEW i \in 1..n
        PROVE  s2[i + 1] = OSTmrNext[s2[i]]
    <3>1. CASE i = n
      <4>1. s # <<>>
        BY <1>1, <2>4, <2>5, <2>7
      <4> QED
        BY <2>4, <2>5, <3>1, <4>1
    <3>2. CASE i # n
      <4>1. i \in 1..n - 1 /\ i + 1 \in 1..n
        BY <2>5, <3>2
      <4> QED
        BY <2>4, <2>5, <4>1 DEF Part
    <3> QED
      BY <3>1, <3>2
  <2>8. ASSUME NEW i \in 1..n + 1, NEW j \in 1..n + 1, i < j
        PROVE  place[s2[i]] < place[s2[j]]
    <3>1. i \in 1..n
      BY <2>5, <2>8
    <3>2. CASE j = n + 1
      BY <2>2, <2>4, <2>5, <3>1, <3>2
    <3>3. CASE j # n + 1
      <4>1. j \in 1..n
        BY <2>5, <3>3
      <4> QED
        BY <2>4, <2>5, <2>8, <3>1, <4>1 DEF Part
    <3> QED
      BY <3>2, <3>3
  <2>9. ASSUME NEW z \in S, place[z] <= place[y]
        PROVE  \E i \in 1..n + 1 : s2[i] = z
    <3>1. CASE place[z] = place[y]
      <4>1. z = y /\ n + 1 \in 1..n + 1
        BY <2>1, <2>5, <3>1 DEF Chain
      <4> QED
        BY <2>5, <4>1
    <3>2. CASE place[z] # place[y]
      <4>1. place[z] < place[y]
        BY <1>2, <2>1, <2>9, <3>2
      <4>2. s # <<>>
        <5>1. place[head] <= place[z]
          BY DEF Chain
        <5> QED
          BY <1>2, <2>1, <4>1, <5>1
      <4>3. s[n] \in S /\ y = OSTmrNext[s[n]] /\ n > 0
        BY <1>1, <1>4, <2>4, <4>2
      <4>4. ~(place[s[n]] < place[z])
        <5>1. place[s[n]] < place[z] => place[y] <= place[z]
          BY <4>3 DEF Chain
        <5> QED
          BY <1>2, <2>1, <4>1, <5>1
      <4>5. place[z] <= place[s[n]]
        BY <1>2, <4>3, <4>4
      <4>6. PICK i \in 1..n : s[i] = z
        BY <2>4, <4>3, <4>5 DEF Part
      <4> QED
        BY <2>5, <4>6
    <3> QED
      BY <3>1, <3>2
  <2>10. Part(s2, S, head, OSTmrNext, place)
    <3>1. n + 1 - 1 = n
      BY <2>5
    <3> QED
      BY <2>5, <2>6, <2>7, <2>8, <2>9, <3>1 DEF Part
  <2> QED
    BY <1>3, <1>6, <2>3, <2>4, <2>5, <2>10
<1> QED
  BY <1>5, <1>6


\* ListFrom meets each timer of the list once.
LEMMA ListIs ==
  ASSUME NEW S, S \subseteq Timer, NEW head, NEW place \in Places,
         Chain(S, head, OSTmrNext, place)
  PROVE  LET s == ListFrom(head) IN
         /\ Part(s, S, head, OSTmrNext, place)
         /\ Len(s) = Cardinality(S) /\ Elements(s) = S
<1> DEFINE N  == OS_TMR_CFG_MAX
           at == CHOOSE f : Walk(head, N, f)
           Fine(i) == /\ Part(at[i], S, head, OSTmrNext, place)
                      /\ Len(at[i]) = i \/ Whole(at[i], S)
           Bad == {i \in 0..N : ~Fine(i)}
<1>n. N \in Nat
  BY TimerFacts
<1>1. Walk(head, N, at)
  BY <1>n, WalkExists
<1>2. ListFrom(head) = at[N]
  BY DEF ListFrom, Walk
<1> HIDE DEF at
<1>3. at[0] = <<>> /\ \A i \in 1..N : at[i] = Longer(at[i - 1], head)
  BY <1>n, <1>1 DEF Walk
<1>4. ASSUME Bad # {} PROVE FALSE
  <2>1. Bad \subseteq Nat
    BY <1>n
  <2>2. PICK m \in Bad : \A k \in Bad : m <= k
    <3> HIDE DEF Bad
    <3> QED
      BY <1>4, <2>1, LeastExists
  <2>3. m # 0
    <3>1. Part(<<>>, S, head, OSTmrNext, place) /\ Len(<<>>) = 0
      BY DEF Part
    <3> QED
      BY <1>3, <2>2, <3>1
  <2>4. m \in 1..N /\ m - 1 \in 0..N /\ ~(m <= m - 1)
    BY <1>n, <2>2, <2>3
  <2>5. Fine(m - 1)
    BY <2>2, <2>4
  <2>6. /\ Part(at[m], S, head, OSTmrNext, place)
        /\ IF Whole(at[m - 1], S) THEN at[m] = at[m - 1] ELSE Len(at[m]) = Len(at[m - 1]) + 1
    BY <1>3, <2>4, <2>5, LongerPart
  <2>7. Len(at[m]) = m \/ Whole(at[m], S)
    BY <2>4, <2>5, <2>6
  <2> QED
    BY <2>2, <2>6, <2>7
<1>5. PICK s : s = ListFrom(head)
  OBVIOUS
<1>6. Part(s, S, head, OSTmrNext, place) /\ (Len(s) = N \/ Whole(s, S))
  <2>1. Fine(N)
    BY <1>n, <1>4
  <2> QED
    BY <1>2, <1>5, <2>1
<1>7. PICK n : n = Len(s)
  OBVIOUS
<1>8. n \in Nat /\ \A i \in 1..n : s[i] \in S
  BY <1>6, <1>7 DEF Part
<1>9. s \in Injection(1..n, S)
  <2>1. s \in [1..n -> S]
    BY <1>6, <1>7 DEF Part
  <2>2. ASSUME NEW i \in 1..n, NEW j \in 1..n, s[i] = s[j], i # j
        PROVE  FALSE
    <3>1. i < j \/ j < i
      BY <1>8, <2>2
    <3>2. place[s[i]] < place[s[j]] \/ place[s[j]] < place[s[i]]
      BY <1>6, <1>7, <3>1 DEF Part
    <3>3. place[s[i]] \in Int
      BY <1>8 DEF Places
    <3> QED
      BY <2>2, <3>2, <3>3
  <2> QED
    BY <2>1, <2>2 DEF Injection, IsInjective
<1>10. /\ IsFiniteSet(S) /\ Cardinality(S) <= N /\ Cardinality(S) \in Nat
       /\ Cardinality(1..n) = n
  BY <1>8, Counts, FS_Interval
<1>11. n <= Cardinality(S) /\ (n = Cardinality(S) <=> s \in Surjection(1..n, S))
  BY <1>9, <1>10, FS_Injection
<1>12. n = Cardinality(S) /\ s \in Surjection(1..n, S)
  <2>1. CASE n = N
    BY <1>n, <1>8, <1>10, <1>11, <2>1
  <2>2. CASE Whole(s, S)
    <3>1. s \in Surjection(1..n, S)
      BY <1>7, <1>9, <2>2 DEF Whole, Injection, Surjection
    <3> QED
      BY <1>11, <3>1
  <2> QED
    BY <1>6, <1>7, <2>1, <2>2
<1>13. Elements(s) = S
  <2>1. DOMAIN s = 1..n
    BY <1>9 DEF Injection
  <2>2. \A y \in S : \E i \in 1..n : s[i] = y
    BY <1>12 DEF Surjection
  <2> QED
    BY <1>8, <2>1, <2>2 DEF Elements
<1> QED
  BY <1>5, <1>6, <1>7, <1>12, <1>13

\* The lists of the wheel hold the running timers of their spokes, linked both
\* ways, and the free list the others that no one has: no service, called from
\* a task or in the middle of the walk, loses a timer or leaves it in a list it
\* does not belong to (OSTmr_Link, OSTmr_Unlink, OSTmr_Alloc, OSTmr_Free).
THEOREM WheelAlwaysOK == ASSUME Careful PROVE Spec => []WheelOK
<1>1. IInv => WheelOK
  <2> SUFFICES ASSUME IInv PROVE WheelOK
    OBVIOUS
  <2>1. PICK place \in Places : ListInv(place)
    BY DEF IInv, Placed
  <2>2. ASSUME NEW k \in Spoke
        PROVE  LET R == {x \in Timer : OSTmrState[x] = "RUNNING" /\ SpokeOf(OSTmrMatch[x]) = k}
               IN Linked(ListFrom(OSTmrFirst[k]), R) /\ OSTmrEntries[k] = Cardinality(R)
    <3>1. PICK R : R = Listed[k]
      OBVIOUS
    <3>2. /\ Chain(R, OSTmrFirst[k], OSTmrNext, place)
          /\ Back(R, OSTmrFirst[k], OSTmrNext, OSTmrPrev)
          /\ OSTmrEntries[k] = Cardinality(R)
      BY <2>1, <3>1 DEF ListInv, Good, wheel
    <3>3. R \subseteq Timer
      BY <3>1 DEF Listed
    <3>4. PICK s : s = ListFrom(OSTmrFirst[k])
      OBVIOUS
    <3>5. /\ Part(s, R, OSTmrFirst[k], OSTmrNext, place)
          /\ Len(s) = Cardinality(R) /\ Elements(s) = R
      BY <3>2, <3>3, <3>4, ListIs
    <3>6. s \in Seq(R) /\ DOMAIN s = 1..Len(s) /\ Len(s) \in Nat
      BY <3>5 DEF Part
    <3>7. ASSUME NEW i \in 1..Len(s)
          PROVE  OSTmrPrev[s[i]] = IF i = 1 THEN Null ELSE s[i - 1]
      <4>1. s[i] \in R
        BY <3>6
      <4>2. CASE i = 1
        BY <3>2, <3>5, <3>6, <4>1, <4>2 DEF Part, Back
      <4>3. CASE i # 1
        <5>1. i - 1 \in 1..Len(s) - 1 /\ i - 1 \in 1..Len(s) /\ i - 1 + 1 = i
          BY <3>6, <4>3
        <5>2. s[i - 1] \in R
          BY <3>6, <5>1
        <5>3. OSTmrNext[s[i - 1]] = s[i]
          BY <3>5, <5>1 DEF Part
        <5> QED
          BY <3>2, <4>1, <4>3, <5>2, <5>3 DEF Back
      <4> QED
        BY <4>2, <4>3
    <3>8. Linked(s, R)
      BY <3>5, <3>6, <3>7 DEF Linked
    <3>9. R = {x \in Timer : OSTmrState[x] = "RUNNING" /\ SpokeOf(OSTmrMatch[x]) = k}
      BY <3>1 DEF Listed
    <3> QED
      BY <3>2, <3>4, <3>8, <3>9
  <2>3. Elements(ListFrom(OSTmrFreeList)) = Unused
    <3>1. Unused \subseteq Timer
      BY DEF Unused
    <3> QED
      BY <2>1, <3>1, ListIs DEF ListInv
  <2>4. OSTmrUsed = OS_TMR_CFG_MAX - Cardinality(Unused)
    BY DEF IInv, CountInv
  <2> QED
    BY <2>2, <2>3, <2>4 DEF WheelOK, Unused
<1> QED
  BY <1>1, AlwaysIInv, PTL

=============================================================================
