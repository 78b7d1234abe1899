-------------------------- MODULE StoryboardProofs --------------------------
(***************************************************************************)
(* Proofs about Storyboard for any cars, addresses and stories with any    *)
(* number of effects: after every step a car has exactly the effects of the*)
(* stories whose conditions hold, complete and in order.                   *)
(***************************************************************************)
EXTENDS Storyboard, SequenceTheorems, FiniteSetTheorems, NaturalsInduction,
        WellFoundedInduction, TLAPS

(* A car as its effects see it.                                            *)
States == [stack : Seq(Effects), speed : AllSpeeds, cache : AllSpeeds \cup {Nothing}]

(* Effects of a story are complete, next to each other, in order and there *)
(* once.                                                                   *)
Ordered(q) ==
    /\ \A n \in 1..Len(q) :
         /\ q[n].index \in 1..Len(SpeedEffects[q[n].story])
         /\ q[n].index > 1 =>
              n > 1 /\ q[n - 1].story = q[n].story /\ q[n - 1].index = q[n].index - 1
         /\ q[n].index < Len(SpeedEffects[q[n].story]) =>
              n < Len(q) /\ q[n + 1].story = q[n].story /\ q[n + 1].index = q[n].index + 1
    /\ \A n, m \in 1..Len(q) : q[n].story = q[m].story /\ q[n].index = q[m].index => n = m

(* The same but for the speeds that effects remember.                      *)
Alike(e, f) == e.story = f.story /\ e.index = f.index

-----------------------------------------------------------------------------
(* The operations on a stack.                                              *)

(* Any numbers have a least one among them.                                *)
LEMMA LeastNumber ==
    ASSUME NEW T \in SUBSET Nat, T # {}
    PROVE  \E m \in T : \A k \in T : m <= k
<1> DEFINE R == OpToRel(<, Nat)
<1>1. IsWellFoundedOn(R, Nat)
  BY NatLessThanWellFounded
<1> HIDE DEF R
<1>2. PICK m \in T : \A k \in T : ~ (<<k, m>> \in R)
  BY <1>1, WFMin
<1>3. \A k \in T : ~ (k < m)
  BY <1>2 DEF R, OpToRel
<1> QED
  BY <1>3

(* A function on the first numbers is a sequence.                          *)
LEMMA AsSequence ==
    ASSUME NEW S, NEW n \in Nat, NEW f \in [1..n -> S]
    PROVE  f \in Seq(S) /\ Len(f) = n
  OBVIOUS

(* RemoveAt: the element is gone, and those above it moved down.           *)
LEMMA TakenOut ==
    ASSUME NEW S, NEW q \in Seq(S), NEW n \in 1..Len(q)
    PROVE  /\ RemoveAt(q, n) \in Seq(S) /\ Len(RemoveAt(q, n)) = Len(q) - 1
           /\ \A m \in 1..(Len(q) - 1) : RemoveAt(q, n)[m] = q[IF m < n THEN m ELSE m + 1]
<1> DEFINE low == SubSeq(q, 1, n - 1)
           high == SubSeq(q, n + 1, Len(q))
<1>1. Len(q) \in Nat /\ \A i \in 1..Len(q) : q[i] \in S
  OBVIOUS
<1>2. /\ low \in Seq(S) /\ Len(low) = n - 1
      /\ \A i \in 1..(n - 1) : low[i] = q[i]
  BY <1>1
<1>3. /\ high \in Seq(S) /\ Len(high) = Len(q) - n
      /\ \A i \in 1..(Len(q) - n) : high[i] = q[n + i]
  BY <1>1
<1> HIDE DEF low, high
<1>4. RemoveAt(q, n) = low \o high
  BY DEF RemoveAt, low, high
<1>5. low \o high \in Seq(S) /\ Len(low \o high) = Len(q) - 1
  <2>1. low \o high \in Seq(S) /\ Len(low \o high) = Len(low) + Len(high)
    BY <1>2, <1>3, ConcatProperties
  <2>2. (n - 1) + (Len(q) - n) = Len(q) - 1
    BY <1>1
  <2> QED
    BY <1>2, <1>3, <2>1, <2>2
<1>6. ASSUME NEW m \in 1..(Len(q) - 1)
      PROVE  (low \o high)[m] = q[IF m < n THEN m ELSE m + 1]
  <2>1. CASE m < n
    BY <1>1, <1>2, <1>3, <2>1
  <2>2. CASE ~(m < n)
    <3>1. (low \o high)[m] = high[m - (n - 1)] /\ m - (n - 1) \in 1..(Len(q) - n)
      BY <1>1, <1>2, <1>3, <2>2
    <3>2. n + (m - (n - 1)) = m + 1
      BY <1>1
    <3> QED
      BY <1>3, <2>2, <3>1, <3>2
  <2> QED
    BY <2>1, <2>2
<1> QED
  BY <1>4, <1>5, <1>6

(* applyEffect changes what effects remember and nothing else of them.     *)
LEMMA Applied ==
    ASSUME NEW st \in States, NEW n \in Nat \ {0}
    PROVE  LET t == Apply(st, n)
           IN  /\ t \in States /\ Len(t.stack) = Len(st.stack)
               /\ \A m \in 1..Len(st.stack) : Alike(t.stack[m], st.stack[m])
<1> DEFINE top == Len(st.stack)
           read == getMaxSpeed(st)
           stack == [i \in 1..top |-> IF i < n THEN st.stack[i]
                                      ELSE [st.stack[i] EXCEPT !.current = read]]
<1>1. st.stack \in Seq(Effects) /\ top \in Nat /\ \A i \in 1..top : st.stack[i] \in Effects
  BY DEF States
<1>2. read \in AllSpeeds
  BY DEF getMaxSpeed, States
<1>3. CASE n > top
  <2>1. Apply(st, n) = st
    BY <1>3 DEF Apply
  <2> QED
    BY <2>1 DEF Alike
<1>4. CASE ~(n > top)
  <2>1. Apply(st, n) = [stack |-> stack, speed |-> st.stack[top].speed, cache |-> read]
    BY <1>4 DEF Apply
  <2> HIDE DEF read
  <2>2. \A i \in 1..top : stack[i] \in Effects /\ Alike(stack[i], st.stack[i])
    BY <1>1, <1>2 DEF Effects, Alike
  <2>3. stack \in Seq(Effects) /\ Len(stack) = top
    <3>1. stack = [i \in 1..top |-> stack[i]] /\ DOMAIN stack = 1..top
      OBVIOUS
    <3> HIDE DEF stack, top
    <3>2. stack \in [1..top -> Effects]
      BY <2>2, <3>1
    <3> QED
      BY <1>1, <3>2, AsSequence
  <2>4. st.stack[top].speed \in AllSpeeds
    <3>1. top \in 1..top
      BY <1>1, <1>4
    <3> QED
      BY <1>1, <3>1 DEF Effects
  <2> HIDE DEF stack
  <2> QED
    BY <1>2, <2>1, <2>2, <2>3, <2>4 DEF States
<1> QED
  BY <1>3, <1>4

(* removeEffect of effects leaves the stack as it is.                      *)
LEMMA Unapplied ==
    ASSUME NEW st \in States, NEW n \in 1..Len(st.stack)
    PROVE  Unapply(st, n) \in States /\ Unapply(st, n).stack = st.stack
<1> DEFINE top == Len(st.stack)
<1>1. st.stack \in Seq(Effects) /\ top \in Nat /\ \A i \in 1..top : st.stack[i] \in Effects
  BY DEF States
<1>2. top \in 1..top
  BY <1>1
<1>3. st.stack[n].current \in AllSpeeds /\ st.stack[top].current \in AllSpeeds
  BY <1>1, <1>2 DEF Effects
<1> QED
  BY <1>1, <1>3 DEF Unapply, States

(* The effect at a position is gone, and those above it moved down.        *)
LEMMA Removed ==
    ASSUME NEW st \in States, NEW n \in 1..Len(st.stack)
    PROVE  LET t == removeEffect(st, n)
           IN  /\ t \in States /\ Len(t.stack) = Len(st.stack) - 1
               /\ \A m \in 1..(Len(st.stack) - 1) :
                    Alike(t.stack[m], st.stack[IF m < n THEN m ELSE m + 1])
<1> DEFINE q == st.stack
           u == Unapply(st, n)
<1>1. q \in Seq(Effects) /\ Len(q) \in Nat /\ u \in States /\ u.stack = q
  BY Unapplied DEF States
<1> HIDE DEF u
<1>2. CASE n = Len(q)
  <2>1. removeEffect(st, n) = [u EXCEPT !.stack = Front(q)]
    BY <1>1, <1>2 DEF removeEffect, u
  <2>2. /\ Front(q) \in Seq(Effects) /\ Len(Front(q)) = Len(q) - 1
        /\ \A m \in 1..(Len(q) - 1) : Front(q)[m] = q[m]
    BY <1>1, <1>2 DEF Front
  <2>3. [u EXCEPT !.stack = Front(q)] \in States
        /\ [u EXCEPT !.stack = Front(q)].stack = Front(q)
    BY <1>1, <2>2 DEF States
  <2> QED
    BY <1>1, <1>2, <2>1, <2>2, <2>3 DEF Alike
<1>3. CASE n # Len(q)
  <2> DEFINE r == RemoveAt(q, n)
             left == [u EXCEPT !.stack = r]
  <2>1. /\ r \in Seq(Effects) /\ Len(r) = Len(q) - 1
        /\ \A m \in 1..(Len(q) - 1) : r[m] = q[IF m < n THEN m ELSE m + 1]
    BY <1>1, TakenOut
  <2>2. left \in States /\ left.stack = r
    <3> HIDE DEF r
    <3> QED
      BY <1>1, <2>1 DEF States
  <2>3. removeEffect(st, n) \in {Apply(left, 1), left}
    BY <1>1, <1>3 DEF removeEffect, removeFromMiddle, u
  <2> HIDE DEF left, r
  <2>4. /\ Apply(left, 1) \in States /\ Len(Apply(left, 1).stack) = Len(r)
        /\ \A m \in 1..Len(r) : Alike(Apply(left, 1).stack[m], r[m])
    BY <2>2, Applied
  <2>5. CASE removeEffect(st, n) = left
    BY <1>1, <2>1, <2>2, <2>5 DEF Alike
  <2>6. CASE removeEffect(st, n) = Apply(left, 1)
    BY <1>1, <2>1, <2>4, <2>6 DEF Alike
  <2> QED
    BY <2>3, <2>5, <2>6
<1> QED
  BY <1>2, <1>3

-----------------------------------------------------------------------------
(* Removing the effects of a story.                                        *)

(* The effects of a story that is on the stack: from the lowest one on, as *)
(* many as the story has.                                                  *)
LEMMA Block ==
    ASSUME NEW q \in Seq(Effects), Ordered(q), NEW s \in AllStories,
           Found(q, s) # {}, Len(SpeedEffects[s]) \in Nat \ {0}
    PROVE  LET n == Lowest(q, s)
               l == Len(SpeedEffects[s])
           IN  n \in 1..Len(q) /\ n + l - 1 <= Len(q) /\ Found(q, s) = n..(n + l - 1)
<1> DEFINE n == Lowest(q, s)
           l == Len(SpeedEffects[s])
           T == Found(q, s)
<1>1. Len(q) \in Nat /\ DOMAIN q = 1..Len(q)
  OBVIOUS
<1>2. T \in SUBSET Nat /\ T \subseteq 1..Len(q)
  BY <1>1 DEF Found
<1>3. \E k \in T : \A m \in T : k <= m
  BY <1>2, LeastNumber
<1>4. n \in T /\ \A m \in T : n <= m
  BY <1>3 DEF Lowest
<1>5. n \in 1..Len(q) /\ q[n].story = s
  BY <1>1, <1>4 DEF Found
<1> HIDE DEF n, l
<1>6. /\ \A k \in 1..Len(q) :
           /\ q[k].index \in 1..Len(SpeedEffects[q[k].story])
           /\ q[k].index > 1 =>
                k > 1 /\ q[k - 1].story = q[k].story /\ q[k - 1].index = q[k].index - 1
           /\ q[k].index < Len(SpeedEffects[q[k].story]) =>
                k < Len(q) /\ q[k + 1].story = q[k].story /\ q[k + 1].index = q[k].index + 1
      /\ \A k, m \in 1..Len(q) : q[k].story = q[m].story /\ q[k].index = q[m].index => k = m
  BY DEF Ordered
<1>7. \A m \in 1..Len(q) : q[m].story = s => m \in T
  BY <1>1 DEF Found
<1>8. l \in Nat \ {0}
  BY DEF l
<1>9. q[n].index = 1
  <2>1. q[n].index \in 1..l
    BY <1>5, <1>6 DEF l
  <2>2. SUFFICES ASSUME q[n].index > 1 PROVE FALSE
    BY <1>8, <2>1
  <2>3. n > 1 /\ q[n - 1].story = s
    BY <1>5, <1>6, <2>2
  <2>4. n - 1 \in T
    BY <1>1, <1>5, <1>7, <2>3
  <2> QED
    BY <1>4, <1>5, <2>4
<1> DEFINE Fits(j) == n + j <= Len(q) /\ q[n + j].story = s /\ q[n + j].index = j + 1
           U == {j \in 0..(l - 1) : ~Fits(j)}
<1>10. U = {}
  <2> SUFFICES ASSUME U # {} PROVE FALSE
    OBVIOUS
  <2>1. U \in SUBSET Nat
    BY <1>8
  <2>2. PICK m \in U : \A k \in U : m <= k
    <3> HIDE DEF U
    <3> QED
      BY <2>1, LeastNumber
  <2>3. m \in 0..(l - 1) /\ ~Fits(m)
    BY <2>2
  <2>4. m # 0
    BY <1>1, <1>5, <1>9, <2>3
  <2>5. m - 1 \in 0..(l - 1) /\ ~(m <= m - 1)
    BY <1>8, <2>3, <2>4
  <2>6. Fits(m - 1)
    <3> HIDE DEF Fits
    <3> QED
      BY <2>2, <2>5
  <2> DEFINE k == n + (m - 1)
  <2>7. k \in 1..Len(q) /\ q[k].story = s /\ q[k].index = m /\ m < l
    BY <1>1, <1>5, <1>8, <2>3, <2>5, <2>6
  <2>8. k + 1 = n + m
    BY <1>5, <2>3
  <2> HIDE DEF k
  <2>9. k < Len(q) /\ q[k + 1].story = s /\ q[k + 1].index = m + 1
    BY <1>6, <2>7 DEF l
  <2> QED
    BY <1>1, <2>3, <2>7, <2>8, <2>9
<1>11. ASSUME NEW j \in 0..(l - 1) PROVE Fits(j)
  BY <1>10
<1>12. ASSUME NEW m \in T PROVE m \in n..(n + l - 1)
  <2> DEFINE j == q[m].index - 1
  <2>1. m \in 1..Len(q) /\ q[m].story = s
    BY <1>1 DEF Found
  <2>2. q[m].index \in 1..l
    BY <1>6, <2>1 DEF l
  <2>3. j \in 0..(l - 1) /\ j + 1 = q[m].index
    BY <1>8, <2>2
  <2>4. Fits(j)
    BY <1>11, <2>3
  <2> HIDE DEF j
  <2>5. n + j \in 1..Len(q) /\ q[n + j].story = q[m].story /\ q[n + j].index = q[m].index
    BY <1>1, <1>5, <1>8, <2>1, <2>3, <2>4
  <2>6. n + j = m
    BY <1>6, <2>1, <2>5
  <2> QED
    BY <1>5, <1>8, <2>3, <2>6
<1>13. ASSUME NEW m \in n..(n + l - 1) PROVE m \in T
  <2>1. m - n \in 0..(l - 1) /\ n + (m - n) = m
    BY <1>5, <1>8
  <2>2. Fits(m - n)
    BY <1>11, <2>1
  <2>3. m \in 1..Len(q) /\ q[m].story = s
    BY <1>1, <1>5, <2>1, <2>2
  <2> QED
    BY <1>7, <2>3
<1>14. n + l - 1 <= Len(q)
  <2>1. l - 1 \in 0..(l - 1)
    BY <1>8
  <2>2. Fits(l - 1)
    BY <1>11, <2>1
  <2> QED
    BY <1>1, <1>5, <1>8, <2>2
<1> HIDE DEF T
<1>15. T = n..(n + l - 1)
  BY <1>12, <1>13
<1> QED
  BY <1>5, <1>14, <1>15 DEF n, l, T

(* The states of a car in the course of some removals.                     *)
Removals(st, s, f, n) ==
    f = [k \in 0..n |-> IF k = 0 THEN st
                        ELSE removeEffect(f[k - 1], Lowest(f[k - 1].stack, s))]

(* They exist for any number of removals.                                  *)
LEMMA RemovalsExist ==
    ASSUME NEW st, NEW s
    PROVE  \A n \in Nat : \E f : Removals(st, s, f, n)
<1> DEFINE After(t) == removeEffect(t, Lowest(t.stack, s))
           Has(n) == \E f : Removals(st, s, f, n)
           T == {n \in Nat : ~Has(n)}
<1> SUFFICES ASSUME T # {} PROVE FALSE
  OBVIOUS
<1>0. \A f, n : Removals(st, s, f, n)
                  <=> f = [k \in 0..n |-> IF k = 0 THEN st ELSE After(f[k - 1])]
  BY DEF Removals
<1> HIDE DEF After
<1>1. T \in SUBSET Nat
  OBVIOUS
<1>2. PICK m \in T : \A k \in T : m <= k
  <2> HIDE DEF T
  <2> QED
    BY <1>1, LeastNumber
<1>3. m \in Nat /\ ~Has(m)
  BY <1>2
<1>4. m # 0
  <2> DEFINE z == [k \in 0..0 |-> st]
  <2>1. z = [k \in 0..0 |-> IF k = 0 THEN st ELSE After(z[k - 1])]
    OBVIOUS
  <2> HIDE DEF z
  <2>2. Removals(st, s, z, 0)
    BY <1>0, <2>1
  <2>3. Has(0)
    BY <2>2
  <2> QED
    BY <1>3, <2>3
<1>5. Has(m - 1)
  <2>1. m - 1 \in Nat /\ ~(m <= m - 1)
    BY <1>3, <1>4
  <2> HIDE DEF Has
  <2> QED
    BY <1>2, <2>1
<1>6. PICK f : f = [k \in 0..(m - 1) |-> IF k = 0 THEN st ELSE After(f[k - 1])]
  BY <1>0, <1>5
<1> DEFINE g == [k \in 0..m |-> IF k = m THEN After(f[m - 1]) ELSE f[k]]
<1>7. ASSUME NEW k \in 0..m
      PROVE  g[k] = IF k = 0 THEN st ELSE After(g[k - 1])
  <2>1. CASE k = m
    <3>1. m - 1 \in 0..m /\ m - 1 # m
      BY <1>3, <1>4
    <3>2. g[m - 1] = f[m - 1] /\ g[k] = After(f[m - 1])
      BY <2>1, <3>1
    <3> QED
      BY <1>4, <2>1, <3>2
  <2>2. CASE k # m
    <3>1. k \in 0..(m - 1) /\ (k # 0 => k - 1 \in 0..m /\ k - 1 # m)
      BY <1>3, <2>2
    <3>2. f[k] = IF k = 0 THEN st ELSE After(f[k - 1])
      BY <1>6, <3>1
    <3>3. g[k] = f[k] /\ (k # 0 => g[k - 1] = f[k - 1])
      BY <2>2, <3>1
    <3> QED
      BY <3>2, <3>3
  <2> QED
    BY <2>1, <2>2
<1>8. g = [k \in 0..m |-> IF k = 0 THEN st ELSE After(g[k - 1])]
  <2>1. g = [k \in 0..m |-> g[k]]
    OBVIOUS
  <2> HIDE DEF g
  <2> QED
    BY <1>7, <2>1
<1> HIDE DEF g
<1>9. Removals(st, s, g, m)
  BY <1>0, <1>8
<1>10. Has(m)
  BY <1>9
<1> QED
  BY <1>3, <1>10

(* The stack with some effects taken out from a position on.               *)
Without(p, q, n, k) ==
    /\ Len(p) = Len(q) - k
    /\ \A m \in 1..(Len(q) - k) : Alike(p[m], q[IF m < n THEN m ELSE m + k])

(* removeEffectsByStory takes the effects of the story out.                *)
LEMMA StoryTaken ==
    ASSUME NEW st \in States, Ordered(st.stack), NEW s \in AllStories,
           Found(st.stack, s) # {}, Len(SpeedEffects[s]) \in Nat \ {0}
    PROVE  LET t == removeEffectsByStory(st, s)
           IN  /\ t \in States
               /\ Without(t.stack, st.stack, Lowest(st.stack, s), Len(SpeedEffects[s]))
<1> DEFINE q == st.stack
           n == Lowest(q, s)
           l == Len(SpeedEffects[s])
           tmp == Cardinality(Found(q, s))
           Is(f) == f = [k \in 0..tmp |-> IF k = 0 THEN st
                          ELSE removeEffect(f[k - 1], Lowest(f[k - 1].stack, s))]
           removed == CHOOSE f : Is(f)
<1>1. q \in Seq(Effects) /\ Len(q) \in Nat /\ DOMAIN q = 1..Len(q)
  BY DEF States
<1>2. n \in 1..Len(q) /\ n + l - 1 <= Len(q) /\ Found(q, s) = n..(n + l - 1)
  BY <1>1, Block
<1>3. tmp = l /\ l \in Nat \ {0}
  <2>1. n \in Int /\ n + l - 1 \in Int /\ n <= n + l - 1 /\ (n + l - 1) - n + 1 = l
    BY <1>1, <1>2
  <2> HIDE DEF n, l
  <2>2. Cardinality(n..(n + l - 1)) = l
    BY <2>1, FS_Interval
  <2> QED
    BY <1>2, <2>2 DEF l
<1>4. removeEffectsByStory(st, s) = removed[tmp]
  BY DEF removeEffectsByStory
<1>5. \E f : Is(f)
  <2>1. \E f : Removals(st, s, f, tmp)
    BY <1>3, RemovalsExist
  <2> QED
    BY <2>1 DEF Removals
<1> HIDE DEF tmp
<1>6. Is(removed)
  <2> HIDE DEF Is
  <2> QED
    BY <1>5
<1> HIDE DEF removed
<1>7. /\ removed[0] = st
      /\ \A k \in 1..l : removed[k] = removeEffect(removed[k - 1], Lowest(removed[k - 1].stack, s))
  <2> HIDE DEF l
  <2>1. removed[0] = st
    BY <1>3, <1>6
  <2>2. ASSUME NEW k \in 1..l
        PROVE  removed[k] = removeEffect(removed[k - 1], Lowest(removed[k - 1].stack, s))
    <3>1. k \in 0..tmp /\ k # 0
      BY <1>3
    <3> QED
      BY <1>6, <3>1
  <2> QED
    BY <2>1, <2>2
<1>8. \A m \in 1..Len(q) : q[m].story = s <=> m \in n..(n + l - 1)
  BY <1>1, <1>2 DEF Found
<1> HIDE DEF n, l, q, Is
<1> DEFINE Good(k) == removed[k] \in States /\ Without(removed[k].stack, q, n, k)
           T == {k \in 0..l : ~Good(k)}
<1>9. T = {}
  <2> SUFFICES ASSUME T # {} PROVE FALSE
    OBVIOUS
  <2>1. T \in SUBSET Nat
    BY <1>3
  <2>2. PICK j \in T : \A k \in T : j <= k
    <3> HIDE DEF T
    <3> QED
      BY <2>1, LeastNumber
  <2>3. j \in 0..l /\ ~Good(j)
    BY <2>2
  <2>4. j # 0
    <3>1. Without(q, q, n, 0)
      BY <1>1, <1>2 DEF Without, Alike
    <3>2. Good(0)
      BY <1>7, <3>1 DEF q
    <3> QED
      BY <2>3, <3>2
  <2> DEFINE i == j - 1
             t == removed[i]
  <2>5. i \in 0..(l - 1) /\ i \in 0..l /\ ~(j <= i) /\ i + 1 = j /\ j \in 1..l
    BY <1>3, <2>3, <2>4
  <2>6. Good(i)
    <3> HIDE DEF Good, i
    <3> QED
      BY <2>2, <2>5
  <2>7. t \in States /\ Without(t.stack, q, n, i)
    BY <2>6
  <2>8. removed[j] = removeEffect(t, Lowest(t.stack, s))
    BY <1>7, <2>5
  <2> HIDE DEF t, i, Good
  <2> DEFINE p == t.stack
  <2>9. /\ p \in Seq(Effects) /\ DOMAIN p = 1..Len(p) /\ Len(p) = Len(q) - i
        /\ \A m \in 1..(Len(q) - i) : Alike(p[m], q[IF m < n THEN m ELSE m + i])
    BY <2>7 DEF States, Without
  <2> HIDE DEF p
  <2>10. n \in 1..Len(p) /\ p[n].story = s
    <3>1. n \in 1..(Len(q) - i) /\ n + i \in n..(n + l - 1) /\ n + i \in 1..Len(q)
      BY <1>1, <1>2, <1>3, <2>5
    <3>2. Alike(p[n], q[n + i])
      BY <1>1, <1>2, <2>9, <3>1
    <3> QED
      BY <1>8, <2>9, <3>1, <3>2 DEF Alike
  <2>11. \A m \in Found(p, s) : n <= m
    <3> SUFFICES ASSUME NEW m \in 1..Len(p), p[m].story = s, m < n PROVE FALSE
      BY <1>1, <1>2, <2>9 DEF Found
    <3>1. m \in 1..(Len(q) - i) /\ m \in 1..Len(q) /\ m \notin n..(n + l - 1)
      BY <1>1, <1>2, <2>5, <2>9
    <3>2. Alike(p[m], q[m])
      BY <2>9, <3>1
    <3> QED
      BY <1>8, <3>1, <3>2 DEF Alike
  <2>12. Lowest(p, s) = n
    <3>1. n \in Found(p, s) /\ Found(p, s) \in SUBSET Nat
      BY <2>9, <2>10 DEF Found
    <3> DEFINE F == Found(p, s)
    <3>2. Lowest(p, s) = CHOOSE x \in F : \A m \in F : x <= m
      BY DEF Lowest
    <3> HIDE DEF F
    <3>3. n \in F /\ F \in SUBSET Nat /\ \A m \in F : n <= m
      BY <2>11, <3>1 DEF F
    <3>4. \A x \in F : (\A m \in F : x <= m) => x = n
      BY <3>3
    <3> QED
      BY <3>2, <3>3, <3>4
  <2> DEFINE r == removeEffect(t, n)
  <2>13. /\ r \in States /\ Len(r.stack) = Len(p) - 1
         /\ \A m \in 1..(Len(p) - 1) : Alike(r.stack[m], p[IF m < n THEN m ELSE m + 1])
    BY <2>7, <2>10, Removed DEF p
  <2>14. removed[j] = r
    BY <2>8, <2>12 DEF p
  <2> HIDE DEF r
  <2>15. Len(r.stack) = Len(q) - j
    <3>1. (Len(q) - i) - 1 = Len(q) - j
      BY <1>1, <2>5
    <3> QED
      BY <2>9, <2>13, <3>1
  <2>16. ASSUME NEW m \in 1..(Len(q) - j)
         PROVE  Alike(r.stack[m], q[IF m < n THEN m ELSE m + j])
    <3>1. CASE m < n
      <4>1. m \in 1..(Len(p) - 1) /\ m \in 1..(Len(q) - i)
        BY <1>1, <2>5, <2>9
      <4>2. Alike(r.stack[m], p[m]) /\ Alike(p[m], q[m])
        BY <2>9, <2>13, <3>1, <4>1
      <4> QED
        BY <3>1, <4>2 DEF Alike
    <3>2. CASE ~(m < n)
      <4>1. /\ m \in 1..(Len(p) - 1) /\ m + 1 \in 1..(Len(q) - i) /\ ~(m + 1 < n)
            /\ (m + 1) + i = m + j
        BY <1>1, <1>2, <2>5, <2>9, <3>2
      <4>2. Alike(r.stack[m], p[m + 1]) /\ Alike(p[m + 1], q[(m + 1) + i])
        BY <2>9, <2>13, <3>2, <4>1
      <4> QED
        BY <3>2, <4>1, <4>2 DEF Alike
    <3> QED
      BY <3>1, <3>2
  <2>17. Good(j)
    BY <2>13, <2>14, <2>15, <2>16 DEF Good, Without
  <2> QED
    BY <2>3, <2>17
<1>10. Good(l)
  <2>1. l \in 0..l
    BY <1>3
  <2> HIDE DEF Good
  <2> QED
    BY <1>9, <2>1
<1> QED
  BY <1>3, <1>4, <1>10 DEF n, l, q

(* What is left is in order and has no effect of the story; effects of     *)
(* other stories are where they were on the stack or further down.         *)
LEMMA StoryRemoved ==
    ASSUME NEW st \in States, Ordered(st.stack), NEW s \in AllStories,
           Found(st.stack, s) # {}, Len(SpeedEffects[s]) \in Nat \ {0}
    PROVE  LET t == removeEffectsByStory(st, s)
           IN  /\ t \in States /\ Ordered(t.stack) /\ Found(t.stack, s) = {}
               /\ \A r \in AllStories \ {s} :
                    Found(t.stack, r) # {} <=> Found(st.stack, r) # {}
<1> DEFINE q == st.stack
           n == Lowest(q, s)
           l == Len(SpeedEffects[s])
           t == removeEffectsByStory(st, s)
           p == t.stack
           At(m) == IF m < n THEN m ELSE m + l
<1>1. q \in Seq(Effects) /\ Len(q) \in Nat /\ DOMAIN q = 1..Len(q)
  BY DEF States
<1>2. n \in 1..Len(q) /\ n + l - 1 <= Len(q) /\ Found(q, s) = n..(n + l - 1)
  BY <1>1, Block
<1>3. l \in Nat \ {0}
  OBVIOUS
<1>4. t \in States /\ Without(p, q, n, l)
  BY StoryTaken
<1> HIDE DEF n, l, t
<1>5. p \in Seq(Effects) /\ Len(p) \in Nat /\ DOMAIN p = 1..Len(p) /\ Len(p) = Len(q) - l
  BY <1>4 DEF States, Without
<1>6. \A m \in 1..Len(p) : Alike(p[m], q[At(m)])
  BY <1>4, <1>5 DEF Without
<1>7. \A m \in 1..Len(q) : q[m].story = s <=> m \in n..(n + l - 1)
  BY <1>1, <1>2 DEF Found
<1>8. /\ \A k \in 1..Len(q) :
           /\ q[k].index \in 1..Len(SpeedEffects[q[k].story])
           /\ q[k].index > 1 =>
                k > 1 /\ q[k - 1].story = q[k].story /\ q[k - 1].index = q[k].index - 1
           /\ q[k].index < Len(SpeedEffects[q[k].story]) =>
                k < Len(q) /\ q[k + 1].story = q[k].story /\ q[k + 1].index = q[k].index + 1
      /\ \A k, m \in 1..Len(q) : q[k].story = q[m].story /\ q[k].index = q[m].index => k = m
  BY DEF Ordered
<1> HIDE DEF p, q
<1>9. \A m \in 1..Len(p) :
        /\ At(m) \in 1..Len(q) /\ At(m) \notin n..(n + l - 1)
        /\ p[m].story = q[At(m)].story /\ p[m].index = q[At(m)].index
        /\ q[At(m)].story # s
  <2> TAKE m \in 1..Len(p)
  <2>1. At(m) \in 1..Len(q) /\ At(m) \notin n..(n + l - 1)
    BY <1>1, <1>2, <1>3, <1>5
  <2> HIDE DEF At
  <2>2. q[At(m)].story # s
    BY <1>7, <2>1
  <2> QED
    BY <1>6, <2>1, <2>2 DEF Alike
<1>10. ASSUME NEW m \in 1..Len(p) PROVE p[m].index \in 1..Len(SpeedEffects[p[m].story])
  <2> HIDE DEF At
  <2> QED
    BY <1>8, <1>9
<1>11. ASSUME NEW m \in 1..Len(p), p[m].index > 1
       PROVE  m > 1 /\ p[m - 1].story = p[m].story /\ p[m - 1].index = p[m].index - 1
  <2>1. /\ At(m) > 1 /\ q[At(m) - 1].story = q[At(m)].story
        /\ q[At(m) - 1].index = q[At(m)].index - 1
    <3> HIDE DEF At
    <3> QED
      BY <1>8, <1>9, <1>11
  <2>2. m # n
    <3> SUFFICES ASSUME m = n PROVE FALSE
      OBVIOUS
    <3>1. At(m) - 1 \in n..(n + l - 1) /\ At(m) - 1 \in 1..Len(q)
      BY <1>1, <1>2, <1>3
    <3> HIDE DEF At
    <3> QED
      BY <1>7, <1>9, <2>1, <3>1
  <2>3. m - 1 \in 1..Len(p) /\ At(m - 1) = At(m) - 1
    BY <1>1, <1>2, <1>3, <1>5, <2>1, <2>2
  <2> HIDE DEF At
  <2>4. p[m - 1].story = q[At(m) - 1].story /\ p[m - 1].index = q[At(m) - 1].index
    BY <1>9, <2>3
  <2>5. p[m].story = q[At(m)].story /\ p[m].index = q[At(m)].index
    BY <1>9
  <2>6. m > 1
    BY <1>5, <2>3
  <2> QED
    BY <2>1, <2>4, <2>5, <2>6
<1>12. ASSUME NEW m \in 1..Len(p), p[m].index < Len(SpeedEffects[p[m].story])
       PROVE  m < Len(p) /\ p[m + 1].story = p[m].story /\ p[m + 1].index = p[m].index + 1
  <2>1. /\ At(m) < Len(q) /\ q[At(m) + 1].story = q[At(m)].story
        /\ q[At(m) + 1].index = q[At(m)].index + 1
    <3> HIDE DEF At
    <3> QED
      BY <1>8, <1>9, <1>12
  <2>2. m + 1 # n
    <3> SUFFICES ASSUME m + 1 = n PROVE FALSE
      OBVIOUS
    <3>1. At(m) + 1 \in n..(n + l - 1) /\ At(m) + 1 \in 1..Len(q)
      BY <1>1, <1>2, <1>3
    <3> HIDE DEF At
    <3> QED
      BY <1>7, <1>9, <2>1, <3>1
  <2>3. m + 1 \in 1..Len(p) /\ At(m + 1) = At(m) + 1
    BY <1>1, <1>2, <1>3, <1>5, <2>1, <2>2
  <2> HIDE DEF At
  <2>4. p[m + 1].story = q[At(m) + 1].story /\ p[m + 1].index = q[At(m) + 1].index
    BY <1>9, <2>3
  <2>5. p[m].story = q[At(m)].story /\ p[m].index = q[At(m)].index
    BY <1>9
  <2>6. m < Len(p)
    BY <1>5, <2>3
  <2> QED
    BY <2>1, <2>4, <2>5, <2>6
<1>13. ASSUME NEW k \in 1..Len(p), NEW m \in 1..Len(p),
              p[k].story = p[m].story, p[k].index = p[m].index
       PROVE  k = m
  <2>1. At(k) = At(m)
    <3> HIDE DEF At
    <3>1. /\ At(k) \in 1..Len(q) /\ At(m) \in 1..Len(q)
          /\ q[At(k)].story = q[At(m)].story /\ q[At(k)].index = q[At(m)].index
      BY <1>9, <1>13
    <3> QED
      BY <1>8, <3>1
  <2> QED
    BY <1>1, <1>2, <1>3, <1>5, <2>1
<1>14. Ordered(p)
  <2> HIDE DEF At
  <2> QED
    BY <1>10, <1>11, <1>12, <1>13 DEF Ordered
<1>15. Found(p, s) = {}
  <2> HIDE DEF At
  <2> QED
    BY <1>5, <1>9 DEF Found
<1>16. ASSUME NEW r \in AllStories \ {s}
       PROVE  Found(p, r) # {} <=> Found(q, r) # {}
  <2>1. ASSUME Found(p, r) # {} PROVE Found(q, r) # {}
    <3> HIDE DEF At
    <3>1. PICK m \in 1..Len(p) : p[m].story = r
      BY <1>5, <2>1 DEF Found
    <3>2. At(m) \in Found(q, r)
      BY <1>1, <1>9, <3>1 DEF Found
    <3> QED
      BY <3>2
  <2>2. ASSUME Found(q, r) # {} PROVE Found(p, r) # {}
    <3>1. PICK k \in 1..Len(q) : q[k].story = r
      BY <1>1, <2>2 DEF Found
    <3>2. k \notin n..(n + l - 1)
      BY <1>7, <3>1
    <3> DEFINE m == IF k < n THEN k ELSE k - l
    <3>3. m \in 1..Len(p) /\ At(m) = k
      BY <1>1, <1>2, <1>3, <1>5, <3>2
    <3> HIDE DEF At, m
    <3>4. m \in Found(p, r)
      BY <1>5, <1>9, <3>1, <3>3 DEF Found
    <3> QED
      BY <3>4
  <2> QED
    BY <2>1, <2>2
<1> QED
  BY <1>4, <1>14, <1>15, <1>16 DEF t, p, q

-----------------------------------------------------------------------------
(* Adding the effects of a story.                                          *)

(* What effects remember does not matter for their order.                  *)
LEMMA SameOrder ==
    ASSUME NEW p \in Seq(Effects), NEW q \in Seq(Effects), Ordered(q),
           Len(p) = Len(q), \A m \in 1..Len(q) : Alike(p[m], q[m])
    PROVE  Ordered(p) /\ \A r : Found(p, r) = Found(q, r)
<1>1. Len(q) \in Nat /\ DOMAIN p = 1..Len(q) /\ DOMAIN q = 1..Len(q)
  OBVIOUS
<1>2. \A m \in 1..Len(q) : p[m].story = q[m].story /\ p[m].index = q[m].index
  BY DEF Alike
<1>3. \A m \in 1..Len(q) : (m > 1 => m - 1 \in 1..Len(q)) /\ (m < Len(q) => m + 1 \in 1..Len(q))
  BY <1>1
<1>4. ASSUME NEW m \in 1..Len(q)
      PROVE  /\ p[m].index \in 1..Len(SpeedEffects[p[m].story])
             /\ p[m].index > 1 =>
                  m > 1 /\ p[m - 1].story = p[m].story /\ p[m - 1].index = p[m].index - 1
             /\ p[m].index < Len(SpeedEffects[p[m].story]) =>
                  m < Len(q) /\ p[m + 1].story = p[m].story /\ p[m + 1].index = p[m].index + 1
  BY <1>2, <1>3 DEF Ordered
<1>5. \A n, m \in 1..Len(q) : p[n].story = p[m].story /\ p[n].index = p[m].index => n = m
  BY <1>2 DEF Ordered
<1>6. Ordered(p)
  BY <1>4, <1>5 DEF Ordered
<1> QED
  BY <1>1, <1>2, <1>6 DEF Found

(* The effects that a story creates, in order.                             *)
LEMMA CreatedEffects ==
    ASSUME NEW c \in Cars, NEW s \in AllStories, Len(SpeedEffects[s]) \in Nat \ {0}
    PROVE  /\ Created(c, s) \in Seq(Effects) /\ Len(Created(c, s)) = Len(SpeedEffects[s])
           /\ \A i \in 1..Len(SpeedEffects[s]) :
                Created(c, s)[i].story = s /\ Created(c, s)[i].index = i
<1> DEFINE l == Len(SpeedEffects[s])
           q == Created(c, s)
<1>1. q = [i \in 1..l |-> [car |-> c, story |-> s, index |-> i,
                           speed |-> SpeedEffects[s][i], current |-> OriginalSpeed]]
  BY DEF Created
<1>2. OriginalSpeed \in AllSpeeds /\ \A i \in 1..l : SpeedEffects[s][i] \in AllSpeeds
  <2>1. OriginalSpeed \in AllSpeeds
    BY DEF AllSpeeds
  <2>2. ASSUME NEW i \in 1..l PROVE SpeedEffects[s][i] \in AllSpeeds
    <3>1. SpeedEffects[s][i] \in {SpeedEffects[s][j] : j \in 1..Len(SpeedEffects[s])}
      OBVIOUS
    <3> QED
      BY <3>1 DEF AllSpeeds
  <2> QED
    BY <2>1, <2>2
<1>3. l \in Nat
  OBVIOUS
<1> HIDE DEF l
<1>4. q \in [1..l -> Effects] /\ \A i \in 1..l : q[i].story = s /\ q[i].index = i
  BY <1>1, <1>2, <1>3 DEF Effects
<1> HIDE DEF q
<1> QED
  BY <1>3, <1>4, AsSequence DEF q, l

(* addEffect puts a story that is not on the stack on top of the others.   *)
LEMMA StoryAdded ==
    ASSUME NEW st \in States, Ordered(st.stack), NEW c \in Cars, NEW s \in AllStories,
           Found(st.stack, s) = {}, Len(SpeedEffects[s]) \in Nat \ {0}
    PROVE  LET t == addEffect(st, c, s)
           IN  /\ t \in States /\ Ordered(t.stack) /\ Found(t.stack, s) # {}
               /\ \A r \in AllStories \ {s} :
                    Found(t.stack, r) # {} <=> Found(st.stack, r) # {}
<1> DEFINE q == st.stack
           new == Created(c, s)
           p == q \o new
           l == Len(SpeedEffects[s])
           up == [st EXCEPT !.stack = p]
           t == Apply(up, Len(q) + 1)
<1>1. q \in Seq(Effects) /\ Len(q) \in Nat /\ DOMAIN q = 1..Len(q)
  BY DEF States
<1>2. /\ new \in Seq(Effects) /\ Len(new) = l /\ l \in Nat \ {0}
      /\ \A i \in 1..l : new[i].story = s /\ new[i].index = i
  BY CreatedEffects
<1>3. addEffect(st, c, s) = t
  BY DEF addEffect
<1> HIDE DEF new, l
<1>4. p \in Seq(Effects) /\ Len(p) = Len(q) + l /\ DOMAIN p = 1..Len(p)
  <2>1. p \in Seq(Effects) /\ Len(p) = Len(q) + Len(new)
    <3> HIDE DEF q
    <3> QED
      BY <1>1, <1>2, ConcatProperties
  <2> HIDE DEF p
  <2> QED
    BY <1>2, <2>1
<1>5. /\ \A m \in 1..Len(q) : p[m] = q[m]
      /\ \A m \in (Len(q) + 1)..(Len(q) + l) : p[m].story = s /\ p[m].index = m - Len(q)
  <2>1. \A m \in 1..Len(q) : p[m] = q[m]
    BY <1>1, <1>2
  <2>2. ASSUME NEW m \in (Len(q) + 1)..(Len(q) + l)
        PROVE  p[m].story = s /\ p[m].index = m - Len(q)
    <3>1. p[m] = new[m - Len(q)] /\ m - Len(q) \in 1..l
      BY <1>1, <1>2
    <3> QED
      BY <1>2, <3>1
  <2> QED
    BY <2>1, <2>2
<1>6. up \in States /\ up.stack = p
  <2> HIDE DEF p
  <2> QED
    BY <1>4 DEF States
<1> HIDE DEF p, up
<1>7. /\ t \in States /\ Len(t.stack) = Len(p)
      /\ \A m \in 1..Len(p) : Alike(t.stack[m], p[m])
  BY <1>1, <1>6, Applied
<1>8. \A m \in 1..Len(q) : q[m].story # s
  BY <1>1 DEF Found
<1>9. /\ \A k \in 1..Len(q) :
           /\ q[k].index \in 1..Len(SpeedEffects[q[k].story])
           /\ q[k].index > 1 =>
                k > 1 /\ q[k - 1].story = q[k].story /\ q[k - 1].index = q[k].index - 1
           /\ q[k].index < Len(SpeedEffects[q[k].story]) =>
                k < Len(q) /\ q[k + 1].story = q[k].story /\ q[k + 1].index = q[k].index + 1
      /\ \A k, m \in 1..Len(q) : q[k].story = q[m].story /\ q[k].index = q[m].index => k = m
  BY DEF Ordered
<1> HIDE DEF q, t
<1>10. ASSUME NEW m \in 1..Len(p)
       PROVE  /\ p[m].index \in 1..Len(SpeedEffects[p[m].story])
              /\ p[m].index > 1 =>
                   m > 1 /\ p[m - 1].story = p[m].story /\ p[m - 1].index = p[m].index - 1
              /\ p[m].index < Len(SpeedEffects[p[m].story]) =>
                   m < Len(p) /\ p[m + 1].story = p[m].story /\ p[m + 1].index = p[m].index + 1
  <2>1. CASE m <= Len(q)
    <3>1. m \in 1..Len(q) /\ (m > 1 => m - 1 \in 1..Len(q)) /\ (m < Len(q) => m + 1 \in 1..Len(q))
      BY <1>1, <2>1
    <3>2. Len(q) <= Len(p)
      BY <1>1, <1>2, <1>4
    <3>3. m < Len(q) => m < Len(p)
      BY <1>1, <1>2, <1>4
    <3> QED
      BY <1>5, <1>9, <3>1, <3>3
  <2>2. CASE ~(m <= Len(q))
    <3> DEFINE i == m - Len(q)
    <3>1. /\ m \in (Len(q) + 1)..(Len(q) + l) /\ i \in 1..l
          /\ (i > 1 => m > 1 /\ m - 1 \in (Len(q) + 1)..(Len(q) + l) /\ (m - 1) - Len(q) = i - 1)
          /\ (i < l => /\ m < Len(p) /\ m + 1 \in (Len(q) + 1)..(Len(q) + l)
                       /\ (m + 1) - Len(q) = i + 1)
      BY <1>1, <1>2, <1>4, <2>2
    <3>2. p[m].story = s /\ p[m].index = i /\ Len(SpeedEffects[p[m].story]) = l
      BY <1>5, <3>1 DEF l
    <3> HIDE DEF i
    <3>3. i > 1 => p[m - 1].story = s /\ p[m - 1].index = i - 1
      BY <1>5, <3>1
    <3>4. i < l => p[m + 1].story = s /\ p[m + 1].index = i + 1
      BY <1>5, <3>1
    <3> QED
      BY <3>1, <3>2, <3>3, <3>4
  <2> QED
    BY <2>1, <2>2
<1>11. ASSUME NEW k \in 1..Len(p), NEW m \in 1..Len(p),
              p[k].story = p[m].story, p[k].index = p[m].index
       PROVE  k = m
  <2>1. \A x \in 1..Len(p) : x \in 1..Len(q) \/ x \in (Len(q) + 1)..(Len(q) + l)
    BY <1>1, <1>2, <1>4
  <2>2. CASE k \in 1..Len(q) /\ m \in 1..Len(q)
    BY <1>5, <1>9, <1>11, <2>2
  <2>3. CASE k \in (Len(q) + 1)..(Len(q) + l) /\ m \in (Len(q) + 1)..(Len(q) + l)
    <3>1. k - Len(q) = m - Len(q)
      BY <1>5, <1>11, <2>3
    <3> QED
      BY <1>1, <2>3, <3>1
  <2>4. CASE k \in 1..Len(q) /\ m \in (Len(q) + 1)..(Len(q) + l)
    BY <1>5, <1>8, <1>11, <2>4
  <2>5. CASE m \in 1..Len(q) /\ k \in (Len(q) + 1)..(Len(q) + l)
    BY <1>5, <1>8, <1>11, <2>5
  <2> QED
    BY <2>1, <2>2, <2>3, <2>4, <2>5
<1>12. Ordered(p)
  BY <1>10, <1>11 DEF Ordered
<1>13. t.stack \in Seq(Effects)
  BY <1>7 DEF States
<1>14. Ordered(t.stack) /\ \A r : Found(t.stack, r) = Found(p, r)
  BY <1>4, <1>7, <1>12, <1>13, SameOrder
<1>15. Found(p, s) # {}
  <2>1. Len(q) + 1 \in (Len(q) + 1)..(Len(q) + l) /\ Len(q) + 1 \in 1..Len(p)
    BY <1>1, <1>2, <1>4
  <2>2. Len(q) + 1 \in Found(p, s)
    BY <1>4, <1>5, <2>1 DEF Found
  <2> QED
    BY <2>2
<1>16. ASSUME NEW r \in AllStories \ {s}
       PROVE  Found(p, r) = Found(q, r)
  <2>1. \A x \in 1..Len(p) : x \in 1..Len(q) \/ x \in (Len(q) + 1)..(Len(q) + l)
    BY <1>1, <1>2, <1>4
  <2>2. 1..Len(q) \subseteq 1..Len(p)
    BY <1>1, <1>2, <1>4
  <2> QED
    BY <1>1, <1>4, <1>5, <2>1, <2>2 DEF Found
<1> QED
  BY <1>3, <1>7, <1>14, <1>15, <1>16 DEF q

(* checkCar: with a condition that holds the story is on the stack         *)
(* afterwards, and other stories are not touched.                          *)
LEMMA StoryHolds ==
    ASSUME NEW st \in States, Ordered(st.stack), NEW c \in Cars, NEW s \in AllStories,
           NEW t, t = Checked(st, c, s, TRUE), Len(SpeedEffects[s]) \in Nat \ {0}
    PROVE  /\ t \in States /\ Ordered(t.stack) /\ isStoryOnStack(t, s)
           /\ \A r \in AllStories \ {s} : isStoryOnStack(t, r) <=> isStoryOnStack(st, r)
<1>1. CASE Found(st.stack, s) # {}
  <2>1. t = st
    BY <1>1 DEF Checked, isStoryOnStack
  <2> QED
    BY <1>1, <2>1 DEF isStoryOnStack
<1>2. CASE Found(st.stack, s) = {}
  <2>1. t = addEffect(st, c, s)
    BY <1>2 DEF Checked, isStoryOnStack
  <2> DEFINE u == addEffect(st, c, s)
  <2>2. /\ u \in States /\ Ordered(u.stack) /\ Found(u.stack, s) # {}
        /\ \A r \in AllStories \ {s} : Found(u.stack, r) # {} <=> Found(st.stack, r) # {}
    BY <1>2, StoryAdded
  <2>3. t = u
    BY <2>1
  <2> HIDE DEF u
  <2> QED
    BY <2>2, <2>3 DEF isStoryOnStack
<1> QED
  BY <1>1, <1>2

(* checkCar: with a condition that does not hold it is not.                *)
LEMMA StoryEnds ==
    ASSUME NEW st \in States, Ordered(st.stack), NEW c \in Cars, NEW s \in AllStories,
           NEW t, t = Checked(st, c, s, FALSE), Len(SpeedEffects[s]) \in Nat \ {0}
    PROVE  /\ t \in States /\ Ordered(t.stack) /\ ~isStoryOnStack(t, s)
           /\ \A r \in AllStories \ {s} : isStoryOnStack(t, r) <=> isStoryOnStack(st, r)
<1>1. CASE Found(st.stack, s) = {}
  <2>1. t = st
    BY <1>1 DEF Checked, isStoryOnStack
  <2> QED
    BY <1>1, <2>1 DEF isStoryOnStack
<1>2. CASE Found(st.stack, s) # {}
  <2>1. t = removeEffectsByStory(st, s)
    BY <1>2 DEF Checked, isStoryOnStack
  <2> DEFINE u == removeEffectsByStory(st, s)
  <2>2. /\ u \in States /\ Ordered(u.stack) /\ Found(u.stack, s) = {}
        /\ \A r \in AllStories \ {s} : Found(u.stack, r) # {} <=> Found(st.stack, r) # {}
    BY <1>2, StoryRemoved
  <2>3. t = u
    BY <2>1
  <2> HIDE DEF u
  <2> QED
    BY <2>2, <2>3 DEF isStoryOnStack
<1> QED
  BY <1>1, <1>2

-----------------------------------------------------------------------------
(* The invariant.                                                          *)

(* A tested car has a story on its stack just if the condition held.       *)
Match(c, s) == holds[c] # Nothing /\ (s \in holds[c] <=> Found(StackOf(c), s) # {})

(* Every stack is in order, also those of cars that left.                  *)
StacksInv == \A a \in Addresses : Ordered(m_affectedCars[a])

(* Cars share no stack, and a car that never joined was never tested.      *)
CarsInv ==
    /\ \A c \in Cars \ joined : m_vehicles[c] = Nothing /\ holds[c] = Nothing
    /\ \A c, d \in Present : m_vehicles[c] = m_vehicles[d] => c = d

(* In the course of updateStoryboard the stories not on the agenda any more *)
(* match; at other times all stories of all cars that were tested do.      *)
AgendaInv ==
    /\ phase = "stories" =>
         \A c \in Present, i \in DOMAIN Stories : <<c, i>> \in agenda \/ Match(c, Stories[i])
    /\ phase # "stories" =>
         /\ agenda = {}
         /\ \A c \in Present, i \in DOMAIN Stories : holds[c] # Nothing => Match(c, Stories[i])

IInv == TypeOK /\ StacksInv /\ CarsInv /\ AgendaInv

(* Some facts of any state: present cars have an address and joined.       *)
LEMMA PresentFacts ==
    ASSUME IInv
    PROVE  \A c \in Present : c \in Cars /\ m_vehicles[c] \in Addresses /\ c \in joined
<1> SUFFICES ASSUME NEW c \in Present
             PROVE  c \in Cars /\ m_vehicles[c] \in Addresses /\ c \in joined
  OBVIOUS
<1>1. c \in Cars /\ m_vehicles[c] # Nothing
  BY DEF Present
<1>2. m_vehicles[c] \in Addresses \cup {Nothing}
  BY <1>1 DEF IInv, TypeOK
<1> QED
  BY <1>1, <1>2 DEF IInv, CarsInv

(* Stacks that are not touched stay in order.                              *)
LEMMA SameStacks ==
    ASSUME StacksInv, m_affectedCars' = m_affectedCars
    PROVE  StacksInv'
<1>1. \A a \in Addresses : Ordered(m_affectedCars'[a])
  BY DEF StacksInv
<1> QED
  BY <1>1 DEF StacksInv, Ordered

(* The storyboard starts with no cars and empty stacks.                    *)
LEMMA InitInv == Init => IInv
<1> SUFFICES ASSUME Init PROVE IInv
  OBVIOUS
<1> USE StoryboardAssumption
<1>1. Present = {}
  BY DEF Init, Present
<1>2. OriginalSpeed \in AllSpeeds
  BY DEF AllSpeeds
<1>3. TypeOK
  <2>1. << >> \in Seq(Effects)
    OBVIOUS
  <2> HIDE DEF Effects, AllSpeeds, AllStories
  <2> QED
    BY <1>1, <1>2, <2>1 DEF Init, TypeOK
<1>4. StacksInv
  BY DEF Init, StacksInv, Ordered
<1>5. CarsInv /\ AgendaInv
  BY <1>1 DEF Init, CarsInv, AgendaInv
<1> QED
  BY <1>3, <1>4, <1>5 DEF IInv

LEMMA BeginStepInv ==
    ASSUME IInv, BeginStep
    PROVE  IInv'
<1>1. /\ phase = "idle" /\ phase' = "nodes"
      /\ UNCHANGED <<agenda, joined, m_vehicles, m_affectedCars, maxSpeed, holds>>
      /\ cache' = [c \in Cars |-> Nothing] /\ changes' = [c \in Cars |-> 0]
  BY DEF BeginStep
<1>2. Present' = Present
  BY <1>1 DEF Present
<1>3. \A c, s : Match(c, s)' <=> Match(c, s)
  BY <1>1 DEF Match, StackOf, Found
<1>4. TypeOK'
  BY <1>1, <1>2, StoryboardAssumption DEF IInv, TypeOK
<1>5. StacksInv'
  BY <1>1, SameStacks DEF IInv
<1>6. CarsInv'
  BY <1>1, <1>2 DEF IInv, CarsInv
<1>7. AgendaInv'
  BY <1>1, <1>2, <1>3 DEF IInv, AgendaInv
<1> QED
  BY <1>4, <1>5, <1>6, <1>7 DEF IInv

LEMMA AddNodeInv ==
    ASSUME IInv, NEW c \in Cars, AddNode(c)
    PROVE  IInv'
<1>1. /\ phase # "stories" /\ c \notin joined /\ joined' = joined \cup {c}
      /\ UNCHANGED <<phase, agenda, m_affectedCars, maxSpeed, cache, holds, changes>>
  BY DEF AddNode
<1>2. PICK a \in Addresses \ {m_vehicles[d] : d \in Cars} :
        m_vehicles' = [m_vehicles EXCEPT ![c] = a]
  BY DEF AddNode
<1>3. m_vehicles \in [Cars -> Addresses \cup {Nothing}] /\ a \in Addresses
      /\ \A d \in Cars : m_vehicles[d] # a
  BY DEF IInv, TypeOK
<1>4. m_vehicles' \in [Cars -> Addresses \cup {Nothing}] /\ m_vehicles'[c] = a
      /\ \A d \in Cars \ {c} : m_vehicles'[d] = m_vehicles[d]
  BY <1>2, <1>3
<1>5. a # Nothing /\ Present' = Present \cup {c} /\ holds[c] = Nothing
  BY <1>1, <1>3, <1>4, StoryboardAssumption DEF IInv, CarsInv, Present
<1>6. \A d \in Cars \ {c}, s \in AllStories : Match(d, s)' <=> Match(d, s)
  BY <1>1, <1>4 DEF Match, StackOf, Found
<1>7. TypeOK'
  BY <1>1, <1>4, <1>5 DEF IInv, TypeOK
<1>8. StacksInv'
  BY <1>1, SameStacks DEF IInv
<1>9. CarsInv'
  <2>1. \A d \in Cars \ joined' : m_vehicles'[d] = Nothing /\ holds'[d] = Nothing
    BY <1>1, <1>4 DEF IInv, CarsInv
  <2>2. ASSUME NEW d \in Present', NEW e \in Present', m_vehicles'[d] = m_vehicles'[e]
        PROVE  d = e
    <3>1. d \in Cars /\ e \in Cars /\ (d # c => d \in Present) /\ (e # c => e \in Present)
      BY <1>5 DEF Present
    <3> QED
      BY <1>3, <1>4, <2>2, <3>1 DEF IInv, CarsInv
  <2> QED
    BY <2>1, <2>2 DEF CarsInv
<1>10. AgendaInv'
  <2>1. phase' # "stories" /\ agenda' = {}
    BY <1>1 DEF IInv, AgendaInv
  <2>2. ASSUME NEW d \in Present', NEW i \in DOMAIN Stories, holds'[d] # Nothing
        PROVE  Match(d, Stories[i])'
    <3>1. d # c /\ d \in Present /\ d \in Cars /\ holds[d] # Nothing
      BY <1>1, <1>5, <2>2 DEF Present
    <3>2. Stories[i] \in AllStories
      BY DEF AllStories
    <3>3. Match(d, Stories[i])
      BY <1>1, <3>1 DEF IInv, AgendaInv
    <3> QED
      BY <1>6, <3>1, <3>2, <3>3
  <2> QED
    BY <2>1, <2>2 DEF AgendaInv
<1> QED
  BY <1>7, <1>8, <1>9, <1>10 DEF IInv

LEMMA RemoveNodeInv ==
    ASSUME IInv, NEW c \in Cars, RemoveNode(c)
    PROVE  IInv'
<1>1. /\ phase = "nodes" /\ m_vehicles' = [m_vehicles EXCEPT ![c] = Nothing]
      /\ UNCHANGED <<phase, agenda, joined, m_affectedCars, maxSpeed, cache, holds, changes>>
  BY DEF RemoveNode
<1>2. m_vehicles \in [Cars -> Addresses \cup {Nothing}]
  BY DEF IInv, TypeOK
<1>3. m_vehicles' \in [Cars -> Addresses \cup {Nothing}] /\ m_vehicles'[c] = Nothing
      /\ \A d \in Cars \ {c} : m_vehicles'[d] = m_vehicles[d]
  BY <1>1, <1>2
<1>4. Present' = Present \ {c} /\ agenda = {}
  BY <1>1, <1>3 DEF Present, IInv, AgendaInv
<1>5. \A d \in Cars \ {c}, s \in AllStories : Match(d, s)' <=> Match(d, s)
  BY <1>1, <1>3 DEF Match, StackOf, Found
<1>6. TypeOK'
  BY <1>1, <1>3, <1>4 DEF IInv, TypeOK
<1>7. StacksInv'
  BY <1>1, SameStacks DEF IInv
<1>8. CarsInv'
  <2>1. \A d \in Cars \ joined' : m_vehicles'[d] = Nothing /\ holds'[d] = Nothing
    BY <1>1, <1>3 DEF IInv, CarsInv
  <2>2. \A d \in Present' : d \in Present /\ d \in Cars /\ d # c
    BY <1>4 DEF Present
  <2>3. \A d, e \in Present' : m_vehicles'[d] = m_vehicles'[e] => d = e
    BY <1>3, <2>2 DEF IInv, CarsInv
  <2> QED
    BY <2>1, <2>3 DEF CarsInv
<1>9. AgendaInv'
  <2>1. phase' # "stories" /\ agenda' = {}
    BY <1>1, <1>4
  <2>2. ASSUME NEW d \in Present', NEW i \in DOMAIN Stories, holds'[d] # Nothing
        PROVE  Match(d, Stories[i])'
    <3>1. d # c /\ d \in Present /\ d \in Cars /\ holds[d] # Nothing
      BY <1>1, <1>4, <2>2 DEF Present
    <3>2. Stories[i] \in AllStories
      BY DEF AllStories
    <3>3. Match(d, Stories[i])
      BY <1>1, <3>1 DEF IInv, AgendaInv
    <3> QED
      BY <1>5, <3>1, <3>2, <3>3
  <2> QED
    BY <2>1, <2>2 DEF AgendaInv
<1> QED
  BY <1>6, <1>7, <1>8, <1>9 DEF IInv

LEMMA UpdateStoryboardInv ==
    ASSUME IInv, updateStoryboard
    PROVE  IInv'
<1>1. /\ phase = "nodes" /\ agenda' = Present \X DOMAIN Stories
      /\ phase' = IF agenda' = {} THEN "idle" ELSE "stories"
      /\ UNCHANGED <<joined, m_vehicles, m_affectedCars, maxSpeed, cache, holds, changes>>
  BY DEF updateStoryboard
<1>2. Present' = Present
  BY <1>1 DEF Present
<1>3. TypeOK'
  BY <1>1, <1>2 DEF IInv, TypeOK
<1>4. StacksInv'
  BY <1>1, SameStacks DEF IInv
<1>5. CarsInv'
  BY <1>1, <1>2 DEF IInv, CarsInv
<1>6. AgendaInv'
  <2>1. \A c \in Present, i \in DOMAIN Stories : <<c, i>> \in agenda'
    BY <1>1
  <2>2. phase' # "stories" => agenda' = {}
    BY <1>1
  <2> QED
    BY <1>2, <2>1, <2>2 DEF AgendaInv
<1> QED
  BY <1>3, <1>4, <1>5, <1>6 DEF IInv

LEMMA CheckCarInv ==
    ASSUME IInv, NEW c \in Cars, NEW i \in DOMAIN Stories, checkCar(c, i)
    PROVE  IInv'
<1> DEFINE s == Stories[i]
           a == m_vehicles[c]
<1>1. /\ phase = "stories" /\ <<c, i>> \in agenda /\ agenda' = agenda \ {<<c, i>>}
      /\ phase' = IF agenda' = {} THEN "idle" ELSE "stories"
      /\ UNCHANGED <<joined, m_vehicles>>
  BY DEF checkCar
<1>2. PICK result \in BOOLEAN :
        /\ result # (s \in Held(c)) => changes[c] < MaxChanges
        /\ changes' = [changes EXCEPT ![c] = IF result # (s \in Held(c)) THEN @ + 1 ELSE @]
        /\ holds' = [holds EXCEPT ![c] = IF result THEN Held(c) \cup {s} ELSE Held(c) \ {s}]
        /\ m_affectedCars' = [m_affectedCars EXCEPT ![a] = Checked(State(c), c, s, result).stack]
        /\ maxSpeed' = [maxSpeed EXCEPT ![c] = Checked(State(c), c, s, result).speed]
        /\ cache' = [cache EXCEPT ![c] = Checked(State(c), c, s, result).cache]
  BY DEF checkCar
<1> DEFINE t == Checked(State(c), c, s, result)
           changed == result # (s \in Held(c))
           held == IF result THEN Held(c) \cup {s} ELSE Held(c) \ {s}
<1>3. c \in Present /\ a \in Addresses /\ s \in AllStories
  BY <1>1, PresentFacts DEF IInv, TypeOK, AllStories
<1>4. State(c) \in States /\ Ordered(State(c).stack) /\ State(c).stack = m_affectedCars[a]
  BY <1>3 DEF IInv, TypeOK, StacksInv, State, States
<1>5. Len(SpeedEffects[s]) \in Nat \ {0} /\ MaxChanges \in Nat
  BY <1>3, StoryboardAssumption
<1>6. /\ t \in States /\ Ordered(t.stack)
      /\ Found(t.stack, s) # {} <=> result
      /\ \A r \in AllStories \ {s} : Found(t.stack, r) # {} <=> Found(State(c).stack, r) # {}
  <2> DEFINE st == State(c)
  <2>1. st \in States /\ Ordered(st.stack) /\ t = Checked(st, c, s, result)
        /\ result \in BOOLEAN
    BY <1>2, <1>4
  <2> HIDE DEF st, s, t
  <2>2. /\ t \in States /\ Ordered(t.stack)
        /\ isStoryOnStack(t, s) <=> result
        /\ \A r \in AllStories \ {s} : isStoryOnStack(t, r) <=> isStoryOnStack(st, r)
    <3>1. CASE result = TRUE
      <4>1. t = Checked(st, c, s, TRUE)
        BY <2>1, <3>1
      <4>2. /\ t \in States /\ Ordered(t.stack) /\ isStoryOnStack(t, s)
            /\ \A r \in AllStories \ {s} : isStoryOnStack(t, r) <=> isStoryOnStack(st, r)
        BY <1>3, <1>5, <2>1, <4>1, StoryHolds
      <4> QED
        BY <3>1, <4>2
    <3>2. CASE result = FALSE
      <4>1. t = Checked(st, c, s, FALSE)
        BY <2>1, <3>2
      <4>2. /\ t \in States /\ Ordered(t.stack) /\ ~isStoryOnStack(t, s)
            /\ \A r \in AllStories \ {s} : isStoryOnStack(t, r) <=> isStoryOnStack(st, r)
        BY <1>3, <1>5, <2>1, <4>1, StoryEnds
      <4> QED
        BY <3>2, <4>2
    <3> QED
      BY <2>1, <3>1, <3>2
  <2> QED
    BY <2>2 DEF st, isStoryOnStack
<1>7. held \in SUBSET AllStories /\ held # Nothing /\ (s \in held <=> result)
      /\ \A r \in AllStories \ {s} : r \in held <=> r \in Held(c)
  <2>1. Held(c) \in SUBSET AllStories
    BY DEF IInv, TypeOK, Held
  <2>2. held \in SUBSET AllStories /\ (s \in held <=> result)
        /\ \A r \in AllStories \ {s} : r \in held <=> r \in Held(c)
    BY <1>3, <2>1
  <2> HIDE DEF held
  <2> QED
    BY <2>2, StoryboardAssumption
<1>8. Present' = Present
  BY <1>1 DEF Present
<1> HIDE DEF t, held, a, s
<1>9. /\ m_affectedCars' = [m_affectedCars EXCEPT ![a] = t.stack]
      /\ maxSpeed' = [maxSpeed EXCEPT ![c] = t.speed]
      /\ cache' = [cache EXCEPT ![c] = t.cache]
      /\ holds' = [holds EXCEPT ![c] = held]
  BY <1>2 DEF t, held, a, s
<1>10. t.stack \in Seq(Effects) /\ t.speed \in AllSpeeds /\ t.cache \in AllSpeeds \cup {Nothing}
  BY <1>6 DEF States
<1>11. TypeOK'
  <2>1. changes' \in [Cars -> 0..MaxChanges]
    <3>1. changes \in [Cars -> 0..MaxChanges] /\ changes[c] \in 0..MaxChanges
      BY DEF IInv, TypeOK
    <3> HIDE DEF changed
    <3>2. (IF changed THEN changes[c] + 1 ELSE changes[c]) \in 0..MaxChanges
      <4>1. changed => changes[c] < MaxChanges
        BY <1>2 DEF changed
      <4> QED
        BY <1>5, <3>1, <4>1
    <3>3. changes' = [changes EXCEPT ![c] = IF changed THEN changes[c] + 1 ELSE changes[c]]
      BY <1>2, <3>1 DEF changed
    <3> QED
      BY <3>1, <3>2, <3>3
  <2>2. phase' \in {"idle", "nodes", "stories"} /\ agenda' \subseteq Present \X DOMAIN Stories
    BY <1>1 DEF IInv, TypeOK
  <2>3. /\ m_affectedCars' \in [Addresses -> Seq(Effects)] /\ maxSpeed' \in [Cars -> AllSpeeds]
        /\ cache' \in [Cars -> AllSpeeds \cup {Nothing}]
        /\ holds' \in [Cars -> (SUBSET AllStories) \cup {Nothing}]
    BY <1>7, <1>9, <1>10 DEF IInv, TypeOK
  <2> QED
    BY <1>1, <1>8, <2>1, <2>2, <2>3 DEF IInv, TypeOK
<1>12. /\ m_affectedCars'[a] = t.stack
       /\ \A b \in Addresses \ {a} : m_affectedCars'[b] = m_affectedCars[b]
  BY <1>3, <1>9 DEF IInv, TypeOK
<1>13. holds'[c] = held /\ \A d \in Cars \ {c} : holds'[d] = holds[d]
  BY <1>9 DEF IInv, TypeOK
<1>14. StacksInv'
  <2> HIDE DEF Ordered
  <2>1. \A b \in Addresses : Ordered(m_affectedCars'[b])
    BY <1>6, <1>12 DEF IInv, StacksInv
  <2> QED
    BY <2>1 DEF StacksInv, Ordered
<1>15. CarsInv'
  <2>1. c \in joined
    BY <1>3, PresentFacts
  <2> QED
    BY <1>1, <1>8, <1>13, <2>1 DEF IInv, CarsInv
<1>16. ASSUME NEW d \in Present \ {c}, NEW r, Match(d, r)
       PROVE  Match(d, r)'
  <2>1. d \in Cars /\ m_vehicles[d] \in Addresses /\ m_vehicles[d] # a
    BY <1>3, PresentFacts DEF IInv, CarsInv, a
  <2>2. holds'[d] = holds[d] /\ m_affectedCars'[m_vehicles'[d]] = m_affectedCars[m_vehicles[d]]
    BY <1>1, <1>12, <1>13, <2>1
  <2> QED
    BY <1>16, <2>2 DEF Match, StackOf, Found
<1>17. m_affectedCars'[m_vehicles'[c]] = t.stack
  BY <1>1, <1>12 DEF a
<1>18. Match(c, s)'
  BY <1>6, <1>7, <1>13, <1>17 DEF Match, StackOf, Found
<1>19. ASSUME NEW r \in AllStories \ {s}, Match(c, r)
       PROVE  Match(c, r)'
  <2>1. Held(c) = holds[c]
    BY <1>19 DEF Match, Held
  <2>2. Found(t.stack, r) # {} <=> Found(StackOf(c), r) # {}
    BY <1>4, <1>6 DEF StackOf, a
  <2>3. r \in held <=> Found(t.stack, r) # {}
    BY <1>7, <1>19, <2>1, <2>2 DEF Match
  <2> QED
    BY <1>7, <1>13, <1>17, <2>3 DEF Match, StackOf, Found
<1>20. ASSUME NEW d \in Present, NEW j \in DOMAIN Stories
       PROVE  <<d, j>> \in agenda' \/ Match(d, Stories[j])'
  <2>1. CASE Stories[j] = s /\ d = c
    BY <1>18, <2>1
  <2>2. CASE ~(Stories[j] = s /\ d = c)
    <3>1. <<d, j>> # <<c, i>> /\ Stories[j] \in AllStories
      BY <2>2 DEF s, AllStories
    <3>2. CASE <<d, j>> \in agenda
      BY <1>1, <3>1, <3>2
    <3>3. CASE Match(d, Stories[j])
      BY <1>16, <1>19, <2>2, <3>1, <3>3
    <3>4. <<d, j>> \in agenda \/ Match(d, Stories[j])
      BY <1>1 DEF IInv, AgendaInv
    <3> QED
      BY <3>2, <3>3, <3>4
  <2> QED
    BY <2>1, <2>2
<1>21. AgendaInv'
  BY <1>1, <1>8, <1>20 DEF AgendaInv
<1> QED
  BY <1>11, <1>14, <1>15, <1>21 DEF IInv

(* The invariant holds in all states of all behaviours.                    *)
THEOREM Invariance == Spec => []IInv
<1>1. Init => IInv
  BY InitInv
<1>2. IInv /\ [Next]_vars => IInv'
  <2> SUFFICES ASSUME IInv, [Next]_vars PROVE IInv'
    OBVIOUS
  <2>1. CASE BeginStep
    BY <2>1, BeginStepInv
  <2>2. ASSUME NEW c \in Cars, AddNode(c) PROVE IInv'
    BY <2>2, AddNodeInv
  <2>3. ASSUME NEW c \in Cars, RemoveNode(c) PROVE IInv'
    BY <2>3, RemoveNodeInv
  <2>4. CASE updateStoryboard
    BY <2>4, UpdateStoryboardInv
  <2>5. ASSUME NEW c \in Cars, NEW i \in DOMAIN Stories, checkCar(c, i) PROVE IInv'
    BY <2>5, CheckCarInv
  <2>6. CASE UNCHANGED vars
    <3>1. Present' = Present /\ \A c, s : Match(c, s)' <=> Match(c, s)
      BY <2>6 DEF vars, Present, Match, StackOf, Found
    <3>2. TypeOK'
      BY <2>6, <3>1 DEF vars, IInv, TypeOK
    <3>3. StacksInv'
      BY <2>6, SameStacks DEF vars, IInv
    <3>4. CarsInv' /\ AgendaInv'
      BY <2>6, <3>1 DEF vars, IInv, CarsInv, AgendaInv
    <3> QED
      BY <3>2, <3>3, <3>4 DEF IInv
  <2> QED
    BY <2>1, <2>2, <2>3, <2>4, <2>5, <2>6 DEF Next
<1> QED
  BY <1>1, <1>2, PTL DEF Spec

(* The variables have their types.                                         *)
THEOREM TypeCorrect == Spec => []TypeOK
<1>1. IInv => TypeOK
  BY DEF IInv
<1> QED
  BY <1>1, Invariance, PTL

(* updateStoryboard, checkCar: between two steps every car that was tested *)
(* has exactly the effects of the stories whose conditions hold for it,    *)
(* all of them and once, whatever removeFromMiddle does on the way.        *)
THEOREM StoriesMatch == Spec => []StoriesMatchConditions
<1>1. ASSUME IInv PROVE StoriesMatchConditions
  <2> SUFFICES ASSUME NEW c \in Present, phase = "idle", holds[c] # Nothing
               PROVE  /\ {StackOf(c)[n].story : n \in DOMAIN StackOf(c)} = holds[c]
                      /\ \A s \in holds[c] :
                           Cardinality(Found(StackOf(c), s)) = Len(SpeedEffects[s])
    BY DEF StoriesMatchConditions
  <2> DEFINE q == StackOf(c)
  <2>1. c \in Cars /\ m_vehicles[c] \in Addresses
    BY <1>1, PresentFacts
  <2>2. q \in Seq(Effects) /\ Ordered(q)
    BY <1>1, <2>1 DEF IInv, TypeOK, StacksInv, StackOf
  <2>3. holds[c] \in SUBSET AllStories
    BY <1>1, <2>1 DEF IInv, TypeOK
  <2>4. \A s \in AllStories : s \in holds[c] <=> Found(q, s) # {}
    BY <1>1 DEF IInv, AgendaInv, Match, AllStories
  <2> HIDE DEF q
  <2>5. \A n \in DOMAIN q : q[n].story \in AllStories
    <3>1. \A n \in 1..Len(q) : q[n] \in Effects
      BY <2>2
    <3> QED
      BY <2>2, <3>1 DEF Effects
  <2>6. {q[n].story : n \in DOMAIN q} = holds[c]
    <3>1. ASSUME NEW n \in DOMAIN q PROVE q[n].story \in holds[c]
      <4>1. n \in Found(q, q[n].story)
        BY DEF Found
      <4> QED
        BY <2>4, <2>5, <4>1
    <3>2. ASSUME NEW s \in holds[c] PROVE \E n \in DOMAIN q : q[n].story = s
      BY <2>3, <2>4 DEF Found
    <3> QED
      BY <3>1, <3>2
  <2>7. ASSUME NEW s \in holds[c]
        PROVE  Cardinality(Found(q, s)) = Len(SpeedEffects[s])
    <3> DEFINE n == Lowest(q, s)
               l == Len(SpeedEffects[s])
    <3>1. s \in AllStories /\ Found(q, s) # {} /\ l \in Nat \ {0}
      BY <2>3, <2>4, StoryboardAssumption
    <3>2. n \in 1..Len(q) /\ Found(q, s) = n..(n + l - 1)
      BY <2>2, <3>1, Block
    <3> HIDE DEF n, l
    <3>3. n \in Int /\ n + l - 1 \in Int /\ n <= n + l - 1 /\ (n + l - 1) - n + 1 = l
      BY <2>2, <3>1, <3>2
    <3>4. Cardinality(n..(n + l - 1)) = l
      BY <3>3, FS_Interval
    <3> QED
      BY <3>2, <3>4 DEF l
  <2> QED
    BY <2>6, <2>7 DEF q
<1>2. IInv => StoriesMatchConditions
  BY <1>1
<1> QED
  BY <1>2, Invariance, PTL

(* EffectStack: the effects of a story stay next to each other and in the  *)
(* order of its factories, whatever was removed below, above or between.   *)
THEOREM OrderIsKept == Spec => []StoriesInOrder
<1>1. ASSUME IInv PROVE StoriesInOrder
  <2> SUFFICES ASSUME NEW a \in Addresses, NEW n \in DOMAIN m_affectedCars[a],
                      m_affectedCars[a][n].index > 1
               PROVE  /\ n > 1
                      /\ m_affectedCars[a][n - 1].story = m_affectedCars[a][n].story
                      /\ m_affectedCars[a][n - 1].index = m_affectedCars[a][n].index - 1
    BY DEF StoriesInOrder
  <2>1. m_affectedCars[a] \in Seq(Effects) /\ Ordered(m_affectedCars[a])
    BY <1>1 DEF IInv, TypeOK, StacksInv
  <2>2. n \in 1..Len(m_affectedCars[a])
    BY <2>1
  <2> QED
    BY <2>1, <2>2 DEF Ordered
<1>2. IInv => StoriesInOrder
  BY <1>1
<1> QED
  BY <1>2, Invariance, PTL
=============================================================================
