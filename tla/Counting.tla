------------------------------- MODULE Counting -------------------------------
(***************************************************************************)
(* What proofs about loops and lists rest on: counting up to a number, the  *)
(* values that a loop goes through, step by step, and the elements of a list *)
(* to which others are added, or whose elements change.                     *)
(***************************************************************************)
EXTENDS Integers, FiniteSetTheorems, SequenceTheorems, TLAPS

\* Counting from 0 to n inside S, by the pigeonhole principle: beside the least
\* number that S lacks, the numbers of S and the predecessors of the others
\* would fit 0..x into 0..(x - 1).
LEMMA CountingUp ==
    ASSUME NEW n \in Nat, NEW S, 0 \in S,
           \A k \in 0..(n - 1) : k \in S => k + 1 \in S
    PROVE  \A k \in 0..n : k \in S
<1>1. SUFFICES ASSUME NEW x \in 0..n, x \notin S PROVE FALSE
    OBVIOUS
<1> DEFINE f == [k \in 0..x |-> IF k \in S THEN k ELSE k - 1]
<1>2. f \in [0..x -> 0..(x - 1)]
    <2>1. ASSUME NEW k \in 0..x PROVE (IF k \in S THEN k ELSE k - 1) \in 0..(x - 1)
        BY <1>1
    <2> QED
        BY <2>1
<1>3. IsFiniteSet(0..x) /\ Cardinality(0..x) = x + 1 /\ IsFiniteSet(0..(x - 1)) /\ Cardinality(0..(x - 1)) = x
    <2>1. x \in Int /\ x - 1 \in Int /\ 0 \in Int /\ x >= 0
        OBVIOUS
    <2>2. IsFiniteSet(0..x) /\ Cardinality(0..x) = IF 0 > x THEN 0 ELSE x - 0 + 1
        BY <2>1, FS_Interval
    <2>3. IsFiniteSet(0..(x - 1)) /\ Cardinality(0..(x - 1)) = IF 0 > x - 1 THEN 0 ELSE (x - 1) - 0 + 1
        BY <2>1, FS_Interval
    <2> QED
        BY <2>1, <2>2, <2>3
<1>4. \E a, b \in 0..x : a # b /\ f[a] = f[b]
    <2>1. Cardinality(0..(x - 1)) < Cardinality(0..x)
        BY <1>3
    <2> HIDE DEF f
    <2> QED
        BY <1>2, <1>3, <2>1, FS_PigeonHole
<1>5. PICK a \in 0..x, b \in 0..x : a # b /\ f[a] = f[b]
    BY <1>4
<1>6. a - 1 \in S => a \in S
    BY <1>1, a # 0 => a - 1 \in 0..(n - 1) /\ (a - 1) + 1 = a
<1>7. b - 1 \in S => b \in S
    BY <1>1, b # 0 => b - 1 \in 0..(n - 1) /\ (b - 1) + 1 = b
<1>8. f[a] = (IF a \in S THEN a ELSE a - 1) /\ f[b] = (IF b \in S THEN b ELSE b - 1)
    OBVIOUS
<1> QED
    BY <1>5, <1>6, <1>7, <1>8

\* The values of a loop: it starts with one of V, and its i-th step makes of the
\* value before it another one.
IsStep(n, V, step) == step \in [(1..n) \X V -> V]

Loop(n, start, step, f) == f = [i \in 0..n |-> IF i = 0 THEN start ELSE step[<<i, f[i - 1]>>]]

LEMMA LoopIsThere ==
    ASSUME NEW n \in Nat, NEW start, NEW step
    PROVE  \E f : Loop(n, start, step, f)
<1> DEFINE S == {k \in Nat : \E f : Loop(k, start, step, f)}
<1>1. 0 \in S
    <2>1. Loop(0, start, step, [i \in 0..0 |-> start])
        BY DEF Loop
    <2> QED
        BY <2>1
<1>2. ASSUME NEW k \in 0..(n - 1), k \in S PROVE k + 1 \in S
    <2>1. PICK f : Loop(k, start, step, f)
        BY <1>2
    <2> DEFINE g == [i \in 0..(k + 1) |-> IF i = k + 1 THEN step[<<k + 1, f[k]>>] ELSE f[i]]
               h == [i \in 0..(k + 1) |-> IF i = 0 THEN start ELSE step[<<i, g[i - 1]>>]]
    <2>2. ASSUME NEW i \in 0..(k + 1) PROVE g[i] = h[i]
        <3>1. CASE i = k + 1
            <4>1. i # 0 /\ i - 1 = k /\ k \in 0..(k + 1) /\ k # k + 1
                BY <3>1
            <4>2. g[k] = f[k]
                BY <4>1
            <4> QED
                BY <3>1, <4>1, <4>2
        <3>2. CASE i = 0
            <4>1. f[0] = start
                BY <2>1 DEF Loop
            <4> QED
                BY <3>2, <4>1
        <3>3. CASE i \in 1..k
            <4>1. i \in 0..k /\ i # 0 /\ i # k + 1 /\ i - 1 \in 0..(k + 1) /\ i - 1 # k + 1
                BY <3>3
            <4>2. g[i] = f[i] /\ g[i - 1] = f[i - 1]
                BY <4>1
            <4>3. f[i] = step[<<i, f[i - 1]>>]
                BY <2>1, <4>1 DEF Loop
            <4> QED
                BY <4>1, <4>2, <4>3
        <3> QED
            BY <3>1, <3>2, <3>3
    <2>3. g = h
        BY <2>2
    <2>4. Loop(k + 1, start, step, g)
        BY <2>3 DEF Loop
    <2>5. k + 1 \in Nat
        OBVIOUS
    <2> QED
        BY <2>4, <2>5
<1>3. \A k \in 0..n : k \in S
    <2> HIDE DEF S
    <2> QED
        BY <1>1, <1>2, CountingUp
<1> QED
    BY <1>3

\* They are all of V.
LEMMA LoopStaysIn ==
    ASSUME NEW n \in Nat, NEW V, NEW start \in V, NEW step, IsStep(n, V, step), NEW f, Loop(n, start, step, f)
    PROVE  \A i \in 0..n : f[i] \in V
<1> DEFINE S == {k \in 0..n : f[k] \in V}
<1>1. 0 \in S
    BY DEF Loop
<1>2. ASSUME NEW k \in 0..(n - 1), k \in S PROVE k + 1 \in S
    <2>1. k + 1 \in 1..n /\ k + 1 # 0 /\ (k + 1) - 1 = k /\ k + 1 \in 0..n
        OBVIOUS
    <2>2. f[k + 1] = step[<<k + 1, f[k]>>]
        BY <2>1 DEF Loop
    <2>3. f[k] \in V
        BY <1>2
    <2>4. step[<<k + 1, f[k]>>] \in V
        BY <2>1, <2>3 DEF IsStep
    <2> QED
        BY <2>1, <2>2, <2>4
<1>3. \A k \in 0..n : k \in S
    <2> HIDE DEF S
    <2> QED
        BY <1>1, <1>2, CountingUp
<1> QED
    BY <1>3

\* A running total.
Running(n, a, c, f) == f = [i \in 0..n |-> IF i = 0 THEN a ELSE f[i - 1] + c[i]]

LEMMA RunningIsThere ==
    ASSUME NEW n \in Nat, NEW a \in Int, NEW c \in [1..n -> Int]
    PROVE  \E f : Running(n, a, c, f)
<1> DEFINE step == [p \in (1..n) \X Int |-> p[2] + c[p[1]]]
<1>1. IsStep(n, Int, step) /\ \A i \in 1..n, v \in Int : step[<<i, v>>] = v + c[i]
    BY DEF IsStep
<1> HIDE DEF step
<1>2. PICK g : Loop(n, a, step, g)
    BY LoopIsThere
<1>3. \A i \in 0..n : g[i] \in Int
    BY <1>1, <1>2, LoopStaysIn
<1>4. ASSUME NEW i \in 0..n, i # 0 PROVE step[<<i, g[i - 1]>>] = g[i - 1] + c[i]
    <2>1. i \in 1..n /\ i - 1 \in 0..n
        BY <1>4
    <2>2. g[i - 1] \in Int
        BY <1>3, <2>1
    <2> QED
        BY <1>1, <2>1, <2>2
<1> DEFINE h == [i \in 0..n |-> IF i = 0 THEN a ELSE g[i - 1] + c[i]]
           k == [i \in 0..n |-> IF i = 0 THEN a ELSE step[<<i, g[i - 1]>>]]
<1>5. h = k
    BY <1>4
<1>6. g = k
    BY <1>2 DEF Loop
<1> HIDE DEF h, k
<1>7. g = h
    BY <1>5, <1>6
<1>8. Running(n, a, c, g)
    BY <1>7 DEF Running, h
<1> QED
    BY <1>8

LEMMA RunningSteps ==
    ASSUME NEW n \in Nat, NEW a \in Int, NEW c \in [1..n -> Int], NEW f, Running(n, a, c, f)
    PROVE  /\ f[0] = a
           /\ \A i \in 1..n : f[i] = f[i - 1] + c[i]
           /\ \A i \in 0..n : f[i] \in Int
<1>1. f[0] = a /\ \A i \in 1..n : f[i] = f[i - 1] + c[i]
    BY DEF Running
<1> DEFINE S == {k \in 0..n : f[k] \in Int}
<1>2. 0 \in S
    BY <1>1
<1>3. ASSUME NEW k \in 0..(n - 1), k \in S PROVE k + 1 \in S
    <2>1. k + 1 \in 1..n /\ k + 1 \in 0..n /\ (k + 1) - 1 = k
        OBVIOUS
    <2>2. f[k + 1] = f[k] + c[k + 1]
        BY <1>1, <2>1
    <2>3. f[k] \in Int /\ c[k + 1] \in Int
        BY <1>3, <2>1
    <2> QED
        BY <2>1, <2>2, <2>3
<1>4. \A k \in 0..n : k \in S
    <2> HIDE DEF S
    <2> QED
        BY <1>2, <1>3, CountingUp
<1> QED
    BY <1>1, <1>4

\* Where two lists agree, so do their running totals.
LEMMA RunningAgrees ==
    ASSUME NEW n \in Nat, NEW m \in Nat, n <= m, NEW a, NEW c, NEW d, NEW f, NEW g, Running(n, a, c, f), Running(m, a, d, g),
           \A i \in 1..n : c[i] = d[i]
    PROVE  \A i \in 0..n : f[i] = g[i]
<1> DEFINE S == {k \in 0..n : f[k] = g[k]}
<1>1. 0 \in S
    BY DEF Running
<1>2. ASSUME NEW k \in 0..(n - 1), k \in S PROVE k + 1 \in S
    <2>1. k + 1 \in 1..n /\ k + 1 \in 0..n /\ k + 1 \in 0..m /\ (k + 1) - 1 = k /\ k + 1 # 0
        OBVIOUS
    <2>2. f[k + 1] = f[k] + c[k + 1] /\ g[k + 1] = g[k] + d[k + 1]
        BY <2>1 DEF Running
    <2> QED
        BY <1>2, <2>1, <2>2
<1>3. \A k \in 0..n : k \in S
    <2> HIDE DEF S
    <2> QED
        BY <1>1, <1>2, CountingUp
<1> QED
    BY <1>3

\* A list with one element more.
LEMMA AppendTo ==
    ASSUME NEW S, NEW s \in Seq(S), NEW x \in S
    PROVE  /\ Append(s, x) \in Seq(S) /\ Len(s) \in Nat /\ Len(Append(s, x)) = Len(s) + 1
           /\ DOMAIN s = 1..Len(s) /\ DOMAIN Append(s, x) = 1..(Len(s) + 1)
           /\ \A i \in 1..Len(s) : Append(s, x)[i] = s[i]
           /\ Append(s, x)[Len(s) + 1] = x
    OBVIOUS

\* A list with other elements.
LEMMA SameLength ==
    ASSUME NEW S, NEW s \in Seq(S), NEW t, DOMAIN t = DOMAIN s, t = [i \in DOMAIN s |-> t[i]], \A i \in DOMAIN s : t[i] \in S
    PROVE  t \in Seq(S) /\ Len(t) = Len(s) /\ DOMAIN s = 1..Len(s) /\ Len(s) \in Nat
<1>1. DOMAIN s = 1..Len(s) /\ Len(s) \in Nat
    OBVIOUS
<1>2. t \in [1..Len(s) -> S]
    BY <1>1
<1>3. t \in Seq(S)
    BY <1>1, <1>2
<1>4. Len(t) = Len(s)
    BY <1>1, <1>2, <1>3
<1> QED
    BY <1>1, <1>3, <1>4

\* Two lists, one after the other.
LEMMA Joined ==
    ASSUME NEW S, NEW s \in Seq(S), NEW t \in Seq(S)
    PROVE  /\ s \o t \in Seq(S) /\ Len(s \o t) = Len(s) + Len(t)
           /\ \A i \in 1..Len(s) : (s \o t)[i] = s[i]
           /\ \A k \in 1..Len(t) : (s \o t)[Len(s) + k] = t[k]
    OBVIOUS

\* Division, and what it takes apart.
LEMMA Divided ==
    ASSUME NEW a \in Nat, NEW m \in Nat \ {0}
    PROVE  a \div m \in 0..a /\ a % m \in 0..(m - 1) /\ a = m * (a \div m) + (a % m)
    OBVIOUS

LEMMA Rebuilt ==
    ASSUME NEW n \in Nat, NEW m \in Nat \ {0}, NEW w \in 0..(m - 1)
    PROVE  (n * m + w) % m = w /\ (n * m + w) \div m = n
    OBVIOUS

\* A set of numbers that is not empty has a least one.
LEMMA LeastIsThere ==
    ASSUME NEW S \in SUBSET Nat, NEW x \in S
    PROVE  \E m \in S : m <= x /\ \A k \in S : m <= k
<1>1. SUFFICES ASSUME \A m \in S : \E k \in S : k < m PROVE FALSE
    OBVIOUS
<1> DEFINE T == {n \in Nat : \A k \in 0..n : k \notin S}
<1>2. 0 \in T
    BY <1>1
<1>3. ASSUME NEW n \in 0..(x - 1), n \in T PROVE n + 1 \in T
    <2>1. ASSUME n + 1 \in S PROVE FALSE
        <3>1. PICK k \in S : k < n + 1
            BY <1>1, <2>1
        <3>2. k \in 0..n
            BY <3>1
        <3> QED
            BY <1>3, <3>2
    <2> QED
        BY <1>3, <2>1
<1>4. x \in Nat
    OBVIOUS
<1> HIDE DEF T
<1>5. \A k \in 0..x : k \in T
    BY <1>2, <1>3, <1>4, CountingUp
<1>6. x \in T
    BY <1>4, <1>5
<1> QED
    BY <1>4, <1>6 DEF T
=============================================================================
