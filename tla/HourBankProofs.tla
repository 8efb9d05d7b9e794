----------------------------- MODULE HourBankProofs -----------------------------
(***************************************************************************)
(* Proofs about the hour bank: pairing the punches of a day counts the     *)
(* minutes at work, an entry that is up to date holds that pairing however *)
(* recalculations, punches and reviews interleave, an approved request has *)
(* its punch, and without overlapping requests it has one.                 *)
(*                                                                         *)
(* Pairing is a loop over the punches.  What it computes is proved by      *)
(* counting up to the number of punches (Counting).                         *)
(*                                                                         *)
(* Then the rules around the hour bank, each with an invariant of its own:  *)
(* the schedule, the status of a punch, the deadline of an SLA, the mirror  *)
(* of a day.                                                               *)
(***************************************************************************)
EXTENDS MCHours, Counting

Unpaired == [open |-> 0, minutes |-> 0]

Chain(s, n, f) ==
    f = [i \in 0..n |-> IF i = 0 THEN Unpaired ELSE PairPunch(f[i - 1], s[i])]

LEMMA ChainIsThere ==
    ASSUME NEW s, NEW n \in Nat
    PROVE  \E f : Chain(s, n, f)
<1> DEFINE S == {k \in Nat : \E f : Chain(s, k, f)}
<1>1. 0 \in S
    <2>1. Chain(s, 0, [i \in 0..0 |-> Unpaired])
        BY DEF Chain
    <2> QED
        BY <2>1
<1>2. ASSUME NEW k \in 0..(n - 1), k \in S PROVE k + 1 \in S
    <2>1. PICK f : Chain(s, k, f)
        BY <1>2
    <2> DEFINE g == [i \in 0..(k + 1) |-> IF i = k + 1 THEN PairPunch(f[k], s[k + 1]) ELSE f[i]]
               h == [i \in 0..(k + 1) |-> IF i = 0 THEN Unpaired ELSE PairPunch(g[i - 1], s[i])]
    <2>2. ASSUME NEW i \in 0..(k + 1) PROVE g[i] = h[i]
        <3>1. CASE i = k + 1
            <4>1. i # 0 /\ i - 1 = k /\ k \in 0..(k + 1) /\ k # k + 1
                BY <3>1
            <4>2. g[k] = f[k]
                BY <4>1
            <4> QED
                BY <3>1, <4>1, <4>2
        <3>2. CASE i = 0
            <4>1. f[0] = Unpaired
                BY <2>1 DEF Chain
            <4> QED
                BY <3>2, <4>1
        <3>3. CASE i \in 1..k
            <4>1. i \in 0..k /\ i # 0 /\ i # k + 1 /\ i - 1 \in 0..(k + 1) /\ i - 1 # k + 1
                BY <3>3
            <4>2. g[i] = f[i] /\ g[i - 1] = f[i - 1]
                BY <4>1
            <4>3. f[i] = PairPunch(f[i - 1], s[i])
                BY <2>1, <4>1 DEF Chain
            <4> QED
                BY <4>1, <4>2, <4>3
        <3> QED
            BY <3>1, <3>2, <3>3
    <2>3. g = h
        BY <2>2
    <2>4. Chain(s, k + 1, g)
        BY <2>3 DEF Chain
    <2>5. k + 1 \in Nat
        OBVIOUS
    <2> QED
        BY <2>4, <2>5
<1>3. \A k \in 0..n : k \in S
    <2> HIDE DEF S
    <2> QED
        BY <1>1, <1>2, CountingUp
<1> QED
    BY <1>3

LEMMA PairPunchesFollowed ==
    ASSUME NEW s, Len(s) \in Nat
    PROVE  Chain(s, Len(s), PairPunches(s))
<1>1. PICK f : Chain(s, Len(s), f)
    BY ChainIsThere
<1> QED
    BY <1>1 DEF Chain, PairPunches, Unpaired

------------------------------------------------------------------------------
(* The orders of the punches.                                              *)

PunchSeq(s, n) == s \in [1..n -> Punch]

Sorted(s) == \A i, j \in DOMAIN s : i < j => s[i].at <= s[j].at

LEMMA OrderIsSorted ==
    ASSUME NEW all \in Seq(Punch), NEW s \in ByTime(all)
    PROVE  /\ s \in [1..Len(all) -> Punch] /\ Len(s) = Len(all)
           /\ Sorted(s)
           /\ Range(s) = Range(all)
           /\ NoTie(all) => NoTie(s)
<1> DEFINE n == Len(all)
<1>1. n \in Nat /\ DOMAIN all = 1..n /\ \A i \in 1..n : all[i] \in Punch
    OBVIOUS
<1>2. IsFiniteSet(1..n) /\ Cardinality(1..n) = n
    <2>1. IsFiniteSet(1..n) /\ Cardinality(1..n) = IF 1 > n THEN 0 ELSE n - 1 + 1
        BY <1>1, FS_Interval
    <2> QED
        BY <1>1, <2>1
<1> HIDE DEF n
<1>3. PICK t \in SetToSeqs(DOMAIN all) :
        /\ \A i, j \in DOMAIN t : i < j => all[t[i]].at <= all[t[j]].at
        /\ s = [i \in DOMAIN t |-> all[t[i]]]
    BY DEF ByTime
<1>4. t \in [1..n -> 1..n] /\ \A i, j \in 1..n : i # j => t[i] # t[j]
    BY <1>1, <1>2, <1>3 DEF SetToSeqs
<1>5. \A p \in 1..n : \E i \in 1..n : t[i] = p
    <2>1. t \in Injection(1..n, 1..n)
        BY <1>4 DEF Injection, IsInjective
    <2>2. t \in Surjection(1..n, 1..n)
        BY <1>2, <2>1, FS_Injection
    <2> QED
        BY <2>2 DEF Surjection
<1>6. s \in [1..n -> Punch] /\ DOMAIN s = 1..n
    BY <1>1, <1>3, <1>4
<1>7. Len(s) = n
    <2>1. s \in Seq(Punch)
        BY <1>1, <1>6
    <2> QED
        BY <1>1, <1>6, <2>1
<1>8. \A i \in 1..n : s[i] = all[t[i]]
    BY <1>3, <1>4
<1>9. Sorted(s)
    BY <1>3, <1>4, <1>6, <1>8 DEF Sorted
<1>10. Range(s) = Range(all)
    <2>1. ASSUME NEW p \in Range(s) PROVE p \in Range(all)
        BY <2>1, <1>1, <1>4, <1>6, <1>8 DEF Range
    <2>2. ASSUME NEW p \in Range(all) PROVE p \in Range(s)
        <3>1. PICK x \in 1..n : p = all[x]
            BY <2>2, <1>1 DEF Range
        <3>2. PICK i \in 1..n : t[i] = x
            BY <1>5
        <3>3. p = s[i] /\ i \in DOMAIN s
            BY <3>1, <3>2, <1>6, <1>8
        <3> QED
            BY <3>3 DEF Range
    <2> QED
        BY <2>1, <2>2
<1>11. NoTie(all) => NoTie(s)
    BY <1>1, <1>4, <1>6, <1>8 DEF NoTie
<1> QED
    BY <1>6, <1>7, <1>9, <1>10, <1>11 DEF n

------------------------------------------------------------------------------
(* Pairing, step by step.                                                  *)

LEMMA PairPunchesSteps ==
    ASSUME NEW n \in Nat, NEW s \in [1..n -> Punch], Len(s) = n
    PROVE  /\ PairPunches(s)[0] = Unpaired
           /\ \A k \in 0..(n - 1) : PairPunches(s)[k + 1] = PairPunch(PairPunches(s)[k], s[k + 1])
<1> DEFINE f == PairPunches(s)
<1>1. Chain(s, n, f)
    BY PairPunchesFollowed
<1> HIDE DEF f
<1>2. f[0] = Unpaired
    BY <1>1 DEF Chain
<1>3. ASSUME NEW k \in 0..(n - 1) PROVE f[k + 1] = PairPunch(f[k], s[k + 1])
    <2>1. k + 1 \in 0..n /\ k + 1 # 0 /\ (k + 1) - 1 = k
        OBVIOUS
    <2>2. f[k + 1] = PairPunch(f[(k + 1) - 1], s[k + 1])
        BY <1>1, <2>1 DEF Chain
    <2> QED
        BY <2>1, <2>2
<1> QED
    BY <1>2, <1>3 DEF f

\* What one step does to the open entrance and to the minutes.
LEMMA PairPunchCases ==
    ASSUME NEW acc \in [open : Nat, minutes : Int], NEW p \in Punch
    PROVE  /\ PairPunch(acc, p) \in [open : Nat, minutes : Int]
           /\ p.type = "in" => PairPunch(acc, p).open = p.at /\ PairPunch(acc, p).minutes = acc.minutes
           /\ p.type = "out" => PairPunch(acc, p).open = 0
           /\ p.type = "out" /\ acc.open # 0 => PairPunch(acc, p).minutes = acc.minutes + p.at - acc.open
           /\ p.type = "out" /\ acc.open = 0 => PairPunch(acc, p).minutes = acc.minutes
           /\ ~Typed(p) => PairPunch(acc, p) = acc
<1>1. p.at \in Nat /\ acc.open \in Nat /\ acc.minutes \in Int
    BY NumbersAssumption DEF Punch, Moment
<1>2. CASE p.type = "in"
    <2>1. PairPunch(acc, p) = [acc EXCEPT !.open = p.at]
        BY <1>2 DEF PairPunch
    <2> QED
        BY <1>1, <1>2, <2>1 DEF Typed
<1>3. CASE p.type = "out" /\ acc.open # 0
    <2>1. PairPunch(acc, p) = [open |-> 0, minutes |-> acc.minutes + p.at - acc.open]
        BY <1>3 DEF PairPunch
    <2> QED
        BY <1>1, <1>3, <2>1 DEF Typed
<1>4. CASE p.type # "in" /\ ~(p.type = "out" /\ acc.open # 0)
    <2>1. PairPunch(acc, p) = acc
        BY <1>4 DEF PairPunch
    <2> QED
        BY <1>1, <1>4, <2>1 DEF Typed
<1> QED
    BY <1>2, <1>3, <1>4

Acc == [open : Nat, minutes : Int]

LEMMA PairPunchesType ==
    ASSUME NEW n \in Nat, NEW s \in [1..n -> Punch], Len(s) = n
    PROVE  \A k \in 0..n : PairPunches(s)[k] \in Acc
<1> DEFINE S == {k \in 0..n : PairPunches(s)[k] \in Acc}
<1>1. 0 \in S
    <2>1. Unpaired \in Acc
        BY DEF Unpaired, Acc
    <2> QED
        BY <2>1, PairPunchesSteps
<1>2. ASSUME NEW k \in 0..(n - 1), k \in S PROVE k + 1 \in S
    <2>1. PairPunches(s)[k] \in Acc /\ k + 1 \in 1..n
        BY <1>2
    <2>2. PairPunch(PairPunches(s)[k], s[k + 1]) \in Acc
        BY <2>1, PairPunchCases DEF Acc
    <2> QED
        BY <2>1, <2>2, PairPunchesSteps
<1>3. \A k \in 0..n : k \in S
    <2> HIDE DEF S
    <2> QED
        BY <1>1, <1>2, CountingUp
<1> QED
    BY <1>3

\* The minutes so far fit before the open entrance, and before every punch to come.
Fits(s, n, k, acc) ==
    /\ acc.minutes \in 0..MaxMoment /\ acc.open \in 0..MaxMoment
    /\ acc.open # 0 => acc.minutes <= acc.open
    /\ \A i \in (k + 1)..n : acc.minutes <= s[i].at /\ acc.open <= s[i].at

LEMMA PairPunchesFit ==
    ASSUME NEW n \in Nat, NEW s \in [1..n -> Punch], Len(s) = n, Sorted(s)
    PROVE  \A k \in 0..n : Fits(s, n, k, PairPunches(s)[k])
<1> DEFINE S == {k \in 0..n : Fits(s, n, k, PairPunches(s)[k])}
<1>0. \A i \in 1..n : s[i] \in Punch /\ s[i].at \in 1..MaxMoment
    BY DEF Punch, Moment
<1>1. 0 \in S
    <2>1. Fits(s, n, 0, Unpaired)
        BY <1>0, NumbersAssumption DEF Fits, Unpaired
    <2> QED
        BY <2>1, PairPunchesSteps
<1>2. ASSUME NEW k \in 0..(n - 1), k \in S PROVE k + 1 \in S
    <2> DEFINE acc == PairPunches(s)[k]
               new == PairPunches(s)[k + 1]
               p == s[k + 1]
    <2>1. acc \in Acc /\ Fits(s, n, k, acc) /\ k + 1 \in 1..n /\ p \in Punch /\ p.at \in 1..MaxMoment
        BY <1>0, <1>2, PairPunchesType
    <2>2. new = PairPunch(acc, p)
        BY PairPunchesSteps
    <2>3. \A i \in (k + 2)..n : p.at <= s[i].at
        <3>1. DOMAIN s = 1..n
            OBVIOUS
        <3>2. ASSUME NEW i \in (k + 2)..n PROVE p.at <= s[i].at
            <4>1. i \in 1..n /\ k + 1 < i
                OBVIOUS
            <4> QED
                BY <2>1, <3>1, <4>1 DEF Sorted
        <3> QED
            BY <3>2
    <2>4. acc.minutes <= p.at /\ acc.open <= p.at
        BY <2>1 DEF Fits
    <2> HIDE DEF acc, new, p
    <2>5. acc \in [open : Nat, minutes : Int] /\ acc.open \in Nat /\ acc.minutes \in Int
        BY <2>1 DEF Acc
    <2>6. /\ p.type = "in" => new.open = p.at /\ new.minutes = acc.minutes
          /\ p.type = "out" => new.open = 0
          /\ p.type = "out" /\ acc.open # 0 => new.minutes = acc.minutes + p.at - acc.open
          /\ p.type = "out" /\ acc.open = 0 => new.minutes = acc.minutes
          /\ ~Typed(p) => new = acc
        BY <2>1, <2>2, <2>5, PairPunchCases
    <2>7. \A i \in (k + 2)..n : s[i].at \in 1..MaxMoment /\ acc.minutes <= s[i].at /\ acc.open <= s[i].at
        BY <1>0, <2>1 DEF Fits
    <2>8. (k + 1) + 1 = k + 2 /\ k \in Nat
        OBVIOUS
    <2>9. Fits(s, n, k + 1, new)
        <3>1. CASE p.type = "in"
            BY <3>1, <2>1, <2>3, <2>4, <2>5, <2>6, <2>7, <2>8 DEF Fits
        <3>2. CASE p.type = "out" /\ acc.open # 0
            <4>1. new.open = 0 /\ new.minutes = acc.minutes + p.at - acc.open /\ acc.minutes <= acc.open
                BY <3>2, <2>1, <2>6 DEF Fits
            <4>2. acc.minutes >= 0 /\ p.at \in Nat /\ p.at <= MaxMoment /\ MaxMoment \in Nat
                BY <2>1, NumbersAssumption DEF Fits
            <4>3. new.minutes \in 0..MaxMoment /\ new.minutes <= p.at
                BY <4>1, <4>2, <2>4, <2>5
            <4> QED
                BY <4>1, <4>3, <2>1, <2>3, <2>7, <2>8, NumbersAssumption DEF Fits
        <3>3. CASE p.type = "out" /\ acc.open = 0
            BY <3>3, <2>1, <2>6, <2>7, <2>8 DEF Fits
        <3>4. CASE ~Typed(p)
            BY <3>4, <2>1, <2>6, <2>7, <2>8 DEF Fits
        <3> QED
            BY <3>1, <3>2, <3>3, <3>4 DEF Typed
    <2> QED
        BY <2>1, <2>9 DEF new
<1>3. \A k \in 0..n : k \in S
    <2> HIDE DEF S
    <2> QED
        BY <1>1, <1>2, CountingUp
<1> QED
    BY <1>3

LEMMA MaxWithZero ==
    ASSUME NEW x \in Int
    PROVE  Max({0, x}) = IF x < 0 THEN 0 ELSE x
<1>1. \E y \in {0, x} : \A z \in {0, x} : y >= z
    <2>1. CASE x < 0
        BY <2>1
    <2>2. CASE x >= 0
        BY <2>2
    <2> QED
        BY <2>1, <2>2
<1>2. Max({0, x}) \in {0, x} /\ \A z \in {0, x} : Max({0, x}) >= z
    BY <1>1 DEF Max
<1> QED
    BY <1>2

LEMMA MinWithZero ==
    ASSUME NEW x \in Int
    PROVE  Min({0, x}) = IF x < 0 THEN x ELSE 0
<1>1. \E y \in {0, x} : \A z \in {0, x} : y <= z
    <2>1. CASE x < 0
        BY <2>1
    <2>2. CASE x >= 0
        BY <2>2
    <2> QED
        BY <2>1, <2>2
<1>2. Min({0, x}) \in {0, x} /\ \A z \in {0, x} : Min({0, x}) <= z
    BY <1>1 DEF Min
<1> QED
    BY <1>2

\* What is worked is the sum of the pairs, and never more than the day has.
LEMMA WorkedIsMinutes ==
    ASSUME NEW all \in Seq(Punch), NEW s \in ByTime(all)
    PROVE  /\ PairPunchesWorkedMinutes(s) = PairPunches(s)[Len(all)].minutes
           /\ PairPunchesWorkedMinutes(s) \in Minutes
<1> DEFINE n == Len(all)
           x == PairPunches(s)[n].minutes
<1>1. n \in Nat /\ s \in [1..n -> Punch] /\ Len(s) = n /\ Sorted(s)
    BY OrderIsSorted
<1>2. x \in 0..MaxMoment
    BY <1>1, PairPunchesFit DEF Fits
<1>3. PairPunchesWorkedMinutes(s) = Max({0, x})
    BY <1>1 DEF PairPunchesWorkedMinutes
<1> HIDE DEF n, x
<1> QED
    BY <1>2, <1>3, MaxWithZero DEF Minutes, n, x

------------------------------------------------------------------------------
(* The minutes at work, as punches are added in the order of their time.   *)

\* A punch without a type, an entrance, and an exit without an open entrance
\* add nothing.
LEMMA NothingIsAdded ==
    ASSUME NEW F \in SUBSET Punch, NEW p \in Punch,
           \A q \in F : q.at <= p.at,
           p.type = "out" =>
               \A i \in F : i.type = "in" => \E o \in F : o.type = "out" /\ i.at < o.at /\ o.at < p.at
    PROVE  AtWork(F \cup {p}) = AtWork(F)
<1>0. \A q \in F \cup {p} : q.at \in Nat
    BY NumbersAssumption DEF Punch, Moment
<1>1. ASSUME NEW i \in F \cup {p}, NEW o \in F \cup {p}, Pairs(F \cup {p}, i, o)
      PROVE  i \in F /\ o \in F /\ Pairs(F, i, o)
    <2>1. i.type = "in" /\ o.type = "out" /\ i.at < o.at
        BY <1>1 DEF Pairs
    <2>2. i \in F
        BY <1>0, <2>1
    <2>3. o \in F
        <3>1. SUFFICES ASSUME o = p PROVE FALSE
            OBVIOUS
        <3>2. PICK x \in F : x.type = "out" /\ i.at < x.at /\ x.at < p.at
            BY <2>1, <2>2, <3>1
        <3> QED
            BY <1>1, <3>1, <3>2 DEF Pairs, Typed
    <2> QED
        BY <1>1, <2>2, <2>3 DEF Pairs
<1>2. ASSUME NEW i \in F, NEW o \in F, Pairs(F, i, o)
      PROVE  Pairs(F \cup {p}, i, o)
    BY <1>0, <1>2 DEF Pairs
<1>3. ASSUME NEW minute \in 0..MaxMoment
      PROVE  minute \in AtWork(F \cup {p}) <=> minute \in AtWork(F)
    BY <1>1, <1>2 DEF AtWork
<1> QED
    BY <1>3 DEF AtWork

\* An exit adds the time since the entrance before it.
LEMMA AnExitAdds ==
    ASSUME NEW F \in SUBSET Punch, NEW p \in Punch, NEW last \in F,
           last.type = "in", p.type = "out", last.at < p.at,
           \A q \in F : q.at <= p.at,
           \A q \in F : Typed(q) => q.at <= last.at
    PROVE  /\ AtWork(F \cup {p}) = AtWork(F) \cup (last.at..(p.at - 1))
           /\ AtWork(F) \cap (last.at..(p.at - 1)) = {}
<1>0. \A q \in F \cup {p} : q.at \in Nat /\ q.at <= MaxMoment
    BY NumbersAssumption DEF Punch, Moment
<1>1. Pairs(F \cup {p}, last, p)
    <2>1. ASSUME NEW q \in F \cup {p}, Typed(q) PROVE ~(last.at < q.at /\ q.at < p.at)
        BY <1>0, <2>1
    <2> QED
        BY <2>1 DEF Pairs
<1>2. ASSUME NEW i \in F \cup {p}, NEW o \in F \cup {p}, Pairs(F \cup {p}, i, o)
      PROVE  i \in F /\ ((o \in F /\ Pairs(F, i, o)) \/ (o = p /\ i.at = last.at))
    <2>1. i.type = "in" /\ o.type = "out" /\ i.at < o.at
        BY <1>2 DEF Pairs
    <2>2. i \in F
        BY <2>1
    <2>3. CASE o \in F
        BY <1>2, <2>2, <2>3 DEF Pairs
    <2>4. CASE o = p
        <3>1. i.at <= last.at
            BY <2>1, <2>2 DEF Typed
        <3>2. ~(i.at < last.at)
            BY <1>2, <2>4 DEF Pairs, Typed
        <3> QED
            BY <1>0, <2>2, <2>4, <3>1, <3>2
    <2> QED
        BY <2>3, <2>4
<1>3. ASSUME NEW i \in F, NEW o \in F, Pairs(F, i, o)
      PROVE  Pairs(F \cup {p}, i, o) /\ o.at <= last.at
    <2>1. o.at <= last.at
        BY <1>3 DEF Pairs, Typed
    <2> QED
        BY <1>0, <1>3, <2>1 DEF Pairs
<1>4. ASSUME NEW minute \in AtWork(F \cup {p})
      PROVE  minute \in AtWork(F) \cup (last.at..(p.at - 1))
    <2>1. PICK i \in F \cup {p}, o \in F \cup {p} : Pairs(F \cup {p}, i, o) /\ i.at <= minute /\ minute < o.at
        BY DEF AtWork
    <2>2. minute \in 0..MaxMoment
        BY DEF AtWork
    <2>3. CASE o \in F /\ i \in F /\ Pairs(F, i, o)
        BY <2>1, <2>2, <2>3 DEF AtWork
    <2>4. CASE o = p /\ i.at = last.at
        BY <1>0, <2>1, <2>2, <2>4
    <2> QED
        BY <1>2, <2>1, <2>3, <2>4
<1>5. ASSUME NEW minute \in AtWork(F)
      PROVE  minute \in AtWork(F \cup {p}) /\ minute \notin last.at..(p.at - 1)
    <2>1. PICK i \in F, o \in F : Pairs(F, i, o) /\ i.at <= minute /\ minute < o.at
        BY DEF AtWork
    <2>2. minute \in 0..MaxMoment
        BY DEF AtWork
    <2>3. Pairs(F \cup {p}, i, o) /\ o.at <= last.at
        BY <1>3, <2>1
    <2>4. minute < last.at
        BY <1>0, <2>1, <2>2, <2>3
    <2> QED
        BY <1>0, <2>1, <2>2, <2>3, <2>4 DEF AtWork
<1>6. ASSUME NEW minute \in last.at..(p.at - 1)
      PROVE  minute \in AtWork(F \cup {p})
    <2>1. last.at \in Nat /\ p.at \in Nat /\ p.at <= MaxMoment /\ MaxMoment \in Nat
        BY <1>0, NumbersAssumption
    <2>2. minute \in 0..MaxMoment /\ last.at <= minute /\ minute < p.at
        BY <2>1
    <2> QED
        BY <1>1, <2>2 DEF AtWork
<1> QED
    BY <1>4, <1>5, <1>6

------------------------------------------------------------------------------
(* Pairing computes the minutes at work.                                   *)

First(s, k) == {s[i] : i \in 1..k}

\* The loop, after k punches: the minutes are those at work so far, an open
\* entrance is the last typed punch, and without one every entrance has been
\* followed by an exit.
Counted(s, k, acc) ==
    /\ acc.minutes = Cardinality(AtWork(First(s, k)))
    /\ acc.open # 0 =>
        \E j \in 1..k : s[j].type = "in" /\ s[j].at = acc.open /\ \A i \in (j + 1)..k : ~Typed(s[i])
    /\ acc.open = 0 =>
        \A i \in 1..k : s[i].type = "in" => \E j \in (i + 1)..k : s[j].type = "out"

LEMMA AtWorkIsFinite ==
    ASSUME NEW F
    PROVE  IsFiniteSet(AtWork(F)) /\ Cardinality(AtWork(F)) \in Nat
<1>1. IsFiniteSet(0..MaxMoment)
    BY FS_Interval, NumbersAssumption
<1>2. AtWork(F) \subseteq 0..MaxMoment
    BY DEF AtWork
<1>3. IsFiniteSet(AtWork(F))
    BY <1>1, <1>2, FS_Subset
<1> QED
    BY <1>3, FS_CardinalityType

LEMMA PairPunchCounts ==
    ASSUME NEW n \in Nat, NEW s \in [1..n -> Punch], Sorted(s), NoTie(s),
           NEW k \in 0..(n - 1), NEW acc \in [open : Nat, minutes : Int], Counted(s, k, acc)
    PROVE  Counted(s, k + 1, PairPunch(acc, s[k + 1]))
<1> DEFINE p == s[k + 1]
           new == PairPunch(acc, p)
           F == First(s, k)
<1>1. k \in Nat /\ k + 1 \in 1..n /\ DOMAIN s = 1..n
    OBVIOUS
<1>2. /\ p \in Punch /\ p.at \in Nat \ {0} /\ F \in SUBSET Punch
      /\ \A i \in 1..(k + 1) : s[i] \in Punch /\ s[i].at \in Nat
    <2>1. \A i \in 1..(k + 1) : s[i] \in Punch
        BY <1>1
    <2> QED
        BY <1>1, <2>1, NumbersAssumption DEF First, Punch, Moment
<1>3. First(s, k + 1) = F \cup {p}
    BY <1>1 DEF First
<1>4. \A i \in 1..k : s[i].at <= p.at
    BY <1>1 DEF Sorted
<1>5. \A i, j \in 1..(k + 1) : i < j /\ Typed(s[i]) /\ Typed(s[j]) => s[i].at < s[j].at
    <2>1. ASSUME NEW i \in 1..(k + 1), NEW j \in 1..(k + 1), i < j, Typed(s[i]), Typed(s[j])
          PROVE  s[i].at < s[j].at
        <3>1. i \in 1..n /\ j \in 1..n /\ i # j
            BY <1>1, <2>1
        <3>2. s[i].at <= s[j].at /\ s[i].at # s[j].at
            BY <1>1, <2>1, <3>1 DEF Sorted, NoTie
        <3> QED
            BY <1>2, <3>2
    <2> QED
        BY <2>1
<1>6. \A q \in F : q.at <= p.at
    BY <1>4 DEF First
<1>7. /\ p.type = "in" => new.open = p.at /\ new.minutes = acc.minutes
      /\ p.type = "out" => new.open = 0
      /\ p.type = "out" /\ acc.open # 0 => new.minutes = acc.minutes + p.at - acc.open
      /\ p.type = "out" /\ acc.open = 0 => new.minutes = acc.minutes
      /\ ~Typed(p) => new = acc
    BY <1>2, PairPunchCases
<1> HIDE DEF p, new, F
<1>8. p = s[k + 1] /\ F = First(s, k)
    BY DEF p, F
<1>9. p.type = "out" /\ new.open = 0 =>
        \A i \in 1..(k + 1) : s[i].type = "in" => \E j \in (i + 1)..(k + 1) : s[j].type = "out"
    <2>1. ASSUME p.type = "out", NEW i \in 1..(k + 1), s[i].type = "in"
          PROVE  \E j \in (i + 1)..(k + 1) : s[j].type = "out"
        <3>1. i # k + 1
            BY <1>8, <2>1
        <3>2. k + 1 \in (i + 1)..(k + 1)
            BY <1>1, <3>1
        <3> QED
            BY <1>8, <2>1, <3>2
    <2> QED
        BY <2>1
<1>10. CASE p.type = "in"
    <2>1. AtWork(First(s, k + 1)) = AtWork(F)
        BY <1>2, <1>3, <1>6, <1>10, NothingIsAdded
    <2>2. new.minutes = Cardinality(AtWork(First(s, k + 1)))
        BY <1>7, <1>8, <1>10, <2>1 DEF Counted
    <2>3. \E j \in 1..(k + 1) : s[j].type = "in" /\ s[j].at = new.open /\ \A i \in (j + 1)..(k + 1) : ~Typed(s[i])
        <3>1. k + 1 \in 1..(k + 1) /\ (k + 1 + 1)..(k + 1) = {}
            BY <1>1
        <3> QED
            BY <1>7, <1>8, <1>10, <3>1
    <2>4. new.open # 0
        BY <1>2, <1>7, <1>10
    <2> QED
        BY <2>2, <2>3, <2>4 DEF Counted, new, p
<1>11. CASE p.type = "out" /\ acc.open = 0
    <2>1. ASSUME NEW i \in F, i.type = "in"
          PROVE  \E o \in F : o.type = "out" /\ i.at < o.at /\ o.at < p.at
        <3>1. PICK a \in 1..k : i = s[a]
            BY <1>8 DEF First
        <3>2. PICK b \in (a + 1)..k : s[b].type = "out"
            BY <1>11, <2>1, <3>1 DEF Counted
        <3>3. b \in 1..k /\ a < b /\ b < k + 1 /\ a \in 1..(k + 1) /\ b \in 1..(k + 1) /\ k + 1 \in 1..(k + 1)
            BY <1>1
        <3>4. Typed(s[a]) /\ Typed(s[b]) /\ Typed(s[k + 1])
            BY <1>8, <1>11, <2>1, <3>1, <3>2 DEF Typed
        <3>5. s[a].at < s[b].at /\ s[b].at < p.at
            BY <1>5, <1>8, <3>3, <3>4
        <3>6. s[b] \in F
            BY <1>8, <3>3 DEF First
        <3> QED
            BY <3>1, <3>2, <3>5, <3>6
    <2>2. AtWork(First(s, k + 1)) = AtWork(F)
        BY <1>2, <1>3, <1>6, <2>1, NothingIsAdded
    <2>3. new.minutes = Cardinality(AtWork(First(s, k + 1)))
        BY <1>7, <1>8, <1>11, <2>2 DEF Counted
    <2> QED
        BY <1>7, <1>9, <1>11, <2>3 DEF Counted, new, p
<1>12. CASE p.type = "out" /\ acc.open # 0
    <2>1. PICK j \in 1..k : s[j].type = "in" /\ s[j].at = acc.open /\ \A i \in (j + 1)..k : ~Typed(s[i])
        BY <1>12 DEF Counted
    <2> DEFINE last == s[j]
    <2>2. last \in F /\ last.type = "in" /\ last.at = acc.open
        BY <1>8, <2>1 DEF First
    <2>3. last.at < p.at
        <3>1. j < k + 1 /\ j \in 1..(k + 1) /\ k + 1 \in 1..(k + 1)
            BY <1>1
        <3> QED
            BY <1>5, <1>8, <1>12, <2>1, <3>1 DEF Typed
    <2>4. ASSUME NEW q \in F, Typed(q) PROVE q.at <= last.at
        <3>1. PICK a \in 1..k : q = s[a]
            BY <1>8 DEF First
        <3>2. a <= j
            BY <1>1, <2>1, <2>4, <3>1
        <3>3. CASE a = j
            BY <1>1, <1>2, <3>1, <3>3
        <3>4. CASE a < j
            <4>1. a \in 1..(k + 1) /\ j \in 1..(k + 1)
                BY <1>1
            <4>2. s[a].at < s[j].at
                BY <1>5, <2>1, <2>4, <3>1, <3>4, <4>1 DEF Typed
            <4> QED
                BY <1>2, <3>1, <4>1, <4>2
        <3> QED
            BY <1>1, <3>2, <3>3, <3>4
    <2> HIDE DEF last
    <2>5. /\ AtWork(F \cup {p}) = AtWork(F) \cup (last.at..(p.at - 1))
          /\ AtWork(F) \cap (last.at..(p.at - 1)) = {}
        BY <1>2, <1>6, <1>12, <2>2, <2>3, <2>4, AnExitAdds
    <2>6. last.at \in Nat /\ p.at \in Nat
        BY <1>2, <2>2
    <2>7. IsFiniteSet(last.at..(p.at - 1)) /\ Cardinality(last.at..(p.at - 1)) = p.at - last.at
        <3>1. last.at \in Int /\ p.at - 1 \in Int
            BY <2>6
        <3>2. /\ IsFiniteSet(last.at..(p.at - 1))
              /\ Cardinality(last.at..(p.at - 1)) = IF last.at > p.at - 1 THEN 0 ELSE (p.at - 1) - last.at + 1
            BY <3>1, FS_Interval
        <3> QED
            BY <2>3, <2>6, <3>2
    <2>8. Cardinality(AtWork(F \cup {p})) = Cardinality(AtWork(F)) + (p.at - last.at)
        <3>1. IsFiniteSet(AtWork(F)) /\ Cardinality(AtWork(F)) \in Nat
            BY AtWorkIsFinite
        <3>2. Cardinality(AtWork(F) \cup (last.at..(p.at - 1))) =
                Cardinality(AtWork(F)) + Cardinality(last.at..(p.at - 1)) - Cardinality(AtWork(F) \cap (last.at..(p.at - 1)))
            BY <2>7, <3>1, FS_Union
        <3>3. Cardinality(AtWork(F) \cap (last.at..(p.at - 1))) = 0
            BY <2>5, FS_EmptySet
        <3>4. Cardinality(AtWork(F \cup {p})) = Cardinality(AtWork(F) \cup (last.at..(p.at - 1)))
            BY <2>5, Zenon
        <3> QED
            BY <2>6, <2>7, <3>1, <3>2, <3>3, <3>4
    <2>9. new.minutes = Cardinality(AtWork(First(s, k + 1)))
        <3>1. acc.minutes = Cardinality(AtWork(F))
            BY <1>8 DEF Counted
        <3>2. acc.minutes \in Int /\ acc.open \in Nat
            OBVIOUS
        <3> QED
            BY <1>3, <1>7, <1>12, <2>2, <2>6, <2>8, <3>1, <3>2
    <2> QED
        BY <1>7, <1>9, <1>12, <2>9 DEF Counted, new, p
<1>13. CASE ~Typed(p)
    <2>1. AtWork(First(s, k + 1)) = AtWork(F)
        BY <1>2, <1>3, <1>6, <1>13, NothingIsAdded DEF Typed
    <2>2. new = acc
        BY <1>7, <1>13
    <2>3. acc.minutes = Cardinality(AtWork(First(s, k + 1)))
        BY <1>8, <2>1 DEF Counted
    <2>4. ASSUME acc.open # 0
          PROVE  \E j \in 1..(k + 1) : s[j].type = "in" /\ s[j].at = acc.open /\ \A i \in (j + 1)..(k + 1) : ~Typed(s[i])
        <3>1. PICK j \in 1..k : s[j].type = "in" /\ s[j].at = acc.open /\ \A i \in (j + 1)..k : ~Typed(s[i])
            BY <2>4 DEF Counted
        <3>2. ASSUME NEW i \in (j + 1)..(k + 1) PROVE ~Typed(s[i])
            <4>1. i \in (j + 1)..k \/ i = k + 1
                BY <1>1
            <4> QED
                BY <1>8, <1>13, <3>1, <4>1
        <3>3. j \in 1..(k + 1)
            BY <1>1
        <3> QED
            BY <3>1, <3>2, <3>3
    <2>5. ASSUME acc.open = 0, NEW i \in 1..(k + 1), s[i].type = "in"
          PROVE  \E j \in (i + 1)..(k + 1) : s[j].type = "out"
        <3>1. i \in 1..k
            BY <1>1, <1>8, <1>13, <2>5 DEF Typed
        <3>2. PICK j \in (i + 1)..k : s[j].type = "out"
            BY <2>5, <3>1 DEF Counted
        <3>3. j \in (i + 1)..(k + 1)
            BY <1>1, <3>1
        <3> QED
            BY <3>2, <3>3
    <2>6. Counted(s, k + 1, acc)
        BY <2>3, <2>4, <2>5 DEF Counted
    <2> QED
        BY <2>2, <2>6 DEF new, p
<1> QED
    BY <1>10, <1>11, <1>12, <1>13 DEF Typed, new, p

LEMMA PairPunchesCount ==
    ASSUME NEW n \in Nat, NEW s \in [1..n -> Punch], Len(s) = n, Sorted(s), NoTie(s)
    PROVE  \A k \in 0..n : Counted(s, k, PairPunches(s)[k])
<1> DEFINE S == {k \in 0..n : Counted(s, k, PairPunches(s)[k])}
<1>1. 0 \in S
    <2>1. First(s, 0) = {}
        BY DEF First
    <2>2. AtWork(First(s, 0)) = {}
        BY <2>1 DEF AtWork
    <2>3. Cardinality(AtWork(First(s, 0))) = 0
        BY <2>2, FS_EmptySet
    <2>4. Counted(s, 0, Unpaired)
        BY <2>3 DEF Counted, Unpaired
    <2>5. PairPunches(s)[0] = Unpaired
        BY PairPunchesSteps
    <2>6. Counted(s, 0, PairPunches(s)[0]) /\ 0 \in 0..n
        BY <2>4, <2>5
    <2> QED
        BY <2>6
<1>2. ASSUME NEW k \in 0..(n - 1), k \in S PROVE k + 1 \in S
    <2>1. PairPunches(s)[k] \in [open : Nat, minutes : Int] /\ Counted(s, k, PairPunches(s)[k])
        BY <1>2, PairPunchesType DEF Acc
    <2>2. Counted(s, k + 1, PairPunch(PairPunches(s)[k], s[k + 1]))
        BY <2>1, PairPunchCounts
    <2>3. k + 1 \in 0..n
        OBVIOUS
    <2> QED
        BY <2>2, <2>3, PairPunchesSteps
<1>3. \A k \in 0..n : k \in S
    <2> HIDE DEF S
    <2> QED
        BY <1>1, <1>2, CountingUp
<1> QED
    BY <1>3

\* _pair_punches_worked_minutes, however it orders the punches of the same
\* moment: unless an entrance or exit shares its moment with another, it counts
\* the minutes at work.
THEOREM PairingIsRight ==
    ASSUME NEW all \in Seq(Punch), NoTie(all), NEW s \in ByTime(all)
    PROVE  PairPunchesWorkedMinutes(s) = Cardinality(AtWork(Range(all)))
<1> DEFINE n == Len(all)
<1>1. n \in Nat /\ s \in [1..n -> Punch] /\ Len(s) = n /\ Sorted(s) /\ NoTie(s) /\ Range(s) = Range(all)
    BY OrderIsSorted
<1>2. Counted(s, n, PairPunches(s)[n])
    BY <1>1, PairPunchesCount
<1>3. First(s, n) = Range(s)
    BY <1>1 DEF First, Range
<1>4. PairPunchesWorkedMinutes(s) = PairPunches(s)[n].minutes
    BY WorkedIsMinutes
<1> QED
    BY <1>1, <1>2, <1>3, <1>4 DEF Counted

------------------------------------------------------------------------------
(* The invariant.                                                          *)

Paired(all, worked) == \E s \in ByTime(all) : worked = PairPunchesWorkedMinutes(s)

\* A review belongs to an adjustment, and between its two transactions it names a
\* punch; a computation whose punches have not changed since is the pairing of them.
Sound(q, now, all) ==
    /\ q.op = "review" => now # "none" /\ (q.pc = "finish" => q.row \in 1..Len(all))
    /\ q.op = "recalculate" /\ ~q.stale => Paired(all, q.worked)

RequestsAreSound == \A r \in Request : Sound(req[r], adjustment.status, punches)

\* However recalculations, punches and reviews interleave: an entry that was
\* computed from the punches as they are, column by column, holds the pairing of
\* them, and the balance that goes with it.
EntryIsPaired ==
    entry.row /\ ~stale => Paired(punches, entry.worked) /\ entry.balance = Balance(entry.worked)

\* While requests do not overlap, there is one at a time, a review that has not
\* decided finds its adjustment pending, and an added punch is the one approved.
Alone == \A q, r \in Request : req[q] # NoRequest /\ req[r] # NoRequest => q = r

Undecided == \A r \in Request : At(r, "review", "approve") \/ At(r, "review", "reject") => adjustment.status = "pending"

AdjustedOf(all) == {p \in DOMAIN all : all[p].adjusted}

OneAdjusted(all) == \A p, q \in AdjustedOf(all) : p = q

Serial ==
    ~overlapped =>
        /\ Alone
        /\ Undecided
        /\ OneAdjusted(punches)
        /\ AdjustedOf(punches) # {} => adjustment.status = "approved" /\ adjustment.punch = 0

IInv == TypeOK /\ RequestsAreSound /\ EntryIsPaired /\ ApprovedHasPunch /\ Serial

------------------------------------------------------------------------------
(* What the operators of the model return.                                 *)

LEMMA BalanceType ==
    ASSUME NEW worked \in Minutes
    PROVE  Balance(worked) \in (-Expected)..MaxMoment
<1>1. worked \in Nat /\ worked <= MaxMoment /\ Expected \in Nat /\ MaxMoment \in Nat
    BY NumbersAssumption, ExcusedAssumption DEF Minutes
<1>2. Max({0, worked - Expected}) = IF worked - Expected < 0 THEN 0 ELSE worked - Expected
    BY <1>1, MaxWithZero
<1> QED
    BY <1>1, <1>2 DEF Balance, Overtime

LEMMA NoRequestType ==
    NoRequest \in RequestType /\ NoEntry \in Entry
<1>1. 0 \in Minutes /\ 0 \in (-Expected)..MaxMoment
    BY NumbersAssumption, ExcusedAssumption DEF Minutes
<1>2. NoEntry \in Entry
    BY <1>1 DEF NoEntry, Entry
<1> QED
    BY <1>1, <1>2 DEF NoRequest, RequestType

\* A punch that is added at the end.
LEMMA PunchAdded ==
    ASSUME NEW all \in Seq(Punch), NEW p \in Punch, NEW new, new = Append(all, p)
    PROVE  /\ new \in Seq(Punch) /\ Len(new) = Len(all) + 1
           /\ p.adjusted => AdjustedOf(new) = AdjustedOf(all) \cup {Len(all) + 1}
           /\ ~p.adjusted => AdjustedOf(new) = AdjustedOf(all)
<1>1. new \in Seq(Punch) /\ Len(new) = Len(all) + 1 /\ Len(all) \in Nat
    OBVIOUS
<1>2. DOMAIN all = 1..Len(all) /\ DOMAIN new = 1..(Len(all) + 1)
    BY <1>1
<1>3. \A i \in 1..Len(all) : new[i] = all[i]
    OBVIOUS
<1>4. new[Len(all) + 1] = p
    OBVIOUS
<1>5. \A i \in 1..(Len(all) + 1) : i \in 1..Len(all) \/ i = Len(all) + 1
    BY <1>1
<1>6. Len(all) + 1 \in 1..(Len(all) + 1) /\ 1..Len(all) \subseteq 1..(Len(all) + 1)
    BY <1>1
<1> QED
    BY <1>1, <1>2, <1>3, <1>4, <1>5, <1>6 DEF AdjustedOf

LEMMA PunchSequence ==
    ASSUME NEW n \in Nat, NEW f \in [1..n -> Punch]
    PROVE  f \in Seq(Punch) /\ Len(f) = n
<1>1. f \in Seq(Punch)
    OBVIOUS
<1> QED
    BY <1>1

\* A punch that is corrected.
Corrected(all, p, at, type) == [all EXCEPT ![p].at = at, ![p].type = type]

LEMMA PunchCorrected ==
    ASSUME NEW all \in Seq(Punch), NEW p \in DOMAIN all, NEW at \in Moment, NEW type \in PunchType,
           NEW new, new = Corrected(all, p, at, type)
    PROVE  /\ new \in Seq(Punch) /\ Len(new) = Len(all)
           /\ AdjustedOf(new) = AdjustedOf(all)
<1>1. Len(all) \in Nat /\ DOMAIN all = 1..Len(all) /\ all \in [1..Len(all) -> Punch]
    OBVIOUS
<1>2. DOMAIN new = 1..Len(all)
    BY <1>1 DEF Corrected
<1>3. \A i \in 1..Len(all) : i # p => new[i] = all[i]
    BY <1>1 DEF Corrected
<1>4. new[p] = [[all[p] EXCEPT !.at = at] EXCEPT !.type = type]
    BY <1>1 DEF Corrected
<1>5. all[p] \in Punch
    BY <1>1
<1>6. new[p] \in Punch /\ new[p].adjusted = all[p].adjusted
    BY <1>4, <1>5 DEF Punch
<1>7. \A i \in 1..Len(all) : new[i] \in Punch /\ new[i].adjusted = all[i].adjusted
    BY <1>1, <1>3, <1>6
<1>8. new \in [1..Len(all) -> Punch]
    <2>1. new = [i \in 1..Len(all) |-> new[i]]
        BY <1>1, <1>2 DEF Corrected
    <2> QED
        BY <1>7, <2>1
<1>9. new \in Seq(Punch) /\ Len(new) = Len(all)
    BY <1>1, <1>8, PunchSequence
<1> QED
    BY <1>1, <1>2, <1>7, <1>9 DEF AdjustedOf

LEMMA OutdatedIs ==
    ASSUME req \in [Request -> RequestType]
    PROVE  /\ Outdated \in [Request -> RequestType]
           /\ \A q \in Request :
                /\ Outdated[q].op = req[q].op /\ Outdated[q].pc = req[q].pc /\ Outdated[q].row = req[q].row
                /\ req[q].op = "recalculate" => Outdated[q].stale
                /\ Outdated[q] # NoRequest => req[q] # NoRequest
<1>1. ASSUME NEW q \in Request
      PROVE  /\ Outdated[q] \in RequestType
             /\ Outdated[q].op = req[q].op /\ Outdated[q].pc = req[q].pc /\ Outdated[q].row = req[q].row
             /\ req[q].op = "recalculate" => Outdated[q].stale
             /\ req[q] = NoRequest => Outdated[q] = NoRequest
    <2>1. req[q] \in RequestType
        OBVIOUS
    <2>2. Outdated[q] = [req[q] EXCEPT !.stale = (req[q].op = "recalculate")]
        BY DEF Outdated
    <2>3. (req[q].op = "recalculate") \in BOOLEAN
        OBVIOUS
    <2>4. Outdated[q] \in RequestType
        BY <2>1, <2>2, <2>3 DEF RequestType
    <2>5. Outdated[q].op = req[q].op /\ Outdated[q].pc = req[q].pc /\ Outdated[q].row = req[q].row
        BY <2>1, <2>2 DEF RequestType
    <2>6. req[q].op = "recalculate" => Outdated[q].stale
        BY <2>1, <2>2 DEF RequestType
    <2>7. req[q] = NoRequest => Outdated[q] = NoRequest
        <3>1. SUFFICES ASSUME req[q] = NoRequest PROVE Outdated[q] = NoRequest
            OBVIOUS
        <3>2. (req[q].op = "recalculate") = FALSE
            BY <3>1 DEF NoRequest
        <3>3. Outdated[q] = [NoRequest EXCEPT !.stale = FALSE]
            BY <2>2, <3>1, <3>2
        <3> QED
            BY <3>3 DEF NoRequest
    <2> QED
        BY <2>4, <2>5, <2>6, <2>7
<1>2. Outdated \in [Request -> RequestType]
    BY <1>1 DEF Outdated
<1> QED
    BY <1>1, <1>2

------------------------------------------------------------------------------
(* The steps.                                                              *)

LEMMA InitOK == Init => IInv
<1> SUFFICES ASSUME Init PROVE IInv
    OBVIOUS
<1>1. punches \in Seq(Punch) /\ Len(punches) = 0 /\ AdjustedOf(punches) = {}
    BY DEF Init, AdjustedOf
<1>2. \A r \in Request : req[r] = NoRequest
    BY DEF Init
<1>3. TypeOK
    <2>1. NoExcusal \in [row : BOOLEAN, minutes : Nat, balance : {0}]
        BY DEF NoExcusal
    <2>2. punches \in Seq(Punch) /\ Len(punches) <= MaxPunch
        BY <1>1, NumbersAssumption
    <2>3. adjustment \in Adjustment /\ entry \in Entry
        BY NoRequestType DEF Init, Adjustment
    <2>4. req \in [Request -> RequestType]
        BY NoRequestType DEF Init
    <2>5. stale \in BOOLEAN /\ interrupted \in BOOLEAN /\ overlapped \in BOOLEAN
        BY DEF Init
    <2>6. excusal = NoExcusal
        BY DEF Init
    <2> QED
        BY <2>1, <2>2, <2>3, <2>4, <2>5, <2>6 DEF TypeOK
<1>4. RequestsAreSound
    BY <1>2 DEF RequestsAreSound, Sound, NoRequest
<1>5. EntryIsPaired
    BY DEF Init, EntryIsPaired, NoEntry
<1>6. ApprovedHasPunch
    BY DEF Init, ApprovedHasPunch, NoAdjustment
<1>7. Serial
    <2>1. Alone
        BY <1>2 DEF Alone
    <2>2. Undecided
        BY <1>2 DEF Undecided, At, NoRequest
    <2>3. OneAdjusted(punches)
        BY <1>1 DEF OneAdjusted
    <2> QED
        BY <1>1, <2>1, <2>2, <2>3 DEF Serial
<1> QED
    BY <1>3, <1>4, <1>5, <1>6, <1>7 DEF IInv

LEMMA AdjustmentKept ==
    ASSUME adjustment \in Adjustment, adjustment' = adjustment,
           Len(punches) \in Nat, Len(punches)' \in Nat, Len(punches) <= Len(punches)'
    PROVE  adjustment' \in Adjustment'
<1>1. \A i \in 0..Len(punches) : i \in 0..Len(punches)'
    OBVIOUS
<1>2. CASE adjustment = NoAdjustment
    BY <1>2 DEF Adjustment, NoAdjustment
<1>3. CASE adjustment # NoAdjustment
    BY <1>1, <1>3 DEF Adjustment
<1> QED
    BY <1>2, <1>3

\* The punches change, none of them by a review.
LEMMA PunchesMove ==
    ASSUME IInv, NEW new \in Seq(Punch), Len(punches) <= Len(new), Len(new) <= MaxPunch,
           AdjustedOf(new) = AdjustedOf(punches),
           punches' = new, stale' = TRUE, req' = Outdated, Overlap,
           UNCHANGED <<adjustment, entry, excusal, interrupted>>
    PROVE  IInv'
<1>1. Len(punches) \in Nat /\ Len(new) \in Nat /\ \A i \in 1..Len(punches) : i \in 1..Len(new)
    BY DEF IInv, TypeOK
<1>2. /\ Outdated \in [Request -> RequestType]
      /\ \A q \in Request :
            /\ Outdated[q].op = req[q].op /\ Outdated[q].pc = req[q].pc /\ Outdated[q].row = req[q].row
            /\ req[q].op = "recalculate" => Outdated[q].stale
            /\ Outdated[q] # NoRequest => req[q] # NoRequest
    BY OutdatedIs DEF IInv, TypeOK
<1>3. TypeOK'
    <2>1. adjustment' \in Adjustment'
        BY <1>1, AdjustmentKept DEF IInv, TypeOK
    <2> QED
        BY <1>2, <2>1 DEF IInv, TypeOK, Overlap, Entry
<1>4. RequestsAreSound'
    <2>1. ASSUME NEW r \in Request PROVE Sound(req'[r], adjustment'.status, punches')
        <3>1. Sound(req[r], adjustment.status, punches)
            BY DEF IInv, RequestsAreSound
        <3> QED
            BY <1>1, <1>2, <3>1 DEF Sound
    <2> QED
        BY <2>1 DEF RequestsAreSound
<1>5. EntryIsPaired'
    BY DEF EntryIsPaired
<1>6. ApprovedHasPunch'
    <2>1. Adjusted = AdjustedOf(punches) /\ Adjusted' = AdjustedOf(new)
        BY DEF Adjusted, AdjustedOf
    <2>2. \A r \in Request : At(r, "review", "finish")' <=> At(r, "review", "finish")
        BY <1>2 DEF At
    <2> QED
        BY <2>1, <2>2 DEF IInv, ApprovedHasPunch
<1>7. Serial'
    <2>1. SUFFICES ASSUME ~overlapped' PROVE Serial'
        BY DEF Serial
    <2>2. Serial /\ ~overlapped
        BY <2>1 DEF IInv, Overlap
    <2>3. Alone'
        BY <1>2, <2>2 DEF Serial, Alone
    <2>4. Undecided'
        BY <1>2, <2>2 DEF Serial, Undecided, At
    <2> QED
        BY <2>2, <2>3, <2>4 DEF Serial, OneAdjusted
<1> QED
    BY <1>3, <1>4, <1>5, <1>6, <1>7 DEF IInv

LEMMA NewPunchKeeps ==
    ASSUME IInv, NewPunch
    PROVE  IInv'
<1>1. PICK at \in Moment, type \in PunchType :
        PunchesChange(Append(punches, [at |-> at, type |-> type, adjusted |-> FALSE]))
    BY DEF NewPunch
<1> DEFINE p == [at |-> at, type |-> type, adjusted |-> FALSE]
           new == Append(punches, p)
<1>2. p \in Punch /\ ~p.adjusted /\ punches \in Seq(Punch) /\ Len(punches) \in Nat
    BY DEF Punch, IInv, TypeOK
<1>3. punches' = new /\ stale' = TRUE /\ req' = Outdated /\ Overlap /\ UNCHANGED <<adjustment, entry, excusal, interrupted>>
    BY <1>1 DEF NewPunch, PunchesChange
<1> HIDE DEF p
<1>4. new \in Seq(Punch) /\ Len(new) = Len(punches) + 1 /\ AdjustedOf(new) = AdjustedOf(punches)
    BY <1>2, PunchAdded
<1>5. Len(new) <= MaxPunch
    BY <1>2, <1>4, NumbersAssumption DEF NewPunch
<1> HIDE DEF new
<1> QED
    BY <1>2, <1>3, <1>4, <1>5, PunchesMove

LEMMA UpdatePunchKeeps ==
    ASSUME IInv, NEW p \in DOMAIN punches, UpdatePunch(p)
    PROVE  IInv'
<1>1. PICK wanted \in Wanted :
        PunchesChange([punches EXCEPT ![p].at = wanted.at, ![p].type = wanted.type])
    BY DEF UpdatePunch
<1> DEFINE new == [punches EXCEPT ![p].at = wanted.at, ![p].type = wanted.type]
<1>2. wanted.at \in Moment /\ wanted.type \in PunchType /\ punches \in Seq(Punch)
    BY WantedAssumption DEF Moment, IInv, TypeOK
<1>3. punches' = new /\ stale' = TRUE /\ req' = Outdated /\ Overlap /\ UNCHANGED <<adjustment, entry, excusal, interrupted>>
    BY <1>1 DEF UpdatePunch, PunchesChange
<1> HIDE DEF new
<1>4. new \in Seq(Punch) /\ Len(new) = Len(punches) /\ AdjustedOf(new) = AdjustedOf(punches)
    <2>1. new = Corrected(punches, p, wanted.at, wanted.type)
        BY DEF new, Corrected
    <2> QED
        BY <1>2, <2>1, PunchCorrected
<1>5. Len(new) <= MaxPunch /\ Len(punches) <= Len(new)
    BY <1>2, <1>4 DEF IInv, TypeOK
<1> QED
    BY <1>3, <1>4, <1>5, PunchesMove

\* A request begins.
LEMMA BeginKeeps ==
    ASSUME IInv, NEW r \in Request, NEW x \in RequestType, Begin(r, x),
           Sound(x, adjustment.status, punches),
           x.op = "review" => x.pc \in {"approve", "reject"} /\ adjustment.status = "pending"
    PROVE  IInv'
<1>1. req \in [Request -> RequestType] /\ req' = [req EXCEPT ![r] = x] /\ req[r] = NoRequest
    BY DEF Begin, IInv, TypeOK
<1>2. UNCHANGED <<punches, adjustment, entry, excusal, stale, interrupted>> /\ Overlap
    BY DEF Begin, bank
<1>3. \A q \in Request : req'[q] = IF q = r THEN x ELSE req[q]
    BY <1>1
<1>4. TypeOK'
    BY <1>1, <1>2 DEF IInv, TypeOK, Overlap, Adjustment
<1>5. RequestsAreSound'
    BY <1>2, <1>3 DEF IInv, RequestsAreSound
<1>6. EntryIsPaired'
    BY <1>2 DEF IInv, EntryIsPaired, Balance, Overtime
<1>7. ApprovedHasPunch'
    <2>1. Adjusted' = Adjusted
        BY <1>2 DEF Adjusted
    <2>2. \A q \in Request : At(q, "review", "finish") => At(q, "review", "finish")'
        BY <1>1, <1>3 DEF At, NoRequest
    <2> QED
        BY <1>2, <2>1, <2>2 DEF IInv, ApprovedHasPunch
<1>8. Serial'
    <2>1. SUFFICES ASSUME ~overlapped' PROVE Serial'
        BY DEF Serial
    <2>2. Serial /\ ~overlapped /\ \A q \in Request : req[q] = NoRequest
        BY <1>2, <2>1 DEF IInv, Overlap
    <2>3. Alone'
        BY <1>3, <2>2 DEF Alone
    <2>4. Undecided'
        BY <1>2, <1>3, <2>2 DEF Undecided, At, NoRequest
    <2> QED
        BY <1>2, <2>2, <2>3, <2>4 DEF Serial, OneAdjusted
<1> QED
    BY <1>4, <1>5, <1>6, <1>7, <1>8 DEF IInv

LEMMA ReviewBeginKeeps ==
    ASSUME IInv, NEW r \in Request, ReviewBegin(r)
    PROVE  IInv'
<1>1. PICK pc \in {"approve", "reject"} : Begin(r, [NoRequest EXCEPT !.op = "review", !.pc = pc])
    BY DEF ReviewBegin
<1> DEFINE x == [NoRequest EXCEPT !.op = "review", !.pc = pc]
<1>2. x \in RequestType /\ x.op = "review" /\ x.pc = pc
    BY NoRequestType DEF RequestType, NoRequest
<1>3. adjustment.status = "pending"
    BY DEF ReviewBegin
<1>4. Sound(x, adjustment.status, punches)
    BY <1>2, <1>3 DEF Sound
<1>5. Begin(r, x)
    BY <1>1
<1> HIDE DEF x
<1> QED
    BY <1>2, <1>3, <1>4, <1>5, BeginKeeps

LEMMA RecalculateBeginKeeps ==
    ASSUME IInv, NEW r \in Request, RecalculateBegin(r)
    PROVE  IInv'
<1>1. PICK s \in ByTime(punches) :
        Begin(r, [NoRequest EXCEPT !.op = "recalculate", !.pc = "read", !.worked = PairPunchesWorkedMinutes(s)])
    BY DEF RecalculateBegin
<1> DEFINE x == [NoRequest EXCEPT !.op = "recalculate", !.pc = "read", !.worked = PairPunchesWorkedMinutes(s)]
<1>2. PairPunchesWorkedMinutes(s) \in Minutes
    BY WorkedIsMinutes DEF IInv, TypeOK
<1>3. x \in RequestType /\ x.op = "recalculate" /\ x.worked = PairPunchesWorkedMinutes(s)
    BY <1>2, NoRequestType DEF RequestType, NoRequest
<1>4. Sound(x, adjustment.status, punches)
    BY <1>3 DEF Sound, Paired
<1>5. Begin(r, x)
    BY <1>1
<1> HIDE DEF x
<1> QED
    BY <1>3, <1>4, <1>5, BeginKeeps

\* What a request that is under way does to the others, and that it answers.
LEMMA Responded ==
    ASSUME IInv, NEW r \in Request, Respond(r), overlapped' = overlapped
    PROVE  /\ req' \in [Request -> RequestType]
           /\ \A q \in Request : req'[q] = IF q = r THEN NoRequest ELSE req[q]
           /\ ~overlapped => Alone'
<1>1. req \in [Request -> RequestType] /\ req' = [req EXCEPT ![r] = NoRequest]
    BY DEF Respond, IInv, TypeOK
<1>2. \A q \in Request : req'[q] = IF q = r THEN NoRequest ELSE req[q]
    BY <1>1
<1>3. req' \in [Request -> RequestType]
    BY <1>1, NoRequestType
<1>4. ASSUME ~overlapped PROVE Alone'
    BY <1>2, <1>4 DEF IInv, Serial, Alone
<1> QED
    BY <1>2, <1>3, <1>4

LEMMA AbortKeeps ==
    ASSUME IInv, NEW r \in Request, Abort(r)
    PROVE  IInv'
<1>1. UNCHANGED <<punches, adjustment, entry, excusal, stale, overlapped>> /\ Respond(r)
      /\ interrupted' = (interrupted \/ At(r, "review", "finish"))
    BY DEF Abort, bank
<1>2. /\ req' \in [Request -> RequestType]
      /\ \A q \in Request : req'[q] = IF q = r THEN NoRequest ELSE req[q]
      /\ ~overlapped => Alone'
    BY <1>1, Responded
<1>3. TypeOK'
    BY <1>1, <1>2 DEF IInv, TypeOK, Adjustment
<1>4. RequestsAreSound'
    BY <1>1, <1>2 DEF IInv, RequestsAreSound, Sound, NoRequest
<1>5. EntryIsPaired'
    BY <1>1 DEF IInv, EntryIsPaired, Balance, Overtime
<1>6. ApprovedHasPunch'
    <2>1. Adjusted' = Adjusted
        BY <1>1 DEF Adjusted
    <2>2. ~interrupted' => \A q \in Request : At(q, "review", "finish") => At(q, "review", "finish")'
        BY <1>1, <1>2 DEF At
    <2> QED
        BY <1>1, <2>1, <2>2 DEF IInv, ApprovedHasPunch
<1>7. Serial'
    <2>1. ~overlapped => Undecided'
        BY <1>1, <1>2 DEF IInv, Serial, Undecided, At, NoRequest
    <2> QED
        BY <1>1, <1>2, <2>1 DEF IInv, Serial, OneAdjusted
<1> QED
    BY <1>3, <1>4, <1>5, <1>6, <1>7 DEF IInv

LEMMA CreateAdjustmentKeeps ==
    ASSUME IInv, CreateAdjustment
    PROVE  IInv'
<1>1. PICK p \in 0..Len(punches), wanted \in Wanted :
        adjustment' = [NoAdjustment EXCEPT !.status = "pending", !.punch = p, !.at = wanted.at, !.type = wanted.type]
    BY DEF CreateAdjustment
<1>2. UNCHANGED <<punches, entry, excusal, stale, req, interrupted>> /\ Overlap /\ adjustment = NoAdjustment
    BY DEF CreateAdjustment, bank
<1>3. wanted.at \in Moment /\ wanted.type \in PunchType
    BY WantedAssumption DEF Moment
<1>4. adjustment' = [status |-> "pending", punch |-> p, at |-> wanted.at, type |-> wanted.type, result |-> 0]
    BY <1>1 DEF NoAdjustment
<1>5. TypeOK'
    <2>1. 0 \in 0..Len(punches)
        BY DEF IInv, TypeOK
    <2>2. adjustment' \in Adjustment'
        BY <1>2, <1>3, <1>4, <2>1 DEF Adjustment
    <2> QED
        BY <1>2, <2>2 DEF IInv, TypeOK, Overlap
<1>6. adjustment.status = "none" /\ adjustment'.status = "pending"
    BY <1>2, <1>4 DEF NoAdjustment
<1>7. RequestsAreSound'
    BY <1>2, <1>6 DEF IInv, RequestsAreSound, Sound
<1>8. EntryIsPaired'
    BY <1>2 DEF IInv, EntryIsPaired, Balance, Overtime
<1>9. ApprovedHasPunch'
    BY <1>6 DEF ApprovedHasPunch
<1>10. Serial'
    <2>1. SUFFICES ASSUME ~overlapped' PROVE Serial'
        BY DEF Serial
    <2>2. Serial /\ ~overlapped
        BY <1>2, <2>1 DEF IInv, Overlap
    <2>3. Alone' /\ Undecided'
        BY <1>2, <1>6, <2>2 DEF Serial, Alone, Undecided
    <2> QED
        BY <1>2, <1>6, <2>2, <2>3 DEF Serial, OneAdjusted
<1> QED
    BY <1>5, <1>7, <1>8, <1>9, <1>10 DEF IInv

LEMMA AdjustedPunchesAre ==
    ASSUME TypeOK, adjustment.status # "none", NEW new, new = AdjustedPunches
    PROVE  /\ new \in Seq(Punch) /\ Len(punches) <= Len(new) /\ AdjustedId \in 1..Len(new)
           /\ adjustment.punch = 0 => AdjustedOf(new) = AdjustedOf(punches) \cup {Len(punches) + 1}
           /\ adjustment.punch # 0 => AdjustedOf(new) = AdjustedOf(punches)
<1>1. punches \in Seq(Punch) /\ Len(punches) \in Nat /\ DOMAIN punches = 1..Len(punches)
    BY DEF TypeOK
<1>2. adjustment.at \in Moment /\ adjustment.type \in PunchType /\ adjustment.punch \in 0..Len(punches)
    BY DEF TypeOK, Adjustment, NoAdjustment
<1>3. CASE adjustment.punch = 0
    <2> DEFINE p == [at |-> adjustment.at, type |-> adjustment.type, adjusted |-> TRUE]
    <2>1. p \in Punch /\ p.adjusted
        BY <1>2 DEF Punch
    <2>2. new = Append(punches, p)
        BY <1>3 DEF AdjustedPunches
    <2> HIDE DEF p
    <2>3. /\ new \in Seq(Punch) /\ Len(new) = Len(punches) + 1
          /\ AdjustedOf(new) = AdjustedOf(punches) \cup {Len(punches) + 1}
        BY <1>1, <2>1, <2>2, PunchAdded
    <2>4. AdjustedId = Len(punches) + 1
        BY <1>3 DEF AdjustedId
    <2> QED
        BY <1>1, <1>3, <2>3, <2>4
<1>4. CASE adjustment.punch # 0
    <2>1. adjustment.punch \in DOMAIN punches
        BY <1>1, <1>2, <1>4
    <2>2. new = Corrected(punches, adjustment.punch, adjustment.at, adjustment.type)
        <3>1. new = [punches EXCEPT ![adjustment.punch].at = adjustment.at, ![adjustment.punch].type = adjustment.type]
            BY <1>4, Zenon DEF AdjustedPunches
        <3> QED
            BY <3>1 DEF Corrected
    <2>3. new \in Seq(Punch) /\ Len(new) = Len(punches) /\ AdjustedOf(new) = AdjustedOf(punches)
        <3>1. punches \in Seq(Punch) /\ adjustment.at \in Moment /\ adjustment.type \in PunchType
            BY <1>1, <1>2
        <3> QED
            BY <2>1, <2>2, <3>1, PunchCorrected
    <2>4. AdjustedId = adjustment.punch
        BY <1>4 DEF AdjustedId
    <2> QED
        BY <1>1, <1>2, <1>4, <2>3, <2>4
<1> QED
    BY <1>3, <1>4

\* An adjustment under review, in its place once its status is the new one.
LEMMA Reviewed ==
    ASSUME TypeOK, adjustment.status # "none", NEW given \in {"approved", "rejected"},
           adjustment' = [adjustment EXCEPT !.status = given],
           Len(punches)' \in Nat, Len(punches) <= Len(punches)'
    PROVE  adjustment' \in Adjustment' /\ adjustment'.status = given /\ adjustment'.punch = adjustment.punch
<1>1. adjustment \in [status : {"pending", "approved", "rejected"}, punch : 0..Len(punches), at : Moment,
                      type : PunchType, result : 0..Len(punches)]
    BY DEF TypeOK, Adjustment, NoAdjustment
<1>2. Len(punches) \in Nat
    BY DEF TypeOK
<1>3. \A i \in 0..Len(punches) : i \in 0..Len(punches)'
    BY <1>2
<1>4. /\ adjustment'.status = given /\ adjustment'.punch = adjustment.punch
      /\ adjustment' \in [status : {"pending", "approved", "rejected"}, punch : 0..Len(punches)', at : Moment,
                          type : PunchType, result : 0..Len(punches)']
    BY <1>1, <1>3
<1> QED
    BY <1>4 DEF Adjustment

LEMMA ApproveKeeps ==
    ASSUME IInv, NEW r \in Request, Approve(r)
    PROVE  IInv'
<1> DEFINE new == AdjustedPunches
           id == AdjustedId
<1>1. req[r].op = "review" /\ req[r].pc = "approve" /\ Len(new) <= MaxPunch
    BY DEF Approve, At
<1>2. /\ punches' = new /\ stale' = TRUE
      /\ adjustment' = [adjustment EXCEPT !.status = "approved"]
      /\ req' = [Outdated EXCEPT ![r].pc = "finish", ![r].row = id]
      /\ UNCHANGED <<entry, excusal, interrupted, overlapped>>
    BY DEF Approve, PunchesChange
<1>3. TypeOK /\ adjustment.status # "none" /\ req \in [Request -> RequestType]
    BY <1>1 DEF IInv, TypeOK, RequestsAreSound, Sound
<1>4. /\ new \in Seq(Punch) /\ Len(punches) <= Len(new) /\ id \in 1..Len(new)
      /\ adjustment.punch = 0 => AdjustedOf(new) = AdjustedOf(punches) \cup {Len(punches) + 1}
      /\ adjustment.punch # 0 => AdjustedOf(new) = AdjustedOf(punches)
    BY <1>3, AdjustedPunchesAre
<1> HIDE DEF new, id
<1>5. Len(punches) \in Nat /\ Len(new) \in Nat /\ \A i \in 1..Len(punches) : i \in 1..Len(new)
    BY <1>3, <1>4 DEF TypeOK
<1>6. adjustment' \in Adjustment' /\ adjustment'.status = "approved" /\ adjustment'.punch = adjustment.punch
    BY <1>2, <1>3, <1>4, <1>5, Reviewed
<1>7. /\ Outdated \in [Request -> RequestType]
      /\ \A q \in Request :
            /\ Outdated[q].op = req[q].op /\ Outdated[q].pc = req[q].pc /\ Outdated[q].row = req[q].row
            /\ req[q].op = "recalculate" => Outdated[q].stale
            /\ Outdated[q] # NoRequest => req[q] # NoRequest
    BY <1>3, OutdatedIs
<1>8. /\ req' \in [Request -> RequestType]
      /\ \A q \in Request : q # r => req'[q] = Outdated[q]
      /\ req'[r].op = "review" /\ req'[r].pc = "finish" /\ req'[r].row = id
    <2>1. id \in Nat
        BY <1>4, <1>5
    <2>2. Outdated[r] \in RequestType
        BY <1>7
    <2>3. req'[r] = [[Outdated[r] EXCEPT !.pc = "finish"] EXCEPT !.row = id]
        BY <1>2, <1>7
    <2>4. req'[r] \in RequestType /\ req'[r].op = Outdated[r].op /\ req'[r].pc = "finish" /\ req'[r].row = id
        BY <2>1, <2>2, <2>3 DEF RequestType
    <2>5. \A q \in Request : q # r => req'[q] = Outdated[q]
        BY <1>2, <1>7
    <2>6. \A q \in Request : req'[q] \in RequestType
        BY <1>7, <2>4, <2>5
    <2>7. req' = [q \in Request |-> req'[q]]
        BY <1>2, <1>7
    <2>8. req' \in [Request -> RequestType]
        BY <2>6, <2>7
    <2> QED
        BY <1>1, <1>7, <2>4, <2>5, <2>8
<1>9. TypeOK'
    BY <1>1, <1>2, <1>4, <1>6, <1>8 DEF IInv, TypeOK
<1>10. RequestsAreSound'
    <2>1. ASSUME NEW q \in Request PROVE Sound(req'[q], adjustment'.status, punches')
        <3>1. CASE q = r
            BY <1>2, <1>4, <1>6, <1>8, <3>1 DEF Sound
        <3>2. CASE q # r
            <4>1. Sound(req[q], adjustment.status, punches)
                BY DEF IInv, RequestsAreSound
            <4> QED
                BY <1>2, <1>5, <1>6, <1>7, <1>8, <3>2, <4>1 DEF Sound
        <3> QED
            BY <3>1, <3>2
    <2> QED
        BY <2>1 DEF RequestsAreSound
<1>11. EntryIsPaired'
    BY <1>2 DEF EntryIsPaired
<1>12. ApprovedHasPunch'
    <2>1. Adjusted' = AdjustedOf(new)
        BY <1>2 DEF Adjusted, AdjustedOf
    <2>2. At(r, "review", "finish")'
        BY <1>8 DEF At
    <2> QED
        BY <1>4, <1>6, <2>1, <2>2 DEF ApprovedHasPunch
<1>13. Serial'
    <2>1. SUFFICES ASSUME ~overlapped PROVE Serial'
        BY <1>2 DEF Serial
    <2>2. Alone /\ Undecided /\ (AdjustedOf(punches) # {} => adjustment.status = "approved")
        BY <2>1 DEF IInv, Serial
    <2>3. AdjustedOf(punches) = {}
        BY <1>1, <2>2 DEF Undecided, At
    <2>4. req[r] # NoRequest
        BY <1>1 DEF NoRequest
    <2>5. \A q \in Request : q # r => req'[q] = NoRequest
        BY <1>7, <1>8, <2>2, <2>4 DEF Alone
    <2>6. Alone'
        BY <2>5 DEF Alone
    <2>7. Undecided'
        BY <1>8, <2>5 DEF Undecided, At, NoRequest
    <2>8. OneAdjusted(new)
        BY <1>4, <2>3 DEF OneAdjusted
    <2> QED
        BY <1>2, <1>4, <1>6, <2>3, <2>6, <2>7, <2>8 DEF Serial
<1> QED
    BY <1>9, <1>10, <1>11, <1>12, <1>13 DEF IInv

LEMMA FinishReviewKeeps ==
    ASSUME IInv, NEW r \in Request, FinishReview(r)
    PROVE  IInv'
<1>1. req[r].op = "review" /\ req[r].pc = "finish"
    BY DEF FinishReview, At
<1>2. UNCHANGED <<punches, entry, excusal, stale, interrupted, overlapped>> /\ Respond(r)
      /\ adjustment' = [adjustment EXCEPT !.result = req[r].row]
    BY DEF FinishReview, bank
<1>3. adjustment.status # "none" /\ req[r].row \in 1..Len(punches) /\ Len(punches) \in Nat
    BY <1>1 DEF IInv, TypeOK, RequestsAreSound, Sound
<1>4. adjustment \in [status : {"pending", "approved", "rejected"}, punch : 0..Len(punches), at : Moment,
                      type : PunchType, result : 0..Len(punches)]
    BY <1>3 DEF IInv, TypeOK, Adjustment, NoAdjustment
<1>5. /\ adjustment' \in Adjustment' /\ adjustment'.result # 0
      /\ adjustment'.status = adjustment.status /\ adjustment'.punch = adjustment.punch
    BY <1>2, <1>3, <1>4 DEF Adjustment
<1>6. /\ req' \in [Request -> RequestType]
      /\ \A q \in Request : req'[q] = IF q = r THEN NoRequest ELSE req[q]
      /\ ~overlapped => Alone'
    BY <1>2, Responded
<1>7. TypeOK'
    BY <1>2, <1>5, <1>6 DEF IInv, TypeOK
<1>8. RequestsAreSound'
    BY <1>2, <1>5, <1>6 DEF IInv, RequestsAreSound, Sound, NoRequest
<1>9. EntryIsPaired'
    BY <1>2 DEF IInv, EntryIsPaired, Balance, Overtime
<1>10. ApprovedHasPunch'
    <2>1. Adjusted' = Adjusted
        BY <1>2 DEF Adjusted
    <2> QED
        BY <1>5, <2>1 DEF IInv, ApprovedHasPunch
<1>11. Serial'
    <2>1. ~overlapped => Undecided'
        BY <1>5, <1>6 DEF IInv, Serial, Undecided, At, NoRequest
    <2> QED
        BY <1>2, <1>5, <1>6, <2>1 DEF IInv, Serial, OneAdjusted
<1> QED
    BY <1>7, <1>8, <1>9, <1>10, <1>11 DEF IInv

LEMMA RejectKeeps ==
    ASSUME IInv, NEW r \in Request, Reject(r)
    PROVE  IInv'
<1>1. req[r].op = "review" /\ req[r].pc = "reject"
    BY DEF Reject, At
<1>2. UNCHANGED <<punches, entry, excusal, stale, interrupted, overlapped>> /\ Respond(r)
      /\ adjustment' = [adjustment EXCEPT !.status = "rejected"]
    BY DEF Reject, bank
<1>3. TypeOK /\ adjustment.status # "none" /\ Len(punches) \in Nat
    BY <1>1 DEF IInv, TypeOK, RequestsAreSound, Sound
<1>4. adjustment' \in Adjustment' /\ adjustment'.status = "rejected"
    BY <1>2, <1>3, Reviewed
<1>5. /\ req' \in [Request -> RequestType]
      /\ \A q \in Request : req'[q] = IF q = r THEN NoRequest ELSE req[q]
      /\ ~overlapped => Alone'
    BY <1>2, Responded
<1>6. TypeOK'
    BY <1>2, <1>3, <1>4, <1>5 DEF TypeOK
<1>7. RequestsAreSound'
    BY <1>2, <1>4, <1>5 DEF IInv, RequestsAreSound, Sound, NoRequest
<1>8. EntryIsPaired'
    BY <1>2 DEF IInv, EntryIsPaired, Balance, Overtime
<1>9. ApprovedHasPunch'
    BY <1>4 DEF ApprovedHasPunch
<1>10. Serial'
    <2>1. SUFFICES ASSUME ~overlapped PROVE Serial'
        BY <1>2 DEF Serial
    <2>2. Alone /\ Undecided /\ (AdjustedOf(punches) # {} => adjustment.status = "approved") /\ OneAdjusted(punches)
        BY <2>1 DEF IInv, Serial
    <2>3. AdjustedOf(punches) = {}
        BY <1>1, <2>2 DEF Undecided, At
    <2>4. req[r] # NoRequest
        BY <1>1 DEF NoRequest
    <2>5. \A q \in Request : req'[q] = NoRequest
        BY <1>5, <2>2, <2>4 DEF Alone
    <2>6. Undecided'
        BY <2>5 DEF Undecided, At, NoRequest
    <2> QED
        BY <1>2, <1>5, <2>1, <2>2, <2>3, <2>6 DEF Serial
<1> QED
    BY <1>6, <1>7, <1>8, <1>9, <1>10 DEF IInv

LEMMA RecalculateReadKeeps ==
    ASSUME IInv, NEW r \in Request, RecalculateRead(r)
    PROVE  IInv'
<1>1. req[r].op = "recalculate" /\ req[r].pc = "read" /\ req[r] \in RequestType /\ req \in [Request -> RequestType]
    BY DEF RecalculateRead, At, IInv, TypeOK
<1>2. UNCHANGED <<punches, adjustment, entry, excusal, stale, interrupted, overlapped>>
    BY DEF RecalculateRead, bank
<1>3. /\ \A q \in Request : q # r => req'[q] = req[q]
      /\ req'[r] = [[req[r] EXCEPT !.pc = "commit"] EXCEPT !.entry = entry]
      /\ req' = [q \in Request |-> req'[q]]
    BY <1>1 DEF RecalculateRead
<1>4. entry \in Entry
    BY DEF IInv, TypeOK
<1>5. req'[r] \in RequestType /\ req'[r].op = "recalculate" /\ req'[r].worked = req[r].worked /\ req'[r].stale = req[r].stale
    BY <1>1, <1>3, <1>4 DEF RequestType
<1>6. req' \in [Request -> RequestType]
    <2>1. \A q \in Request : req'[q] \in RequestType
        BY <1>1, <1>3, <1>5
    <2> QED
        BY <1>3, <2>1
<1>7. TypeOK'
    BY <1>2, <1>6 DEF IInv, TypeOK, Adjustment
<1>8. RequestsAreSound'
    BY <1>1, <1>2, <1>3, <1>5 DEF IInv, RequestsAreSound, Sound
<1>9. EntryIsPaired'
    BY <1>2 DEF IInv, EntryIsPaired, Balance, Overtime
<1>10. ApprovedHasPunch'
    <2>1. Adjusted' = Adjusted
        BY <1>2 DEF Adjusted
    <2>2. \A q \in Request : At(q, "review", "finish")' <=> At(q, "review", "finish")
        BY <1>1, <1>3, <1>5 DEF At
    <2> QED
        BY <1>2, <2>1, <2>2 DEF IInv, ApprovedHasPunch
<1>11. Serial'
    <2>1. req[r] # NoRequest
        BY <1>1 DEF NoRequest
    <2>2. ~overlapped => Alone'
        BY <1>3, <2>1 DEF IInv, Serial, Alone
    <2>3. ~overlapped => Undecided'
        BY <1>1, <1>2, <1>3, <1>5 DEF IInv, Serial, Undecided, At
    <2> QED
        BY <1>2, <2>2, <2>3 DEF IInv, Serial, OneAdjusted
<1> QED
    BY <1>7, <1>8, <1>9, <1>10, <1>11 DEF IInv

LEMMA RecalculateCommitKeeps ==
    ASSUME IInv, NEW r \in Request, RecalculateCommit(r)
    PROVE  IInv'
<1> DEFINE read == req[r].entry
           new == [row |-> TRUE, worked |-> req[r].worked, balance |-> Balance(req[r].worked)]
<1>1. req[r].op = "recalculate" /\ req[r] \in RequestType /\ entry \in Entry
    BY DEF RecalculateCommit, At, IInv, TypeOK
<1>2. UNCHANGED <<punches, adjustment, excusal, interrupted, overlapped>> /\ Respond(r)
      /\ entry' = [f \in DOMAIN entry |-> IF new[f] = read[f] THEN entry[f] ELSE new[f]]
      /\ stale' = IF entry' = new THEN req[r].stale ELSE stale \/ entry' # entry
    BY DEF RecalculateCommit
<1>3. req[r].worked \in Minutes /\ Balance(req[r].worked) \in (-Expected)..MaxMoment /\ req[r].stale \in BOOLEAN
    BY <1>1, BalanceType DEF RequestType
<1>4. new \in Entry /\ new.worked = req[r].worked /\ new.balance = Balance(req[r].worked)
    BY <1>3 DEF Entry
<1> HIDE DEF new, read
<1>5. entry' \in Entry
    <2>1. DOMAIN entry = {"row", "worked", "balance"}
        BY <1>1 DEF Entry
    <2>2. /\ entry'.row \in {entry.row, new.row}
          /\ entry'.worked \in {entry.worked, new.worked}
          /\ entry'.balance \in {entry.balance, new.balance}
        BY <1>2, <2>1
    <2>3. /\ entry.row \in BOOLEAN /\ entry.worked \in Minutes /\ entry.balance \in (-Expected)..MaxMoment
          /\ new.row \in BOOLEAN /\ new.worked \in Minutes /\ new.balance \in (-Expected)..MaxMoment
        BY <1>1, <1>4 DEF Entry
    <2>4. entry' = [row |-> entry'.row, worked |-> entry'.worked, balance |-> entry'.balance]
        BY <1>2, <2>1
    <2> QED
        BY <2>2, <2>3, <2>4 DEF Entry
<1>6. /\ req' \in [Request -> RequestType]
      /\ \A q \in Request : req'[q] = IF q = r THEN NoRequest ELSE req[q]
      /\ ~overlapped => Alone'
    BY <1>2, Responded
<1>7. stale \in BOOLEAN /\ stale' \in BOOLEAN
    BY <1>2, <1>3 DEF IInv, TypeOK
<1>8. TypeOK'
    BY <1>2, <1>5, <1>6, <1>7 DEF IInv, TypeOK, Adjustment
<1>9. RequestsAreSound'
    BY <1>2, <1>6 DEF IInv, RequestsAreSound, Sound, NoRequest
<1>10. EntryIsPaired'
    <2>1. Sound(req[r], adjustment.status, punches)
        BY DEF IInv, RequestsAreSound
    <2>2. CASE entry' = new
        <3>1. ~stale' => Paired(punches, req[r].worked)
            BY <1>1, <1>2, <2>1, <2>2 DEF Sound
        <3> QED
            BY <1>2, <1>4, <2>2, <3>1 DEF EntryIsPaired, Balance, Overtime
    <2>3. CASE entry' # new
        <3>1. ~stale' => entry' = entry /\ ~stale
            BY <1>2, <2>3
        <3> QED
            BY <1>2, <3>1 DEF IInv, EntryIsPaired, Balance, Overtime
    <2> QED
        BY <2>2, <2>3
<1>11. ApprovedHasPunch'
    <2>1. Adjusted' = Adjusted
        BY <1>2 DEF Adjusted
    <2>2. \A q \in Request : At(q, "review", "finish") => At(q, "review", "finish")'
        BY <1>1, <1>6 DEF At
    <2> QED
        BY <1>2, <2>1, <2>2 DEF IInv, ApprovedHasPunch
<1>12. Serial'
    <2>1. ~overlapped => Undecided'
        BY <1>2, <1>6 DEF IInv, Serial, Undecided, At, NoRequest
    <2> QED
        BY <1>2, <1>6, <2>1 DEF IInv, Serial, OneAdjusted
<1> QED
    BY <1>8, <1>9, <1>10, <1>11, <1>12 DEF IInv

LEMMA CreateExcusalKeeps ==
    ASSUME IInv, CreateExcusal
    PROVE  IInv'
<1>1. UNCHANGED <<punches, adjustment, entry, stale, req, interrupted>> /\ Overlap
    BY DEF CreateExcusal
<1>2. excusal' \in [row : BOOLEAN, minutes : Nat, balance : {0}]
    BY ExcusedAssumption DEF CreateExcusal
<1>3. TypeOK'
    BY <1>1, <1>2 DEF IInv, TypeOK, Adjustment, Overlap
<1>4. RequestsAreSound'
    BY <1>1 DEF IInv, RequestsAreSound
<1>5. EntryIsPaired'
    BY <1>1 DEF IInv, EntryIsPaired, Balance, Overtime
<1>6. ApprovedHasPunch'
    BY <1>1 DEF IInv, ApprovedHasPunch, Adjusted, At
<1>7. Serial'
    <2>1. ~overlapped' => ~overlapped
        BY <1>1 DEF Overlap
    <2> QED
        BY <1>1, <2>1 DEF IInv, Serial, Alone, Undecided, At, OneAdjusted
<1> QED
    BY <1>3, <1>4, <1>5, <1>6, <1>7 DEF IInv

LEMMA StutterKeeps ==
    ASSUME IInv, UNCHANGED vars
    PROVE  IInv'
<1>1. UNCHANGED <<punches, adjustment, entry, excusal, stale, req, interrupted, overlapped>>
    BY DEF vars, bank
<1>2. TypeOK'
    BY <1>1 DEF IInv, TypeOK, Adjustment
<1>3. RequestsAreSound' /\ ApprovedHasPunch'
    BY <1>1 DEF IInv, RequestsAreSound, ApprovedHasPunch, Adjusted, At
<1>4. EntryIsPaired'
    BY <1>1 DEF IInv, EntryIsPaired, Balance, Overtime
<1>5. Serial'
    BY <1>1 DEF IInv, Serial, Alone, Undecided, At, OneAdjusted
<1> QED
    BY <1>2, <1>3, <1>4, <1>5 DEF IInv

LEMMA NextKeeps == IInv /\ [Next]_vars => IInv'
<1> SUFFICES ASSUME IInv, [Next]_vars PROVE IInv'
    OBVIOUS
<1>1. CASE NewPunch
    BY <1>1, NewPunchKeeps
<1>2. CASE CreateAdjustment
    BY <1>2, CreateAdjustmentKeeps
<1>3. CASE CreateExcusal
    BY <1>3, CreateExcusalKeeps
<1>4. CASE \E p \in DOMAIN punches : UpdatePunch(p)
    BY <1>4, UpdatePunchKeeps
<1>5. ASSUME NEW r \in Request, Manager(r) \/ Abort(r) PROVE IInv'
    <2>1. CASE ReviewBegin(r)
        BY <2>1, ReviewBeginKeeps
    <2>2. CASE Approve(r)
        BY <2>2, ApproveKeeps
    <2>3. CASE FinishReview(r)
        BY <2>3, FinishReviewKeeps
    <2>4. CASE Reject(r)
        BY <2>4, RejectKeeps
    <2>5. CASE RecalculateBegin(r)
        BY <2>5, RecalculateBeginKeeps
    <2>6. CASE RecalculateRead(r)
        BY <2>6, RecalculateReadKeeps
    <2>7. CASE RecalculateCommit(r)
        BY <2>7, RecalculateCommitKeeps
    <2>8. CASE Abort(r)
        BY <2>8, AbortKeeps
    <2> QED
        BY <1>5, <2>1, <2>2, <2>3, <2>4, <2>5, <2>6, <2>7, <2>8 DEF Manager
<1>6. CASE UNCHANGED vars
    BY <1>6, StutterKeeps
<1> QED
    BY <1>1, <1>2, <1>3, <1>4, <1>5, <1>6 DEF Next, Clock, Employee

\* The invariant holds in every reachable state, for any requests, punches,
\* schedule and settings of the tenant.
THEOREM InvariantHolds == Spec => []IInv
<1>1. Init => IInv
    BY InitOK
<1>2. IInv /\ [Next]_vars => IInv'
    BY NextKeeps
<1> QED
    BY <1>1, <1>2, PTL DEF Spec

\* Every variable keeps its type: a day is never credited more minutes than it
\* has, and an adjustment names punches that exist.
THEOREM TypeCorrect == Spec => []TypeOK
<1>1. IInv => TypeOK
    BY DEF IInv
<1> QED
    BY <1>1, InvariantHolds, PTL

\* An approved request for a forgotten punch has its punch, and names it unless its
\* review was interrupted between the two transactions.
THEOREM ApprovedHasPunchHolds == Spec => []ApprovedHasPunch
<1>1. IInv => ApprovedHasPunch
    BY DEF IInv
<1> QED
    BY <1>1, InvariantHolds, PTL

\* While requests do not overlap, at most one punch comes of a request, and only
\* by approval.
THEOREM ReviewedOnceHolds == Spec => []ReviewedOnce
<1>1. IInv => ReviewedOnce
    <2> SUFFICES ASSUME IInv, ~overlapped PROVE Cardinality(Adjusted) <= 1 /\ (Adjusted # {} => adjustment.status = "approved" /\ adjustment.punch = 0)
        BY DEF ReviewedOnce
    <2>1. Adjusted = AdjustedOf(punches)
        BY DEF Adjusted, AdjustedOf
    <2>2. \A p, q \in Adjusted : p = q
        BY <2>1 DEF IInv, Serial, OneAdjusted
    <2>3. CASE Adjusted = {}
        BY <2>3, FS_EmptySet
    <2>4. CASE Adjusted # {}
        <3>1. PICK p \in Adjusted : TRUE
            BY <2>4
        <3>2. Adjusted = {p}
            BY <2>2, <3>1
        <3>3. Cardinality({p}) = 1
            BY FS_Singleton
        <3>4. Cardinality(Adjusted) = 1
            BY <3>2, <3>3
        <3> QED
            BY <2>1, <3>4 DEF IInv, Serial
    <2> QED
        BY <2>3, <2>4
<1> QED
    BY <1>1, InvariantHolds, PTL

\* However recalculations, punches and reviews interleave, an entry that was
\* computed from the punches as they are says the minutes that the employee was at
\* work, and on a day that is no rest day gives no credit when overtime is paid in
\* cash.
THEOREM BalanceIsWorkedHolds == Spec => []BalanceIsWorked
<1>1. IInv => BalanceIsWorked
    <2> SUFFICES ASSUME IInv, entry.row, ~stale, NoTie(punches)
                 PROVE  /\ entry.worked = Worked
                        /\ ~RestDay => entry.balance = IF OvertimePaidInCash THEN Min({0, Worked - Expected}) ELSE Worked - Expected
        BY DEF BalanceIsWorked
    <2>1. PICK s \in ByTime(punches) : entry.worked = PairPunchesWorkedMinutes(s)
        BY DEF IInv, EntryIsPaired, Paired
    <2>2. entry.worked = Worked
        BY <2>1, PairingIsRight DEF IInv, TypeOK, Worked
    <2>3. entry.balance = Balance(Worked)
        BY <2>2 DEF IInv, EntryIsPaired
    <2>4. Worked \in Nat /\ Expected \in Nat
        BY <2>2, ExcusedAssumption, NumbersAssumption DEF IInv, TypeOK, Entry, Minutes
    <2>5. /\ Max({0, Worked - Expected}) = IF Worked - Expected < 0 THEN 0 ELSE Worked - Expected
          /\ Min({0, Worked - Expected}) = IF Worked - Expected < 0 THEN Worked - Expected ELSE 0
        BY <2>4, MaxWithZero, MinWithZero
    <2> HIDE DEF Worked
    <2>6. ~RestDay => entry.balance = IF OvertimePaidInCash THEN Min({0, Worked - Expected}) ELSE Worked - Expected
        BY <2>3, <2>4, <2>5 DEF Balance, Overtime
    <2> QED
        BY <2>2, <2>6
<1> QED
    BY <1>1, InvariantHolds, PTL

------------------------------------------------------------------------------
(***************************************************************************)
(* The schedule.  However requests interleave, the rows that a request has  *)
(* loaded with the mark of a day set by hand still have it, and one that it *)
(* is to insert is not there; while requests do not overlap, what a request *)
(* has loaded is what there is.                                            *)
(***************************************************************************)

Entries == [source : {"none", "manual", "generated"}, shift : Shift \cup {Off}]

Calendars == [Sch!Day -> Entries]

EditType ==
    [op : {"none", "set", "generate", "delete"}, first : Int, last : Int, shift : Shift \cup {Off},
     pattern : Pattern \cup {Sch!RotatingPattern(1, 0)}, seen : Calendars]

\* A request is about days of the calendar.
OnDays(e) ==
    /\ e.op = "none" => e = Sch!NoEdit
    /\ e.op = "set" => e.first \in Sch!Day
    /\ e.op = "generate" => e.first \in Sch!Day /\ e.last \in Sch!Day /\ e.pattern \in Pattern

\* A row has something to say, or is the one that is not there.
Blank(rows) == \A d \in Sch!Day : rows[d].source = "none" => rows[d] = Sch!NoRow

\* What was marked by hand stays marked, and a row that was there is there.
Stays(before, after) ==
    \A d \in Sch!Day : /\ before[d].source = "manual" => after[d].source = "manual"
                       /\ before[d].source # "none" => after[d].source # "none"

\* What a request has loaded is there, and the marks of the days set by hand.
MarkSeen(e, rows) == Stays(e.seen, rows)

\* What a request has loaded is what there is; the shift it names is one of S.
UpToDate(e, rows, S) ==
    /\ e.op = "set" => e.seen[e.first] = rows[e.first] /\ e.shift \in S \cup {Off}
    /\ e.op = "generate" => e.shift \in S \cup {Off} /\ \A d \in e.first..e.last : e.seen[d] = rows[d]
    /\ e.op = "delete" => \A d \in Sch!Day : rows[d].shift # e.shift

PlanTypes ==
    /\ shifts \subseteq Shift /\ stray \subseteq Shift
    /\ entries \in Calendars
    /\ edit \in [Request -> EditType]
    /\ asked \in [Sch!Day -> SUBSET (Shift \cup {Off})]
    /\ generated \in EditType
    /\ crossed \in BOOLEAN

PlanSound ==
    /\ Blank(entries)
    /\ \A u \in Request : OnDays(edit[u]) /\ Blank(edit[u].seen) /\ MarkSeen(edit[u], entries)
    /\ generated = Sch!NoEdit \/ (generated.first \in Sch!Day /\ generated.last \in Sch!Day
                                  /\ generated.pattern \in Pattern)

OneRequest ==
    /\ \A u, v \in Request : edit[u] # Sch!NoEdit /\ edit[v] # Sch!NoEdit => u = v
    /\ \A u \in Request : UpToDate(edit[u], entries, shifts \cup stray)

Plans == PlanTypes /\ PlanSound /\ (~crossed => OneRequest) /\ Sch!ScheduleIsKept

LEMMA NoEditType == Sch!NoEdit \in EditType /\ Sch!NoEdit.op = "none" /\ OnDays(Sch!NoEdit) /\ Blank(Sch!NoEdit.seen)
                    /\ Sch!NoRow \in Entries /\ Sch!NoRow.source = "none" /\ Sch!NoRow.shift = Off
<1>1. Sch!NoRow \in Entries /\ Sch!NoRow.source = "none" /\ Sch!NoRow.shift = Off
    BY DEF Sch!NoRow, Entries
<1>2. Sch!NoRows \in Calendars /\ \A d \in Sch!Day : Sch!NoRows[d] = Sch!NoRow
    BY <1>1 DEF Sch!NoRows, Calendars
<1>3. Sch!NoEdit \in EditType /\ Sch!NoEdit.op = "none" /\ Sch!NoEdit.seen = Sch!NoRows
    BY <1>2 DEF Sch!NoEdit, EditType
<1> QED
    BY <1>1, <1>2, <1>3 DEF OnDays, Blank

LEMMA PlanInit == Sch!Init => Plans
<1> SUFFICES ASSUME Sch!Init PROVE Plans
    OBVIOUS
<1>1. /\ shifts = Shift /\ entries = Sch!NoRows /\ edit = [u \in Request |-> Sch!NoEdit]
      /\ asked = [d \in Sch!Day |-> {}] /\ generated = Sch!NoEdit /\ stray = {} /\ crossed = FALSE
    BY DEF Sch!Init
<1>2. Sch!NoRows \in Calendars /\ \A d \in Sch!Day : Sch!NoRows[d] = Sch!NoRow
    BY NoEditType DEF Sch!NoRows, Calendars
<1>3. PlanTypes
    BY <1>1, <1>2, NoEditType DEF PlanTypes
<1>4. \A u \in Request : edit[u] = Sch!NoEdit
    BY <1>1
<1>5. MarkSeen(Sch!NoEdit, entries)
    BY <1>1, <1>2 DEF MarkSeen, Stays, Sch!NoEdit
<1>6. PlanSound
    BY <1>1, <1>2, <1>4, <1>5, NoEditType DEF PlanSound, Blank
<1>7. OneRequest
    BY <1>4, NoEditType DEF OneRequest, UpToDate
<1>8. Sch!MarkedByHand /\ Sch!ManualStays /\ Sch!NoOrphan
    BY <1>1, <1>2, NoEditType DEF Sch!MarkedByHand, Sch!ManualStays, Sch!NoOrphan
<1>9. Sch!PatternKept
    <2>1. generated.first = 0 /\ generated.last = -1
        BY <1>1 DEF Sch!NoEdit
    <2>2. generated.first..generated.last = {}
        BY <2>1
    <2> QED
        BY <2>2 DEF Sch!PatternKept
<1> QED
    BY <1>3, <1>6, <1>7, <1>8, <1>9 DEF Plans, Sch!ScheduleIsKept

\* A request has begun: it has loaded rows as they are.
LEMMA EditBegun ==
    ASSUME Plans, NEW u \in Request, NEW e \in EditType, Sch!Begin(u, e),
           e.op # "none", OnDays(e), Blank(e.seen), MarkSeen(e, entries), UpToDate(e, entries, shifts \cup stray'),
           stray \subseteq stray', stray' \subseteq Shift, UNCHANGED <<shifts, entries, asked, generated>>
    PROVE  Plans'
<1>1. /\ edit[u] = Sch!NoEdit /\ edit' = [edit EXCEPT ![u] = e]
      /\ crossed' = (crossed \/ \E v \in Request : edit[v] # Sch!NoEdit)
    BY DEF Sch!Begin
<1>2. \A v \in Request : edit'[v] = IF v = u THEN e ELSE edit[v]
    BY <1>1 DEF Plans, PlanTypes
<1>3. PlanTypes'
    <2>1. edit' \in [Request -> EditType]
        BY <1>1 DEF Plans, PlanTypes
    <2>2. crossed' \in BOOLEAN
        BY <1>1 DEF Plans, PlanTypes
    <2> QED
        BY <2>1, <2>2 DEF Plans, PlanTypes, Calendars, Sch!Day
<1>4. PlanSound'
    BY <1>2 DEF Plans, PlanSound, Blank, MarkSeen, Stays, OnDays, Sch!Day, Sch!NoEdit, Sch!NoRow
<1>5. ~crossed' => ~crossed /\ \A v \in Request : edit[v] = Sch!NoEdit
    BY <1>1 DEF Plans, PlanTypes
<1>6. ASSUME ~crossed' PROVE OneRequest'
    BY <1>2, <1>5, <1>6, NoEditType DEF OneRequest, UpToDate
<1>7. Sch!ScheduleIsKept'
    BY <1>5 DEF Plans, Sch!ScheduleIsKept, Sch!MarkedByHand, Sch!ManualStays, Sch!NoOrphan, Sch!PatternKept
<1> QED
    BY <1>3, <1>4, <1>6, <1>7 DEF Plans

\* What a request loads is what there is.
LEMMA LoadedIs ==
    ASSUME Plans, NEW days \in SUBSET Sch!Day
    PROVE  /\ Sch!Loaded(days) \in Calendars /\ Blank(Sch!Loaded(days))
           /\ \A d \in days : Sch!Loaded(days)[d] = entries[d]
           /\ Stays(Sch!Loaded(days), entries)
<1>1. entries \in Calendars /\ Blank(entries)
    BY DEF Plans, PlanTypes, PlanSound
<1>2. \A d \in Sch!Day : Sch!Loaded(days)[d] = IF d \in days THEN entries[d] ELSE Sch!NoRow
    BY DEF Sch!Loaded
<1>3. Sch!Loaded(days) \in Calendars
    BY <1>1, <1>2, NoEditType DEF Sch!Loaded, Calendars
<1> QED
    BY <1>1, <1>2, <1>3, NoEditType DEF Blank, Stays

LEMMA EditOf ==
    ASSUME NEW op \in {"set", "generate", "delete"}, NEW first \in Int, NEW last \in Int, NEW s \in Shift \cup {Off},
           NEW p \in Pattern \cup {Sch!RotatingPattern(1, 0)}, NEW seen \in Calendars, NEW e,
           e = [op |-> op, first |-> first, last |-> last, shift |-> s, pattern |-> p, seen |-> seen]
    PROVE  e \in EditType /\ e.op = op /\ e.first = first /\ e.last = last /\ e.shift = s /\ e.pattern = p /\ e.seen = seen
    BY DEF EditType

LEMMA SetBeginKeeps == ASSUME Plans, NEW u \in Request, Sch!SetBegin(u) PROVE Plans'
<1>1. PICK d \in Sch!Day, s \in Shift \cup {Off} :
        Sch!Names(s) /\ Sch!Begin(u, [Sch!NoEdit EXCEPT !.op = "set", !.first = d, !.last = d, !.shift = s, !.seen = Sch!Loaded({d})])
    BY DEF Sch!SetBegin
<1>2. PICK e : e = [Sch!NoEdit EXCEPT !.op = "set", !.first = d, !.last = d, !.shift = s, !.seen = Sch!Loaded({d})]
    OBVIOUS
<1>3. e = [op |-> "set", first |-> d, last |-> d, shift |-> s, pattern |-> Sch!RotatingPattern(1, 0), seen |-> Sch!Loaded({d})]
    BY <1>2 DEF Sch!NoEdit
<1>4. d \in Int /\ {d} \in SUBSET Sch!Day
    BY PlanAssumption DEF PlanAssumption, Sch!Day
<1>5. /\ Sch!Loaded({d}) \in Calendars /\ Blank(Sch!Loaded({d})) /\ Sch!Loaded({d})[d] = entries[d]
      /\ Stays(Sch!Loaded({d}), entries)
    BY <1>4, LoadedIs
<1>6. e \in EditType /\ e.op = "set" /\ e.first = d /\ e.shift = s /\ e.seen = Sch!Loaded({d})
    BY <1>3, <1>4, <1>5, EditOf
<1>7. OnDays(e) /\ Blank(e.seen) /\ MarkSeen(e, entries) /\ UpToDate(e, entries, shifts \cup stray')
    BY <1>1, <1>5, <1>6 DEF OnDays, MarkSeen, UpToDate, Sch!Names
<1>8. /\ Sch!Begin(u, e) /\ UNCHANGED <<shifts, entries, asked, generated>>
      /\ stray \subseteq stray' /\ stray' \subseteq Shift
    BY <1>1, <1>2 DEF Sch!SetBegin, Sch!Names, Plans, PlanTypes
<1> QED
    BY <1>6, <1>7, <1>8, EditBegun

LEMMA GenerateBeginKeeps == ASSUME Plans, NEW u \in Request, Sch!GenerateBegin(u) PROVE Plans'
<1>1. PICK first \in Sch!Day, last \in Sch!Day, s \in Shift, p \in Pattern :
        Sch!Names(s) /\ Sch!Begin(u, [Sch!NoEdit EXCEPT !.op = "generate", !.first = first, !.last = last, !.shift = s,
                                        !.pattern = p, !.seen = Sch!Loaded(first..last)])
    BY DEF Sch!GenerateBegin
<1>2. PICK e : e = [Sch!NoEdit EXCEPT !.op = "generate", !.first = first, !.last = last, !.shift = s,
                                      !.pattern = p, !.seen = Sch!Loaded(first..last)]
    OBVIOUS
<1>3. e = [op |-> "generate", first |-> first, last |-> last, shift |-> s, pattern |-> p, seen |-> Sch!Loaded(first..last)]
    BY <1>2 DEF Sch!NoEdit
<1>4. first \in Int /\ last \in Int /\ first..last \in SUBSET Sch!Day /\ s \in Shift \cup {Off}
    BY PlanAssumption DEF PlanAssumption, Sch!Day
<1>5. /\ Sch!Loaded(first..last) \in Calendars /\ Blank(Sch!Loaded(first..last))
      /\ \A x \in first..last : Sch!Loaded(first..last)[x] = entries[x]
      /\ Stays(Sch!Loaded(first..last), entries)
    BY <1>4, LoadedIs
<1>6. e \in EditType /\ e.op = "generate" /\ e.first = first /\ e.last = last /\ e.shift = s /\ e.pattern = p /\ e.seen = Sch!Loaded(first..last)
    <2>1. "generate" \in {"set", "generate", "delete"} /\ p \in Pattern \cup {Sch!RotatingPattern(1, 0)}
        OBVIOUS
    <2>2. first \in Int /\ last \in Int /\ s \in Shift \cup {Off} /\ Sch!Loaded(first..last) \in Calendars
        BY <1>4, <1>5
    <2> QED
        BY <2>1, <2>2, <1>3, EditOf
<1>7. OnDays(e) /\ Blank(e.seen) /\ MarkSeen(e, entries) /\ UpToDate(e, entries, shifts \cup stray')
    <2>1. s \in shifts \cup stray' \cup {Off}
        BY <1>1 DEF Sch!Names
    <2>2. e.shift \in shifts \cup stray' \cup {Off} /\ \A x \in e.first..e.last : e.seen[x] = entries[x]
        BY <1>5, <1>6, <2>1
    <2>3. UpToDate(e, entries, shifts \cup stray')
        BY <1>6, <2>2 DEF UpToDate
    <2> QED
        BY <1>1, <1>5, <1>6, <2>3 DEF OnDays, MarkSeen
<1>8. /\ Sch!Begin(u, e) /\ UNCHANGED <<shifts, entries, asked, generated>>
      /\ stray \subseteq stray' /\ stray' \subseteq Shift
    BY <1>1, <1>2 DEF Sch!GenerateBegin, Sch!Names, Plans, PlanTypes
<1> QED
    BY <1>6, <1>7, <1>8, EditBegun

LEMMA DeleteBeginKeeps == ASSUME Plans, NEW u \in Request, Sch!DeleteBegin(u) PROVE Plans'
<1>1. PICK s \in shifts : Sch!Usage(s) = {} /\ Sch!Begin(u, [Sch!NoEdit EXCEPT !.op = "delete", !.shift = s])
    BY DEF Sch!DeleteBegin
<1>2. PICK e : e = [Sch!NoEdit EXCEPT !.op = "delete", !.shift = s]
    OBVIOUS
<1>3. e = [op |-> "delete", first |-> 0, last |-> -1, shift |-> s, pattern |-> Sch!RotatingPattern(1, 0), seen |-> Sch!NoRows]
    BY <1>2 DEF Sch!NoEdit
<1>4. s \in Shift \cup {Off}
    BY DEF Plans, PlanTypes
<1>5. Sch!NoRows \in Calendars /\ \A d \in Sch!Day : Sch!NoRows[d] = Sch!NoRow
    BY NoEditType DEF Sch!NoRows, Calendars
<1>6. e \in EditType /\ e.op = "delete" /\ e.shift = s /\ e.seen = Sch!NoRows
    BY <1>3, <1>4, <1>5, EditOf
<1>7. \A d \in Sch!Day : entries[d].shift # s
    BY <1>1 DEF Sch!Usage
<1>8. OnDays(e) /\ Blank(e.seen) /\ MarkSeen(e, entries) /\ UpToDate(e, entries, shifts \cup stray')
    BY <1>5, <1>6, <1>7, NoEditType DEF OnDays, MarkSeen, Stays, UpToDate, Blank
<1>9. /\ Sch!Begin(u, e) /\ UNCHANGED <<shifts, entries, asked, generated>>
      /\ stray' = stray /\ stray \subseteq Shift
    BY <1>1, <1>2 DEF Sch!DeleteBegin, Plans, PlanTypes
<1> QED
    BY <1>6, <1>8, <1>9, EditBegun

\* A request ends, and leaves rows that are marked as they were: what the others
\* have loaded is as true as before, and while requests do not overlap there is
\* no other.
LEMMA EditEnded ==
    ASSUME Plans, NEW u \in Request, edit[u] # Sch!NoEdit, Sch!Finish(u), crossed' = crossed,
           entries' \in Calendars, Blank(entries'),
           Stays(entries, entries'),
           shifts' \subseteq Shift, stray' = stray,
           asked' \in [Sch!Day -> SUBSET (Shift \cup {Off})],
           generated' \in EditType,
           generated' = Sch!NoEdit
             \/ (generated'.first \in Sch!Day /\ generated'.last \in Sch!Day /\ generated'.pattern \in Pattern)
    PROVE  PlanTypes' /\ PlanSound' /\ (~crossed' => OneRequest')
<1>1. \A v \in Request : edit'[v] = IF v = u THEN Sch!NoEdit ELSE edit[v]
    BY DEF Plans, PlanTypes, Sch!Finish
<1>2. PlanTypes'
    <2>1. edit' \in [Request -> EditType]
        BY NoEditType DEF Plans, PlanTypes, Sch!Finish
    <2>2. crossed' \in BOOLEAN
        BY DEF Plans, PlanTypes
    <2> QED
        BY <2>1, <2>2 DEF Plans, PlanTypes
<1>3. PlanSound'
    <2>1. ASSUME NEW v \in Request PROVE OnDays(edit'[v]) /\ Blank(edit'[v].seen) /\ MarkSeen(edit'[v], entries')
        <3>1. CASE v = u
            <4>1. edit'[v] = Sch!NoEdit
                BY <1>1, <3>1
            <4>2. \A d \in Sch!Day : Sch!NoEdit.seen[d].source = "none"
                BY DEF Sch!NoEdit, Sch!NoRows, Sch!NoRow
            <4> QED
                BY <4>1, <4>2, NoEditType DEF MarkSeen, Stays
        <3>2. CASE v # u
            <4>1. edit'[v] = edit[v]
                BY <1>1, <3>2
            <4> QED
                BY <4>1 DEF Plans, PlanSound, MarkSeen, Stays
        <3> QED
            BY <3>1, <3>2
    <2> QED
        BY <2>1 DEF PlanSound
<1>4. ASSUME ~crossed PROVE OneRequest'
    <2>1. ASSUME NEW v \in Request PROVE edit'[v] = Sch!NoEdit
        BY <1>1, <1>4 DEF Plans, OneRequest
    <2> QED
        BY <2>1, NoEditType DEF OneRequest, UpToDate
<1> QED
    BY <1>2, <1>3, <1>4

LEMMA PlanAbortKeeps == ASSUME Plans, NEW u \in Request, Sch!Abort(u) PROVE Plans'
<1>1. edit[u] # Sch!NoEdit /\ Sch!Finish(u) /\ UNCHANGED <<shifts, entries, asked, generated, stray, crossed>>
    BY DEF Sch!Abort
<1>2. PlanTypes' /\ PlanSound' /\ (~crossed' => OneRequest')
    BY <1>1, EditEnded DEF Plans, PlanTypes, PlanSound, Stays
<1>3. Sch!ScheduleIsKept'
    BY <1>1 DEF Plans, Sch!ScheduleIsKept, Sch!MarkedByHand, Sch!ManualStays, Sch!NoOrphan, Sch!PatternKept
<1> QED
    BY <1>2, <1>3 DEF Plans

LEMMA DeleteCommitKeeps == ASSUME Plans, NEW u \in Request, Sch!DeleteCommit(u) PROVE Plans'
<1>1. /\ edit[u].op = "delete" /\ shifts' = shifts \ {edit[u].shift} /\ Sch!Finish(u)
      /\ UNCHANGED <<entries, asked, generated, stray, crossed>>
    BY DEF Sch!DeleteCommit
<1>2. edit[u] # Sch!NoEdit
    BY <1>1, NoEditType
<1>3. PlanTypes' /\ PlanSound' /\ (~crossed' => OneRequest')
    BY <1>1, <1>2, EditEnded DEF Plans, PlanTypes, PlanSound, Stays
<1>4. Sch!MarkedByHand' /\ Sch!ManualStays' /\ Sch!PatternKept'
    BY <1>1 DEF Plans, Sch!ScheduleIsKept, Sch!MarkedByHand, Sch!ManualStays, Sch!PatternKept
<1>5. ASSUME ~crossed, NEW d \in Sch!Day PROVE entries[d].shift \in shifts' \cup {Off} \cup stray
    BY <1>1, <1>5 DEF Plans, OneRequest, UpToDate, Sch!ScheduleIsKept, Sch!NoOrphan
<1>6. Sch!NoOrphan'
    BY <1>1, <1>5 DEF Sch!NoOrphan
<1> QED
    BY <1>3, <1>4, <1>6 DEF Plans, Sch!ScheduleIsKept

\* What is written over a row: the mark of a day set by hand is neither taken
\* away nor given by a generation that has loaded a row; a row that is as it was
\* loaded becomes what is wanted.
LEMMA WrittenIs ==
    ASSUME NEW row \in Entries, NEW seen \in Entries, NEW wanted \in Entries, NEW new, new = Sch!Written(row, seen, wanted)
    PROVE  /\ new \in Entries
           /\ new.source = IF wanted.source = seen.source THEN row.source ELSE wanted.source
           /\ row = seen => new = wanted
<1>1. DOMAIN row = {"source", "shift"}
    BY DEF Entries
<1>2. new = [c \in {"source", "shift"} |-> IF wanted[c] = seen[c] THEN row[c] ELSE wanted[c]]
    BY <1>1 DEF Sch!Written
<1>3. /\ new.source = IF wanted.source = seen.source THEN row.source ELSE wanted.source
      /\ new.shift = IF wanted.shift = seen.shift THEN row.shift ELSE wanted.shift
    BY <1>2
<1>4. new = [source |-> new.source, shift |-> new.shift]
    BY <1>2
<1>5. new \in Entries
    BY <1>3, <1>4 DEF Entries
<1>6. ASSUME row = seen PROVE new = wanted
    <2>1. new.source = wanted.source /\ new.shift = wanted.shift
        BY <1>3, <1>6
    <2>2. wanted = [source |-> wanted.source, shift |-> wanted.shift]
        BY DEF Entries
    <2> QED
        BY <1>4, <2>1, <2>2
<1> QED
    BY <1>3, <1>5, <1>6

LEMMA SetCommitKeeps == ASSUME Plans, NEW u \in Request, Sch!SetCommit(u) PROVE Plans'
<1>1. PICK e : e = edit[u]
    OBVIOUS
<1>2. PICK d : d = e.first
    OBVIOUS
<1>3. PICK wanted : wanted = [source |-> "manual", shift |-> e.shift]
    OBVIOUS
<1>4. /\ e.op = "set" /\ Sch!Inserts(e.seen, {d})
      /\ entries' = [entries EXCEPT ![d] = Sch!Written(@, e.seen[d], wanted)]
      /\ asked' = [asked EXCEPT ![d] = {e.shift}]
      /\ Sch!Finish(u) /\ UNCHANGED <<shifts, generated, stray, crossed>>
    BY <1>1, <1>2, <1>3 DEF Sch!SetCommit
<1>5. e \in EditType /\ OnDays(e) /\ Blank(e.seen) /\ MarkSeen(e, entries) /\ e # Sch!NoEdit /\ edit[u] # Sch!NoEdit
    BY <1>1, <1>4, NoEditType DEF Plans, PlanTypes, PlanSound
<1>6. d \in Sch!Day /\ e.shift \in Shift \cup {Off} /\ e.seen[d] \in Entries /\ entries[d] \in Entries
    BY <1>2, <1>4, <1>5 DEF OnDays, EditType, Calendars, Plans, PlanTypes
<1>7. PICK new : new = Sch!Written(entries[d], e.seen[d], wanted)
    OBVIOUS
<1>8. wanted \in Entries /\ wanted.source = "manual" /\ wanted.shift = e.shift
    BY <1>3, <1>6 DEF Entries
<1>9. /\ new \in Entries
      /\ new.source = IF "manual" = e.seen[d].source THEN entries[d].source ELSE "manual"
      /\ entries[d] = e.seen[d] => new = wanted
    BY <1>6, <1>7, <1>8, WrittenIs
<1>10. new.source = "manual"
    BY <1>5, <1>6, <1>9 DEF MarkSeen, Stays
<1>11. entries \in Calendars /\ \A x \in Sch!Day : entries'[x] = IF x = d THEN new ELSE entries[x]
    BY <1>4, <1>7 DEF Plans, PlanTypes, Calendars
<1>12. entries' \in Calendars
    BY <1>4, <1>6, <1>7, <1>9, <1>11 DEF Calendars
<1>13. Blank(entries') /\ Stays(entries, entries')
    BY <1>10, <1>11 DEF Blank, Stays, Plans, PlanSound
<1>14. asked' \in [Sch!Day -> SUBSET (Shift \cup {Off})]
    BY <1>4, <1>6 DEF Plans, PlanTypes
<1>15. PlanTypes' /\ PlanSound' /\ (~crossed' => OneRequest')
    BY <1>4, <1>5, <1>12, <1>13, <1>14, EditEnded DEF Plans, PlanTypes, PlanSound
<1>16. \A x \in Sch!Day : asked'[x] = IF x = d THEN {e.shift} ELSE asked[x]
    BY <1>4 DEF Plans, PlanTypes
<1>17. Sch!MarkedByHand'
    BY <1>10, <1>11, <1>16 DEF Plans, Sch!ScheduleIsKept, Sch!MarkedByHand, Sch!Day
<1>18. ASSUME ~crossed PROVE new = wanted /\ e.shift \in shifts \cup {Off} \cup stray
    BY <1>1, <1>2, <1>4, <1>9, <1>18 DEF Plans, OneRequest, UpToDate
<1>19. Sch!ManualStays'
    BY <1>4, <1>8, <1>11, <1>16, <1>18 DEF Plans, Sch!ScheduleIsKept, Sch!ManualStays, Sch!Day
<1>20. Sch!NoOrphan'
    BY <1>4, <1>8, <1>11, <1>18 DEF Plans, Sch!ScheduleIsKept, Sch!NoOrphan, Sch!Day
<1>21. Sch!PatternKept'
    <2> SUFFICES ASSUME ~crossed, NEW x \in generated.first..generated.last
                 PROVE  entries'[x].source = "manual" \/ entries'[x] = entries[x]
        BY <1>4 DEF Plans, Sch!ScheduleIsKept, Sch!PatternKept, Sch!Works
    <2>1. (generated.first = 0 /\ generated.last = -1) \/ (generated.first \in Sch!Day /\ generated.last \in Sch!Day)
        BY DEF Plans, PlanSound, Sch!NoEdit
    <2>2. x \in Sch!Day
        BY <2>1, PlanAssumption DEF PlanAssumption, Sch!Day
    <2> QED
        BY <1>10, <1>11, <2>2
<1> QED
    BY <1>15, <1>17, <1>19, <1>20, <1>21 DEF Plans, Sch!ScheduleIsKept

(***************************************************************************)
(* Days of work.                                                           *)
(***************************************************************************)

\* A day of a period is worked, as it is generated, exactly when the pattern, laid
\* out from the first day, has a day of work there.
LEMMA WorksIs ==
    ASSUME NEW e, e.pattern \in Pattern, e.first \in Sch!Day, e.last \in Sch!Day, NEW d \in e.first..e.last
    PROVE  Sch!IsWorkingDay(e.pattern, e.first, d) <=> Sch!Works(e, d)
<1>1. /\ e.pattern \in [weekly : BOOLEAN, weekdays : SUBSET Int, work : Nat, off : Nat]
      /\ e.pattern.weekly \/ e.pattern.work + e.pattern.off # 0
      /\ PlannedDay \in Nat /\ Week \in Nat \ {0}
    BY PlanAssumption DEF PlanAssumption
<1>2. e.first \in Nat /\ d \in 0..PlannedDay /\ d - e.first \in Nat /\ d - e.first <= PlannedDay
    BY <1>1 DEF Sch!Day
<1>3. CASE e.pattern.weekly
    <2>1. PICK W : W = e.pattern.weekdays
        OBVIOUS
    <2>2. Sch!Works(e, d) <=> \E n \in 0..PlannedDay, w \in W \cap 0..(Week - 1) : d = n * Week + w
        BY <1>3, <2>1 DEF Sch!Works
    <2>3. Sch!IsWorkingDay(e.pattern, e.first, d) <=> d % Week \in W
        BY <1>3, <2>1 DEF Sch!IsWorkingDay
    <2>4. d \div Week \in 0..d /\ d % Week \in 0..(Week - 1) /\ d = Week * (d \div Week) + (d % Week)
        <3>1. d \in Nat
            BY <1>1, <1>2
        <3> QED
            BY <1>1, <3>1, Divided
    <2>5. d = (d \div Week) * Week + (d % Week) /\ d \div Week \in 0..PlannedDay
        BY <1>1, <1>2, <2>4
    <2>6. ASSUME NEW n \in 0..PlannedDay, NEW w \in W \cap 0..(Week - 1), d = n * Week + w PROVE d % Week = w
        BY <1>1, <2>6, Rebuilt
    <2> QED
        BY <2>2, <2>3, <2>4, <2>5, <2>6
<1>4. CASE ~e.pattern.weekly
    <2>1. PICK m \in Nat \ {0} : m = e.pattern.work + e.pattern.off /\ e.pattern.work <= m
        BY <1>1, <1>4
    <2>2. PICK k \in Nat : k = d - e.first
        BY <1>2
    <2>3. Sch!IsWorkingDay(e.pattern, e.first, d) <=> k % m < e.pattern.work
        BY <1>4, <2>1, <2>2 DEF Sch!IsWorkingDay
    <2>4. Sch!Works(e, d) <=> \E n \in 0..PlannedDay, j \in 1..e.pattern.work : d = e.first + n * m + j - 1
        BY <1>4, <2>1 DEF Sch!Works
    <2>5. k \div m \in 0..k /\ k % m \in 0..(m - 1) /\ k = m * (k \div m) + (k % m)
        BY Divided
    <2>6. PICK q \in 0..PlannedDay, r \in 0..(m - 1) : q = k \div m /\ r = k % m /\ k = q * m + r
        <3>1. k \div m \in 0..PlannedDay
            BY <1>1, <1>2, <2>2, <2>5
        <3>2. k = (k \div m) * m + (k % m)
            BY <2>5
        <3> QED
            BY <2>5, <3>1, <3>2
    <2>7. ASSUME r < e.pattern.work PROVE \E n \in 0..PlannedDay, j \in 1..e.pattern.work : d = e.first + n * m + j - 1
        <3>1. r + 1 \in 1..e.pattern.work /\ d = e.first + q * m + (r + 1) - 1
            <4>1. PICK t \in Int : t = q * m
                BY <1>1
            <4>2. k = t + r /\ d \in Int /\ e.first \in Int /\ e.pattern.work \in Nat
                BY <1>1, <1>2, <2>6, <4>1
            <4>3. r + 1 \in 1..e.pattern.work /\ d = e.first + t + (r + 1) - 1
                BY <2>2, <2>7, <4>2
            <4> QED
                BY <4>1, <4>3
        <3> QED
            BY <3>1
    <2>8. ASSUME NEW n \in 0..PlannedDay, NEW j \in 1..e.pattern.work, d = e.first + n * m + j - 1
          PROVE  r < e.pattern.work
        <3>1. PICK i \in 0..(m - 1) : i = j - 1 /\ i < e.pattern.work
            BY <1>1, <2>1
        <3>2. k = n * m + i
            BY <1>2, <2>2, <2>8, <3>1
        <3>3. k % m = i
            <4>1. n \in Nat
                BY <1>1
            <4> QED
                BY <3>1, <3>2, <4>1, Rebuilt
        <3> QED
            BY <2>6, <3>1, <3>3
    <2> QED
        BY <2>3, <2>4, <2>6, <2>7, <2>8
<1> QED
    BY <1>1, <1>3, <1>4

LEMMA GenerateCommitKeeps == ASSUME Plans, NEW u \in Request, Sch!GenerateCommit(u) PROVE Plans'
<1>1. PICK e : e = edit[u]
    OBVIOUS
<1>2. PICK days : days = Sch!Affected(e)
    OBVIOUS
<1>3. /\ e.op = "generate" /\ Sch!Inserts(e.seen, days)
      /\ entries' = [d \in Sch!Day |-> IF d \in days THEN Sch!Written(entries[d], e.seen[d], Sch!Generated(e, d)) ELSE entries[d]]
      /\ generated' = [e EXCEPT !.seen = Sch!NoRows]
      /\ Sch!Finish(u) /\ UNCHANGED <<shifts, asked, stray, crossed>>
    BY <1>1, <1>2 DEF Sch!GenerateCommit
<1>4. /\ e \in EditType /\ OnDays(e) /\ Blank(e.seen) /\ MarkSeen(e, entries) /\ e # Sch!NoEdit /\ edit[u] # Sch!NoEdit
      /\ entries \in Calendars /\ e.seen \in Calendars /\ Blank(entries)
    BY <1>1, <1>3, NoEditType DEF Plans, PlanTypes, PlanSound, EditType
<1>5. e.first \in Sch!Day /\ e.last \in Sch!Day /\ e.first..e.last \subseteq Sch!Day
    BY <1>3, <1>4, PlanAssumption DEF OnDays, PlanAssumption, Sch!Day
<1>6. \A d \in Sch!Day : d \in days <=> d \in e.first..e.last /\ e.seen[d].source # "manual"
    BY <1>2, <1>5 DEF Sch!Affected
<1>7. ASSUME NEW d \in days
      PROVE  /\ d \in Sch!Day /\ d \in e.first..e.last /\ entries'[d] \in Entries /\ entries'[d].source # "none"
             /\ entries[d].source = "manual" => entries'[d].source = "manual"
             /\ entries[d] = e.seen[d] => entries'[d] = Sch!Generated(e, d)
    <2>1. d \in Sch!Day /\ d \in e.first..e.last /\ e.seen[d].source # "manual"
        BY <1>2, <1>5 DEF Sch!Affected
    <2>2. entries[d] \in Entries /\ e.seen[d] \in Entries /\ Sch!Generated(e, d) \in Entries /\ Sch!Generated(e, d).source = "generated"
        BY <1>4, <2>1 DEF Calendars, Sch!Generated, Entries, EditType
    <2>3. entries'[d] = Sch!Written(entries[d], e.seen[d], Sch!Generated(e, d))
        BY <1>3, <2>1
    <2>4. /\ entries'[d] \in Entries
          /\ entries'[d].source = IF "generated" = e.seen[d].source THEN entries[d].source ELSE "generated"
          /\ entries[d] = e.seen[d] => entries'[d] = Sch!Generated(e, d)
        BY <2>2, <2>3, WrittenIs
    <2> QED
        BY <1>4, <1>3, <2>1, <2>2, <2>4, NoEditType DEF Entries, Blank, Sch!Inserts, MarkSeen, Stays
<1>8. \A d \in Sch!Day \ days : entries'[d] = entries[d]
    BY <1>3
<1>9. entries' \in Calendars
    BY <1>3, <1>4, <1>7, <1>8 DEF Calendars
<1>10. Blank(entries') /\ Stays(entries, entries')
    BY <1>4, <1>7, <1>8 DEF Blank, Stays
<1>11. /\ generated' \in EditType
       /\ generated'.first = e.first /\ generated'.last = e.last /\ generated'.pattern = e.pattern /\ generated'.shift = e.shift
    <2>1. Sch!NoRows \in Calendars
        BY NoEditType DEF Sch!NoRows, Calendars
    <2> QED
        BY <1>3, <1>4, <2>1 DEF EditType
<1>12. e.pattern \in Pattern
    BY <1>1, <1>3 DEF Plans, PlanSound, OnDays
<1>13. PlanTypes' /\ PlanSound' /\ (~crossed' => OneRequest')
    BY <1>3, <1>4, <1>5, <1>9, <1>10, <1>11, <1>12, EditEnded DEF Plans, PlanTypes
<1>14. Sch!MarkedByHand'
    BY <1>3, <1>10 DEF Plans, Sch!ScheduleIsKept, Sch!MarkedByHand, Stays, Sch!Day
<1>15. ASSUME ~crossed, NEW d \in days PROVE entries'[d] = Sch!Generated(e, d) /\ e.shift \in shifts \cup {Off} \cup stray /\ entries[d].source # "manual"
    <2>1. entries[d] = e.seen[d] /\ e.shift \in shifts \cup {Off} \cup stray
        BY <1>1, <1>3, <1>7, <1>15 DEF Plans, OneRequest, UpToDate
    <2> QED
        BY <1>6, <1>7, <2>1
<1>16. Sch!ManualStays'
    <2> SUFFICES ASSUME ~crossed, NEW d \in Sch!Day PROVE asked[d] \subseteq {entries'[d].shift}
        BY <1>3 DEF Sch!ManualStays, Sch!Day
    <2>1. CASE d \in days
        BY <1>15, <2>1 DEF Plans, Sch!ScheduleIsKept, Sch!MarkedByHand
    <2>2. CASE d \notin days
        BY <1>8, <2>2 DEF Plans, Sch!ScheduleIsKept, Sch!ManualStays
    <2> QED
        BY <2>1, <2>2
<1>17. Sch!NoOrphan'
    <2> SUFFICES ASSUME ~crossed, NEW d \in Sch!Day PROVE entries'[d].shift \in shifts \cup {Off} \cup stray
        BY <1>3 DEF Sch!NoOrphan, Sch!Day
    <2>1. CASE d \in days
        <3>1. Sch!Generated(e, d).shift = e.shift \/ Sch!Generated(e, d).shift = Off
            BY DEF Sch!Generated
        <3> QED
            BY <1>15, <2>1, <3>1
    <2>2. CASE d \notin days
        BY <1>8, <2>2 DEF Plans, Sch!ScheduleIsKept, Sch!NoOrphan
    <2> QED
        BY <2>1, <2>2
<1>18. Sch!PatternKept'
    <2> SUFFICES ASSUME ~crossed, NEW d \in e.first..e.last
                 PROVE  \/ entries'[d].source = "manual"
                        \/ entries'[d] = [source |-> "generated", shift |-> IF Sch!Works(generated', d) THEN e.shift ELSE Off]
        BY <1>3, <1>11 DEF Sch!PatternKept, Sch!Works
    <2>1. CASE d \in days
        <3>1. Sch!IsWorkingDay(e.pattern, e.first, d) <=> Sch!Works(e, d)
            BY <1>5, <1>12, WorksIs
        <3>2. Sch!Works(e, d) <=> Sch!Works(generated', d)
            BY <1>11 DEF Sch!Works
        <3> QED
            BY <1>15, <2>1, <3>1, <3>2 DEF Sch!Generated
    <2>2. CASE d \notin days
        <3>1. d \in Sch!Day /\ e.seen[d].source = "manual"
            BY <1>5, <1>6, <2>2
        <3> QED
            BY <1>4, <1>8, <2>2, <3>1 DEF MarkSeen, Stays
    <2> QED
        BY <2>1, <2>2
<1> QED
    BY <1>13, <1>14, <1>16, <1>17, <1>18 DEF Plans, Sch!ScheduleIsKept

LEMMA PlanStepKeeps == Plans /\ [Sch!Next]_plan => Plans'
<1> SUFFICES ASSUME Plans, [Sch!Next]_plan PROVE Plans'
    OBVIOUS
<1>1. ASSUME NEW u \in Request, Sch!SetBegin(u) \/ Sch!SetCommit(u) \/ Sch!GenerateBegin(u) \/ Sch!GenerateCommit(u)
                                 \/ Sch!DeleteBegin(u) \/ Sch!DeleteCommit(u) \/ Sch!Abort(u)
      PROVE  Plans'
    BY <1>1, SetBeginKeeps, SetCommitKeeps, GenerateBeginKeeps, GenerateCommitKeeps, DeleteBeginKeeps, DeleteCommitKeeps,
       PlanAbortKeeps
<1>2. CASE UNCHANGED plan
    BY <1>2 DEF plan, Plans, PlanTypes, PlanSound, OneRequest, Sch!ScheduleIsKept, Sch!MarkedByHand, Sch!ManualStays,
                Sch!NoOrphan, Sch!PatternKept
<1> QED
    BY <1>1, <1>2 DEF Sch!Next

\* The schedule keeps what was planned by hand and by pattern, for any requests,
\* shifts, calendar and patterns.
THEOREM ScheduleIsKeptHolds == MCSpec => []ScheduleIsKept
<1>1. MCInit => Plans
    BY PlanInit DEF MCInit
<1>2. Plans /\ [MCNext]_<<area, vars, plan, judged, sla, mirror>> => Plans'
    BY PlanStepKeeps DEF MCNext
<1>3. Plans => ScheduleIsKept
    BY DEF Plans, ScheduleIsKept
<1> QED
    BY <1>1, <1>2, <1>3, PTL DEF MCSpec

------------------------------------------------------------------------------
(***************************************************************************)
(* The status of a punch.  Once it is given it is what the shift says that  *)
(* the punch is judged by; within a scheduled shift, and right after it,   *)
(* that is the shift it lies in, counted from when it began.               *)
(***************************************************************************)

Verdict ==
    CASE Pst!ScheduleForPunch.why = "scheduled"        -> Pst!EvaluateStatus(Pst!ScheduleForPunch)
      [] Pst!ScheduleForPunch.why = "day_off" -> "day_off"
      [] OTHER                                -> "unscheduled"

Judgement ==
    /\ Pst!TypeOK
    /\ \A d \in 0..1 : schedule[d].why = "scheduled" => schedule[d].start # schedule[d].end
    /\ status # "none" => status = Verdict

LEMMA EntryType ==
    ASSUME NEW s \in Pst!Entry
    PROVE  /\ s.start \in 0..(Slots - 1) /\ s.end \in 0..(Slots - 1) /\ s.tolerance \in Nat
           /\ s.why \in {"scheduled", "unscheduled", "day_off", "deleted"}
<1>1. Slots \in Nat \ {0} /\ MaxTolerance \in Nat
    BY StatusAssumption DEF StatusAssumption
<1> QED
    BY <1>1 DEF Pst!Entry, Pst!Slot

LEMMA ScheduleType ==
    ASSUME Judgement
    PROVE  /\ schedule[0] \in Pst!Entry /\ schedule[1] \in Pst!Entry
           /\ punch.at \in 0..(Slots - 1) /\ punch.type \in {"in", "out", "none"} /\ Slots \in Nat \ {0}
           /\ schedule[0].why = "scheduled" => schedule[0].start # schedule[0].end
           /\ schedule[1].why = "scheduled" => schedule[1].start # schedule[1].end
    BY StatusAssumption DEF StatusAssumption, Judgement, Pst!TypeOK, Pst!Slot

LEMMA JudgementInit ==
    ASSUME Pst!Init \/ (schedule = [d \in 0..1 |-> Unscheduled] /\ punch = [at |-> 0, type |-> "in"] /\ status = "none")
    PROVE  Judgement
<1>1. Slots \in Nat \ {0} /\ MaxTolerance \in Nat
    BY StatusAssumption DEF StatusAssumption
<1>2. CASE Pst!Init
    BY <1>2 DEF Pst!Init, Judgement, Pst!TypeOK
<1>3. CASE schedule = [d \in 0..1 |-> Unscheduled] /\ punch = [at |-> 0, type |-> "in"] /\ status = "none"
    <2>1. Unscheduled \in Pst!Entry /\ Unscheduled.why # "scheduled"
        BY <1>1 DEF Unscheduled, Pst!Entry, Pst!Slot
    <2>2. 0 \in Pst!Slot
        BY <1>1 DEF Pst!Slot
    <2> QED
        BY <1>3, <2>1, <2>2 DEF Judgement, Pst!TypeOK
<1> QED
    BY <1>2, <1>3

LEMMA VerdictType == Verdict \in {"on_time", "late", "early_leave", "unscheduled", "day_off"}
    BY DEF Verdict, Pst!EvaluateStatus, Pst!Entering, Pst!Leaving

LEMMA JudgementKept == Judgement /\ [Pst!Next]_judged => Judgement'
<1> SUFFICES ASSUME Judgement, [Pst!Next]_judged PROVE Judgement'
    OBVIOUS
<1>1. CASE Pst!Next
    <2>1. status' = Verdict /\ schedule' = schedule /\ punch' = punch
        BY <1>1 DEF Pst!Next, Pst!ComputePunchStatus, Verdict
    <2>2. Verdict' = Verdict
        BY <2>1 DEF Verdict, Pst!ScheduleForPunch, Pst!FromTheNightBefore, Pst!Overnight, Pst!EvaluateStatus, Pst!Entering,
                    Pst!Leaving, Pst!Distance, Pst!PunchTime, Pst!StartTime, Pst!EndTime, Pst!StartDay
    <2> QED
        BY <2>1, <2>2, VerdictType DEF Judgement, Pst!TypeOK
<1>2. CASE UNCHANGED judged
    <2>1. status' = status /\ schedule' = schedule /\ punch' = punch
        BY <1>2 DEF judged
    <2>2. Verdict' = Verdict
        BY <2>1 DEF Verdict, Pst!ScheduleForPunch, Pst!FromTheNightBefore, Pst!Overnight, Pst!EvaluateStatus, Pst!Entering,
                    Pst!Leaving, Pst!Distance, Pst!PunchTime, Pst!StartTime, Pst!EndTime, Pst!StartDay
    <2> QED
        BY <2>1, <2>2 DEF Judgement, Pst!TypeOK
<1> QED
    BY <1>1, <1>2

\* When a shift begins and ends, as the punch is judged by it.
LEMMA TimesAre ==
    ASSUME NEW s \in Pst!Entry, Judgement
    PROVE  /\ Pst!PunchTime = Slots + punch.at
           /\ Pst!StartTime(s) = s.start + IF s.end < s.start /\ punch.at < s.start THEN 0 ELSE Slots
           /\ Pst!EndTime(s) = s.end + (IF s.end < s.start /\ punch.at < s.start THEN 0 ELSE Slots)
                                     + (IF s.end < s.start THEN Slots ELSE 0)
<1>1. Slots \in Nat /\ s.start \in Int /\ s.end \in Int
    BY EntryType, ScheduleType
<1>2. Slots * 0 = 0 /\ Slots * 1 = Slots /\ Slots * (0 + 1) = Slots /\ Slots * (1 + 1) = Slots + Slots /\ Slots * (1 + 0) = Slots
      /\ Slots * (0 + 0) = 0
    BY <1>1
<1>3. CASE s.end < s.start /\ punch.at < s.start
    <2>1. Pst!StartDay(s) = 0
        BY <1>3 DEF Pst!StartDay, Pst!Overnight
    <2> QED
        BY <1>1, <1>2, <1>3, <2>1 DEF Pst!PunchTime, Pst!StartTime, Pst!EndTime, Pst!Overnight
<1>4. CASE ~(s.end < s.start /\ punch.at < s.start)
    <2>1. Pst!StartDay(s) = 1
        BY <1>4 DEF Pst!StartDay, Pst!Overnight
    <2> QED
        BY <1>1, <1>2, <1>4, <2>1 DEF Pst!PunchTime, Pst!StartTime, Pst!EndTime, Pst!Overnight
<1> QED
    BY <1>3, <1>4

LEMMA IntervalsAre ==
    ASSUME Judgement
    PROVE  /\ Pst!Begins(0) = schedule[0].start /\ Pst!Begins(1) = Slots + schedule[1].start
           /\ Pst!Ends(0) = schedule[0].end + IF schedule[0].end < schedule[0].start THEN Slots ELSE 0
           /\ Pst!Ends(1) = schedule[1].end + Slots + IF schedule[1].end < schedule[1].start THEN Slots ELSE 0
<1>1. /\ Slots \in Nat /\ schedule[0].start \in Int /\ schedule[0].end \in Int
      /\ schedule[1].start \in Int /\ schedule[1].end \in Int
    BY EntryType, ScheduleType
<1>2. Slots * 0 = 0 /\ Slots * 1 = Slots
    BY <1>1
<1> QED
    BY <1>1, <1>2 DEF Pst!Begins, Pst!Ends, Pst!Overnight

\* The shift that a punch within it is judged by.
LEMMA ShiftOfPunch ==
    ASSUME Judgement, Pst!Plain, NEW d \in 0..1, schedule[d].why = "scheduled",
           Pst!Begins(d) <= Pst!PunchTime, Pst!PunchTime <= Pst!Ends(d)
    PROVE  /\ status = Pst!EvaluateStatus(schedule[d])
           /\ Pst!StartTime(schedule[d]) = Pst!Begins(d) /\ Pst!EndTime(schedule[d]) = Pst!Ends(d)
<1>1. PICK S, at, a, b : /\ S \in Nat \ {0} /\ at \in 0..(S - 1)
                             /\ S = Slots /\ at = punch.at /\ a = schedule[0] /\ b = schedule[1]
    BY ScheduleType
<1>2. /\ a.start \in 0..(S - 1) /\ a.end \in 0..(S - 1) /\ b.start \in 0..(S - 1) /\ b.end \in 0..(S - 1)
      /\ a.why = "scheduled" => a.start # a.end
      /\ b.why = "scheduled" => b.start # b.end
    BY <1>1, ScheduleType, EntryType
<1>3. status = Verdict
    BY DEF Judgement, Pst!Plain
<1>4. b.why \in {"unscheduled", "deleted"} \/ b = a \/ (b.why = "scheduled" /\ a.why # "scheduled")
    BY <1>1 DEF Pst!Plain
<1>5. CASE d = 0
    <2>1. a.why = "scheduled" /\ a.start <= S + at /\ S + at <= a.end + (IF a.end < a.start THEN S ELSE 0)
        BY <1>1, <1>5, IntervalsAre, TimesAre, ScheduleType
    <2>2. a.end < a.start /\ at < a.start
        BY <1>1, <1>2, <2>1
    <2>3. Pst!ScheduleForPunch = schedule[0]
        BY <1>1, <1>4, <2>1, <2>2 DEF Pst!ScheduleForPunch, Pst!FromTheNightBefore, Pst!Overnight
    <2>4. Pst!StartTime(schedule[0]) = Pst!Begins(0) /\ Pst!EndTime(schedule[0]) = Pst!Ends(0)
        <3>1. Pst!StartTime(schedule[0]) = a.start + 0 /\ Pst!EndTime(schedule[0]) = a.end + 0 + S
            BY <1>1, <2>2, TimesAre, ScheduleType
        <3>2. Pst!Begins(0) = a.start /\ Pst!Ends(0) = a.end + S
            BY <1>1, <2>2, IntervalsAre
        <3> QED
            BY <1>2, <3>1, <3>2
    <2> QED
        BY <1>1, <1>3, <1>5, <2>1, <2>3, <2>4 DEF Verdict
<1>6. CASE d = 1
    <2>1. b.why = "scheduled" /\ S + b.start <= S + at
        BY <1>1, <1>6, IntervalsAre, TimesAre, ScheduleType
    <2>2. ~(at < b.start)
        BY <1>1, <1>2, <2>1
    <2>3. Pst!ScheduleForPunch = schedule[1]
        BY <1>1, <2>1 DEF Pst!ScheduleForPunch
    <2>4. Pst!StartTime(schedule[1]) = Pst!Begins(1) /\ Pst!EndTime(schedule[1]) = Pst!Ends(1)
        <3>1. Pst!StartTime(schedule[1]) = b.start + S /\ Pst!EndTime(schedule[1]) = b.end + S + IF b.end < b.start THEN S ELSE 0
            BY <1>1, <2>2, TimesAre, ScheduleType
        <3>2. Pst!Begins(1) = S + b.start /\ Pst!Ends(1) = b.end + S + IF b.end < b.start THEN S ELSE 0
            BY <1>1, IntervalsAre
        <3> QED
            BY <1>1, <1>2, <3>1, <3>2
    <2> QED
        BY <1>1, <1>3, <1>6, <2>1, <2>3, <2>4 DEF Verdict
<1> QED
    BY <1>5, <1>6

LEMMA StatusJudged == Judgement => Pst!StatusIsRight
<1> SUFFICES ASSUME Judgement PROVE Pst!StatusIsRight
    OBVIOUS
<1>1. Pst!JudgedByItsShift
    <2> SUFFICES ASSUME Pst!Plain, NEW d \in 0..1, schedule[d].why = "scheduled",
                        Pst!Begins(d) <= Pst!PunchTime, Pst!PunchTime <= Pst!Ends(d)
                 PROVE  /\ status \in {"on_time", "late", "early_leave"}
                        /\ punch.type = "out" => (status = "early_leave" <=> Pst!PunchTime < Pst!Ends(d) - schedule[d].tolerance)
                        /\ punch.type = "in" => (status = "late" <=> Pst!PunchTime > Pst!Begins(d) + schedule[d].tolerance)
        BY DEF Pst!JudgedByItsShift, Pst!Worked
    <2>1. /\ status = Pst!EvaluateStatus(schedule[d])
          /\ Pst!StartTime(schedule[d]) = Pst!Begins(d) /\ Pst!EndTime(schedule[d]) = Pst!Ends(d)
        BY ShiftOfPunch
    <2> QED
        BY <2>1 DEF Pst!EvaluateStatus, Pst!Entering, Pst!Leaving
<1>2. Pst!LeftAfterTheEnd
    <2> SUFFICES ASSUME Pst!Plain, punch.type = "out", NEW d \in 0..1, schedule[d].why = "scheduled",
                        Slots <= Pst!Ends(d), Pst!Ends(d) <= Pst!PunchTime,
                        \A e \in Pst!Worked : Pst!Begins(e) > Pst!Begins(d) => Pst!PunchTime < Pst!Begins(e)
                 PROVE  status # "early_leave"
        BY DEF Pst!LeftAfterTheEnd, Pst!Worked
    <2>1. PICK S, at, a, b : /\ S \in Nat \ {0} /\ at \in 0..(S - 1)
                             /\ S = Slots /\ at = punch.at /\ a = schedule[0] /\ b = schedule[1]
        BY ScheduleType
    <2>2. /\ a.start \in 0..(S - 1) /\ a.end \in 0..(S - 1) /\ b.start \in 0..(S - 1) /\ b.end \in 0..(S - 1)
          /\ a.tolerance \in Nat /\ b.tolerance \in Nat
          /\ a.why = "scheduled" => a.start # a.end
          /\ b.why = "scheduled" => b.start # b.end
        BY <2>1, ScheduleType, EntryType
    <2>3. status = Verdict
        BY DEF Judgement, Pst!Plain
    <2>4. b.why \in {"unscheduled", "deleted"} \/ b = a \/ (b.why = "scheduled" /\ a.why # "scheduled")
        BY <2>1 DEF Pst!Plain
    <2>5. Pst!PunchTime = S + at
        BY <2>1, TimesAre, ScheduleType
    <2>6. CASE d = 0
        <3>1. a.why = "scheduled" /\ S <= a.end + (IF a.end < a.start THEN S ELSE 0) /\ a.end + (IF a.end < a.start THEN S ELSE 0) <= S + at
            BY <2>1, <2>5, <2>6, IntervalsAre
        <3>2. a.end < a.start /\ a.end <= at
            BY <2>1, <2>2, <3>1
        <3>3. CASE Pst!ScheduleForPunch.why = "scheduled"
            <4>1. at < a.start /\ Pst!ScheduleForPunch = schedule[0]
                <5>1. CASE b = a
                    <6>1. 1 \in Pst!Worked
                        BY 1 \in 0..1, <2>1, <3>1, <5>1 DEF Pst!Worked
                    <6>2. Pst!Begins(1) = S + b.start /\ Pst!Begins(0) = a.start
                        BY <2>1, IntervalsAre
                    <6>3. Pst!Begins(1) > Pst!Begins(d)
                        BY <2>1, <2>2, <2>6, <5>1, <6>2
                    <6>4. S + at < S + b.start
                        BY <2>5, <6>1, <6>2, <6>3
                    <6>5. Pst!ScheduleForPunch = schedule[0]
                        BY <2>1, <3>1, <5>1 DEF Pst!ScheduleForPunch
                    <6> QED
                        BY <2>1, <2>2, <5>1, <6>4, <6>5
                <5>2. CASE b # a
                    <6>1. b.why \in {"unscheduled", "deleted"}
                        BY <2>4, <3>1, <5>2
                    <6>2. Pst!FromTheNightBefore /\ Pst!ScheduleForPunch = schedule[0]
                        BY <2>1, <3>3, <6>1 DEF Pst!ScheduleForPunch
                    <6> QED
                        BY <2>1, <6>2 DEF Pst!FromTheNightBefore
                <5> QED
                    BY <5>1, <5>2
            <4>2. status = Pst!Leaving(schedule[0])
                BY <2>3, <3>3, <4>1 DEF Verdict, Pst!EvaluateStatus
            <4>3. Pst!EndTime(schedule[0]) = a.end + 0 + S
                BY <2>1, <3>2, <4>1, TimesAre, ScheduleType
            <4>4. ~(S + at < (a.end + 0 + S) - a.tolerance)
                BY <2>1, <2>2, <3>2
            <4>5. ~(Pst!PunchTime < Pst!EndTime(schedule[0]) - schedule[0].tolerance)
                BY <2>1, <2>5, <4>3, <4>4
            <4> QED
                BY <4>2, <4>5 DEF Pst!Leaving
        <3>4. CASE Pst!ScheduleForPunch.why # "scheduled"
            BY <2>3, <3>4 DEF Verdict
        <3> QED
            BY <3>3, <3>4
    <2>7. CASE d = 1
        <3>1. b.why = "scheduled" /\ b.end + S + (IF b.end < b.start THEN S ELSE 0) <= S + at
            BY <2>1, <2>5, <2>7, IntervalsAre
        <3>2. ~(b.end < b.start) /\ b.end <= at
            BY <2>1, <2>2, <3>1
        <3>3. Pst!ScheduleForPunch = schedule[1]
            BY <2>1, <3>1 DEF Pst!ScheduleForPunch
        <3>4. status = Pst!Leaving(schedule[1])
            BY <2>1, <2>3, <3>1, <3>3 DEF Verdict, Pst!EvaluateStatus
        <3>5. Pst!EndTime(schedule[1]) = b.end + S + 0
            BY <2>1, <3>2, TimesAre, ScheduleType
        <3>6. ~(S + at < (b.end + S + 0) - b.tolerance)
            BY <2>1, <2>2, <3>2
        <3>7. ~(Pst!PunchTime < Pst!EndTime(schedule[1]) - schedule[1].tolerance)
            BY <2>1, <2>5, <3>5, <3>6
        <3> QED
            BY <3>4, <3>7 DEF Pst!Leaving
    <2> QED
        BY <2>6, <2>7
<1>3. Pst!PresenceIsScheduled
    <2> SUFFICES ASSUME status \in {"on_time", "late", "early_leave"} PROVE \E d \in 0..1 : schedule[d].why = "scheduled"
        BY DEF Pst!PresenceIsScheduled, Pst!Worked
    <2>1. status = Verdict
        BY DEF Judgement
    <2>2. Pst!ScheduleForPunch.why = "scheduled"
        BY <2>1 DEF Verdict
    <2>3. Pst!ScheduleForPunch = schedule[0] \/ Pst!ScheduleForPunch = schedule[1]
        BY DEF Pst!ScheduleForPunch
    <2> QED
        BY <2>2, <2>3
<1> QED
    BY <1>1, <1>2, <1>3 DEF Pst!StatusIsRight

------------------------------------------------------------------------------
(***************************************************************************)
(* The deadline of an SLA.  Every moment is an hour of a day; from a moment *)
(* out of work to the next morning of work there is no working hour, and    *)
(* within a day of work every one is.                                      *)
(***************************************************************************)

Working(t) == Ddl!IsBusinessDay(Ddl!DayOf(t)) /\ WorkStart <= Ddl!HourOf(t) /\ Ddl!HourOf(t) < WorkEnd

LEMMA HoursAre == Hours \in Nat \ {0} /\ WorkStart \in Nat /\ WorkEnd \in Nat /\ WorkStart < WorkEnd /\ WorkEnd < Hours
                  /\ MaxHoliday \in Nat /\ MaxSla \in Nat
    BY SlaAssumption DEF SlaAssumption

\* A moment is an hour of a day, and of one only.
LEMMA MomentIs ==
    ASSUME NEW t \in Nat
    PROVE  Ddl!DayOf(t) \in Nat /\ Ddl!HourOf(t) \in 0..(Hours - 1) /\ t = Hours * Ddl!DayOf(t) + Ddl!HourOf(t)
<1>1. t \div Hours \in 0..t /\ t % Hours \in 0..(Hours - 1) /\ t = Hours * (t \div Hours) + (t % Hours)
    BY HoursAre, Divided
<1> QED
    BY <1>1 DEF Ddl!DayOf, Ddl!HourOf

LEMMA HourOfDay ==
    ASSUME NEW d \in Nat, NEW h \in 0..(Hours - 1)
    PROVE  /\ Hours * d + h \in Nat
           /\ Ddl!DayOf(Hours * d + h) = d /\ Ddl!HourOf(Hours * d + h) = h
<1>1. Hours * d = d * Hours /\ Hours * d \in Nat /\ h \in Nat
    BY HoursAre
<1>2. (d * Hours + h) % Hours = h /\ (d * Hours + h) \div Hours = d
    BY HoursAre, Rebuilt
<1> QED
    BY <1>1, <1>2 DEF Ddl!DayOf, Ddl!HourOf

\* An earlier day ends before a later one starts.
LEMMA DaysAreOrdered ==
    ASSUME NEW c \in Nat, NEW d \in Nat, c < d
    PROVE  Hours * c + Hours <= Hours * d /\ Hours * c \in Nat /\ Hours * d \in Nat
<1>1. PICK H \in Nat \ {0} : H = Hours
    BY HoursAre
<1>2. H * c + H <= H * d /\ H * c \in Nat /\ H * d \in Nat
    OBVIOUS
<1> QED
    BY <1>1, <1>2

LEMMA LaterDay ==
    ASSUME NEW s \in Nat, NEW t \in Nat, s <= t
    PROVE  /\ Ddl!DayOf(s) <= Ddl!DayOf(t)
           /\ Ddl!DayOf(s) = Ddl!DayOf(t) => Ddl!HourOf(s) <= Ddl!HourOf(t)
<1>1. PICK c, d, g, h : /\ c = Ddl!DayOf(s) /\ d = Ddl!DayOf(t) /\ g = Ddl!HourOf(s) /\ h = Ddl!HourOf(t)
                        /\ c \in Nat /\ d \in Nat /\ g \in 0..(Hours - 1) /\ h \in 0..(Hours - 1)
                        /\ s = Hours * c + g /\ t = Hours * d + h
    BY MomentIs
<1>2. ASSUME d < c PROVE FALSE
    <2>1. Hours * d + Hours <= Hours * c /\ Hours * c \in Nat /\ Hours * d \in Nat
        BY <1>1, <1>2, DaysAreOrdered
    <2>2. PICK x, y : x = Hours * c /\ y = Hours * d
        OBVIOUS
    <2> QED
        BY <1>1, <2>1, <2>2, HoursAre
<1>3. ASSUME c = d PROVE g <= h
    <2>1. Hours * c \in Int
        BY <1>1, HoursAre
    <2>2. PICK x : x = Hours * c
        OBVIOUS
    <2> QED
        BY <1>1, <1>3, <2>1, <2>2, HoursAre
<1> QED
    BY <1>1, <1>2, <1>3

\* Three days after each other, and not all of a weekend.
LEMMA WeekdayComes ==
    ASSUME NEW n \in Nat
    PROVE  \E d \in n..(n + 2) : d % 7 < 5
<1>1. n % 7 < 5 \/ (n + 1) % 7 < 5 \/ (n + 2) % 7 < 5
    OBVIOUS
<1> QED
    BY <1>1

\* The next business day.
MorningOf(t, d) ==
    /\ d \in (Ddl!DayOf(t) + 1)..(Ddl!DayOf(t) + MaxHoliday + 4)
    /\ Ddl!IsBusinessDay(d)
    /\ \A e \in (Ddl!DayOf(t) + 1)..(d - 1) : ~Ddl!IsBusinessDay(e)

LEMMA MorningIs ==
    ASSUME NEW t \in Nat, holidays \subseteq 0..MaxHoliday
    PROVE  \E d \in Nat : MorningOf(t, d) /\ Ddl!NextBusinessMorning(t) = Hours * d + WorkStart
<1>1. PICK D \in Nat : D = Ddl!DayOf(t)
    BY MomentIs
<1>2. PICK M \in Nat : M = MaxHoliday
    BY HoursAre
<1> DEFINE S == {d \in (D + 1)..(D + M + 4) : Ddl!IsBusinessDay(d)}
<1>3. \E d : d \in S
    <2>1. PICK n \in Nat : n = IF D > M THEN D + 1 ELSE M + 1
        OBVIOUS
    <2>2. PICK d \in n..(n + 2) : d % 7 < 5
        BY WeekdayComes
    <2>3. d \in (D + 1)..(D + M + 4) /\ d > M
        BY <2>1, <2>2
    <2>4. d \notin holidays
        BY <1>2, <2>3
    <2> QED
        BY <2>2, <2>3, <2>4 DEF Ddl!IsBusinessDay
<1>4. S \in SUBSET Nat
    OBVIOUS
<1>5. PICK m \in S : \A k \in S : m <= k
    BY <1>3, <1>4, LeastIsThere
<1>6. m \in Nat /\ MorningOf(t, m)
    <2>1. m \in (D + 1)..(D + M + 4) /\ Ddl!IsBusinessDay(m)
        BY <1>5
    <2>2. ASSUME NEW e \in (D + 1)..(m - 1), Ddl!IsBusinessDay(e) PROVE FALSE
        <3>1. e \in (D + 1)..(D + M + 4) /\ e < m
            BY <2>1
        <3>2. e \in S
            BY <2>2, <3>1
        <3>3. m <= e
            BY <1>5, <3>2
        <3> QED
            BY <2>1, <3>1, <3>3
    <2> QED
        BY <1>1, <1>2, <2>1, <2>2 DEF MorningOf
<1> HIDE DEF S
<1> DEFINE c == CHOOSE d \in (Ddl!DayOf(t) + 1)..(Ddl!DayOf(t) + MaxHoliday + 4) :
                    /\ Ddl!IsBusinessDay(d)
                    /\ \A e \in (Ddl!DayOf(t) + 1)..(d - 1) : ~Ddl!IsBusinessDay(e)
<1>7. MorningOf(t, c)
    BY <1>6 DEF MorningOf
<1>8. Ddl!NextBusinessMorning(t) = Hours * c + WorkStart
    BY DEF Ddl!NextBusinessMorning
<1> HIDE DEF c
<1>9. c \in Nat
    BY <1>1, <1>2, <1>7 DEF MorningOf
<1> QED
    BY <1>7, <1>8, <1>9

\* It is later, and the start of a day of work; and until then, from a moment at
\* which a day of work has ended or on which there is none, nobody works.
LEMMA NobodyWorks ==
    ASSUME NEW t \in Nat, holidays \subseteq 0..MaxHoliday, NEW m, m = Ddl!NextBusinessMorning(t)
    PROVE  /\ m \in Nat /\ t < m /\ Ddl!HourOf(m) = WorkStart /\ Ddl!IsBusinessDay(Ddl!DayOf(m))
           /\ ~Ddl!IsBusinessDay(Ddl!DayOf(t)) \/ Ddl!HourOf(t) >= WorkEnd => \A x \in t..(m - 1) : ~Working(x)
<1>1. PICK d \in Nat : MorningOf(t, d) /\ m = Hours * d + WorkStart
    BY MorningIs
<1>2. m \in Nat /\ Ddl!DayOf(m) = d /\ Ddl!HourOf(m) = WorkStart
    <2>1. WorkStart \in 0..(Hours - 1)
        BY HoursAre
    <2> QED
        BY <1>1, <2>1, HourOfDay
<1>3. Ddl!DayOf(t) \in Nat /\ Ddl!HourOf(t) \in Int /\ Ddl!DayOf(t) < d /\ Ddl!IsBusinessDay(d)
    BY <1>1, MomentIs, HoursAre DEF MorningOf
<1>4. t < m
    <2>1. CASE m <= t
        <3>1. Ddl!DayOf(m) <= Ddl!DayOf(t)
            BY <1>2, <2>1, LaterDay
        <3> QED
            BY <1>2, <1>3, <3>1
    <2> QED
        BY <1>2, <2>1
<1>5. ASSUME ~Ddl!IsBusinessDay(Ddl!DayOf(t)) \/ Ddl!HourOf(t) >= WorkEnd, NEW x \in t..(m - 1), Working(x) PROVE FALSE
    <2>1. x \in Nat /\ t <= x /\ x <= m /\ x < m
        BY <1>2
    <2>2. Ddl!DayOf(x) \in Nat /\ Ddl!HourOf(x) \in Nat
        BY <2>1, MomentIs
    <2>3. /\ Ddl!DayOf(t) <= Ddl!DayOf(x) /\ Ddl!DayOf(x) <= d
          /\ Ddl!DayOf(t) = Ddl!DayOf(x) => Ddl!HourOf(t) <= Ddl!HourOf(x)
          /\ Ddl!DayOf(x) = d => Ddl!HourOf(x) <= WorkStart
        BY <1>2, <2>1, LaterDay
    <2>4. CASE Ddl!DayOf(x) = Ddl!DayOf(t)
        BY <1>3, <1>5, <2>2, <2>3, <2>4, HoursAre DEF Working
    <2>5. CASE Ddl!DayOf(x) = d
        <3>1. Ddl!HourOf(x) = WorkStart
            BY <1>5, <2>2, <2>3, <2>5, HoursAre DEF Working
        <3>2. x = m
            BY <1>1, <2>1, <2>5, <3>1, MomentIs
        <3> QED
            BY <2>1, <3>2
    <2>6. CASE Ddl!DayOf(x) # Ddl!DayOf(t) /\ Ddl!DayOf(x) # d
        <3>1. Ddl!DayOf(x) \in (Ddl!DayOf(t) + 1)..(d - 1)
            BY <1>3, <2>2, <2>3, <2>6
        <3> QED
            BY <1>1, <1>5, <3>1 DEF MorningOf, Working
    <2> QED
        BY <2>4, <2>5, <2>6
<1> QED
    BY <1>2, <1>3, <1>4, <1>5

\* Within a day.
LEMMA SameDay ==
    ASSUME NEW t \in Nat, NEW k \in Nat, Ddl!HourOf(t) + k < Hours
    PROVE  Ddl!DayOf(t + k) = Ddl!DayOf(t) /\ Ddl!HourOf(t + k) = Ddl!HourOf(t) + k
<1>1. PICK d, h : d = Ddl!DayOf(t) /\ h = Ddl!HourOf(t) /\ d \in Nat /\ h \in 0..(Hours - 1) /\ t = Hours * d + h
    BY MomentIs
<1>2. h + k \in 0..(Hours - 1)
    BY <1>1, HoursAre
<1>3. t + k = Hours * d + (h + k)
    <2>1. Hours * d \in Int
        BY <1>1, HoursAre
    <2>2. PICK x : x = Hours * d
        OBVIOUS
    <2> QED
        BY <1>1, <2>1, <2>2, HoursAre
<1>4. Ddl!DayOf(Hours * d + (h + k)) = d /\ Ddl!HourOf(Hours * d + (h + k)) = h + k
    BY <1>1, <1>2, HourOfDay
<1> QED
    BY <1>1, <1>3, <1>4

\* From a moment of work, while work lasts, every hour is one.
LEMMA WorkLasts ==
    ASSUME NEW t \in Nat, Working(t), NEW k \in Nat, Ddl!HourOf(t) + k <= WorkEnd
    PROVE  /\ \A x \in t..(t + k - 1) : Working(x)
           /\ Ddl!DayOf(t + k) = Ddl!DayOf(t) /\ Ddl!HourOf(t + k) = Ddl!HourOf(t) + k
<1>1. Ddl!HourOf(t) \in Nat /\ WorkStart <= Ddl!HourOf(t) /\ Ddl!IsBusinessDay(Ddl!DayOf(t))
    BY MomentIs DEF Working
<1>2. ASSUME NEW x \in t..(t + k - 1) PROVE Working(x)
    <2>1. PICK j \in Nat : x = t + j /\ j < k
        <3>1. x - t \in Nat /\ x = t + (x - t) /\ x - t < k
            OBVIOUS
        <3> QED
            BY <3>1
    <2>2. Ddl!HourOf(t) + j < Hours /\ Ddl!HourOf(t) + j < WorkEnd
        BY <1>1, <2>1, HoursAre
    <2>3. Ddl!DayOf(x) = Ddl!DayOf(t) /\ Ddl!HourOf(x) = Ddl!HourOf(t) + j
        BY <2>1, <2>2, SameDay
    <2> QED
        BY <1>1, <2>1, <2>2, <2>3, HoursAre DEF Working
<1>3. Ddl!HourOf(t) + k < Hours
    BY <1>1, HoursAre
<1> QED
    BY <1>2, <1>3, SameDay

LEMMA NextWorkMomentIs ==
    ASSUME NEW t \in Nat, holidays \subseteq 0..MaxHoliday, NEW m, m = Ddl!NextWorkMoment(t)
    PROVE  m \in Nat /\ t <= m /\ Working(m) /\ \A x \in t..(m - 1) : ~Working(x)
<1>1. CASE ~Ddl!IsBusinessDay(Ddl!DayOf(t)) \/ Ddl!HourOf(t) >= WorkEnd
    <2>1. m = Ddl!NextBusinessMorning(t)
        BY <1>1 DEF Ddl!NextWorkMoment
    <2> QED
        BY <1>1, <2>1, NobodyWorks, HoursAre DEF Working
<1>2. CASE Ddl!IsBusinessDay(Ddl!DayOf(t)) /\ ~(Ddl!HourOf(t) >= WorkEnd) /\ Ddl!HourOf(t) < WorkStart
    <2>1. m = Hours * Ddl!DayOf(t) + WorkStart
        BY <1>2 DEF Ddl!NextWorkMoment
    <2>2. PICK d, h : d = Ddl!DayOf(t) /\ h = Ddl!HourOf(t) /\ d \in Nat /\ h \in 0..(Hours - 1) /\ t = Hours * d + h
        BY MomentIs
    <2>3. m \in Nat /\ Ddl!DayOf(m) = d /\ Ddl!HourOf(m) = WorkStart
        <3>1. WorkStart \in 0..(Hours - 1)
            BY HoursAre
        <3> QED
            BY <2>1, <2>2, <3>1, HourOfDay
    <2>4. t <= m
        <3>1. Hours * d \in Int
            BY <2>2, HoursAre
        <3>2. PICK x : x = Hours * d
            OBVIOUS
        <3> QED
            BY <1>2, <2>1, <2>2, <3>1, <3>2, HoursAre
    <2>5. ASSUME NEW x \in t..(m - 1), Working(x) PROVE FALSE
        <3>1. x \in Nat /\ t <= x /\ x <= m /\ x < m
            BY <2>3
        <3>2. Ddl!DayOf(x) \in Nat /\ Ddl!HourOf(x) \in Nat /\ x = Hours * Ddl!DayOf(x) + Ddl!HourOf(x)
            BY <3>1, MomentIs
        <3>3. Ddl!DayOf(x) = d /\ Ddl!HourOf(x) <= WorkStart
            BY <2>2, <2>3, <3>1, <3>2, LaterDay
        <3>4. Ddl!HourOf(x) = WorkStart
            BY <2>5, <3>2, <3>3, HoursAre DEF Working
        <3> QED
            <4>1. m = Hours * d + WorkStart /\ x = Hours * d + WorkStart
                BY <2>1, <2>2, <3>2, <3>3, <3>4
            <4> QED
                BY <2>3, <3>1, <4>1
    <2> QED
        BY <1>2, <2>2, <2>3, <2>4, <2>5, HoursAre DEF Working
<1>3. CASE Ddl!IsBusinessDay(Ddl!DayOf(t)) /\ ~(Ddl!HourOf(t) >= WorkEnd) /\ ~(Ddl!HourOf(t) < WorkStart)
    <2>1. m = t
        BY <1>3 DEF Ddl!NextWorkMoment
    <2>2. Ddl!HourOf(t) \in Int
        BY MomentIs
    <2> QED
        BY <1>3, <2>1, <2>2, HoursAre DEF Working
<1> QED
    BY <1>1, <1>2, <1>3

------------------------------------------------------------------------------
(* Counting working hours.                                                 *)

LEMMA HoursCounted ==
    ASSUME NEW a \in Nat, NEW b \in Nat, NEW c \in Nat, a <= b, b <= c
    PROVE  /\ Ddl!WorkingHours(a, c) \in Nat
           /\ Ddl!WorkingHours(a, c) = Ddl!WorkingHours(a, b) + Ddl!WorkingHours(b, c)
           /\ (\A x \in b..(c - 1) : ~Working(x)) => Ddl!WorkingHours(b, c) = 0
           /\ (\A x \in b..(c - 1) : Working(x)) => Ddl!WorkingHours(b, c) = c - b
<1> DEFINE Span(f, t) == {x \in f..(t - 1) : Working(x)}
<1>1. \A f, t \in Nat : Ddl!WorkingHours(f, t) = Cardinality(Span(f, t))
    <2> SUFFICES ASSUME NEW f \in Nat, NEW t \in Nat PROVE Ddl!WorkingHours(f, t) = Cardinality(Span(f, t))
        OBVIOUS
    <2>1. Span(f, t) = {x \in f..(t - 1) : Ddl!IsBusinessDay(Ddl!DayOf(x)) /\ WorkStart <= Ddl!HourOf(x) /\ Ddl!HourOf(x) < WorkEnd}
        BY DEF Working
    <2> HIDE DEF Span
    <2> QED
        BY <2>1 DEF Ddl!WorkingHours, Ddl!Cardinality, Cardinality
<1>2. \A f, t \in Nat : IsFiniteSet(Span(f, t)) /\ Cardinality(Span(f, t)) \in Nat
    <2> SUFFICES ASSUME NEW f \in Nat, NEW t \in Nat PROVE IsFiniteSet(Span(f, t)) /\ Cardinality(Span(f, t)) \in Nat
        OBVIOUS
    <2>1. IsFiniteSet(f..(t - 1))
        BY FS_Interval
    <2>2. IsFiniteSet(Span(f, t))
        BY <2>1, FS_Subset
    <2> QED
        BY <2>2, FS_CardinalityType
<1>3. Span(a, c) = Span(a, b) \cup Span(b, c) /\ Span(a, b) \cap Span(b, c) = {}
    OBVIOUS
<1>4. ASSUME \A x \in b..(c - 1) : ~Working(x) PROVE Span(b, c) = {}
    BY <1>4
<1>5. ASSUME \A x \in b..(c - 1) : Working(x) PROVE Span(b, c) = b..(c - 1)
    BY <1>5
<1>6. Cardinality(b..(c - 1)) = c - b
    <2>1. Cardinality(b..(c - 1)) = IF b > c - 1 THEN 0 ELSE (c - 1) - b + 1
        BY FS_Interval
    <2> QED
        BY <2>1
<1> HIDE DEF Span
<1>7. Cardinality(Span(a, c)) = Cardinality(Span(a, b)) + Cardinality(Span(b, c))
    <2>1. Cardinality(Span(a, b) \cup Span(b, c)) = Cardinality(Span(a, b)) + Cardinality(Span(b, c)) - Cardinality({})
        BY <1>2, <1>3, FS_Union
    <2>2. Cardinality({}) = 0
        BY FS_EmptySet
    <2> QED
        BY <1>2, <1>3, <2>1, <2>2
<1>8. Cardinality({}) = 0
    BY FS_EmptySet
<1> QED
    BY <1>1, <1>2, <1>4, <1>5, <1>6, <1>7, <1>8

LEMMA NoTimeNoWork == ASSUME NEW a \in Nat PROVE Ddl!WorkingHours(a, a) = 0
<1>1. \A x \in a..(a - 1) : ~Working(x)
    OBVIOUS
<1> QED
    BY <1>1, HoursCounted

------------------------------------------------------------------------------
(* The loop.                                                               *)

Timed ==
    /\ Ddl!TypeOK
    /\ slaHours \in 0..MaxSla /\ opened <= current
    /\ step = "start" => current = opened /\ remaining = slaHours
    /\ step = "loop" => Working(current)
    /\ step = "loop" /\ slaHours > 0 => remaining > 0
    /\ Ddl!SlaIsCounted

LEMMA CountedInit ==
    ASSUME Ddl!Init \/ (opened = 0 /\ slaHours = 0 /\ holidays = {} /\ current = 0 /\ remaining = 0 /\ step = "start")
    PROVE  Timed
<1>1. Hours * (MaxHoliday + 1) - 1 \in Int
    BY HoursAre
<1>2. opened \in Nat /\ current = opened /\ slaHours \in 0..MaxSla /\ remaining = slaHours /\ holidays \subseteq 0..MaxHoliday /\ step = "start"
    BY <1>1, HoursAre DEF Ddl!Init
<1>3. Ddl!WorkingHours(opened, current) = 0
    BY <1>2, NoTimeNoWork
<1> QED
    BY <1>2, <1>3, HoursAre DEF Timed, Ddl!TypeOK, Ddl!SlaIsCounted, Ddl!NothingLost, Ddl!DeadlineIsRight

LEMMA CountedTypes ==
    ASSUME Timed
    PROVE  /\ opened \in Nat /\ current \in Nat /\ opened <= current /\ remaining \in 0..MaxSla /\ slaHours \in 0..MaxSla
           /\ holidays \subseteq 0..MaxHoliday /\ MaxSla \in Nat
           /\ Ddl!WorkingHours(opened, current) + remaining = slaHours
           /\ Ddl!WorkingHours(opened, current) \in Nat
<1>1. opened \in Nat /\ current \in Nat /\ opened <= current
    BY DEF Timed, Ddl!TypeOK
<1>2. Ddl!WorkingHours(opened, current) \in Nat
    BY <1>1, HoursCounted
<1> QED
    BY <1>1, <1>2, HoursAre DEF Timed, Ddl!TypeOK, Ddl!SlaIsCounted, Ddl!NothingLost

\* The days of work and the hours counted do not depend on the loop.
LEMMA HolidaysStay ==
    ASSUME holidays' = holidays
    PROVE  /\ \A d : Ddl!IsBusinessDay(d)' = Ddl!IsBusinessDay(d)
           /\ \A t : Working(t)' = Working(t)
           /\ \A a, b : Ddl!WorkingHours(a, b)' = Ddl!WorkingHours(a, b)
    BY DEF Ddl!IsBusinessDay, Working, Ddl!WorkingHours, Ddl!DayOf, Ddl!HourOf

LEMMA StartKeeps == ASSUME Timed, Ddl!Start PROVE Timed'
<1>1. PICK m : m = Ddl!NextWorkMoment(opened)
    OBVIOUS
<1>2. /\ step = "start" /\ current' = m /\ step' = "loop"
      /\ UNCHANGED <<opened, slaHours, holidays, remaining>>
    BY <1>1 DEF Ddl!Start
<1>3. /\ opened \in Nat /\ current = opened /\ remaining = slaHours /\ remaining \in 0..MaxSla
      /\ holidays \subseteq 0..MaxHoliday /\ slaHours \in Nat
    BY <1>2, CountedTypes, HoursAre DEF Timed
<1>4. m \in Nat /\ opened <= m /\ Working(m) /\ \A x \in opened..(m - 1) : ~Working(x)
    BY <1>1, <1>3, NextWorkMomentIs
<1>5. Ddl!WorkingHours(opened, m) = 0
    BY <1>3, <1>4, HoursCounted
<1>6. Working(m)' /\ (Ddl!WorkingHours(opened, current))' = 0
    BY <1>2, <1>4, <1>5, HolidaysStay
<1>7. Working(current)'
    BY <1>2, <1>4, HolidaysStay DEF Working, Ddl!DayOf, Ddl!HourOf, Ddl!IsBusinessDay
<1> QED
    BY <1>2, <1>3, <1>4, <1>6, <1>7, HoursAre DEF Timed, Ddl!TypeOK, Ddl!SlaIsCounted, Ddl!NothingLost, Ddl!DeadlineIsRight

LEMMA NextDayKeeps == ASSUME Timed, Ddl!NextDay PROVE Timed'
<1>1. PICK m, k : m = Ddl!NextBusinessMorning(current) /\ k = Ddl!Available
    OBVIOUS
<1>2. /\ step = "loop" /\ remaining > k /\ remaining' = remaining - k /\ current' = m
      /\ UNCHANGED <<opened, slaHours, holidays, step>>
    BY <1>1 DEF Ddl!NextDay
<1>3. /\ opened \in Nat /\ current \in Nat /\ opened <= current /\ remaining \in 0..MaxSla /\ slaHours \in 0..MaxSla
      /\ holidays \subseteq 0..MaxHoliday /\ MaxSla \in Nat
      /\ Ddl!WorkingHours(opened, current) + remaining = slaHours
      /\ Ddl!WorkingHours(opened, current) \in Nat
    BY CountedTypes
<1>4. Working(current)
    BY <1>2 DEF Timed
<1>5. Ddl!HourOf(current) \in Nat /\ k \in Nat /\ Ddl!HourOf(current) + k = WorkEnd
    <2>1. Ddl!HourOf(current) \in 0..(Hours - 1)
        BY <1>3, MomentIs
    <2>2. Ddl!HourOf(current) < WorkEnd
        BY <1>4 DEF Working
    <2>3. k = WorkEnd - Ddl!HourOf(current)
        BY <1>1 DEF Ddl!Available
    <2> QED
        BY <2>1, <2>2, <2>3, HoursAre
<1>6. PICK e \in Nat : e = current + k
    BY <1>3, <1>5
<1>7. /\ \A x \in current..(e - 1) : Working(x)
      /\ Ddl!DayOf(e) = Ddl!DayOf(current) /\ Ddl!HourOf(e) = WorkEnd
    BY <1>3, <1>4, <1>5, <1>6, WorkLasts, HoursAre
<1>8. Ddl!NextBusinessMorning(e) = m
    BY <1>1, <1>7 DEF Ddl!NextBusinessMorning
<1>9. /\ m \in Nat /\ e < m /\ Ddl!HourOf(m) = WorkStart /\ Ddl!IsBusinessDay(Ddl!DayOf(m))
      /\ \A x \in e..(m - 1) : ~Working(x)
    BY <1>3, <1>6, <1>7, <1>8, NobodyWorks, HoursAre
<1>10. /\ Ddl!WorkingHours(opened, e) = Ddl!WorkingHours(opened, current) + Ddl!WorkingHours(current, e)
       /\ Ddl!WorkingHours(current, e) = e - current
       /\ Ddl!WorkingHours(opened, e) \in Nat
    <2>1. current <= e
        BY <1>3, <1>5, <1>6
    <2> QED
        BY <1>3, <1>6, <1>7, <2>1, HoursCounted
<1>11. Ddl!WorkingHours(opened, m) = Ddl!WorkingHours(opened, e) + Ddl!WorkingHours(e, m) /\ Ddl!WorkingHours(e, m) = 0
    <2>1. opened <= e /\ e <= m
        BY <1>3, <1>5, <1>6, <1>9
    <2> QED
        BY <1>3, <1>6, <1>9, <2>1, HoursCounted
<1>12. Ddl!WorkingHours(opened, m) + (remaining - k) = slaHours
    <2>1. PICK w, v, z : w = Ddl!WorkingHours(opened, current) /\ v = Ddl!WorkingHours(opened, e) /\ z = Ddl!WorkingHours(opened, m)
        BY <1>10
    <2>2. w \in Nat /\ w + remaining = slaHours /\ v = w + (e - current) /\ z = v + 0
        BY <1>3, <1>10, <1>11, <2>1
    <2>3. z + (remaining - k) = slaHours
        BY <1>3, <1>5, <1>6, <2>2
    <2> QED
        BY <2>1, <2>3
<1>13. (Ddl!WorkingHours(opened, current))' = Ddl!WorkingHours(opened, m)
    BY <1>2, HolidaysStay DEF Ddl!WorkingHours, Ddl!IsBusinessDay, Ddl!DayOf, Ddl!HourOf
<1>14. Working(m)
    BY <1>9, HoursAre DEF Working
<1>15. Working(current)'
    BY <1>2, <1>14 DEF Working, Ddl!DayOf, Ddl!HourOf, Ddl!IsBusinessDay
<1>16. opened' <= current' /\ remaining' \in 0..MaxSla /\ remaining' > 0
    BY <1>2, <1>3, <1>5, <1>6, <1>9
<1> QED
    BY <1>2, <1>3, <1>9, <1>12, <1>13, <1>15, <1>16 DEF Timed, Ddl!TypeOK, Ddl!SlaIsCounted, Ddl!NothingLost, Ddl!DeadlineIsRight

LEMMA EndsTodayKeeps == ASSUME Timed, Ddl!EndsToday PROVE Timed'
<1>1. /\ step = "loop" /\ remaining <= Ddl!Available /\ remaining' = 0 /\ step' = "done"
      /\ UNCHANGED <<opened, slaHours, holidays>>
    BY DEF Ddl!EndsToday
<1>2. /\ opened \in Nat /\ current \in Nat /\ opened <= current /\ remaining \in 0..MaxSla /\ slaHours \in 0..MaxSla
      /\ holidays \subseteq 0..MaxHoliday /\ MaxSla \in Nat
      /\ Ddl!WorkingHours(opened, current) + remaining = slaHours
      /\ Ddl!WorkingHours(opened, current) \in Nat
    BY CountedTypes
<1>3. PICK e \in Nat : e = current + remaining /\ current' = e /\ current <= e /\ opened <= e
    BY <1>2 DEF Ddl!EndsToday
<1>4. Working(current) /\ (slaHours > 0 => remaining > 0)
    BY <1>1 DEF Timed
<1>5. Ddl!HourOf(current) \in Nat /\ remaining \in Nat /\ Ddl!HourOf(current) + remaining <= WorkEnd
    <2>1. Ddl!HourOf(current) \in 0..(Hours - 1)
        BY <1>2, MomentIs
    <2>2. remaining \in Nat /\ remaining <= WorkEnd - Ddl!HourOf(current)
        BY <1>1, <1>2 DEF Ddl!Available
    <2> QED
        BY <2>1, <2>2, HoursAre
<1>6. /\ \A x \in current..(e - 1) : Working(x)
      /\ Ddl!DayOf(e) = Ddl!DayOf(current) /\ Ddl!HourOf(e) = Ddl!HourOf(current) + remaining
    BY <1>2, <1>3, <1>4, <1>5, WorkLasts
<1>7. Ddl!WorkingHours(opened, e) = slaHours
    <2>1. /\ Ddl!WorkingHours(opened, e) = Ddl!WorkingHours(opened, current) + Ddl!WorkingHours(current, e)
          /\ Ddl!WorkingHours(current, e) = e - current
        BY <1>2, <1>3, <1>6, HoursCounted
    <2>2. PICK w, v, z : w = Ddl!WorkingHours(opened, current) /\ v = Ddl!WorkingHours(current, e) /\ z = Ddl!WorkingHours(opened, e)
        OBVIOUS
    <2>3. w \in Nat /\ w + remaining = slaHours /\ v = e - current /\ z = w + v
        BY <1>2, <2>1, <2>2
    <2>4. z = slaHours
        BY <1>2, <1>3, <2>3
    <2> QED
        BY <2>2, <2>4
<1>8. ASSUME slaHours > 0 PROVE Ddl!WorkingHours(opened, e - 1) = slaHours - 1
    <2>1. PICK l \in Nat : l = e - 1 /\ current <= l /\ l <= e /\ opened <= l /\ e = l + 1
        BY <1>2, <1>3, <1>4, <1>8
    <2>2. \A x \in l..(e - 1) : Working(x)
        BY <1>2, <1>6, <2>1
    <2>3. /\ Ddl!WorkingHours(opened, e) = Ddl!WorkingHours(opened, l) + Ddl!WorkingHours(l, e)
          /\ Ddl!WorkingHours(l, e) = e - l
        <3>1. l \in Nat /\ e \in Nat /\ opened \in Nat /\ opened <= l /\ l <= e
            BY <1>2, <1>3, <2>1
        <3> QED
            BY <2>2, <3>1, HoursCounted
    <2>4. Ddl!WorkingHours(opened, l) \in Nat
        BY <1>2, <2>1, HoursCounted
    <2>5. PICK v, w, z : v = Ddl!WorkingHours(opened, l) /\ w = Ddl!WorkingHours(l, e) /\ z = Ddl!WorkingHours(opened, e)
        OBVIOUS
    <2>6. v \in Nat /\ w = e - l /\ z = v + w /\ z = slaHours
        BY <1>7, <2>3, <2>4, <2>5
    <2>7. v = slaHours - 1
        BY <1>2, <2>1, <2>6
    <2> QED
        BY <2>1, <2>5, <2>7
<1>9. Ddl!IsBusinessDay(Ddl!DayOf(e)) /\ WorkStart <= Ddl!HourOf(e) /\ Ddl!HourOf(e) <= WorkEnd
    BY <1>4, <1>5, <1>6, HoursAre DEF Working
<1>10. /\ (Ddl!WorkingHours(opened, current))' = Ddl!WorkingHours(opened, e)
       /\ (Ddl!WorkingHours(opened, current - 1))' = Ddl!WorkingHours(opened, e - 1)
       /\ (Ddl!IsBusinessDay(Ddl!DayOf(current)))' = Ddl!IsBusinessDay(Ddl!DayOf(e))
       /\ (Ddl!HourOf(current))' = Ddl!HourOf(e)
    BY <1>1, <1>3 DEF Ddl!WorkingHours, Ddl!IsBusinessDay, Ddl!DayOf, Ddl!HourOf
<1>11. Ddl!DeadlineIsRight'
    BY <1>1, <1>7, <1>8, <1>9, <1>10 DEF Ddl!DeadlineIsRight
<1>12. Ddl!NothingLost'
    BY <1>1, <1>2, <1>7, <1>10 DEF Ddl!NothingLost
<1> QED
    BY <1>1, <1>2, <1>3, <1>11, <1>12 DEF Timed, Ddl!TypeOK, Ddl!SlaIsCounted

LEMMA CountedKept == Timed /\ [Ddl!Next]_sla => Timed'
<1> SUFFICES ASSUME Timed, [Ddl!Next]_sla PROVE Timed'
    OBVIOUS
<1>1. CASE Ddl!Next
    BY <1>1, StartKeeps, EndsTodayKeeps, NextDayKeeps DEF Ddl!Next
<1>2. CASE UNCHANGED sla
    BY <1>2 DEF sla, Timed, Working, Ddl!TypeOK, Ddl!SlaIsCounted, Ddl!NothingLost, Ddl!DeadlineIsRight, Ddl!WorkingHours,
                Ddl!IsBusinessDay, Ddl!DayOf, Ddl!HourOf
<1> QED
    BY <1>1, <1>2

------------------------------------------------------------------------------
(***************************************************************************)
(* The mirror of a day.  The loop pairs what it has reached: the moments    *)
(* worked by the punches reached so far are those of the pairs.            *)
(***************************************************************************)

LEMMA MomentsAre ==
    /\ Moments \in Nat /\ NightStart \in 0..Moments /\ NightEnd \in 0..NightStart /\ MaxDayPunch \in Nat
    /\ \A s \in DayShifts : /\ s.start \in 0..(Moments - 1) /\ s.end \in 0..(Moments - 1)
                            /\ s.breakStart \in 0..(Moments - 1) /\ s.breakEnd \in 0..(Moments - 1)
    BY MirrorAssumption DEF MirrorAssumption

LEMMA MirrorCardinality == \A S : Mir!Cardinality(S) = Cardinality(S)
    BY DEF Mir!Cardinality, Cardinality

------------------------------------------------------------------------------
(* What is added up.                                                       *)

LEMMA AmountsAre ==
    ASSUME NEW n \in Nat, NEW c \in [1..n -> Int]
    PROVE  Len(c) = n /\ DOMAIN c = 1..n
<1>1. c \in Seq(Int)
    OBVIOUS
<1>2. Len(c) \in Nat /\ DOMAIN c = 1..Len(c) /\ DOMAIN c = 1..n
    BY <1>1
<1> QED
    BY <1>2

LEMMA AddedUp ==
    ASSUME NEW n \in Nat, NEW c \in [1..n -> Int]
    PROVE  \E f : Running(n, 0, c, f) /\ Mir!Total(c) = f[n]
<1> DEFINE Is(g) == g = [i \in 0..Len(c) |-> IF i = 0 THEN 0 ELSE g[i - 1] + c[i]]
           total == CHOOSE g : Is(g)
<1>1. Len(c) = n
    BY AmountsAre
<1>2. Mir!Total(c) = total[Len(c)]
    BY DEF Mir!Total
<1>3. PICK g : Running(n, 0, c, g)
    BY RunningIsThere
<1>4. Is(g)
    BY <1>1, <1>3 DEF Running
<1> HIDE DEF Is
<1>5. Is(total)
    BY <1>4
<1> HIDE DEF total
<1>6. Running(n, 0, c, total)
    BY <1>1, <1>5 DEF Running, Is
<1> QED
    BY <1>1, <1>2, <1>6

LEMMA TotalOfNone == ASSUME NEW c \in [1..0 -> Int] PROVE Mir!Total(c) = 0
<1>1. PICK f : Running(0, 0, c, f) /\ Mir!Total(c) = f[0]
    BY AddedUp
<1> QED
    BY <1>1 DEF Running

LEMMA TotalOfMore ==
    ASSUME NEW n \in Nat, NEW c \in [1..n -> Int], NEW d \in [1..(n + 1) -> Int], \A i \in 1..n : c[i] = d[i]
    PROVE  Mir!Total(d) = Mir!Total(c) + d[n + 1] /\ Mir!Total(c) \in Int /\ d[n + 1] \in Int
<1>1. PICK f : Running(n, 0, c, f) /\ Mir!Total(c) = f[n]
    BY AddedUp
<1>2. PICK g : Running(n + 1, 0, d, g) /\ Mir!Total(d) = g[n + 1]
    BY AddedUp
<1>3. f[n] = g[n]
    <2>1. \A i \in 0..n : f[i] = g[i]
        BY <1>1, <1>2, RunningAgrees
    <2> QED
        BY <2>1
<1>4. g[n + 1] = g[n] + d[n + 1] /\ g[n] \in Int
    <2>1. \A i \in 1..(n + 1) : g[i] = g[i - 1] + d[i]
        BY <1>2, RunningSteps
    <2>2. \A i \in 0..(n + 1) : g[i] \in Int
        BY <1>2, RunningSteps
    <2>3. n + 1 \in 1..(n + 1) /\ (n + 1) - 1 = n /\ n \in 0..(n + 1)
        OBVIOUS
    <2> QED
        BY <2>1, <2>2, <2>3
<1> QED
    BY <1>1, <1>2, <1>3, <1>4

------------------------------------------------------------------------------
(* What is worked.                                                         *)

WorkedBy(p, D) ==
    {t \in 0..(Moments - 1) :
        \E from, to \in D : /\ from <= t /\ t < to /\ p[from] = "in" /\ p[to] = "out"
                            /\ \A m \in D : m <= from \/ to <= m}

AtNight(X) == {t \in X : t < NightEnd \/ NightStart <= t}

\* An entry, or an exit after which nobody was in, adds nothing.
LEMMA NothingWorked ==
    ASSUME NEW p, NEW D \in SUBSET Nat, NEW r \in Nat, \A d \in D : d < r,
           p[r] = "in" \/ \A d \in D : p[d] = "in" => \E e \in D : d < e /\ p[e] = "out"
    PROVE  WorkedBy(p, D \cup {r}) = WorkedBy(p, D)
<1>1. ASSUME NEW t \in WorkedBy(p, D) PROVE t \in WorkedBy(p, D \cup {r})
    <2>1. PICK from \in D, to \in D : /\ from <= t /\ t < to /\ p[from] = "in" /\ p[to] = "out"
                                      /\ \A m \in D : m <= from \/ to <= m
        BY <1>1 DEF WorkedBy
    <2>2. to <= r
        OBVIOUS
    <2>3. \A m \in D \cup {r} : m <= from \/ to <= m
        BY <2>1, <2>2
    <2> QED
        BY <1>1, <2>1, <2>3 DEF WorkedBy
<1>2. ASSUME NEW t \in WorkedBy(p, D \cup {r}) PROVE t \in WorkedBy(p, D)
    <2>1. PICK from \in D \cup {r}, to \in D \cup {r} :
                 /\ from <= t /\ t < to /\ p[from] = "in" /\ p[to] = "out"
                 /\ \A m \in D \cup {r} : m <= from \/ to <= m
        BY <1>2 DEF WorkedBy
    <2>2. t \in Int /\ from \in Int /\ to \in Int /\ from < to
        BY <1>2, <2>1, MomentsAre DEF WorkedBy
    <2>3. from \in D
        BY <2>1, <2>2
    <2>4. CASE to = r
        <3>1. PICK e \in D : from < e /\ p[e] = "out"
            BY <2>1, <2>3, <2>4
        <3> QED
            BY <2>1, <2>2, <2>4, <3>1
    <2>5. CASE to # r
        BY <1>2, <2>1, <2>3, <2>5 DEF WorkedBy
    <2> QED
        BY <2>4, <2>5
<1> QED
    BY <1>1, <1>2

\* An exit adds the moments since the entry.
LEMMA ExitWorked ==
    ASSUME NEW p, NEW D \in SUBSET (0..(Moments - 1)), NEW r \in 0..(Moments - 1), \A d \in D : d < r,
           NEW a \in D, p[a] = "in", p[r] = "out", \A d \in D : d <= a
    PROVE  WorkedBy(p, D \cup {r}) = WorkedBy(p, D) \cup a..(r - 1) /\ WorkedBy(p, D) \cap a..(r - 1) = {} /\ a < r
<1>0. Moments \in Nat /\ a \in Nat /\ r \in Nat /\ a < r
    BY MomentsAre
<1>1. ASSUME NEW t \in WorkedBy(p, D) PROVE t \in WorkedBy(p, D \cup {r}) /\ t < a
    <2>1. PICK from \in D, to \in D : /\ from <= t /\ t < to /\ p[from] = "in" /\ p[to] = "out"
                                      /\ \A m \in D : m <= from \/ to <= m
        BY <1>1 DEF WorkedBy
    <2>2. to <= r /\ to <= a /\ to \in Nat /\ from \in Nat /\ t \in Nat
        BY <1>0, <1>1 DEF WorkedBy
    <2>3. \A m \in D \cup {r} : m <= from \/ to <= m
        BY <2>1, <2>2
    <2> QED
        BY <1>0, <1>1, <2>1, <2>2, <2>3 DEF WorkedBy
<1>2. ASSUME NEW t \in a..(r - 1) PROVE t \in WorkedBy(p, D \cup {r})
    <2>1. t \in 0..(Moments - 1) /\ a <= t /\ t < r
        BY <1>0
    <2>2. \A m \in D \cup {r} : m <= a \/ r <= m
        BY <1>0
    <2> QED
        BY <2>1, <2>2 DEF WorkedBy
<1>3. ASSUME NEW t \in WorkedBy(p, D \cup {r}) PROVE t \in WorkedBy(p, D) \cup a..(r - 1)
    <2>1. PICK from \in D \cup {r}, to \in D \cup {r} :
                 /\ from <= t /\ t < to /\ p[from] = "in" /\ p[to] = "out"
                 /\ \A m \in D \cup {r} : m <= from \/ to <= m
        BY <1>3 DEF WorkedBy
    <2>2. t \in Nat /\ from \in Nat /\ to \in Nat /\ from < to
        BY <1>0, <1>3, <2>1 DEF WorkedBy
    <2>3. from \in D
        BY <1>0, <2>1, <2>2
    <2>4. CASE to = r
        <3>1. a <= from
            BY <1>0, <2>1, <2>4
        <3>2. from = a
            BY <1>0, <2>2, <2>3, <3>1
        <3> QED
            BY <1>0, <2>1, <2>2, <2>4, <3>2
    <2>5. CASE to # r
        BY <1>3, <2>1, <2>3, <2>5 DEF WorkedBy
    <2> QED
        BY <2>4, <2>5
<1>4. ASSUME NEW t \in WorkedBy(p, D), t \in a..(r - 1) PROVE FALSE
    BY <1>0, <1>1, <1>4
<1> QED
    BY <1>0, <1>1, <1>2, <1>3, <1>4

\* Disjoint moments are counted one by one.
LEMMA MomentsAdd ==
    ASSUME NEW X, NEW Y, X \subseteq 0..(Moments - 1), Y \subseteq 0..(Moments - 1), X \cap Y = {}
    PROVE  /\ Cardinality(X \cup Y) = Cardinality(X) + Cardinality(Y)
           /\ Cardinality(X) \in Nat /\ Cardinality(Y) \in Nat
<1>1. IsFiniteSet(0..(Moments - 1))
    BY MomentsAre, FS_Interval
<1>2. IsFiniteSet(X) /\ IsFiniteSet(Y)
    BY <1>1, FS_Subset
<1>3. Cardinality(X) \in Nat /\ Cardinality(Y) \in Nat
    BY <1>2, FS_CardinalityType
<1>4. Cardinality(X \cup Y) = Cardinality(X) + Cardinality(Y) - Cardinality(X \cap Y)
    BY <1>2, FS_Union
<1>5. Cardinality(X \cap Y) = 0
    BY FS_EmptySet
<1> QED
    BY <1>3, <1>4, <1>5

LEMMA IntervalIs == ASSUME NEW a \in Int, NEW b \in Int PROVE Cardinality(a..(b - 1)) = IF a < b THEN b - a ELSE 0
<1>1. Cardinality(a..(b - 1)) = IF a > b - 1 THEN 0 ELSE (b - 1) - a + 1
    BY FS_Interval
<1> QED
    BY <1>1

\* _night_differential_minutes of a pair: the moments of it in the night.
LEMMA NightOfPair ==
    ASSUME NEW a \in 0..(Moments - 1), NEW b \in 0..(Moments - 1), a < b
    PROVE  /\ Mir!NightTotal(<<a, b>>) = Cardinality(AtNight(a..(b - 1)))
           /\ Mir!NightTotal(<<a, b>>) \in Nat
<1>1. PICK S, N, E : /\ S = Moments /\ N = NightStart /\ E = NightEnd
                     /\ S \in Nat /\ N \in 0..S /\ E \in 0..N /\ a \in 0..(S - 1) /\ b \in 0..(S - 1)
    BY MomentsAre
<1>2. PICK x, y : /\ x = (IF b < E THEN b ELSE E) /\ y = (IF a > N THEN a ELSE N)
                  /\ x \in Nat /\ y \in Nat /\ x <= E /\ x <= b /\ y >= N /\ y >= a
    BY <1>1
<1>3. (-1) * S = -S /\ (-1 + 1) * S = 0 /\ 0 * S = 0 /\ (0 + 1) * S = S
    BY <1>1
<1>4. Mir!InNight(<<a, b>>, -1) = IF a < x THEN x - a ELSE 0
    <2>1. Mir!InNight(<<a, b>>, -1) = Mir!Bigger(0, Mir!Smaller(b, (-1 + 1) * S + E) - Mir!Bigger(a, (-1) * S + N))
        BY <1>1 DEF Mir!InNight
    <2>2. Mir!Smaller(b, 0 + E) = x /\ Mir!Bigger(a, -S + N) = a
        BY <1>1, <1>2 DEF Mir!Smaller, Mir!Bigger
    <2>3. Mir!InNight(<<a, b>>, -1) = Mir!Bigger(0, x - a)
        BY <1>3, <2>1, <2>2
    <2> QED
        BY <1>1, <1>2, <2>3 DEF Mir!Bigger
<1>5. Mir!InNight(<<a, b>>, 0) = IF y < b THEN b - y ELSE 0
    <2>1. Mir!InNight(<<a, b>>, 0) = Mir!Bigger(0, Mir!Smaller(b, (0 + 1) * S + E) - Mir!Bigger(a, 0 * S + N))
        BY <1>1 DEF Mir!InNight
    <2>2. Mir!Smaller(b, S + E) = b /\ Mir!Bigger(a, 0 + N) = y
        BY <1>1, <1>2 DEF Mir!Smaller, Mir!Bigger
    <2>3. Mir!InNight(<<a, b>>, 0) = Mir!Bigger(0, b - y)
        BY <1>3, <2>1, <2>2
    <2> QED
        BY <1>1, <1>2, <2>3 DEF Mir!Bigger
<1>6. AtNight(a..(b - 1)) = a..(x - 1) \cup y..(b - 1) /\ a..(x - 1) \cap y..(b - 1) = {}
    <2>1. AtNight(a..(b - 1)) = {t \in a..(b - 1) : t < E \/ N <= t}
        BY <1>1 DEF AtNight
    <2>2. \A t : t \in a..(b - 1) /\ (t < E \/ N <= t) <=> t \in a..(x - 1) \/ t \in y..(b - 1)
        BY <1>1, <1>2
    <2>3. \A t : ~(t \in a..(x - 1) /\ t \in y..(b - 1))
        BY <1>1, <1>2
    <2> QED
        BY <2>1, <2>2, <2>3
<1>7. a..(x - 1) \subseteq 0..(Moments - 1) /\ y..(b - 1) \subseteq 0..(Moments - 1)
    BY <1>1, <1>2
<1>8. Cardinality(AtNight(a..(b - 1))) = Cardinality(a..(x - 1)) + Cardinality(y..(b - 1))
    BY <1>6, <1>7, MomentsAdd
<1>9. Cardinality(a..(x - 1)) = (IF a < x THEN x - a ELSE 0) /\ Cardinality(y..(b - 1)) = (IF y < b THEN b - y ELSE 0)
    <2>1. a \in Int /\ b \in Int /\ x \in Int /\ y \in Int
        BY <1>1, <1>2
    <2> QED
        BY <2>1, IntervalIs
<1>10. Mir!NightTotal(<<a, b>>) = (IF a < x THEN x - a ELSE 0) + (IF y < b THEN b - y ELSE 0)
    BY <1>4, <1>5 DEF Mir!NightTotal
<1>11. (IF a < x THEN x - a ELSE 0) + (IF y < b THEN b - y ELSE 0) \in Nat
    BY <1>1, <1>2
<1> QED
    BY <1>8, <1>9, <1>10, <1>11

------------------------------------------------------------------------------
(* What is made of the pairs.                                               *)

PairType == {x \in (0..(Moments - 1)) \X (0..(Moments - 1)) : x[1] < x[2]}

MinutesOf(q) == [i \in DOMAIN q |-> q[i][2] - q[i][1]]

NightsOf(q) == [i \in DOMAIN q |-> Mir!NightTotal(q[i])]

RoundedOf(q) == [i \in DOMAIN q |-> (24 * Mir!NightTotal(q[i]) + 35) \div 70]

\* The pairs q are what is worked by the punches p of the moments D.
SumsAre(q, p, D) ==
    /\ Mir!Total(MinutesOf(q)) = Cardinality(WorkedBy(p, D))
    /\ Mir!Total(NightsOf(q)) = Cardinality(AtNight(WorkedBy(p, D)))

Near(q) ==
    /\ 70 * Mir!Total(RoundedOf(q)) - 24 * Mir!Total(NightsOf(q)) <= 35 * Len(q)
    /\ 24 * Mir!Total(NightsOf(q)) - 70 * Mir!Total(RoundedOf(q)) <= 35 * Len(q)

LEMMA PairIs ==
    ASSUME NEW x \in PairType
    PROVE  /\ x[1] \in 0..(Moments - 1) /\ x[2] \in 0..(Moments - 1) /\ x[1] < x[2] /\ x = <<x[1], x[2]>>
           /\ x[2] - x[1] \in Int /\ Mir!NightTotal(x) \in Nat
           /\ (24 * Mir!NightTotal(x) + 35) \div 70 \in Int
<1>1. x[1] \in 0..(Moments - 1) /\ x[2] \in 0..(Moments - 1) /\ x[1] < x[2] /\ x = <<x[1], x[2]>>
    BY DEF PairType
<1>2. Mir!NightTotal(x) \in Nat
    BY <1>1, NightOfPair
<1>3. 24 * Mir!NightTotal(x) + 35 \in Int
    BY <1>2
<1>4. (24 * Mir!NightTotal(x) + 35) \div 70 \in Int
    BY <1>3
<1> QED
    BY <1>1, <1>2, <1>4, MomentsAre

LEMMA AmountTypes ==
    ASSUME NEW q \in Seq(PairType)
    PROVE  /\ MinutesOf(q) \in [1..Len(q) -> Int] /\ NightsOf(q) \in [1..Len(q) -> Int] /\ RoundedOf(q) \in [1..Len(q) -> Int]
           /\ Len(q) \in Nat /\ DOMAIN q = 1..Len(q)
<1>1. Len(q) \in Nat /\ DOMAIN q = 1..Len(q)
    OBVIOUS
<1>2. \A i \in 1..Len(q) : q[i] \in PairType
    OBVIOUS
<1>3. ASSUME NEW i \in 1..Len(q)
      PROVE  /\ q[i][2] - q[i][1] \in Int /\ Mir!NightTotal(q[i]) \in Int
             /\ (24 * Mir!NightTotal(q[i]) + 35) \div 70 \in Int
    <2>1. PICK x \in PairType : x = q[i]
        BY <1>2
    <2>2. x[2] - x[1] \in Int /\ Mir!NightTotal(x) \in Nat /\ (24 * Mir!NightTotal(x) + 35) \div 70 \in Int
        BY PairIs
    <2> QED
        BY <2>1, <2>2
<1> QED
    BY <1>1, <1>3 DEF MinutesOf, NightsOf, RoundedOf

LEMMA PairsGrow ==
    ASSUME NEW q \in Seq(PairType), NEW x \in PairType, NEW r, r = Append(q, x)
    PROVE  /\ r \in Seq(PairType) /\ Len(r) = Len(q) + 1 /\ Len(q) \in Nat
           /\ Mir!Total(MinutesOf(r)) = Mir!Total(MinutesOf(q)) + (x[2] - x[1]) /\ Mir!Total(MinutesOf(q)) \in Int
           /\ Mir!Total(NightsOf(r)) = Mir!Total(NightsOf(q)) + Mir!NightTotal(x) /\ Mir!Total(NightsOf(q)) \in Int
           /\ Mir!Total(RoundedOf(r)) = Mir!Total(RoundedOf(q)) + ((24 * Mir!NightTotal(x) + 35) \div 70)
           /\ Mir!Total(RoundedOf(q)) \in Int
<1>1. PICK n : n = Len(q)
    OBVIOUS
<1>2. /\ r \in Seq(PairType) /\ n \in Nat /\ Len(r) = n + 1 /\ DOMAIN q = 1..n /\ DOMAIN r = 1..(n + 1)
      /\ \A i \in 1..n : r[i] = q[i]
      /\ r[n + 1] = x
    BY <1>1, AppendTo
<1>3. /\ MinutesOf(q) \in [1..n -> Int] /\ NightsOf(q) \in [1..n -> Int] /\ RoundedOf(q) \in [1..n -> Int]
    BY <1>1, AmountTypes
<1>4. /\ MinutesOf(r) \in [1..(n + 1) -> Int] /\ NightsOf(r) \in [1..(n + 1) -> Int] /\ RoundedOf(r) \in [1..(n + 1) -> Int]
    BY <1>2, AmountTypes
<1>5. ASSUME NEW i \in 1..n
      PROVE  MinutesOf(q)[i] = MinutesOf(r)[i] /\ NightsOf(q)[i] = NightsOf(r)[i] /\ RoundedOf(q)[i] = RoundedOf(r)[i]
    <2>1. i \in DOMAIN q /\ i \in DOMAIN r /\ r[i] = q[i]
        BY <1>2
    <2> QED
        BY <2>1 DEF MinutesOf, NightsOf, RoundedOf
<1>6. /\ MinutesOf(r)[n + 1] = x[2] - x[1] /\ NightsOf(r)[n + 1] = Mir!NightTotal(x)
      /\ RoundedOf(r)[n + 1] = (24 * Mir!NightTotal(x) + 35) \div 70
    <2>1. n + 1 \in DOMAIN r
        BY <1>2
    <2> QED
        BY <1>2, <2>1 DEF MinutesOf, NightsOf, RoundedOf
<1>7. Mir!Total(MinutesOf(r)) = Mir!Total(MinutesOf(q)) + MinutesOf(r)[n + 1] /\ Mir!Total(MinutesOf(q)) \in Int
    BY <1>2, <1>3, <1>4, <1>5, TotalOfMore
<1>8. Mir!Total(NightsOf(r)) = Mir!Total(NightsOf(q)) + NightsOf(r)[n + 1] /\ Mir!Total(NightsOf(q)) \in Int
    BY <1>2, <1>3, <1>4, <1>5, TotalOfMore
<1>9. Mir!Total(RoundedOf(r)) = Mir!Total(RoundedOf(q)) + RoundedOf(r)[n + 1] /\ Mir!Total(RoundedOf(q)) \in Int
    BY <1>2, <1>3, <1>4, <1>5, TotalOfMore
<1> QED
    BY <1>1, <1>2, <1>6, <1>7, <1>8, <1>9

\* Rounding a pair is at most half a minute off.
LEMMA PairRounded ==
    ASSUME NEW y \in Nat, NEW z, z = (24 * y + 35) \div 70
    PROVE  z \in Int /\ 70 * z - 24 * y <= 35 /\ 24 * y - 70 * z <= 35
<1>1. PICK w \in Nat : w = 24 * y + 35
    OBVIOUS
<1>2. w \div 70 \in 0..w /\ w % 70 \in 0..69 /\ w = 70 * (w \div 70) + (w % 70)
    BY Divided
<1> QED
    BY <1>1, <1>2

------------------------------------------------------------------------------
(* The loop of _pair_punches.                                              *)

MirrorTypes ==
    /\ m1 \in {"none", "day_off", "unscheduled"} /\ m2 \in DayShifts
    /\ m3 \in BOOLEAN /\ m4 \in BOOLEAN
    /\ DOMAIN m5 \subseteq 0..(Moments - 1) /\ Cardinality(DOMAIN m5) <= MaxDayPunch
    /\ \A at \in DOMAIN m5 : m5[at] \in {"in", "out"}
    /\ m6 \subseteq DOMAIN m5 /\ m7 \in {-1} \cup DOMAIN m5
    /\ m8 \in Seq(PairType)
    /\ \A i \in DOMAIN m8 : m8[i][1] \in DOMAIN m5 /\ m8[i][2] \in DOMAIN m5

\* The entry that is open is the last punch that was reached; if none is, the
\* last that was reached is an exit.
OpenIsLast(p, D, o) ==
    /\ o # -1 => o \in D /\ p[o] = "in" /\ \A d \in D : d <= o
    /\ o = -1 => \A d \in D : p[d] = "in" => \E e \in D : d < e /\ p[e] = "out"

Mirrored ==
    /\ MirrorTypes
    /\ \A d \in DOMAIN m5 \ m6, t \in m6 : d < t
    /\ OpenIsLast(m5, DOMAIN m5 \ m6, m7)
    /\ SumsAre(m8, m5, DOMAIN m5 \ m6)
    /\ Near(m8)

LEMMA NobodyIsIn ==
    ASSUME NEW p
    PROVE  OpenIsLast(p, {}, -1) /\ SumsAre(<<>>, p, {}) /\ Near(<<>>) /\ <<>> \in Seq(PairType)
<1>1. WorkedBy(p, {}) = {} /\ AtNight({}) = {} /\ Cardinality({}) = 0
    BY FS_EmptySet DEF WorkedBy, AtNight
<1>2. <<>> \in Seq(PairType) /\ Len(<<>>) = 0 /\ DOMAIN <<>> = 1..0
    OBVIOUS
<1>3. MinutesOf(<<>>) \in [1..0 -> Int] /\ NightsOf(<<>>) \in [1..0 -> Int] /\ RoundedOf(<<>>) \in [1..0 -> Int]
    BY <1>2, AmountTypes
<1>4. Mir!Total(MinutesOf(<<>>)) = 0 /\ Mir!Total(NightsOf(<<>>)) = 0 /\ Mir!Total(RoundedOf(<<>>)) = 0
    BY <1>3, TotalOfNone
<1>5. OpenIsLast(p, {}, -1)
    BY DEF OpenIsLast
<1>6. SumsAre(<<>>, p, {})
    BY <1>1, <1>4 DEF SumsAre
<1>7. Near(<<>>)
    BY <1>2, <1>4 DEF Near
<1> QED
    BY <1>2, <1>5, <1>6, <1>7

LEMMA MirroredInit ==
    ASSUME \/ Mir!Init
           \/ m1 = "none" /\ m2 = Unused /\ m3 = FALSE /\ m4 = FALSE /\ m5 = <<>> /\ m6 = {} /\ m7 = -1 /\ m8 = <<>>
    PROVE  Mirrored
<1>1. /\ m1 \in {"none", "day_off", "unscheduled"} /\ m2 \in DayShifts /\ m3 \in BOOLEAN /\ m4 \in BOOLEAN
      /\ DOMAIN m5 \subseteq 0..(Moments - 1) /\ Cardinality(DOMAIN m5) <= MaxDayPunch
      /\ \A at \in DOMAIN m5 : m5[at] \in {"in", "out"}
      /\ m6 = DOMAIN m5 /\ m7 = -1 /\ m8 = <<>>
    <2>1. CASE Mir!Init
        <3>1. m5 \in Mir!Punches
            BY <2>1 DEF Mir!Init
        <3>2. PICK at \in SUBSET (0..(Moments - 1)) : Mir!Cardinality(at) <= MaxDayPunch /\ m5 \in [at -> {"in", "out"}]
            BY <3>1 DEF Mir!Punches
        <3>3. DOMAIN m5 = at /\ \A x \in at : m5[x] \in {"in", "out"}
            BY <3>2
        <3>4. Cardinality(at) <= MaxDayPunch
            BY <3>2, MirrorCardinality
        <3> QED
            BY <2>1, <3>3, <3>4 DEF Mir!Init
    <2>2. CASE m1 = "none" /\ m2 = Unused /\ m3 = FALSE /\ m4 = FALSE /\ m5 = <<>> /\ m6 = {} /\ m7 = -1 /\ m8 = <<>>
        <3>1. Unused \in DayShifts
            BY MirrorAssumption DEF MirrorAssumption, Unused
        <3>2. DOMAIN m5 = {} /\ Cardinality(DOMAIN m5) = 0
            BY <2>2, FS_EmptySet
        <3> QED
            <4>1. \A at \in DOMAIN m5 : m5[at] \in {"in", "out"}
                BY <3>2
            <4>2. m1 \in {"none", "day_off", "unscheduled"} /\ m3 \in BOOLEAN /\ m4 \in BOOLEAN
                BY <2>2
            <4>3. DOMAIN m5 \subseteq 0..(Moments - 1) /\ Cardinality(DOMAIN m5) <= MaxDayPunch
                BY <3>2, MomentsAre
            <4> QED
                BY <2>2, <3>1, <3>2, <4>1, <4>2, <4>3
    <2> QED
        BY <2>1, <2>2
<1>2. DOMAIN m5 \ m6 = {}
    BY <1>1
<1>3. OpenIsLast(m5, {}, -1) /\ SumsAre(<<>>, m5, {}) /\ Near(<<>>) /\ <<>> \in Seq(PairType)
    BY NobodyIsIn
<1>4. MirrorTypes
    BY <1>1, <1>3 DEF MirrorTypes
<1>5. \A d \in DOMAIN m5 \ m6, t \in m6 : d < t
    BY <1>2
<1> QED
    BY <1>1, <1>2, <1>3, <1>4, <1>5 DEF Mirrored

LEMMA PairKeeps == ASSUME Mirrored, Mir!Pair PROVE Mirrored'
<1>1. PICK r : r = Mir!Reached
    OBVIOUS
<1>2. PICK p, D, o : p = m5 /\ D = DOMAIN m5 \ m6 /\ o = m7
    OBVIOUS
<1>3. /\ m6 # {} /\ m6' = m6 \ {r}
      /\ m5[r] = "in" => m7' = r /\ m8' = m8
      /\ m5[r] # "in" => m7' = -1 /\ m8' = IF m7 = -1 THEN m8 ELSE Append(m8, <<m7, r>>)
      /\ m1' = m1 /\ m2' = m2 /\ m3' = m3 /\ m4' = m4 /\ m5' = m5
    BY <1>1 DEF Mir!Pair
<1>4. /\ MirrorTypes /\ OpenIsLast(p, D, o) /\ SumsAre(m8, p, D) /\ Near(m8)
      /\ \A d \in D, t \in m6 : d < t
    BY <1>2 DEF Mirrored
<1>5. /\ Moments \in Nat /\ DOMAIN p \subseteq 0..(Moments - 1) /\ m6 \subseteq DOMAIN p /\ m6 \in SUBSET Nat
      /\ D \in SUBSET (0..(Moments - 1)) /\ \A at \in DOMAIN p : p[at] \in {"in", "out"}
    BY <1>2, <1>4, MomentsAre DEF MirrorTypes
<1>6. r \in m6 /\ \A t \in m6 : r <= t
    <2>1. PICK x \in m6 : TRUE
        BY <1>3
    <2>2. \E m \in m6 : \A t \in m6 : m <= t
        BY <1>5, LeastIsThere
    <2> QED
        BY <1>1, <2>2 DEF Mir!Reached
<1>7. r \in 0..(Moments - 1) /\ r \in Nat /\ r \in DOMAIN p /\ r \notin D /\ \A d \in D : d < r
    BY <1>2, <1>4, <1>5, <1>6
<1>8. DOMAIN m5' \ m6' = D \cup {r} /\ m6' \subseteq m6
    BY <1>2, <1>3, <1>5, <1>6
<1>9. \A d \in DOMAIN m5' \ m6', t \in m6' : d < t
    <2>1. \A t \in m6' : t \in Nat /\ r <= t /\ t # r /\ t \in m6
        BY <1>3, <1>5, <1>6
    <2>2. \A t \in m6' : r < t
        BY <1>7, <2>1
    <2> QED
        BY <1>4, <1>8, <2>1, <2>2
<1>10. /\ m1' \in {"none", "day_off", "unscheduled"} /\ m2' \in DayShifts
       /\ m3' \in BOOLEAN /\ m4' \in BOOLEAN
       /\ DOMAIN m5' \subseteq 0..(Moments - 1) /\ Cardinality(DOMAIN m5') <= MaxDayPunch
       /\ \A at \in DOMAIN m5' : m5'[at] \in {"in", "out"}
       /\ m6' \subseteq DOMAIN m5'
    BY <1>3, <1>4, <1>5, <1>2 DEF MirrorTypes
<1>11. CASE m5[r] = "in" \/ o = -1
    <2>1. m8' = m8 /\ m7' \in {-1} \cup DOMAIN m5'
        BY <1>2, <1>3, <1>7, <1>11
    <2>2. p[r] = "in" \/ \A d \in D : p[d] = "in" => \E e \in D : d < e /\ p[e] = "out"
        BY <1>2, <1>4, <1>11 DEF OpenIsLast
    <2>3. D \in SUBSET Nat
        BY <1>5
    <2>4. WorkedBy(p, D \cup {r}) = WorkedBy(p, D)
        BY <1>7, <2>2, <2>3, NothingWorked
    <2>5. SumsAre(m8', m5', D \cup {r}) /\ Near(m8')
        BY <1>2, <1>3, <1>4, <2>1, <2>4 DEF SumsAre
    <2>6. OpenIsLast(m5', D \cup {r}, m7')
        <3>1. CASE m5[r] = "in"
            <4>1. m7' = r /\ r # -1 /\ p[r] = "in" /\ \A d \in D \cup {r} : d <= r
                BY <1>2, <1>3, <1>5, <1>7, <3>1
            <4> QED
                BY <1>2, <1>3, <4>1 DEF OpenIsLast
        <3>2. CASE m5[r] # "in"
            <4>1. m7' = -1 /\ p[r] = "out"
                BY <1>2, <1>3, <1>5, <1>7, <3>2
            <4>2. \A d \in D \cup {r} : p[d] = "in" => \E e \in D \cup {r} : d < e /\ p[e] = "out"
                BY <1>7, <4>1
            <4> QED
                BY <1>2, <1>3, <4>1, <4>2 DEF OpenIsLast
        <3> QED
            BY <3>1, <3>2
    <2>7. MirrorTypes'
        BY <1>3, <1>4, <1>10, <2>1 DEF MirrorTypes
    <2> QED
        BY <1>8, <1>9, <2>5, <2>6, <2>7 DEF Mirrored
<1>12. CASE m5[r] # "in" /\ o # -1
    <2>1. PICK x : x = <<o, r>>
        OBVIOUS
    <2>2. m7' = -1 /\ m8' = Append(m8, x) /\ p[r] = "out"
        BY <1>2, <1>3, <1>5, <1>7, <1>12, <2>1
    <2>3. o \in D /\ p[o] = "in" /\ \A d \in D : d <= o
        BY <1>4, <1>12 DEF OpenIsLast
    <2>4. /\ WorkedBy(p, D \cup {r}) = WorkedBy(p, D) \cup o..(r - 1)
          /\ WorkedBy(p, D) \cap o..(r - 1) = {} /\ o < r
        <3>1. D \in SUBSET (0..(Moments - 1)) /\ r \in 0..(Moments - 1)
            BY <1>5, <1>7
        <3>2. \A d \in D : d < r
            BY <1>7
        <3>3. o \in D /\ p[o] = "in" /\ p[r] = "out" /\ \A d \in D : d <= o
            BY <2>2, <2>3
        <3> QED
            BY <3>1, <3>2, <3>3, ExitWorked
    <2>5. x \in PairType /\ x[1] = o /\ x[2] = r /\ o \in 0..(Moments - 1)
        BY <1>5, <1>7, <2>1, <2>3, <2>4 DEF PairType
    <2>6. /\ Mir!NightTotal(x) = Cardinality(AtNight(o..(r - 1))) /\ Mir!NightTotal(x) \in Nat
        BY <1>7, <2>1, <2>4, <2>5, NightOfPair
    <2>7. m8 \in Seq(PairType)
        BY <1>4 DEF MirrorTypes
    <2>8. PICK more : more = Append(m8, x)
        OBVIOUS
    <2>9. /\ more \in Seq(PairType) /\ Len(more) = Len(m8) + 1 /\ Len(m8) \in Nat
          /\ Mir!Total(MinutesOf(more)) = Mir!Total(MinutesOf(m8)) + (x[2] - x[1]) /\ Mir!Total(MinutesOf(m8)) \in Int
          /\ Mir!Total(NightsOf(more)) = Mir!Total(NightsOf(m8)) + Mir!NightTotal(x) /\ Mir!Total(NightsOf(m8)) \in Int
          /\ Mir!Total(RoundedOf(more)) = Mir!Total(RoundedOf(m8)) + ((24 * Mir!NightTotal(x) + 35) \div 70)
          /\ Mir!Total(RoundedOf(m8)) \in Int
        BY <2>5, <2>7, <2>8, PairsGrow
    <2>10. WorkedBy(p, D) \subseteq 0..(Moments - 1) /\ o..(r - 1) \subseteq 0..(Moments - 1)
        BY <1>5, <1>7, <2>5 DEF WorkedBy
    <2>11. Cardinality(WorkedBy(p, D \cup {r})) = Cardinality(WorkedBy(p, D)) + (r - o) /\ Cardinality(WorkedBy(p, D)) \in Nat
        <3>1. /\ Cardinality(WorkedBy(p, D \cup {r})) = Cardinality(WorkedBy(p, D)) + Cardinality(o..(r - 1))
              /\ Cardinality(WorkedBy(p, D)) \in Nat
            BY <2>4, <2>10, MomentsAdd
        <3>2. o \in Int /\ r \in Int
            BY <1>7, <2>5
        <3>3. Cardinality(o..(r - 1)) = IF o < r THEN r - o ELSE 0
            BY <3>2, IntervalIs
        <3> QED
            BY <2>4, <3>1, <3>3
    <2>12. Cardinality(AtNight(WorkedBy(p, D \cup {r}))) = Cardinality(AtNight(WorkedBy(p, D))) + Cardinality(AtNight(o..(r - 1)))
        <3>1. AtNight(WorkedBy(p, D \cup {r})) = AtNight(WorkedBy(p, D)) \cup AtNight(o..(r - 1))
            BY <2>4 DEF AtNight
        <3>2. AtNight(WorkedBy(p, D)) \cap AtNight(o..(r - 1)) = {}
            BY <2>4 DEF AtNight
        <3>3. AtNight(WorkedBy(p, D)) \subseteq 0..(Moments - 1) /\ AtNight(o..(r - 1)) \subseteq 0..(Moments - 1)
            BY <2>10 DEF AtNight
        <3> QED
            BY <3>1, <3>2, <3>3, MomentsAdd
    <2>13. SumsAre(more, p, D \cup {r})
        BY <1>4, <2>5, <2>6, <2>9, <2>11, <2>12 DEF SumsAre
    <2>14. Near(more)
        <3>1. PICK y, z : y \in Nat /\ y = Mir!NightTotal(x) /\ z = (24 * Mir!NightTotal(x) + 35) \div 70
            BY <2>6
        <3>2. z \in Int /\ 70 * z - 24 * y <= 35 /\ 24 * y - 70 * z <= 35
            BY <3>1, PairRounded
        <3>3. PICK n, a, b : n = Len(m8) /\ a = Mir!Total(RoundedOf(m8)) /\ b = Mir!Total(NightsOf(m8))
            OBVIOUS
        <3>4. /\ n \in Nat /\ a \in Int /\ b \in Int
              /\ 70 * a - 24 * b <= 35 * n /\ 24 * b - 70 * a <= 35 * n
            BY <1>4, <2>9, <3>3 DEF Near
        <3>5. Len(more) = n + 1 /\ Mir!Total(RoundedOf(more)) = a + z /\ Mir!Total(NightsOf(more)) = b + y
            BY <2>9, <3>1, <3>3
        <3>6. 70 * (a + z) - 24 * (b + y) <= 35 * (n + 1) /\ 24 * (b + y) - 70 * (a + z) <= 35 * (n + 1)
            <4>1. y \in Int /\ z \in Int /\ n \in Int /\ a \in Int /\ b \in Int
                BY <3>1, <3>2, <3>4
            <4>2. /\ 70 * (a + z) = 70 * a + 70 * z /\ 24 * (b + y) = 24 * b + 24 * y /\ 35 * (n + 1) = 35 * n + 35
                BY <4>1
            <4>3. PICK A, B, C, E, F : A = 70 * a /\ B = 70 * z /\ C = 24 * b /\ E = 24 * y /\ F = 35 * n
                OBVIOUS
            <4>4. A \in Int /\ B \in Int /\ C \in Int /\ E \in Int /\ F \in Int
                BY <4>1, <4>3
            <4>5. B - E <= 35 /\ E - B <= 35 /\ A - C <= F /\ C - A <= F
                BY <3>2, <3>4, <4>3
            <4>6. (A + B) - (C + E) <= F + 35 /\ (C + E) - (A + B) <= F + 35
                BY <4>4, <4>5
            <4> QED
                BY <4>2, <4>3, <4>6
        <3> QED
            BY <3>5, <3>6 DEF Near
    <2>15. OpenIsLast(m5', D \cup {r}, m7')
        <3>1. \A d \in D \cup {r} : p[d] = "in" => \E e \in D \cup {r} : d < e /\ p[e] = "out"
            BY <1>7, <2>2
        <3> QED
            BY <1>2, <1>3, <2>2, <3>1 DEF OpenIsLast
    <2>16. \A i \in DOMAIN m8' : m8'[i][1] \in DOMAIN m5' /\ m8'[i][2] \in DOMAIN m5'
        <3>1. /\ DOMAIN m8 = 1..Len(m8) /\ DOMAIN more = 1..(Len(m8) + 1) /\ Len(m8) \in Nat
              /\ \A i \in 1..Len(m8) : more[i] = m8[i]
              /\ more[Len(m8) + 1] = x
            BY <2>5, <2>7, <2>8, AppendTo
        <3>2. \A i \in DOMAIN m8 : m8[i][1] \in DOMAIN m5 /\ m8[i][2] \in DOMAIN m5
            BY <1>4 DEF MirrorTypes
        <3>3. o \in DOMAIN m5 /\ r \in DOMAIN m5
            BY <1>2, <1>7, <2>3
        <3>4. ASSUME NEW i \in DOMAIN more PROVE more[i][1] \in DOMAIN m5 /\ more[i][2] \in DOMAIN m5
            <4>1. i \in 1..Len(m8) \/ i = Len(m8) + 1
                BY <3>1
            <4> QED
                BY <2>5, <3>1, <3>2, <3>3, <4>1
        <3> QED
            BY <1>3, <2>2, <2>8, <3>4
    <2>17. MirrorTypes'
        BY <1>10, <2>2, <2>8, <2>9, <2>16 DEF MirrorTypes
    <2> QED
        BY <1>2, <1>3, <1>8, <1>9, <2>2, <2>8, <2>13, <2>14, <2>15, <2>17 DEF Mirrored
<1> QED
    BY <1>11, <1>12

LEMMA MirroredKept == Mirrored /\ [Mir!Next]_mirror => Mirrored'
<1> SUFFICES ASSUME Mirrored, [Mir!Next]_mirror PROVE Mirrored'
    OBVIOUS
<1>1. CASE Mir!Next
    BY <1>1, PairKeeps DEF Mir!Next
<1>2. CASE UNCHANGED mirror
    BY <1>2 DEF mirror, Mirrored, MirrorTypes
<1> QED
    BY <1>1, <1>2

------------------------------------------------------------------------------
(* What is made of the day.                                                *)

LEMMA MirrorTyped == Mirrored => Mir!TypeOK
<1> SUFFICES ASSUME Mirrored PROVE Mir!TypeOK
    OBVIOUS
<1>1. MirrorTypes
    BY DEF Mirrored
<1>2. Mir!Cardinality(DOMAIN m5) <= MaxDayPunch
    BY <1>1, MirrorCardinality DEF MirrorTypes
<1>3. \A i \in DOMAIN m8 : {m8[i][1], m8[i][2]} \subseteq DOMAIN m5
    BY <1>1 DEF MirrorTypes
<1> QED
    BY <1>1, <1>2, <1>3 DEF MirrorTypes, Mir!TypeOK

\* When every punch has been reached, the pairs are what was worked.
LEMMA DayIsPaired ==
    ASSUME Mirrored, m6 = {}
    PROVE  /\ Mir!WorkedMinutes = Cardinality(Mir!Worked)
           /\ Mir!Total(NightsOf(m8)) = Cardinality(Mir!WorkedAtNight)
           /\ Near(m8)
<1>1. DOMAIN m5 \ m6 = DOMAIN m5
    OBVIOUS
<1>2. SumsAre(m8, m5, DOMAIN m5) /\ Near(m8)
    BY <1>1 DEF Mirrored
<1>3. Mir!Worked = WorkedBy(m5, DOMAIN m5)
    BY DEF Mir!Worked, Mir!IsWorked, WorkedBy
<1>4. Mir!WorkedAtNight = AtNight(Mir!Worked)
    BY DEF Mir!WorkedAtNight, AtNight
<1>5. Mir!WorkedMinutes = Mir!Total(MinutesOf(m8))
    BY DEF Mir!WorkedMinutes, MinutesOf
<1> QED
    BY <1>2, <1>3, <1>4, <1>5 DEF SumsAre

LEMMA PairsWorked == Mirrored => Mir!PairsAreWorked
<1> SUFFICES ASSUME Mirrored, m6 = {}
             PROVE  /\ Mir!WorkedMinutes = Mir!Cardinality(Mir!Worked)
                    /\ Mir!Total([i \in DOMAIN m8 |-> Mir!NightTotal(m8[i])]) = Mir!Cardinality(Mir!WorkedAtNight)
    BY DEF Mir!PairsAreWorked
<1>1. NightsOf(m8) = [i \in DOMAIN m8 |-> Mir!NightTotal(m8[i])]
    BY DEF NightsOf
<1> QED
    BY <1>1, DayIsPaired, MirrorCardinality

LEMMA NightRounded == Mirrored => Mir!NightIsRounded
<1> SUFFICES ASSUME Mirrored, m6 = {}
             PROVE  /\ 70 * Mir!NightDifferential - 24 * Mir!Cardinality(Mir!WorkedAtNight) <= 35 * Len(m8)
                    /\ 24 * Mir!Cardinality(Mir!WorkedAtNight) - 70 * Mir!NightDifferential <= 35 * Len(m8)
    BY DEF Mir!NightIsRounded
<1>1. Mir!NightDifferential = Mir!Total(RoundedOf(m8))
    BY DEF Mir!NightDifferential, RoundedOf
<1>2. Mir!Cardinality(Mir!WorkedAtNight) = Mir!Total(NightsOf(m8)) /\ Near(m8)
    BY DayIsPaired, MirrorCardinality
<1> QED
    BY <1>1, <1>2 DEF Near

\* The moments of a shift are fewer than those of a day: none is counted twice in
\* a break.
LEMMA BreakIsCounted ==
    ASSUME NEW S \in Nat, NEW A \in 0..(S - 1), NEW L \in Nat, A <= L, L - A < S,
           NEW b \in 0..(S - 1), NEW e \in 0..(S - 1), b <= e,
           \A k \in b..(e - 1) : \E t \in A..(L - 1) : t % S = k
    PROVE  Cardinality({t \in A..(L - 1) : t % S \notin b..(e - 1)}) = L - A - (e - b) /\ e - b <= L - A
<1> DEFINE J == {t \in A..(L - 1) : t % S \in b..(e - 1)}
           K == b..(e - 1)
           N == {t \in A..(L - 1) : t % S \notin b..(e - 1)}
           f == [t \in J |-> t % S]
<1>1. S \in Nat \ {0} /\ A \in Nat /\ b \in Nat /\ e \in Nat
    OBVIOUS
<1>2. ASSUME NEW t \in A..(L - 1) PROVE t % S = IF t < S THEN t ELSE t - S
    <2>1. t \in Nat /\ t < S + S
        BY <1>1, <1>2
    <2>2. CASE t < S
        <3>1. t \in 0..(S - 1) /\ 0 * S + t = t
            BY <1>1, <2>1, <2>2
        <3>2. (0 * S + t) % S = t
            BY <1>1, <3>1, Rebuilt
        <3> QED
            BY <2>2, <3>1, <3>2
    <2>3. CASE ~(t < S)
        <3>1. PICK w : w = t - S
            OBVIOUS
        <3>2. w \in 0..(S - 1) /\ 1 * S + w = t
            BY <1>1, <2>1, <2>3, <3>1
        <3>3. (1 * S + w) % S = w
            BY <1>1, <3>2, Rebuilt
        <3> QED
            BY <2>3, <3>1, <3>2, <3>3
    <2> QED
        BY <2>2, <2>3
<1>3. IsFiniteSet(A..(L - 1)) /\ Cardinality(A..(L - 1)) = L - A
    <2>1. A \in Int /\ L \in Int /\ L - 1 \in Int
        BY <1>1
    <2>2. Cardinality(A..(L - 1)) = IF A < L THEN L - A ELSE 0
        BY <2>1, IntervalIs
    <2>3. IsFiniteSet(A..(L - 1))
        BY <2>1, FS_Interval
    <2> QED
        BY <1>1, <2>2, <2>3
<1>4. IsFiniteSet(K) /\ Cardinality(K) = e - b
    <2>1. b \in Int /\ e \in Int /\ e - 1 \in Int
        BY <1>1
    <2>2. Cardinality(b..(e - 1)) = IF b < e THEN e - b ELSE 0
        BY <2>1, IntervalIs
    <2>3. IsFiniteSet(b..(e - 1))
        BY <2>1, FS_Interval
    <2> QED
        BY <1>1, <2>2, <2>3
<1>5. IsFiniteSet(J) /\ IsFiniteSet(N)
    BY <1>3, FS_Subset
<1>6. f \in Bijection(J, K)
    <2>1. f \in [J -> K]
        OBVIOUS
    <2>2. ASSUME NEW t \in J, NEW u \in J, f[t] = f[u] PROVE t = u
        <3>1. t % S = u % S /\ t \in A..(L - 1) /\ u \in A..(L - 1)
            BY <2>2
        <3>2. (IF t < S THEN t ELSE t - S) = (IF u < S THEN u ELSE u - S)
            BY <1>2, <3>1
        <3> QED
            BY <1>1, <3>1, <3>2
    <2>3. ASSUME NEW k \in K PROVE \E t \in J : f[t] = k
        <3>1. PICK t \in A..(L - 1) : t % S = k
            OBVIOUS
        <3>2. t \in J /\ f[t] = k
            BY <3>1
        <3> QED
            BY <3>2
    <2> HIDE DEF f, J, K
    <2> QED
        BY <2>1, <2>2, <2>3 DEF Bijection, Injection, Surjection, IsInjective
<1>7. Cardinality(J) = Cardinality(K)
    <2> HIDE DEF f, J, K
    <2> QED
        BY <1>4, <1>5, <1>6, FS_Bijection DEF ExistsBijection
<1>8. J \cup N = A..(L - 1) /\ J \cap N = {}
    OBVIOUS
<1>9. Cardinality(J \cup N) = Cardinality(J) + Cardinality(N) - Cardinality(J \cap N)
    <2> HIDE DEF J, N
    <2> QED
        BY <1>5, FS_Union
<1>10. Cardinality(N) \in Nat /\ Cardinality(J) \in Nat /\ Cardinality(J \cap N) = 0
    <2> HIDE DEF J, N
    <2> QED
        BY <1>5, <1>8, FS_CardinalityType, FS_EmptySet
<1> HIDE DEF J, N, K
<1>11. Cardinality(N) = L - A - (e - b) /\ e - b <= L - A
    <2>1. PICK x, y : x = Cardinality(J) /\ y = Cardinality(N)
        OBVIOUS
    <2>2. x \in Nat /\ y \in Nat /\ x = e - b /\ L - A = x + y - 0
        BY <1>3, <1>4, <1>7, <1>8, <1>9, <1>10, <2>1
    <2> QED
        BY <1>1, <2>1, <2>2
<1> QED
    BY <1>11 DEF N

LEMMA ExpectedScheduled == Mirrored => Mir!ExpectedIsScheduled
<1> SUFFICES ASSUME Mirrored PROVE Mir!ExpectedIsScheduled
    OBVIOUS
<1>1. PICK S, A, B, b, e : S = Moments /\ A = m2.start /\ B = m2.end /\ b = m2.breakStart /\ e = m2.breakEnd
    OBVIOUS
<1>2. S \in Nat /\ A \in 0..(S - 1) /\ B \in 0..(S - 1) /\ b \in 0..(S - 1) /\ e \in 0..(S - 1)
    BY <1>1, MomentsAre DEF Mirrored, MirrorTypes
<1>3. PICK L : L = IF B < A THEN B + S ELSE B
    OBVIOUS
<1>4. /\ L \in Nat /\ A <= L /\ L - A < S
      /\ B - 1 + (IF B < A THEN S ELSE 0) = L - 1 /\ B - A + (IF B < A THEN S ELSE 0) = L - A
    BY <1>2, <1>3
<1>5. SUFFICES ASSUME m1 = "none", b <= e, \A k \in b..(e - 1) : \E t \in A..(L - 1) : t % S = k
               PROVE  Mir!ExpectedMinutes = Mir!Cardinality({t \in A..(L - 1) : t % S \notin b..(e - 1)})
    BY <1>1, <1>4 DEF Mir!ExpectedIsScheduled
<1>6. Cardinality({t \in A..(L - 1) : t % S \notin b..(e - 1)}) = L - A - (e - b) /\ e - b <= L - A
    BY <1>2, <1>4, <1>5, BreakIsCounted
<1>7. Mir!ExpectedMinutes = Mir!Bigger(0, L - A - Mir!Bigger(0, e - b))
    BY <1>1, <1>4, <1>5 DEF Mir!ExpectedMinutes, Mir!ShiftExpected
<1>8. Mir!Bigger(0, e - b) = e - b
    BY <1>2, <1>5 DEF Mir!Bigger
<1>9. Mir!Bigger(0, L - A - (e - b)) = L - A - (e - b)
    BY <1>2, <1>4, <1>6 DEF Mir!Bigger
<1> QED
    BY <1>6, <1>7, <1>8, <1>9, MirrorCardinality

LEMMA ExpectedIs == Mirrored => Mir!ExpectedMinutes \in Nat
<1> SUFFICES ASSUME Mirrored PROVE Mir!ExpectedMinutes \in Nat
    OBVIOUS
<1>1. PICK S, A, B, b, e : S = Moments /\ A = m2.start /\ B = m2.end /\ b = m2.breakStart /\ e = m2.breakEnd
    OBVIOUS
<1>2. S \in Nat /\ A \in 0..(S - 1) /\ B \in 0..(S - 1) /\ b \in 0..(S - 1) /\ e \in 0..(S - 1)
    BY <1>1, MomentsAre DEF Mirrored, MirrorTypes
<1>3. PICK T : T = B - A + IF B < A THEN S ELSE 0
    OBVIOUS
<1>4. T \in Int
    BY <1>2, <1>3
<1>5. Mir!ShiftExpected(m2) = Mir!Bigger(0, T - Mir!Bigger(0, e - b))
    BY <1>1, <1>3 DEF Mir!ShiftExpected
<1>6. PICK K : K = Mir!Bigger(0, e - b) /\ K \in Int
    BY <1>2 DEF Mir!Bigger
<1>7. Mir!Bigger(0, T - K) \in Nat
    BY <1>4, <1>6 DEF Mir!Bigger
<1> QED
    BY <1>5, <1>6, <1>7 DEF Mir!ExpectedMinutes

LEMMA PaidBanked == Mirrored => Mir!PaidOrBanked
<1> SUFFICES ASSUME Mirrored, m6 = {}, ~(m4 /\ Mir!IsRestDay /\ Mir!ExpectedMinutes > 0)
             PROVE  /\ Mir!BankBalance + (IF m4 THEN Mir!Overtime50 + Mir!Overtime100 ELSE 0) = Mir!Balance
                    /\ m4 => Mir!BankBalance = -Mir!Debit
    BY DEF Mir!PaidOrBanked
<1>1. PICK w, x : w = Mir!WorkedMinutes /\ x = Mir!ExpectedMinutes
    OBVIOUS
<1>2. w \in Nat /\ x \in Nat
    <2>1. Mir!WorkedMinutes = Cardinality(Mir!Worked)
        BY DayIsPaired
    <2>2. Mir!Worked \subseteq 0..(Moments - 1)
        BY DEF Mir!Worked
    <2>3. IsFiniteSet(0..(Moments - 1))
        BY MomentsAre, FS_Interval
    <2>4. IsFiniteSet(Mir!Worked)
        BY <2>2, <2>3, FS_Subset
    <2>5. Cardinality(Mir!Worked) \in Nat
        BY <2>4, FS_CardinalityType
    <2> QED
        BY <1>1, <2>1, <2>5, ExpectedIs
<1>3. Mir!Balance = w - x
    BY <1>1 DEF Mir!Balance
<1>4. Mir!Credit = (IF x < w THEN w - x ELSE 0) /\ Mir!Debit = IF w < x THEN x - w ELSE 0
    BY <1>2, <1>3 DEF Mir!Credit, Mir!Debit, Mir!Bigger
<1>5. m4 \in BOOLEAN
    BY DEF Mirrored, MirrorTypes
<1>6. CASE ~m4
    BY <1>1, <1>2, <1>3, <1>6 DEF Mir!BankBalance
<1>7. CASE m4 /\ Mir!IsRestDay
    <2>1. x = 0
        BY <1>1, <1>2, <1>7
    <2>2. Mir!Credit = w /\ Mir!Debit = 0
        BY <1>2, <1>4, <2>1
    <2>3. Mir!Overtime50 = 0 /\ Mir!Overtime100 = w
        BY <1>7, <2>2 DEF Mir!Overtime50, Mir!Overtime100
    <2>4. Mir!BankBalance = w - x - w
        BY <1>1, <1>7 DEF Mir!BankBalance
    <2>5. PICK d, c, v : d = Mir!Debit /\ c = Mir!Overtime50 /\ v = Mir!Overtime100
        OBVIOUS
    <2>6. d = 0 /\ c = 0 /\ v = w
        BY <2>2, <2>3, <2>5
    <2>7. w - x - w = 0 /\ c + v = w /\ w - x = w /\ -d = 0 /\ 0 + w = w
        <3>1. w - x - w = 0
            BY <1>2, <2>1
        <3>2. w - x = w
            BY <1>2, <2>1
        <3>3. c + v = w /\ 0 + w = w
            BY <1>2, <2>6
        <3>4. -d = 0
            <4>1. \A z \in Int : z <= 0 /\ 0 <= z => -z = 0
                OBVIOUS
            <4>2. d \in Int /\ d <= 0 /\ 0 <= d
                BY <2>6
            <4> QED
                BY <4>1, <4>2
        <3> QED
            BY <3>1, <3>2, <3>3, <3>4
    <2>8. Mir!BankBalance = 0 /\ Mir!Balance = w /\ -Mir!Debit = 0 /\ Mir!Overtime50 + Mir!Overtime100 = w
        BY <1>3, <2>4, <2>5, <2>7
    <2> QED
        BY <1>7, <2>7, <2>8
<1>8. CASE m4 /\ ~Mir!IsRestDay
    <2>1. Mir!Overtime50 = Mir!Credit /\ Mir!Overtime100 = 0
        BY <1>8 DEF Mir!Overtime50, Mir!Overtime100
    <2>2. Mir!BankBalance = w - x - Mir!Credit
        BY <1>1, <1>8 DEF Mir!BankBalance
    <2> QED
        BY <1>2, <1>3, <1>4, <1>8, <2>1, <2>2
<1> QED
    BY <1>5, <1>6, <1>7, <1>8

LEMMA MirrorRight == Mirrored => Mir!MirrorIsRight
    BY PairsWorked, ExpectedScheduled, NightRounded, PaidBanked DEF Mir!MirrorIsRight

------------------------------------------------------------------------------
(* The areas together.  Every one moves while the others stand still.       *)

AreasAreSound == IInv /\ Plans /\ Judgement /\ Timed /\ Mirrored

LEMMA AreasInit == MCInit => AreasAreSound
<1> SUFFICES ASSUME MCInit PROVE AreasAreSound
    OBVIOUS
<1>1. IInv
    BY InitOK DEF MCInit
<1>2. Plans
    BY PlanInit DEF MCInit
<1>3. Judgement
    BY JudgementInit DEF MCInit
<1>4. Timed
    BY CountedInit DEF MCInit
<1>5. Mirrored
    BY MirroredInit DEF MCInit
<1> QED
    BY <1>1, <1>2, <1>3, <1>4, <1>5 DEF AreasAreSound

LEMMA AreasKept == AreasAreSound /\ [MCNext]_<<area, vars, plan, judged, sla, mirror>> => AreasAreSound'
<1> SUFFICES ASSUME AreasAreSound, [MCNext]_<<area, vars, plan, judged, sla, mirror>> PROVE AreasAreSound'
    OBVIOUS
<1>1. /\ [Next]_vars /\ [Sch!Next]_plan /\ [Pst!Next]_judged
      /\ [Ddl!Next]_sla /\ [Mir!Next]_mirror
    BY DEF MCNext
<1>2. IInv'
    BY <1>1, NextKeeps DEF AreasAreSound
<1>3. Plans'
    BY <1>1, PlanStepKeeps DEF AreasAreSound
<1>4. Judgement'
    BY <1>1, JudgementKept DEF AreasAreSound
<1>5. Timed'
    BY <1>1, CountedKept DEF AreasAreSound
<1>6. Mirrored'
    BY <1>1, MirroredKept DEF AreasAreSound
<1> QED
    BY <1>2, <1>3, <1>4, <1>5, <1>6 DEF AreasAreSound

\* However the areas take turns, the invariant of each of them holds.
THEOREM AreasAreSoundHolds == MCSpec => []AreasAreSound
    BY AreasInit, AreasKept, PTL DEF MCSpec

\* A punch is judged by the shift that it belongs to, a deadline comes after as
\* many hours of work as were asked for, and the mirror of a day counts what was
\* worked, by day and at night: for any schedule, calendar and punches.
THEOREM RulesAreRightHolds == MCSpec => []RulesAreRight
<1>1. AreasAreSound => RulesAreRight
    BY StatusJudged, MirrorRight DEF AreasAreSound, Timed, RulesAreRight
<1> QED
    BY <1>1, AreasAreSoundHolds, PTL

LEMMA PlansAreTyped == Plans => Sch!TypeOK
<1> SUFFICES ASSUME Plans PROVE Sch!TypeOK
    OBVIOUS
<1>1. shifts \subseteq Shift /\ stray \subseteq Shift /\ DOMAIN edit = Request /\ entries \in Calendars /\ generated \in EditType
      /\ asked \in [Sch!Day -> SUBSET (Shift \cup {Off})] /\ crossed \in BOOLEAN
    BY DEF Plans, PlanTypes
<1>2. DOMAIN generated = {"op", "first", "last", "shift", "pattern", "seen"}
    BY <1>1 DEF EditType
<1>3. DOMAIN Sch!NoEdit = {"op", "first", "last", "shift", "pattern", "seen"}
    BY NoEditType DEF EditType
<1> QED
    BY <1>1, <1>2, <1>3 DEF Sch!TypeOK, Calendars, Entries

\* Every area keeps its types.
THEOREM MCTypeCorrect == MCSpec => []MCTypeOK
<1>1. AreasAreSound => MCTypeOK
    BY PlansAreTyped, MirrorTyped DEF AreasAreSound, IInv, Judgement, Timed, MCTypeOK
<1> QED
    BY <1>1, AreasAreSoundHolds, PTL

\* A behaviour of the group is one of the hour bank, and has the properties that
\* are proved of it.
THEOREM GroupImplements == MCSpec => Spec
<1>1. MCInit => Init
    BY DEF MCInit
<1>2. [MCNext]_<<area, vars, plan, judged, sla, mirror>> => [Next]_vars
    BY DEF MCNext
<1> QED
    BY <1>1, <1>2, PTL DEF MCSpec, Spec
===============================================================================
