------------------------------ MODULE FormProofs ------------------------------
(***************************************************************************)
(* For any sessions and any number of rows, whatever is typed, chosen and  *)
(* answered: after every key an open form is settled (FormSettled), and    *)
(* what it asks for is what was meant (SubmitIsMeant).                     *)
(*                                                                         *)
(* The inductive invariant is Settled: what is shown is what the rules     *)
(* say of the values, the focus is on a field that takes it, its row is    *)
(* there, and every choice an operation reads is one that was offered.     *)
(* That one pass over the rules is enough (OnePass) rests on their order:  *)
(* no rule sets what an earlier one depends on (Ordered).  The rules and   *)
(* the fields of each kind are therefore taken apart first: which fields   *)
(* it has, when each is shown, and that its operation reads none that is   *)
(* hidden.                                                                 *)
(***************************************************************************)
EXTENDS Form, FiniteSetTheorems, WellFoundedInduction, TLAPS

\* Every nonempty set of numbers has a least one: induction by least counterexample.
LEMMA Least == ASSUME NEW T, T \subseteq Nat, T # {} PROVE \E n \in T : \A k \in T : n <= k
<1> DEFINE R == OpToRel(<, Nat)
<1>1. IsWellFoundedOn(R, Nat)
  BY NatLessThanWellFounded
<1>2. \A x, y \in Nat : <<y, x>> \in R <=> y < x
  BY DEF OpToRel
<1> HIDE DEF R
<1>3. \E x \in T : \A y \in T : ~ (<<y, x>> \in R)
  BY <1>1, WFMin, Zenon
<1>4. \A x, y \in T : <<y, x>> \in R <=> y < x
  BY <1>2
<1>5. PICK x \in T : \A y \in T : ~ (y < x)
  BY <1>3, <1>4
<1>6. \A y \in T : x <= y
  BY <1>5
<1> QED
  BY <1>6

-----------------------------------------------------------------------------
(* The forms: one pass over the rules is enough, in the order they are in.   *)

IsSeq(s) == \E S : s \in Seq(S)

\* No rule comes after one that depends on its field.
Ordered(rules) == \A j, k \in DOMAIN rules : rules[j].target = rules[k].on => j < k

\* after[k] is what is shown once the first k rules were applied.
Step(rules, k, before) ==
  LET rule == rules[k]
      seen == \E j \in 1..(k - 1) : rules[j].target = rule.target
  IN IF (rule.when /\ rule.on \in before) \/ (seen /\ rule.target \in before)
     THEN before \union {rule.target} ELSE before \ {rule.target}
Passes(after, rules, shown, N) ==
  /\ after = [k \in 0..N |-> after[k]]
  /\ \A k \in 0..N : after[k] = IF k = 0 THEN shown ELSE Step(rules, k, after[k - 1])

LEMMA PassesExist == ASSUME NEW rules, NEW shown, NEW N \in Nat PROVE \E after : Passes(after, rules, shown, N)
<1> DEFINE T == {n \in Nat : ~ \E after : Passes(after, rules, shown, n)}
<1> SUFFICES ASSUME T # {} PROVE FALSE
  OBVIOUS
<1>1. PICK n \in T : \A m \in T : n <= m
  BY Least
<1>2. CASE n = 0
  <2> DEFINE after == [m \in 0..0 |-> shown]
  <2>1. Passes(after, rules, shown, 0)
    BY DEF Passes
  <2> QED
    BY <1>2, <2>1
<1>3. CASE n # 0
  <2>1. n \in Nat /\ n - 1 \in Nat /\ n - 1 \notin T
    BY <1>1, <1>3
  <2>2. PICK after : Passes(after, rules, shown, n - 1)
    BY <2>1
  <2> DEFINE last == Step(rules, n, after[n - 1])
             longer == [m \in 0..n |-> IF m = n THEN last ELSE after[m]]
  <2>3. \A m \in 0..(n - 1) : longer[m] = after[m] /\ (m # 0 => longer[m - 1] = after[m - 1])
    BY <2>1
  <2>4. longer[n] = last /\ longer[n - 1] = after[n - 1] /\ longer = [m \in 0..n |-> longer[m]]
    BY <2>1
  <2> HIDE DEF longer
  <2>5. \A m \in 0..n : m = n \/ m \in 0..(n - 1)
    BY <2>1
  <2>6. Passes(longer, rules, shown, n)
    BY <1>3, <2>1, <2>2, <2>3, <2>4, <2>5 DEF Passes
  <2> QED
    BY <2>6
<1> QED
  BY <1>2, <1>3

LEMMA AppliedPasses ==
  ASSUME NEW rules, NEW shown, Len(rules) \in Nat
  PROVE  \E after : Passes(after, rules, shown, Len(rules)) /\ Applied(rules, shown) = after[Len(rules)]
<1> DEFINE Def(a) == [k \in 0..Len(rules) |->
              IF k = 0 THEN shown
              ELSE LET before == a[k - 1]
                       rule == rules[k]
                       seen == \E j \in 1..(k - 1) : rules[j].target = rule.target
                   IN IF (rule.when /\ rule.on \in before) \/ (seen /\ rule.target \in before)
                      THEN before \union {rule.target} ELSE before \ {rule.target}]
           after == CHOOSE a : a = Def(a)
<1>1. \E a : a = Def(a)
  <2>1. PICK a : Passes(a, rules, shown, Len(rules))
    BY PassesExist
  <2> QED
    BY <2>1 DEF Passes, Step
<1>2. after = Def(after)
  BY <1>1, Zenon
<1>3. Applied(rules, shown) = after[Len(rules)]
  BY Zenon DEF Applied
<1> HIDE DEF after
<1>4. Passes(after, rules, shown, Len(rules))
  BY <1>2 DEF Passes, Step
<1> QED
  BY <1>3, <1>4

\* After the pass a field with rules is shown if one of them says so, of what is shown
\* then; a field without is as it was.
LEMMA OnePass ==
  ASSUME NEW rules, IsSeq(rules), Ordered(rules), NEW shown
  PROVE  \A name :
           name \in Applied(rules, shown) <=>
             IF \E j \in DOMAIN rules : rules[j].target = name
             THEN \E j \in DOMAIN rules : rules[j].target = name /\ rules[j].when /\ rules[j].on \in Applied(rules,
               shown)
             ELSE name \in shown
<1> DEFINE N == Len(rules)
<1>1. PICK after : Passes(after, rules, shown, N) /\ Applied(rules, shown) = after[N]
  BY AppliedPasses DEF IsSeq
<1>2. N \in Nat /\ DOMAIN rules = 1..N
  BY DEF IsSeq
<1> DEFINE Mine(k, name) == \E j \in 1..k : rules[j].target = name
           Says(k, name) == \E j \in 1..k : rules[j].target = name /\ rules[j].when /\ rules[j].on \in after[k]
           Good(k) == \A name : name \in after[k] <=> IF Mine(k, name) THEN Says(k, name) ELSE name \in shown
           T == {k \in 0..N : ~ Good(k)}
<1>3. Good(0)
  BY <1>1, <1>2 DEF Passes
<1>4. ASSUME NEW k \in 1..N, Good(k - 1) PROVE Good(k)
  <2> DEFINE t == rules[k].target
  <2>1. after[k] = Step(rules, k, after[k - 1])
    BY <1>1, <1>2 DEF Passes
  <2>2. \A name : name # t => (name \in after[k] <=> name \in after[k - 1])
    BY <2>1 DEF Step
  <2>3. \A j \in 1..k : rules[j].on # t
    BY <1>2 DEF Ordered
  <2>4. t \in after[k] <=> (rules[k].when /\ rules[k].on \in after[k - 1]) \/ (Mine(k - 1, t) /\ t \in after[k - 1])
    BY <2>1 DEF Step
  <2>5. \A j \in 1..k : j = k \/ j \in 1..(k - 1)
    BY <1>2
  <2>6. k \in 1..k /\ \A j \in 1..(k - 1) : j \in 1..k
    BY <1>2
  <2>7. \A name : name # t => (Mine(k, name) <=> Mine(k - 1, name)) /\ (Says(k, name) <=> Says(k - 1, name))
    BY <2>2, <2>3, <2>5, <2>6
  <2>8. ASSUME NEW name, name # t
        PROVE  name \in after[k] <=> IF Mine(k, name) THEN Says(k, name) ELSE name \in shown
    BY <2>2, <2>7, <2>8, <1>4
  <2>9. Says(k, t) <=> (rules[k].when /\ rules[k].on \in after[k - 1]) \/ Says(k - 1, t)
    BY <1>2, <2>2, <2>3, <2>5, <2>6
  <2>10. Mine(k, t)
    BY <2>6
  <2>11. Says(k - 1, t) => Mine(k - 1, t)
    OBVIOUS
  <2>12. t \in after[k] <=> Says(k, t)
    BY <2>4, <2>9, <2>11, <1>4
  <2> HIDE DEF t
  <2> QED
    BY <2>8, <2>10, <2>12
<1>5. T = {}
  <2> SUFFICES ASSUME T # {} PROVE FALSE
    OBVIOUS
  <2>1. T \subseteq Nat
    BY <1>2
  <2>2. PICK k \in T : \A m \in T : k <= m
    <3> HIDE DEF T
    <3> QED
      BY <2>1, Least
  <2>3. k \in 0..N /\ ~ Good(k)
    OBVIOUS
  <2> HIDE DEF Good
  <2>4. k # 0 /\ k \in 1..N /\ k - 1 \in 0..N
    BY <1>2, <1>3, <2>3
  <2>5. k - 1 \notin T
    BY <1>2, <2>2, <2>4
  <2>6. Good(k - 1)
    BY <2>4, <2>5
  <2> QED
    BY <1>4, <2>3, <2>4, <2>6
<1>6. Good(N)
  <2> HIDE DEF Good
  <2> QED
    BY <1>2, <1>5
<1> QED
  BY <1>1, <1>2, <1>6

-----------------------------------------------------------------------------
(* Records laid over each other.                                             *)

LEMMA Merge ==
  ASSUME NEW f, NEW g
  PROVE  /\ DOMAIN (f ++ g) = DOMAIN f \union DOMAIN g
         /\ \A x \in DOMAIN f : (f ++ g)[x] = f[x]
         /\ \A x \in DOMAIN g : x \notin DOMAIN f => (f ++ g)[x] = g[x]
BY DEF ++

-----------------------------------------------------------------------------
(* Sequences and the sets of their elements.                                 *)

LEMMA Cut ==
  ASSUME NEW s, NEW t, IsSeq(s), IsSeq(t)
  PROVE  \A i \in DOMAIN (s \o t) :
           \/ i \in DOMAIN s /\ (s \o t)[i] = s[i]
           \/ i > Len(s) /\ i - Len(s) \in DOMAIN t /\ (s \o t)[i] = t[i - Len(s)]
<1> SUFFICES ASSUME NEW i \in DOMAIN (s \o t)
             PROVE  \/ i \in DOMAIN s /\ (s \o t)[i] = s[i]
                    \/ i > Len(s) /\ i - Len(s) \in DOMAIN t /\ (s \o t)[i] = t[i - Len(s)]
  OBVIOUS
<1>8. PICK S : s \in Seq(S)
  BY DEF IsSeq
<1>7. PICK T : t \in Seq(T)
  BY DEF IsSeq
<1> DEFINE U == S \union T
           n == Len(s)
<1>1. s \in Seq(U) /\ t \in Seq(U)
  BY <1>8, <1>7
<1>2. n \in Nat /\ Len(t) \in Nat /\ DOMAIN s = 1..n /\ DOMAIN t = 1..Len(t) /\ DOMAIN (s \o t) = 1..(n + Len(t))
  BY <1>1
<1>3. \A j \in 1..n : (s \o t)[j] = s[j]
  BY <1>1
<1>4. \A j \in 1..Len(t) : (s \o t)[n + j] = t[j]
  BY <1>1
<1> HIDE DEF n
<1>5. CASE i <= n
  BY <1>2, <1>3, <1>5 DEF n
<1>6. CASE i > n
  <2>1. i - n \in 1..Len(t) /\ n + (i - n) = i
    BY <1>2, <1>6
  <2>2. (s \o t)[i] = t[i - n]
    BY <1>4, <2>1
  <2> QED
    BY <1>2, <1>6, <2>1, <2>2 DEF n
<1> QED
  BY <1>2, <1>5, <1>6

LEMMA Joined ==
  ASSUME NEW s, NEW t, IsSeq(s), IsSeq(t)
  PROVE  IsSeq(s \o t) /\ ToSet(s \o t) = ToSet(s) \union ToSet(t)
<1>1. PICK S : s \in Seq(S)
  BY DEF IsSeq
<1>2. PICK T : t \in Seq(T)
  BY DEF IsSeq
<1>3. s \in Seq(S \union T) /\ t \in Seq(S \union T)
  BY <1>1, <1>2
<1>4. IsSeq(s \o t)
  BY <1>3 DEF IsSeq
<1>5. \A i \in DOMAIN s : i \in DOMAIN (s \o t) /\ (s \o t)[i] = s[i]
  BY <1>3
<1>6. \A i \in DOMAIN t : Len(s) + i \in DOMAIN (s \o t) /\ (s \o t)[Len(s) + i] = t[i]
  BY <1>3
<1>7. \A i \in DOMAIN (s \o t) :
        \/ i \in DOMAIN s /\ (s \o t)[i] = s[i]
        \/ i > Len(s) /\ i - Len(s) \in DOMAIN t /\ (s \o t)[i] = t[i - Len(s)]
  BY Cut, Zenon
<1> QED
  BY <1>4, <1>5, <1>6, <1>7 DEF ToSet

LEMMA JoinedOrdered ==
  ASSUME NEW s, NEW t, IsSeq(s), IsSeq(t), Ordered(s), Ordered(t),
         \A q \in ToSet(s), r \in ToSet(t) : r.target # q.on
  PROVE  Ordered(s \o t)
<1>1. PICK S : s \in Seq(S)
  BY DEF IsSeq
<1>2. PICK T : t \in Seq(T)
  BY DEF IsSeq
<1>3. s \in Seq(S \union T) /\ t \in Seq(S \union T)
  BY <1>1, <1>2
<1> DEFINE n == Len(s)
<1>4. n \in Nat /\ Len(t) \in Nat /\ DOMAIN s = 1..n /\ DOMAIN t = 1..Len(t) /\ DOMAIN (s \o t) = 1..(n + Len(t))
  BY <1>3
<1>5. \A i \in DOMAIN (s \o t) :
        \/ i \in DOMAIN s /\ (s \o t)[i] = s[i]
        \/ i > n /\ i - n \in DOMAIN t /\ (s \o t)[i] = t[i - n]
  BY Cut, Zenon
<1>9. (\A i \in DOMAIN s : s[i] \in ToSet(s)) /\ (\A i \in DOMAIN t : t[i] \in ToSet(t))
  BY Zenon DEF ToSet
<1> SUFFICES ASSUME NEW j \in DOMAIN (s \o t), NEW k \in DOMAIN (s \o t), (s \o t)[j].target = (s \o t)[k].on
             PROVE  j < k
  BY DEF Ordered
<1> HIDE DEF n
<1>6. CASE j \in DOMAIN s /\ (s \o t)[j] = s[j] /\ k \in DOMAIN s /\ (s \o t)[k] = s[k]
  BY <1>6 DEF Ordered
<1>7. CASE j \in DOMAIN s /\ k > n
  BY <1>4, <1>7
<1>8. CASE j > n /\ j - n \in DOMAIN t /\ (s \o t)[j] = t[j - n] /\ k > n /\ k - n \in DOMAIN t /\
        (s \o t)[k] = t[k - n]
  <2>1. j - n < k - n
    BY <1>8 DEF Ordered
  <2> QED
    BY <1>4, <2>1
<1>10. CASE j > n /\ j - n \in DOMAIN t /\ (s \o t)[j] = t[j - n] /\ k \in DOMAIN s /\ (s \o t)[k] = s[k]
  BY <1>9, <1>10
<1> QED
  BY <1>5, <1>6, <1>7, <1>8, <1>10

LEMMA Tuple1 ==
  ASSUME NEW a
  PROVE  IsSeq(<<a>>) /\ ToSet(<<a>>) = {a}
<1>1. <<a>> \in Seq({a})
  OBVIOUS
<1>2. DOMAIN <<a>> = 1..1
  OBVIOUS
<1>3. \A x \in 1..1 : <<a>>[x] \in {a}
  BY <1>1, <1>2
<1>4. <<a>>[1] = a
  OBVIOUS
<1>5. 1 \in 1..1
  OBVIOUS
<1>6. ToSet(<<a>>) = {a}
  BY <1>2, <1>3, <1>4, <1>5, Zenon DEF ToSet
<1>7. IsSeq(<<a>>)
  BY <1>1 DEF IsSeq
<1> QED
  BY <1>6, <1>7

LEMMA Tuple2 ==
  ASSUME NEW a, NEW b
  PROVE  IsSeq(<<a, b>>) /\ ToSet(<<a, b>>) = {a, b}
<1>1. <<a, b>> \in Seq({a, b})
  OBVIOUS
<1>2. DOMAIN <<a, b>> = 1..2
  OBVIOUS
<1>3. \A x \in 1..2 : <<a, b>>[x] \in {a, b}
  BY <1>1, <1>2
<1>4. <<a, b>>[1] = a /\ <<a, b>>[2] = b
  OBVIOUS
<1>5. 1 \in 1..2 /\ 2 \in 1..2
  OBVIOUS
<1>6. ToSet(<<a, b>>) = {a, b}
  BY <1>2, <1>3, <1>4, <1>5, Zenon DEF ToSet
<1>7. IsSeq(<<a, b>>)
  BY <1>1 DEF IsSeq
<1> QED
  BY <1>6, <1>7

LEMMA Tuple3 ==
  ASSUME NEW a, NEW b, NEW c
  PROVE  IsSeq(<<a, b, c>>) /\ ToSet(<<a, b, c>>) = {a, b, c}
<1>1. <<a, b, c>> \in Seq({a, b, c})
  OBVIOUS
<1>2. DOMAIN <<a, b, c>> = 1..3
  OBVIOUS
<1>3. \A x \in 1..3 : <<a, b, c>>[x] \in {a, b, c}
  BY <1>1, <1>2
<1>4. <<a, b, c>>[1] = a /\ <<a, b, c>>[2] = b /\ <<a, b, c>>[3] = c
  OBVIOUS
<1>5. 1 \in 1..3 /\ 2 \in 1..3 /\ 3 \in 1..3
  OBVIOUS
<1>6. ToSet(<<a, b, c>>) = {a, b, c}
  BY <1>2, <1>3, <1>4, <1>5, Zenon DEF ToSet
<1>7. IsSeq(<<a, b, c>>)
  BY <1>1 DEF IsSeq
<1> QED
  BY <1>6, <1>7

LEMMA Tuple4 ==
  ASSUME NEW a, NEW b, NEW c, NEW d
  PROVE  IsSeq(<<a, b, c, d>>) /\ ToSet(<<a, b, c, d>>) = {a, b, c, d}
<1>1. <<a, b, c, d>> \in Seq({a, b, c, d})
  OBVIOUS
<1>2. DOMAIN <<a, b, c, d>> = 1..4
  OBVIOUS
<1>3. \A x \in 1..4 : <<a, b, c, d>>[x] \in {a, b, c, d}
  BY <1>1, <1>2
<1>4. <<a, b, c, d>>[1] = a /\ <<a, b, c, d>>[2] = b /\ <<a, b, c, d>>[3] = c /\ <<a, b, c, d>>[4] = d
  OBVIOUS
<1>5. 1 \in 1..4 /\ 2 \in 1..4 /\ 3 \in 1..4 /\ 4 \in 1..4
  OBVIOUS
<1>6. ToSet(<<a, b, c, d>>) = {a, b, c, d}
  BY <1>2, <1>3, <1>4, <1>5, Zenon DEF ToSet
<1>7. IsSeq(<<a, b, c, d>>)
  BY <1>1 DEF IsSeq
<1> QED
  BY <1>6, <1>7

LEMMA Tuple5 ==
  ASSUME NEW a, NEW b, NEW c, NEW d, NEW e
  PROVE  IsSeq(<<a, b, c, d, e>>) /\ ToSet(<<a, b, c, d, e>>) = {a, b, c, d, e}
<1>1. <<a, b, c, d, e>> \in Seq({a, b, c, d, e})
  OBVIOUS
<1>2. DOMAIN <<a, b, c, d, e>> = 1..5
  OBVIOUS
<1>3. \A x \in 1..5 : <<a, b, c, d, e>>[x] \in {a, b, c, d, e}
  BY <1>1, <1>2
<1>4. <<a, b, c, d, e>>[1] = a /\ <<a, b, c, d, e>>[2] = b /\ <<a, b, c, d, e>>[3] = c /\ <<a, b, c, d,
        e>>[4] = d /\ <<a, b, c, d, e>>[5] = e
  OBVIOUS
<1>5. 1 \in 1..5 /\ 2 \in 1..5 /\ 3 \in 1..5 /\ 4 \in 1..5 /\ 5 \in 1..5
  OBVIOUS
<1>6. ToSet(<<a, b, c, d, e>>) = {a, b, c, d, e}
  BY <1>2, <1>3, <1>4, <1>5, Zenon DEF ToSet
<1>7. IsSeq(<<a, b, c, d, e>>)
  BY <1>1 DEF IsSeq
<1> QED
  BY <1>6, <1>7

LEMMA Tuple6 ==
  ASSUME NEW a, NEW b, NEW c, NEW d, NEW e, NEW f
  PROVE  IsSeq(<<a, b, c, d, e, f>>) /\ ToSet(<<a, b, c, d, e, f>>) = {a, b, c, d, e, f}
<1>1. <<a, b, c, d, e, f>> \in Seq({a, b, c, d, e, f})
  OBVIOUS
<1>2. DOMAIN <<a, b, c, d, e, f>> = 1..6
  OBVIOUS
<1>3. \A x \in 1..6 : <<a, b, c, d, e, f>>[x] \in {a, b, c, d, e, f}
  BY <1>1, <1>2
<1>4. <<a, b, c, d, e, f>>[1] = a /\ <<a, b, c, d, e, f>>[2] = b /\ <<a, b, c, d, e, f>>[3] = c /\ <<a, b, c, d, e,
        f>>[4] = d /\ <<a, b, c, d, e, f>>[5] = e /\ <<a, b, c, d, e, f>>[6] = f
  OBVIOUS
<1>5. 1 \in 1..6 /\ 2 \in 1..6 /\ 3 \in 1..6 /\ 4 \in 1..6 /\ 5 \in 1..6 /\ 6 \in 1..6
  OBVIOUS
<1>6. ToSet(<<a, b, c, d, e, f>>) = {a, b, c, d, e, f}
  BY <1>2, <1>3, <1>4, <1>5, Zenon DEF ToSet
<1>7. IsSeq(<<a, b, c, d, e, f>>)
  BY <1>1 DEF IsSeq
<1> QED
  BY <1>6, <1>7

LEMMA Tuple7 ==
  ASSUME NEW a, NEW b, NEW c, NEW d, NEW e, NEW f, NEW g
  PROVE  IsSeq(<<a, b, c, d, e, f, g>>) /\ ToSet(<<a, b, c, d, e, f, g>>) = {a, b, c, d, e, f, g}
<1>1. <<a, b, c, d, e, f, g>> \in Seq({a, b, c, d, e, f, g})
  OBVIOUS
<1>2. DOMAIN <<a, b, c, d, e, f, g>> = 1..7
  OBVIOUS
<1>3. \A x \in 1..7 : <<a, b, c, d, e, f, g>>[x] \in {a, b, c, d, e, f, g}
  BY <1>1, <1>2
<1>4. <<a, b, c, d, e, f, g>>[1] = a /\ <<a, b, c, d, e, f, g>>[2] = b /\ <<a, b, c, d, e, f, g>>[3] = c /\ <<a, b,
        c, d, e, f, g>>[4] = d /\ <<a, b, c, d, e, f, g>>[5] = e /\ <<a, b, c, d, e, f, g>>[6] = f /\ <<a, b, c, d,
        e, f, g>>[7] = g
  OBVIOUS
<1>5. 1 \in 1..7 /\ 2 \in 1..7 /\ 3 \in 1..7 /\ 4 \in 1..7 /\ 5 \in 1..7 /\ 6 \in 1..7 /\ 7 \in 1..7
  OBVIOUS
<1>6. ToSet(<<a, b, c, d, e, f, g>>) = {a, b, c, d, e, f, g}
  BY <1>2, <1>3, <1>4, <1>5, Zenon DEF ToSet
<1>7. IsSeq(<<a, b, c, d, e, f, g>>)
  BY <1>1 DEF IsSeq
<1> QED
  BY <1>6, <1>7

LEMMA Tuple8 ==
  ASSUME NEW a, NEW b, NEW c, NEW d, NEW e, NEW f, NEW g, NEW h
  PROVE  IsSeq(<<a, b, c, d, e, f, g, h>>) /\ ToSet(<<a, b, c, d, e, f, g, h>>) = {a, b, c, d, e, f, g, h}
<1>1. <<a, b, c, d, e, f, g, h>> \in Seq({a, b, c, d, e, f, g, h})
  OBVIOUS
<1>2. DOMAIN <<a, b, c, d, e, f, g, h>> = 1..8
  OBVIOUS
<1>3. \A x \in 1..8 : <<a, b, c, d, e, f, g, h>>[x] \in {a, b, c, d, e, f, g, h}
  BY <1>1, <1>2
<1>4. <<a, b, c, d, e, f, g, h>>[1] = a /\ <<a, b, c, d, e, f, g, h>>[2] = b /\ <<a, b, c, d, e, f, g, h>>[3] = c /\
        <<a, b, c, d, e, f, g, h>>[4] = d /\ <<a, b, c, d, e, f, g, h>>[5] = e /\ <<a, b, c, d, e, f, g,
        h>>[6] = f /\ <<a, b, c, d, e, f, g, h>>[7] = g /\ <<a, b, c, d, e, f, g, h>>[8] = h
  OBVIOUS
<1>5. 1 \in 1..8 /\ 2 \in 1..8 /\ 3 \in 1..8 /\ 4 \in 1..8 /\ 5 \in 1..8 /\ 6 \in 1..8 /\ 7 \in 1..8 /\ 8 \in 1..8
  OBVIOUS
<1>6. ToSet(<<a, b, c, d, e, f, g, h>>) = {a, b, c, d, e, f, g, h}
  BY <1>2, <1>3, <1>4, <1>5, Zenon DEF ToSet
<1>7. IsSeq(<<a, b, c, d, e, f, g, h>>)
  BY <1>1 DEF IsSeq
<1> QED
  BY <1>6, <1>7

LEMMA Tuple13 ==
  ASSUME NEW a, NEW b, NEW c, NEW d, NEW e, NEW f, NEW g, NEW h, NEW i, NEW j, NEW k, NEW l, NEW m
  PROVE  IsSeq(<<a, b, c, d, e, f, g, h, i, j, k, l, m>>) /\ ToSet(<<a, b, c, d, e, f, g, h, i, j, k, l, m>>) = {a,
           b, c, d, e, f, g, h, i, j, k, l, m}
<1>1. <<a, b, c, d, e, f, g, h, i, j, k, l, m>> \in Seq({a, b, c, d, e, f, g, h, i, j, k, l, m})
  OBVIOUS
<1>2. DOMAIN <<a, b, c, d, e, f, g, h, i, j, k, l, m>> = 1..13
  OBVIOUS
<1>3. \A x \in 1..13 : <<a, b, c, d, e, f, g, h, i, j, k, l, m>>[x] \in {a, b, c, d, e, f, g, h, i, j, k, l, m}
  BY <1>1, <1>2
<1>4. <<a, b, c, d, e, f, g, h, i, j, k, l, m>>[1] = a /\ <<a, b, c, d, e, f, g, h, i, j, k, l, m>>[2] = b /\ <<a,
        b, c, d, e, f, g, h, i, j, k, l, m>>[3] = c /\ <<a, b, c, d, e, f, g, h, i, j, k, l, m>>[4] = d /\ <<a, b,
        c, d, e, f, g, h, i, j, k, l, m>>[5] = e /\ <<a, b, c, d, e, f, g, h, i, j, k, l, m>>[6] = f /\ <<a, b, c,
        d, e, f, g, h, i, j, k, l, m>>[7] = g /\ <<a, b, c, d, e, f, g, h, i, j, k, l, m>>[8] = h /\ <<a, b, c, d,
        e, f, g, h, i, j, k, l, m>>[9] = i /\ <<a, b, c, d, e, f, g, h, i, j, k, l, m>>[10] = j /\ <<a, b, c, d, e,
        f, g, h, i, j, k, l, m>>[11] = k /\ <<a, b, c, d, e, f, g, h, i, j, k, l, m>>[12] = l /\ <<a, b, c, d, e, f,
        g, h, i, j, k, l, m>>[13] = m
  OBVIOUS
<1>5. 1 \in 1..13 /\ 2 \in 1..13 /\ 3 \in 1..13 /\ 4 \in 1..13 /\ 5 \in 1..13 /\ 6 \in 1..13 /\ 7 \in 1..13 /\
        8 \in 1..13 /\ 9 \in 1..13 /\ 10 \in 1..13 /\ 11 \in 1..13 /\ 12 \in 1..13 /\ 13 \in 1..13
  OBVIOUS
<1>6. ToSet(<<a, b, c, d, e, f, g, h, i, j, k, l, m>>) = {a, b, c, d, e, f, g, h, i, j, k, l, m}
  BY <1>2, <1>3, <1>4, <1>5, Zenon DEF ToSet
<1>7. IsSeq(<<a, b, c, d, e, f, g, h, i, j, k, l, m>>)
  BY <1>1 DEF IsSeq
<1> QED
  BY <1>6, <1>7

-----------------------------------------------------------------------------
(* The rules, group by group.                                                *)

Targets(rules) == {r.target : r \in ToSet(rules)}
Ons(rules) == {r.on : r \in ToSet(rules)}
Asked(rules, name, shown) == \E r \in ToSet(rules) : r.target = name /\ r.when /\ r.on \in shown
Sound(rules) == IsSeq(rules) /\ Ordered(rules)

LEMMA GroupsJoin ==
  ASSUME NEW s, NEW t, Sound(s), Sound(t), Targets(t) \cap Ons(s) = {}
  PROVE  /\ Sound(s \o t)
         /\ Targets(s \o t) = Targets(s) \union Targets(t)
         /\ Ons(s \o t) = Ons(s) \union Ons(t)
         /\ \A name, shown : Asked(s \o t, name, shown) <=> Asked(s, name, shown) \/ Asked(t, name, shown)
<1>1. IsSeq(s \o t) /\ ToSet(s \o t) = ToSet(s) \union ToSet(t)
  BY Joined DEF Sound
<1>2. \A q \in ToSet(s), r \in ToSet(t) : r.target # q.on
  BY DEF Targets, Ons
<1>3. Ordered(s \o t)
  BY <1>2, JoinedOrdered DEF Sound
<1> QED
  BY <1>1, <1>3 DEF Sound, Targets, Ons, Asked

LEMMA KeySourceGroup ==
  ASSUME NEW v, NEW pathWhen
  PROVE  LET R == KeySourceRules(v, pathWhen) IN
         /\ Sound(R)
         /\ Targets(R) = {"key_path", "algo", "size", "curve"}
         /\ Ons(R) = {"key_source", "algo"}
         /\ \A name, shown : Asked(R, name, shown) <=>
              \/ name = "key_path" /\ v.key_source = pathWhen /\ "key_source" \in shown
              \/ name = "algo" /\ v.key_source = Generate /\ "key_source" \in shown
              \/ /\ name = "size" /\ v.key_source = Generate /\ v.algo = "RSA"
                 /\ "algo" \in shown \/ "key_source" \in shown
              \/ /\ name = "curve" /\ v.key_source = Generate /\ v.algo = "ECDSA"
                 /\ "algo" \in shown \/ "key_source" \in shown
<1> DEFINE R == KeySourceRules(v, pathWhen)
           generate == v.key_source = Generate
           rsa == generate /\ v.algo = "RSA"
           ecdsa == generate /\ v.algo = "ECDSA"
           a == Rule("key_path", "key_source", v.key_source = pathWhen)
           b == Rule("algo", "key_source", generate)
           c == Rule("size", "algo", rsa)
           d == Rule("size", "key_source", rsa)
           e == Rule("curve", "algo", ecdsa)
           f == Rule("curve", "key_source", ecdsa)
<1>1. R = <<a, b, c, d, e, f>>
  BY DEF KeySourceRules
<1>2. a.target = "key_path" /\ a.on = "key_source" /\ (a.when <=> v.key_source = pathWhen)
  BY DEF Rule
<1>3. b.target = "algo" /\ b.on = "key_source" /\ (b.when <=> generate)
  BY DEF Rule
<1>4. /\ c.target = "size" /\ c.on = "algo" /\ (c.when <=> rsa)
      /\ d.target = "size" /\ d.on = "key_source" /\ (d.when <=> rsa)
  BY DEF Rule
<1>5. /\ e.target = "curve" /\ e.on = "algo" /\ (e.when <=> ecdsa)
      /\ f.target = "curve" /\ f.on = "key_source" /\ (f.when <=> ecdsa)
  BY DEF Rule
<1> HIDE DEF a, b, c, d, e, f, R
<1>6. IsSeq(R) /\ ToSet(R) = {a, b, c, d, e, f}
  BY <1>1, Tuple6
<1>7. Ordered(R)
  BY <1>1, <1>2, <1>3, <1>4, <1>5 DEF Ordered
<1>8. Targets(R) = {"key_path", "algo", "size", "curve"}
  BY <1>2, <1>3, <1>4, <1>5, <1>6 DEF Targets
<1>9. Ons(R) = {"key_source", "algo"}
  BY <1>2, <1>3, <1>4, <1>5, <1>6 DEF Ons
<1>10. \A name, shown : Asked(R, name, shown) <=>
              \/ name = "key_path" /\ v.key_source = pathWhen /\ "key_source" \in shown
              \/ name = "algo" /\ v.key_source = Generate /\ "key_source" \in shown
              \/ /\ name = "size" /\ v.key_source = Generate /\ v.algo = "RSA"
                 /\ "algo" \in shown \/ "key_source" \in shown
              \/ /\ name = "curve" /\ v.key_source = Generate /\ v.algo = "ECDSA"
                 /\ "algo" \in shown \/ "key_source" \in shown
  BY <1>2, <1>3, <1>4, <1>5, <1>6 DEF Asked
<1> QED
  BY <1>6, <1>7, <1>8, <1>9, <1>10 DEF Sound, R

LEMMA Disjoint == ASSUME NEW rules, IsSeq(rules), Targets(rules) \cap Ons(rules) = {} PROVE Ordered(rules)
<1>1. \A j \in DOMAIN rules : rules[j].target \in Targets(rules) /\ rules[j].on \in Ons(rules)
  BY Zenon DEF Targets, Ons, ToSet
<1> QED
  BY <1>1 DEF Ordered

InFiles(v) == v.output_mode = "Individual files"
MayEncrypt(v) == v.key_source = Generate /\ (v.output_mode = "Bundle (PEM)" \/ v.format = "PEM")

LEMMA SigningGroup ==
  ASSUME NEW v
  PROVE  /\ Sound(SigningRules(v))
         /\ Targets(SigningRules(v)) = {"ca_cert", "ca_key"}
         /\ Ons(SigningRules(v)) = {"signing"}
         /\ \A name, shown : Asked(SigningRules(v), name, shown) <=>
              \/ name = "ca_cert" /\ v.signing = WithCA /\ "signing" \in shown
              \/ name = "ca_key" /\ v.signing = WithCA /\ "signing" \in shown
<1> DEFINE R == SigningRules(v)
           a == Rule("ca_cert", "signing", v.signing = WithCA)
           b == Rule("ca_key", "signing", v.signing = WithCA)
<1>1. R = <<a, b>>
  BY DEF SigningRules
<1>2. /\ a.target = "ca_cert" /\ a.on = "signing" /\ (a.when <=> v.signing = WithCA)
      /\ b.target = "ca_key" /\ b.on = "signing" /\ (b.when <=> v.signing = WithCA)
  BY DEF Rule
<1> HIDE DEF a, b, R
<1>3. IsSeq(R) /\ ToSet(R) = {a, b}
  BY <1>1, Tuple2
<1>4. Targets(R) = {"ca_cert", "ca_key"}
  BY <1>2, <1>3 DEF Targets
<1>5. Ons(R) = {"signing"}
  BY <1>2, <1>3 DEF Ons
<1>6. Ordered(R)
  BY <1>3, <1>4, <1>5, Disjoint
<1>7. \A name, shown : Asked(R, name, shown) <=>
              \/ a.target = name /\ a.when /\ a.on \in shown
              \/ b.target = name /\ b.when /\ b.on \in shown
  BY <1>3 DEF Asked
<1>8. \A name, shown : Asked(R, name, shown) <=>
              \/ name = "ca_cert" /\ v.signing = WithCA /\ "signing" \in shown
              \/ name = "ca_key" /\ v.signing = WithCA /\ "signing" \in shown
  BY <1>2, <1>7
<1> QED
  BY <1>3, <1>6, <1>4, <1>5, <1>8 DEF Sound, R

LEMMA CertSectionGroup ==
  ASSUME NEW v
  PROVE  /\ Sound(CertSectionRules(v))
         /\ Targets(CertSectionRules(v)) = {"path_len", "permitted_names", "excluded_names"}
         /\ Ons(CertSectionRules(v)) = {"cert_type"}
         /\ \A name, shown : Asked(CertSectionRules(v), name, shown) <=>
              \/ name = "path_len" /\ v.cert_type = "CA" /\ "cert_type" \in shown
              \/ name = "permitted_names" /\ v.cert_type = "CA" /\ "cert_type" \in shown
              \/ name = "excluded_names" /\ v.cert_type = "CA" /\ "cert_type" \in shown
<1> DEFINE R == CertSectionRules(v)
           a == Rule("path_len", "cert_type", v.cert_type = "CA")
           b == Rule("permitted_names", "cert_type", v.cert_type = "CA")
           c == Rule("excluded_names", "cert_type", v.cert_type = "CA")
<1>1. R = <<a, b, c>>
  BY DEF CertSectionRules
<1>2. /\ a.target = "path_len" /\ a.on = "cert_type" /\ (a.when <=> v.cert_type = "CA")
      /\ b.target = "permitted_names" /\ b.on = "cert_type" /\ (b.when <=> v.cert_type = "CA")
      /\ c.target = "excluded_names" /\ c.on = "cert_type" /\ (c.when <=> v.cert_type = "CA")
  BY DEF Rule
<1> HIDE DEF a, b, c, R
<1>3. IsSeq(R) /\ ToSet(R) = {a, b, c}
  BY <1>1, Tuple3
<1>4. Targets(R) = {"path_len", "permitted_names", "excluded_names"}
  BY <1>2, <1>3 DEF Targets
<1>5. Ons(R) = {"cert_type"}
  BY <1>2, <1>3 DEF Ons
<1>6. Ordered(R)
  BY <1>3, <1>4, <1>5, Disjoint
<1>7. \A name, shown : Asked(R, name, shown) <=>
              \/ a.target = name /\ a.when /\ a.on \in shown
              \/ b.target = name /\ b.when /\ b.on \in shown
              \/ c.target = name /\ c.when /\ c.on \in shown
  BY <1>3 DEF Asked
<1>8. \A name, shown : Asked(R, name, shown) <=>
              \/ name = "path_len" /\ v.cert_type = "CA" /\ "cert_type" \in shown
              \/ name = "permitted_names" /\ v.cert_type = "CA" /\ "cert_type" \in shown
              \/ name = "excluded_names" /\ v.cert_type = "CA" /\ "cert_type" \in shown
  BY <1>2, <1>7
<1> QED
  BY <1>3, <1>6, <1>4, <1>5, <1>8 DEF Sound, R

LEMMA KeyOutGroup ==
  ASSUME NEW v
  PROVE  /\ Sound(KeyOutRules(v))
         /\ Targets(KeyOutRules(v)) = {"key_out"}
         /\ Ons(KeyOutRules(v)) = {"key_source"}
         /\ \A name, shown : Asked(KeyOutRules(v), name, shown) <=>
              \/ name = "key_out" /\ v.key_source = Generate /\ "key_source" \in shown
<1> DEFINE R == KeyOutRules(v)
           a == Rule("key_out", "key_source", v.key_source = Generate)
<1>1. R = <<a>>
  BY DEF KeyOutRules
<1>2. /\ a.target = "key_out" /\ a.on = "key_source" /\ (a.when <=> v.key_source = Generate)
  BY DEF Rule
<1> HIDE DEF a, R
<1>3. IsSeq(R) /\ ToSet(R) = {a}
  BY <1>1, Tuple1
<1>4. Targets(R) = {"key_out"}
  BY <1>2, <1>3 DEF Targets
<1>5. Ons(R) = {"key_source"}
  BY <1>2, <1>3 DEF Ons
<1>6. Ordered(R)
  BY <1>3, <1>4, <1>5, Disjoint
<1>7. \A name, shown : Asked(R, name, shown) <=>
              \/ a.target = name /\ a.when /\ a.on \in shown
  BY <1>3 DEF Asked
<1>8. \A name, shown : Asked(R, name, shown) <=>
              \/ name = "key_out" /\ v.key_source = Generate /\ "key_source" \in shown
  BY <1>2, <1>7
<1> QED
  BY <1>3, <1>6, <1>4, <1>5, <1>8 DEF Sound, R

LEMMA CreateKeyGroup ==
  ASSUME NEW v
  PROVE  /\ Sound(CreateKeyRules(v))
         /\ Targets(CreateKeyRules(v)) = {"size", "curve", "encrypt", "password"}
         /\ Ons(CreateKeyRules(v)) = {"algo", "format", "encrypt"}
         /\ \A name, shown : Asked(CreateKeyRules(v), name, shown) <=>
              \/ name = "size" /\ v.algo = "RSA" /\ "algo" \in shown
              \/ name = "curve" /\ v.algo = "ECDSA" /\ "algo" \in shown
              \/ name = "encrypt" /\ v.format = "PEM" /\ "format" \in shown
              \/ name = "password" /\ v.encrypt = "true" /\ "encrypt" \in shown
<1> DEFINE R == CreateKeyRules(v)
           a == Rule("size", "algo", v.algo = "RSA")
           b == Rule("curve", "algo", v.algo = "ECDSA")
           c == Rule("encrypt", "format", v.format = "PEM")
           d == Rule("password", "encrypt", v.encrypt = "true")
<1>1. R = <<a, b, c, d>>
  BY DEF CreateKeyRules
<1>2. /\ a.target = "size" /\ a.on = "algo" /\ (a.when <=> v.algo = "RSA")
      /\ b.target = "curve" /\ b.on = "algo" /\ (b.when <=> v.algo = "ECDSA")
      /\ c.target = "encrypt" /\ c.on = "format" /\ (c.when <=> v.format = "PEM")
      /\ d.target = "password" /\ d.on = "encrypt" /\ (d.when <=> v.encrypt = "true")
  BY DEF Rule
<1> HIDE DEF a, b, c, d, R
<1>3. IsSeq(R) /\ ToSet(R) = {a, b, c, d}
  BY <1>1, Tuple4
<1>4. Targets(R) = {"size", "curve", "encrypt", "password"}
  BY <1>2, <1>3 DEF Targets
<1>5. Ons(R) = {"algo", "format", "encrypt"}
  BY <1>2, <1>3 DEF Ons
<1>6. Ordered(R)
  BY <1>1, <1>2 DEF Ordered
<1>7. \A name, shown : Asked(R, name, shown) <=>
              \/ a.target = name /\ a.when /\ a.on \in shown
              \/ b.target = name /\ b.when /\ b.on \in shown
              \/ c.target = name /\ c.when /\ c.on \in shown
              \/ d.target = name /\ d.when /\ d.on \in shown
  BY <1>3 DEF Asked
<1>8. \A name, shown : Asked(R, name, shown) <=>
              \/ name = "size" /\ v.algo = "RSA" /\ "algo" \in shown
              \/ name = "curve" /\ v.algo = "ECDSA" /\ "algo" \in shown
              \/ name = "encrypt" /\ v.format = "PEM" /\ "format" \in shown
              \/ name = "password" /\ v.encrypt = "true" /\ "encrypt" \in shown
  BY <1>2, <1>7
<1> QED
  BY <1>3, <1>6, <1>4, <1>5, <1>8 DEF Sound, R

LEMMA EncryptGroup ==
  ASSUME NEW v
  PROVE  /\ Sound(EncryptRules(v))
         /\ Targets(EncryptRules(v)) = {"encrypt_key"}
         /\ Ons(EncryptRules(v)) = {"key_source", "output_mode", "format"}
         /\ \A name, shown : Asked(EncryptRules(v), name, shown) <=>
              \/ name = "encrypt_key" /\ MayEncrypt(v) /\ "key_source" \in shown
              \/ name = "encrypt_key" /\ MayEncrypt(v) /\ "output_mode" \in shown
              \/ name = "encrypt_key" /\ MayEncrypt(v) /\ "format" \in shown
<1> DEFINE R == EncryptRules(v)
           a == Rule("encrypt_key", "key_source", MayEncrypt(v))
           b == Rule("encrypt_key", "output_mode", MayEncrypt(v))
           c == Rule("encrypt_key", "format", MayEncrypt(v))
<1>1. R = <<a, b, c>>
  BY DEF EncryptRules, MayEncrypt
<1>2. /\ a.target = "encrypt_key" /\ a.on = "key_source" /\ (a.when <=> MayEncrypt(v))
      /\ b.target = "encrypt_key" /\ b.on = "output_mode" /\ (b.when <=> MayEncrypt(v))
      /\ c.target = "encrypt_key" /\ c.on = "format" /\ (c.when <=> MayEncrypt(v))
  BY DEF Rule
<1> HIDE DEF a, b, c, R
<1>3. IsSeq(R) /\ ToSet(R) = {a, b, c}
  BY <1>1, Tuple3
<1>4. Targets(R) = {"encrypt_key"}
  BY <1>2, <1>3 DEF Targets
<1>5. Ons(R) = {"key_source", "output_mode", "format"}
  BY <1>2, <1>3 DEF Ons
<1>6. Ordered(R)
  BY <1>3, <1>4, <1>5, Disjoint
<1>7. \A name, shown : Asked(R, name, shown) <=>
              \/ a.target = name /\ a.when /\ a.on \in shown
              \/ b.target = name /\ b.when /\ b.on \in shown
              \/ c.target = name /\ c.when /\ c.on \in shown
  BY <1>3 DEF Asked
<1>8. \A name, shown : Asked(R, name, shown) <=>
              \/ name = "encrypt_key" /\ MayEncrypt(v) /\ "key_source" \in shown
              \/ name = "encrypt_key" /\ MayEncrypt(v) /\ "output_mode" \in shown
              \/ name = "encrypt_key" /\ MayEncrypt(v) /\ "format" \in shown
  BY <1>2, <1>7
<1> QED
  BY <1>3, <1>6, <1>4, <1>5, <1>8 DEF Sound, R

LEMMA EncryptPasswordGroup ==
  ASSUME NEW v
  PROVE  /\ Sound(EncryptPasswordRules(v))
         /\ Targets(EncryptPasswordRules(v)) = {"encrypt_password"}
         /\ Ons(EncryptPasswordRules(v)) = {"encrypt_key"}
         /\ \A name, shown : Asked(EncryptPasswordRules(v), name, shown) <=>
              \/ name = "encrypt_password" /\ v.encrypt_key = "true" /\ "encrypt_key" \in shown
<1> DEFINE R == EncryptPasswordRules(v)
           a == Rule("encrypt_password", "encrypt_key", v.encrypt_key = "true")
<1>1. R = <<a>>
  BY DEF EncryptPasswordRules
<1>2. /\ a.target = "encrypt_password" /\ a.on = "encrypt_key" /\ (a.when <=> v.encrypt_key = "true")
  BY DEF Rule
<1> HIDE DEF a, R
<1>3. IsSeq(R) /\ ToSet(R) = {a}
  BY <1>1, Tuple1
<1>4. Targets(R) = {"encrypt_password"}
  BY <1>2, <1>3 DEF Targets
<1>5. Ons(R) = {"encrypt_key"}
  BY <1>2, <1>3 DEF Ons
<1>6. Ordered(R)
  BY <1>3, <1>4, <1>5, Disjoint
<1>7. \A name, shown : Asked(R, name, shown) <=>
              \/ a.target = name /\ a.when /\ a.on \in shown
  BY <1>3 DEF Asked
<1>8. \A name, shown : Asked(R, name, shown) <=>
              \/ name = "encrypt_password" /\ v.encrypt_key = "true" /\ "encrypt_key" \in shown
  BY <1>2, <1>7
<1> QED
  BY <1>3, <1>6, <1>4, <1>5, <1>8 DEF Sound, R

LEMMA OutputGroup ==
  ASSUME NEW v
  PROVE  /\ Sound(OutputRules(v))
         /\ Targets(OutputRules(v)) = {"format", "cert_out", "key_out", "bundle_out"}
         /\ Ons(OutputRules(v)) = {"output_mode", "key_source"}
         /\ \A name, shown : Asked(OutputRules(v), name, shown) <=>
              \/ name = "format" /\ InFiles(v) /\ "output_mode" \in shown
              \/ name = "cert_out" /\ InFiles(v) /\ "output_mode" \in shown
              \/ name = "key_out" /\ InFiles(v) /\ v.key_source = Generate /\ "output_mode" \in shown
              \/ name = "key_out" /\ InFiles(v) /\ v.key_source = Generate /\ "key_source" \in shown
              \/ name = "bundle_out" /\ ~ InFiles(v) /\ "output_mode" \in shown
<1> DEFINE R == OutputRules(v)
           a == Rule("format", "output_mode", InFiles(v))
           b == Rule("cert_out", "output_mode", InFiles(v))
           c == Rule("key_out", "output_mode", InFiles(v) /\ v.key_source = Generate)
           d == Rule("key_out", "key_source", InFiles(v) /\ v.key_source = Generate)
           e == Rule("bundle_out", "output_mode", ~ InFiles(v))
<1>1. R = <<a, b, c, d, e>>
  BY DEF OutputRules, InFiles
<1>2. /\ a.target = "format" /\ a.on = "output_mode" /\ (a.when <=> InFiles(v))
      /\ b.target = "cert_out" /\ b.on = "output_mode" /\ (b.when <=> InFiles(v))
      /\ c.target = "key_out" /\ c.on = "output_mode" /\ (c.when <=> InFiles(v) /\ v.key_source = Generate)
      /\ d.target = "key_out" /\ d.on = "key_source" /\ (d.when <=> InFiles(v) /\ v.key_source = Generate)
      /\ e.target = "bundle_out" /\ e.on = "output_mode" /\ (e.when <=> ~ InFiles(v))
  BY DEF Rule
<1> HIDE DEF a, b, c, d, e, R
<1>3. IsSeq(R) /\ ToSet(R) = {a, b, c, d, e}
  BY <1>1, Tuple5
<1>4. Targets(R) = {"format", "cert_out", "key_out", "bundle_out"}
  BY <1>2, <1>3 DEF Targets
<1>5. Ons(R) = {"output_mode", "key_source"}
  BY <1>2, <1>3 DEF Ons
<1>6. Ordered(R)
  BY <1>3, <1>4, <1>5, Disjoint
<1>7. \A name, shown : Asked(R, name, shown) <=>
              \/ a.target = name /\ a.when /\ a.on \in shown
              \/ b.target = name /\ b.when /\ b.on \in shown
              \/ c.target = name /\ c.when /\ c.on \in shown
              \/ d.target = name /\ d.when /\ d.on \in shown
              \/ e.target = name /\ e.when /\ e.on \in shown
  BY <1>3 DEF Asked
<1>8. \A name, shown : Asked(R, name, shown) <=>
              \/ name = "format" /\ InFiles(v) /\ "output_mode" \in shown
              \/ name = "cert_out" /\ InFiles(v) /\ "output_mode" \in shown
              \/ name = "key_out" /\ InFiles(v) /\ v.key_source = Generate /\ "output_mode" \in shown
              \/ name = "key_out" /\ InFiles(v) /\ v.key_source = Generate /\ "key_source" \in shown
              \/ name = "bundle_out" /\ ~ InFiles(v) /\ "output_mode" \in shown
  BY <1>2, <1>7
<1> QED
  BY <1>3, <1>6, <1>4, <1>5, <1>8 DEF Sound, R

LEMMA ConvertGroup ==
  ASSUME NEW v
  PROVE  /\ Sound(ConvertRules(v))
         /\ Targets(ConvertRules(v)) = {"password", "alias", "legacy"}
         /\ Ons(ConvertRules(v)) = {"format"}
         /\ \A name, shown : Asked(ConvertRules(v), name, shown) <=>
              \/ name = "password" /\ v.format \in {"PKCS#12", "JKS"} /\ "format" \in shown
              \/ name = "alias" /\ v.format = "JKS" /\ "format" \in shown
              \/ name = "legacy" /\ v.format = "PKCS#12" /\ "format" \in shown
<1> DEFINE R == ConvertRules(v)
           a == Rule("password", "format", v.format \in {"PKCS#12", "JKS"})
           b == Rule("alias", "format", v.format = "JKS")
           c == Rule("legacy", "format", v.format = "PKCS#12")
<1>1. R = <<a, b, c>>
  BY DEF ConvertRules
<1>2. /\ a.target = "password" /\ a.on = "format" /\ (a.when <=> v.format \in {"PKCS#12", "JKS"})
      /\ b.target = "alias" /\ b.on = "format" /\ (b.when <=> v.format = "JKS")
      /\ c.target = "legacy" /\ c.on = "format" /\ (c.when <=> v.format = "PKCS#12")
  BY DEF Rule
<1> HIDE DEF a, b, c, R
<1>3. IsSeq(R) /\ ToSet(R) = {a, b, c}
  BY <1>1, Tuple3
<1>4. Targets(R) = {"password", "alias", "legacy"}
  BY <1>2, <1>3 DEF Targets
<1>5. Ons(R) = {"format"}
  BY <1>2, <1>3 DEF Ons
<1>6. Ordered(R)
  BY <1>3, <1>4, <1>5, Disjoint
<1>7. \A name, shown : Asked(R, name, shown) <=>
              \/ a.target = name /\ a.when /\ a.on \in shown
              \/ b.target = name /\ b.when /\ b.on \in shown
              \/ c.target = name /\ c.when /\ c.on \in shown
  BY <1>3 DEF Asked
<1>8. \A name, shown : Asked(R, name, shown) <=>
              \/ name = "password" /\ v.format \in {"PKCS#12", "JKS"} /\ "format" \in shown
              \/ name = "alias" /\ v.format = "JKS" /\ "format" \in shown
              \/ name = "legacy" /\ v.format = "PKCS#12" /\ "format" \in shown
  BY <1>2, <1>7
<1> QED
  BY <1>3, <1>6, <1>4, <1>5, <1>8 DEF Sound, R

LEMMA NewFileGroup ==
  ASSUME NEW v
  PROVE  /\ Sound(NewFileRules(v))
         /\ Targets(NewFileRules(v)) = {"output"}
         /\ Ons(NewFileRules(v)) = {"output_mode"}
         /\ \A name, shown : Asked(NewFileRules(v), name, shown) <=>
              \/ name = "output" /\ v.output_mode = "New file" /\ "output_mode" \in shown
<1> DEFINE R == NewFileRules(v)
           a == Rule("output", "output_mode", v.output_mode = "New file")
<1>1. R = <<a>>
  BY DEF NewFileRules
<1>2. /\ a.target = "output" /\ a.on = "output_mode" /\ (a.when <=> v.output_mode = "New file")
  BY DEF Rule
<1> HIDE DEF a, R
<1>3. IsSeq(R) /\ ToSet(R) = {a}
  BY <1>1, Tuple1
<1>4. Targets(R) = {"output"}
  BY <1>2, <1>3 DEF Targets
<1>5. Ons(R) = {"output_mode"}
  BY <1>2, <1>3 DEF Ons
<1>6. Ordered(R)
  BY <1>3, <1>4, <1>5, Disjoint
<1>7. \A name, shown : Asked(R, name, shown) <=>
              \/ a.target = name /\ a.when /\ a.on \in shown
  BY <1>3 DEF Asked
<1>8. \A name, shown : Asked(R, name, shown) <=>
              \/ name = "output" /\ v.output_mode = "New file" /\ "output_mode" \in shown
  BY <1>2, <1>7
<1> QED
  BY <1>3, <1>6, <1>4, <1>5, <1>8 DEF Sound, R

LEMMA PasswordGroup ==
  ASSUME NEW v
  PROVE  /\ Sound(ReencryptPasswordRules(v))
         /\ Targets(ReencryptPasswordRules(v)) = {"new_password", "confirm_password"}
         /\ Ons(ReencryptPasswordRules(v)) = {"remove_password"}
         /\ \A name, shown : Asked(ReencryptPasswordRules(v), name, shown) <=>
              \/ name = "new_password" /\ v.remove_password # "true" /\ "remove_password" \in shown
              \/ name = "confirm_password" /\ v.remove_password # "true" /\ "remove_password" \in shown
<1> DEFINE R == ReencryptPasswordRules(v)
           a == Rule("new_password", "remove_password", v.remove_password # "true")
           b == Rule("confirm_password", "remove_password", v.remove_password # "true")
<1>1. R = <<a, b>>
  BY DEF ReencryptPasswordRules
<1>2. /\ a.target = "new_password" /\ a.on = "remove_password" /\ (a.when <=> v.remove_password # "true")
      /\ b.target = "confirm_password" /\ b.on = "remove_password" /\ (b.when <=> v.remove_password # "true")
  BY DEF Rule
<1> HIDE DEF a, b, R
<1>3. IsSeq(R) /\ ToSet(R) = {a, b}
  BY <1>1, Tuple2
<1>4. Targets(R) = {"new_password", "confirm_password"}
  BY <1>2, <1>3 DEF Targets
<1>5. Ons(R) = {"remove_password"}
  BY <1>2, <1>3 DEF Ons
<1>6. Ordered(R)
  BY <1>3, <1>4, <1>5, Disjoint
<1>7. \A name, shown : Asked(R, name, shown) <=>
              \/ a.target = name /\ a.when /\ a.on \in shown
              \/ b.target = name /\ b.when /\ b.on \in shown
  BY <1>3 DEF Asked
<1>8. \A name, shown : Asked(R, name, shown) <=>
              \/ name = "new_password" /\ v.remove_password # "true" /\ "remove_password" \in shown
              \/ name = "confirm_password" /\ v.remove_password # "true" /\ "remove_password" \in shown
  BY <1>2, <1>7
<1> QED
  BY <1>3, <1>6, <1>4, <1>5, <1>8 DEF Sound, R

LEMMA BundleGroup ==
  ASSUME NEW v
  PROVE  /\ Sound(BundleRules(v))
         /\ Targets(BundleRules(v)) = {"pkcs12_notice", "password", "legacy"}
         /\ Ons(BundleRules(v)) = {"format"}
         /\ \A name, shown : Asked(BundleRules(v), name, shown) <=>
              \/ name = "pkcs12_notice" /\ v.format = "PKCS#12" /\ "format" \in shown
              \/ name = "password" /\ v.format \in {"PKCS#12", "JKS"} /\ "format" \in shown
              \/ name = "legacy" /\ v.format = "PKCS#12" /\ "format" \in shown
<1> DEFINE R == BundleRules(v)
           a == Rule("pkcs12_notice", "format", v.format = "PKCS#12")
           b == Rule("password", "format", v.format \in {"PKCS#12", "JKS"})
           c == Rule("legacy", "format", v.format = "PKCS#12")
<1>1. R = <<a, b, c>>
  BY DEF BundleRules
<1>2. /\ a.target = "pkcs12_notice" /\ a.on = "format" /\ (a.when <=> v.format = "PKCS#12")
      /\ b.target = "password" /\ b.on = "format" /\ (b.when <=> v.format \in {"PKCS#12", "JKS"})
      /\ c.target = "legacy" /\ c.on = "format" /\ (c.when <=> v.format = "PKCS#12")
  BY DEF Rule
<1> HIDE DEF a, b, c, R
<1>3. IsSeq(R) /\ ToSet(R) = {a, b, c}
  BY <1>1, Tuple3
<1>4. Targets(R) = {"pkcs12_notice", "password", "legacy"}
  BY <1>2, <1>3 DEF Targets
<1>5. Ons(R) = {"format"}
  BY <1>2, <1>3 DEF Ons
<1>6. Ordered(R)
  BY <1>3, <1>4, <1>5, Disjoint
<1>7. \A name, shown : Asked(R, name, shown) <=>
              \/ a.target = name /\ a.when /\ a.on \in shown
              \/ b.target = name /\ b.when /\ b.on \in shown
              \/ c.target = name /\ c.when /\ c.on \in shown
  BY <1>3 DEF Asked
<1>8. \A name, shown : Asked(R, name, shown) <=>
              \/ name = "pkcs12_notice" /\ v.format = "PKCS#12" /\ "format" \in shown
              \/ name = "password" /\ v.format \in {"PKCS#12", "JKS"} /\ "format" \in shown
              \/ name = "legacy" /\ v.format = "PKCS#12" /\ "format" \in shown
  BY <1>2, <1>7
<1> QED
  BY <1>3, <1>6, <1>4, <1>5, <1>8 DEF Sound, R

LEMMA RemoteGroup ==
  ASSUME NEW v
  PROVE  /\ Sound(RemoteRules(v))
         /\ Targets(RemoteRules(v)) = {"client_cert", "client_key", "client_p12", "client_jks", "client_alias",
              "client_password"}
         /\ Ons(RemoteRules(v)) = {"mtls_mode"}
         /\ \A name, shown : Asked(RemoteRules(v), name, shown) <=>
              \/ name = "client_cert" /\ v.mtls_mode \in {"PEM cert+key"} /\ "mtls_mode" \in shown
              \/ name = "client_key" /\ v.mtls_mode \in {"PEM cert+key"} /\ "mtls_mode" \in shown
              \/ name = "client_p12" /\ v.mtls_mode \in {"PKCS#12"} /\ "mtls_mode" \in shown
              \/ name = "client_jks" /\ v.mtls_mode \in {"JKS"} /\ "mtls_mode" \in shown
              \/ name = "client_alias" /\ v.mtls_mode \in {"PKCS#12", "JKS"} /\ "mtls_mode" \in shown
              \/ name = "client_password" /\ v.mtls_mode \in {"PEM cert+key", "PKCS#12", "JKS"} /\
                   "mtls_mode" \in shown
<1> DEFINE R == RemoteRules(v)
           a == Rule("client_cert", "mtls_mode", v.mtls_mode \in {"PEM cert+key"})
           b == Rule("client_key", "mtls_mode", v.mtls_mode \in {"PEM cert+key"})
           c == Rule("client_p12", "mtls_mode", v.mtls_mode \in {"PKCS#12"})
           d == Rule("client_jks", "mtls_mode", v.mtls_mode \in {"JKS"})
           e == Rule("client_alias", "mtls_mode", v.mtls_mode \in {"PKCS#12", "JKS"})
           f == Rule("client_password", "mtls_mode", v.mtls_mode \in {"PEM cert+key", "PKCS#12", "JKS"})
<1>1. R = <<a, b, c, d, e, f>>
  BY DEF RemoteRules
<1>2. /\ a.target = "client_cert" /\ a.on = "mtls_mode" /\ (a.when <=> v.mtls_mode \in {"PEM cert+key"})
      /\ b.target = "client_key" /\ b.on = "mtls_mode" /\ (b.when <=> v.mtls_mode \in {"PEM cert+key"})
      /\ c.target = "client_p12" /\ c.on = "mtls_mode" /\ (c.when <=> v.mtls_mode \in {"PKCS#12"})
      /\ d.target = "client_jks" /\ d.on = "mtls_mode" /\ (d.when <=> v.mtls_mode \in {"JKS"})
      /\ e.target = "client_alias" /\ e.on = "mtls_mode" /\ (e.when <=> v.mtls_mode \in {"PKCS#12", "JKS"})
      /\ f.target = "client_password" /\ f.on = "mtls_mode" /\ (f.when <=> v.mtls_mode \in {"PEM cert+key",
           "PKCS#12", "JKS"})
  BY DEF Rule
<1> HIDE DEF a, b, c, d, e, f, R
<1>3. IsSeq(R) /\ ToSet(R) = {a, b, c, d, e, f}
  BY <1>1, Tuple6
<1>4. Targets(R) = {"client_cert", "client_key", "client_p12", "client_jks", "client_alias", "client_password"}
  BY <1>2, <1>3 DEF Targets
<1>5. Ons(R) = {"mtls_mode"}
  BY <1>2, <1>3 DEF Ons
<1>6. Ordered(R)
  BY <1>3, <1>4, <1>5, Disjoint
<1>7. \A name, shown : Asked(R, name, shown) <=>
              \/ a.target = name /\ a.when /\ a.on \in shown
              \/ b.target = name /\ b.when /\ b.on \in shown
              \/ c.target = name /\ c.when /\ c.on \in shown
              \/ d.target = name /\ d.when /\ d.on \in shown
              \/ e.target = name /\ e.when /\ e.on \in shown
              \/ f.target = name /\ f.when /\ f.on \in shown
  BY <1>3 DEF Asked
<1>8. \A name, shown : Asked(R, name, shown) <=>
              \/ name = "client_cert" /\ v.mtls_mode \in {"PEM cert+key"} /\ "mtls_mode" \in shown
              \/ name = "client_key" /\ v.mtls_mode \in {"PEM cert+key"} /\ "mtls_mode" \in shown
              \/ name = "client_p12" /\ v.mtls_mode \in {"PKCS#12"} /\ "mtls_mode" \in shown
              \/ name = "client_jks" /\ v.mtls_mode \in {"JKS"} /\ "mtls_mode" \in shown
              \/ name = "client_alias" /\ v.mtls_mode \in {"PKCS#12", "JKS"} /\ "mtls_mode" \in shown
              \/ name = "client_password" /\ v.mtls_mode \in {"PEM cert+key", "PKCS#12", "JKS"} /\
                   "mtls_mode" \in shown
  BY <1>2, <1>7
<1> QED
  BY <1>3, <1>6, <1>4, <1>5, <1>8 DEF Sound, R

-----------------------------------------------------------------------------
(* The fields of each form: their names and types.                           *)

Has(fields, name, type) == \E field \in ToSet(fields) : field.name = name /\ field.type = type
Only(fields, name, one) == \A field \in ToSet(fields) : field.name = name => field = one

LEMMA FieldsJoin ==
  ASSUME NEW s, NEW t, IsSeq(s), IsSeq(t)
  PROVE  /\ IsSeq(s \o t)
         /\ \A name, type : Has(s \o t, name, type) <=> Has(s, name, type) \/ Has(t, name, type)
         /\ \A name, one : Only(s \o t, name, one) <=> Only(s, name, one) /\ Only(t, name, one)
BY Joined DEF Has, Only

LEMMA Absent ==
  ASSUME NEW fields, NEW name, \A type : ~ Has(fields, name, type), NEW one
  PROVE  Only(fields, name, one)
<1>1. \A field \in ToSet(fields) : Has(fields, field.name, field.type)
  BY DEF Has
<1> QED
  BY <1>1 DEF Only

LEMMA SubjectFieldsAre ==
  /\ IsSeq(SubjectFields)
  /\ \A name, type : Has(SubjectFields, name, type) <=>
        \/ type = "must" /\ name = "cn"
        \/ type = "text" /\ name \in {"org", "country", "extra_dn"}
        \/ type = "list" /\ name = "sans"
<1> DEFINE F == SubjectFields
<1> DEFINE a == Must("cn", <<"", "x", "***">>)
           b == Line("org", <<"", "x">>)
           c == Line("country", <<"", "x">>)
           d == Line("extra_dn", <<"", "OU=x", "bad">>)
           e == Field("sans", "list", <<"", "x", "bad">>)
<1>1. F = <<a, b, c, d, e>>
  BY DEF SubjectFields
<1>2. /\ a.name = "cn" /\ a.type = "must"
      /\ b.name = "org" /\ b.type = "text"
      /\ c.name = "country" /\ c.type = "text"
      /\ d.name = "extra_dn" /\ d.type = "text"
      /\ e.name = "sans" /\ e.type = "list"
  BY DEF Field, Line, Must
<1> HIDE DEF a, b, c, d, e, F
<1>3. IsSeq(F) /\ ToSet(F) = {a, b, c, d, e}
  BY <1>1, Tuple5
<1>4. \A name, type : Has(F, name, type) <=>
        \/ a.name = name /\ a.type = type
        \/ b.name = name /\ b.type = type
        \/ c.name = name /\ c.type = type
        \/ d.name = name /\ d.type = type
        \/ e.name = name /\ e.type = type
  BY <1>3 DEF Has
<1>5. \A name, type : Has(F, name, type) <=>
        \/ type = "must" /\ name = "cn"
        \/ type = "text" /\ name \in {"org", "country", "extra_dn"}
        \/ type = "list" /\ name = "sans"
  BY <1>2, <1>4
<1> QED
  BY <1>3, <1>5 DEF F

LEMMA KeyFieldsAre ==
  /\ IsSeq(KeyFields)
  /\ \A name, type : Has(KeyFields, name, type) <=>
        \/ type = "radio" /\ name \in {"algo", "size", "curve"}
<1> DEFINE F == KeyFields
<1> DEFINE a == Radio("algo", <<"ECDSA", "RSA", "Ed25519">>)
           b == Radio("size", <<"2048", "4096">>)
           c == Radio("curve", <<"P-256", "P-384", "P-521">>)
<1>1. F = <<a, b, c>>
  BY DEF KeyFields
<1>2. /\ a.name = "algo" /\ a.type = "radio"
      /\ b.name = "size" /\ b.type = "radio"
      /\ c.name = "curve" /\ c.type = "radio"
  BY DEF Field, Radio
<1> HIDE DEF a, b, c, F
<1>3. IsSeq(F) /\ ToSet(F) = {a, b, c}
  BY <1>1, Tuple3
<1>4. \A name, type : Has(F, name, type) <=>
        \/ a.name = name /\ a.type = type
        \/ b.name = name /\ b.type = type
        \/ c.name = name /\ c.type = type
  BY <1>3 DEF Has
<1>5. \A name, type : Has(F, name, type) <=>
        \/ type = "radio" /\ name \in {"algo", "size", "curve"}
  BY <1>2, <1>4
<1> QED
  BY <1>3, <1>5 DEF F

LEMMA SigningFieldsAre ==
  ASSUME NEW ways
  PROVE  /\ IsSeq(SigningFields(ways))
         /\ \A name, type : Has(SigningFields(ways), name, type) <=>
               \/ type = "radio" /\ name = "signing"
               \/ type = "pick" /\ name \in {"ca_cert", "ca_key"}
<1> DEFINE F == SigningFields(ways)
<1> DEFINE a == Radio("signing", ways)
           b == Pick("ca_cert")
           c == Pick("ca_key")
<1>1. F = <<a, b, c>>
  BY DEF SigningFields
<1>2. /\ a.name = "signing" /\ a.type = "radio"
      /\ b.name = "ca_cert" /\ b.type = "pick"
      /\ c.name = "ca_key" /\ c.type = "pick"
  BY DEF Field, Pick, Radio
<1> HIDE DEF a, b, c, F
<1>3. IsSeq(F) /\ ToSet(F) = {a, b, c}
  BY <1>1, Tuple3
<1>4. \A name, type : Has(F, name, type) <=>
        \/ a.name = name /\ a.type = type
        \/ b.name = name /\ b.type = type
        \/ c.name = name /\ c.type = type
  BY <1>3 DEF Has
<1>5. \A name, type : Has(F, name, type) <=>
        \/ type = "radio" /\ name = "signing"
        \/ type = "pick" /\ name \in {"ca_cert", "ca_key"}
  BY <1>2, <1>4
<1> QED
  BY <1>3, <1>5 DEF F

LEMMA CertSectionFieldsAre ==
  /\ IsSeq(CertSectionFields)
  /\ \A name, type : Has(CertSectionFields, name, type) <=>
        \/ type = "text" /\ name \in {"days", "path_len", "permitted_names", "excluded_names"}
        \/ type = "multi" /\ name \in {"key_usage", "ext_key_usage"}
        \/ type = "radio" /\ name = "cert_type"
<1> DEFINE F == CertSectionFields
<1> DEFINE a == Radio("cert_type", <<"Leaf", "CA">>)
           b == Line("days", <<"leafDays", "", "30", "bad">>)
           c == Line("path_len", <<"", "1", "bad">>)
           d == Line("permitted_names", <<"", "DNS:x", "bad">>)
           e == Line("excluded_names", <<"", "DNS:x", "bad">>)
           f == Field("key_usage", "multi", <<"leaf", "own">>)
           g == Field("ext_key_usage", "multi", <<"leaf", "own">>)
<1>1. F = <<a, b, c, d, e, f, g>>
  BY DEF CertSectionFields
<1>2. /\ a.name = "cert_type" /\ a.type = "radio"
      /\ b.name = "days" /\ b.type = "text"
      /\ c.name = "path_len" /\ c.type = "text"
      /\ d.name = "permitted_names" /\ d.type = "text"
      /\ e.name = "excluded_names" /\ e.type = "text"
      /\ f.name = "key_usage" /\ f.type = "multi"
      /\ g.name = "ext_key_usage" /\ g.type = "multi"
  BY DEF Field, Line, Radio
<1> HIDE DEF a, b, c, d, e, f, g, F
<1>3. IsSeq(F) /\ ToSet(F) = {a, b, c, d, e, f, g}
  BY <1>1, Tuple7
<1>4. \A name, type : Has(F, name, type) <=>
        \/ a.name = name /\ a.type = type
        \/ b.name = name /\ b.type = type
        \/ c.name = name /\ c.type = type
        \/ d.name = name /\ d.type = type
        \/ e.name = name /\ e.type = type
        \/ f.name = name /\ f.type = type
        \/ g.name = name /\ g.type = type
  BY <1>3 DEF Has
<1>5. \A name, type : Has(F, name, type) <=>
        \/ type = "text" /\ name \in {"days", "path_len", "permitted_names", "excluded_names"}
        \/ type = "multi" /\ name \in {"key_usage", "ext_key_usage"}
        \/ type = "radio" /\ name = "cert_type"
  BY <1>2, <1>4
<1> QED
  BY <1>3, <1>5 DEF F

LEMMA CreateKeyFieldsAre ==
  /\ IsSeq(CreateKeyFields)
  /\ \A name, type : Has(CreateKeyFields, name, type) <=>
        \/ type = "must" /\ name = "password"
        \/ type = "radio" /\ name \in {"algo", "size", "curve", "format"}
        \/ type = "check" /\ name = "encrypt"
        \/ type = "pick" /\ name = "output"
        \/ type = "button" /\ name = "submit"
<1> DEFINE S == KeyFields
           T == <<FormatField, Box("encrypt"), Must("password", <<"", "p">>), Pick("output"), Button>>
<1>1. CreateKeyFields = S \o T
  BY DEF CreateKeyFields
<1>2. /\ IsSeq(S)
      /\ \A name, type : Has(S, name, type) <=>
            \/ type = "radio" /\ name \in {"algo", "size", "curve"}
  BY KeyFieldsAre
<1>3. /\ IsSeq(T)
      /\ \A name, type : Has(T, name, type) <=>
            \/ type = "must" /\ name = "password"
            \/ type = "radio" /\ name = "format"
            \/ type = "check" /\ name = "encrypt"
            \/ type = "pick" /\ name = "output"
            \/ type = "button" /\ name = "submit"
  <2> DEFINE a == FormatField
             b == Box("encrypt")
             c == Must("password", <<"", "p">>)
             d == Pick("output")
             e == Button
  <2>1. T = <<a, b, c, d, e>>
    OBVIOUS
  <2>2. /\ a.name = "format" /\ a.type = "radio"
        /\ b.name = "encrypt" /\ b.type = "check"
        /\ c.name = "password" /\ c.type = "must"
        /\ d.name = "output" /\ d.type = "pick"
        /\ e.name = "submit" /\ e.type = "button"
    BY DEF Box, Button, Field, FormatField, Must, Pick, Radio
  <2> HIDE DEF a, b, c, d, e, T
  <2>3. IsSeq(T) /\ ToSet(T) = {a, b, c, d, e}
    BY <2>1, Tuple5
  <2>4. \A name, type : Has(T, name, type) <=>
          \/ a.name = name /\ a.type = type
          \/ b.name = name /\ b.type = type
          \/ c.name = name /\ c.type = type
          \/ d.name = name /\ d.type = type
          \/ e.name = name /\ e.type = type
    BY <2>3 DEF Has
  <2> QED
    BY <2>2, <2>3, <2>4
<1> HIDE DEF S, T
<1>4. IsSeq(S \o T) /\ \A name, type : Has(S \o T, name, type) <=> Has(S, name, type) \/ Has(T, name, type)
  BY <1>2, <1>3, FieldsJoin
<1> QED
  BY <1>1, <1>2, <1>3, <1>4

LEMMA CreateCertFieldsAre ==
  /\ IsSeq(CreateCertFields)
  /\ \A name, type : Has(CreateCertFields, name, type) <=>
        \/ type = "must" /\ name \in {"cn", "encrypt_password"}
        \/ type = "text" /\ name \in {"org", "country", "extra_dn", "days", "path_len", "permitted_names",
             "excluded_names"}
        \/ type = "list" /\ name = "sans"
        \/ type = "multi" /\ name \in {"key_usage", "ext_key_usage"}
        \/ type = "radio" /\ name \in {"key_source", "algo", "size", "curve", "signing", "cert_type", "output_mode",
             "format"}
        \/ type = "check" /\ name = "encrypt_key"
        \/ type = "pick" /\ name \in {"key_path", "ca_cert", "ca_key", "cert_out", "key_out", "bundle_out"}
        \/ type = "button" /\ name = "submit"
  /\ Only(CreateCertFields, "output_mode", Radio("output_mode", <<"Individual files", "Bundle (PEM)">>))
<1> DEFINE S == SubjectFields
           T == <<Radio("key_source", <<Generate, Existing>>), Pick("key_path")>>
           U == KeyFields
           V == SigningFields(<<"Self-signed", WithCA, Autosign>>)
           W == CertSectionFields
           X == <<Radio("output_mode", <<"Individual files", "Bundle (PEM)">>), FormatField, Box("encrypt_key"),
               Must("encrypt_password", <<"", "p">>), Pick("cert_out"), Pick("key_out"), Pick("bundle_out"),
               Button>>
           one == Radio("output_mode", <<"Individual files", "Bundle (PEM)">>)
<1>1. CreateCertFields = S \o T \o U \o V \o W \o X
  BY DEF CreateCertFields
<1>2. /\ IsSeq(S)
      /\ \A name, type : Has(S, name, type) <=>
            \/ type = "must" /\ name = "cn"
            \/ type = "text" /\ name \in {"org", "country", "extra_dn"}
            \/ type = "list" /\ name = "sans"
  BY SubjectFieldsAre
<1>3. /\ IsSeq(T)
      /\ \A name, type : Has(T, name, type) <=>
            \/ type = "radio" /\ name = "key_source"
            \/ type = "pick" /\ name = "key_path"
  <2> DEFINE a == Radio("key_source", <<Generate, Existing>>)
             b == Pick("key_path")
  <2>1. T = <<a, b>>
    OBVIOUS
  <2>2. /\ a.name = "key_source" /\ a.type = "radio"
        /\ b.name = "key_path" /\ b.type = "pick"
    BY DEF Field, Pick, Radio
  <2> HIDE DEF a, b, T
  <2>3. IsSeq(T) /\ ToSet(T) = {a, b}
    BY <2>1, Tuple2
  <2>4. \A name, type : Has(T, name, type) <=>
          \/ a.name = name /\ a.type = type
          \/ b.name = name /\ b.type = type
    BY <2>3 DEF Has
  <2> QED
    BY <2>2, <2>3, <2>4
<1>4. /\ IsSeq(U)
      /\ \A name, type : Has(U, name, type) <=>
            \/ type = "radio" /\ name \in {"algo", "size", "curve"}
  BY KeyFieldsAre
<1>5. /\ IsSeq(V)
      /\ \A name, type : Has(V, name, type) <=>
            \/ type = "radio" /\ name = "signing"
            \/ type = "pick" /\ name \in {"ca_cert", "ca_key"}
  BY SigningFieldsAre
<1>6. /\ IsSeq(W)
      /\ \A name, type : Has(W, name, type) <=>
            \/ type = "text" /\ name \in {"days", "path_len", "permitted_names", "excluded_names"}
            \/ type = "multi" /\ name \in {"key_usage", "ext_key_usage"}
            \/ type = "radio" /\ name = "cert_type"
  BY CertSectionFieldsAre
<1>7. /\ IsSeq(X)
      /\ \A name, type : Has(X, name, type) <=>
            \/ type = "must" /\ name = "encrypt_password"
            \/ type = "radio" /\ name \in {"output_mode", "format"}
            \/ type = "check" /\ name = "encrypt_key"
            \/ type = "pick" /\ name \in {"cert_out", "key_out", "bundle_out"}
            \/ type = "button" /\ name = "submit"
      /\ Only(X, "output_mode", one)
  <2> DEFINE a == Radio("output_mode", <<"Individual files", "Bundle (PEM)">>)
             b == FormatField
             c == Box("encrypt_key")
             d == Must("encrypt_password", <<"", "p">>)
             e == Pick("cert_out")
             f == Pick("key_out")
             g == Pick("bundle_out")
             h == Button
  <2>1. X = <<a, b, c, d, e, f, g, h>>
    OBVIOUS
  <2>2. /\ a.name = "output_mode" /\ a.type = "radio"
        /\ b.name = "format" /\ b.type = "radio"
        /\ c.name = "encrypt_key" /\ c.type = "check"
        /\ d.name = "encrypt_password" /\ d.type = "must"
        /\ e.name = "cert_out" /\ e.type = "pick"
        /\ f.name = "key_out" /\ f.type = "pick"
        /\ g.name = "bundle_out" /\ g.type = "pick"
        /\ h.name = "submit" /\ h.type = "button"
    BY DEF Box, Button, Field, FormatField, Must, Pick, Radio
  <2> HIDE DEF a, b, c, d, e, f, g, h, X
  <2>3. IsSeq(X) /\ ToSet(X) = {a, b, c, d, e, f, g, h}
    BY <2>1, Tuple8
  <2>4. \A name, type : Has(X, name, type) <=>
          \/ a.name = name /\ a.type = type
          \/ b.name = name /\ b.type = type
          \/ c.name = name /\ c.type = type
          \/ d.name = name /\ d.type = type
          \/ e.name = name /\ e.type = type
          \/ f.name = name /\ f.type = type
          \/ g.name = name /\ g.type = type
          \/ h.name = name /\ h.type = type
    BY <2>3 DEF Has
  <2>5. Only(X, "output_mode", a)
    BY <2>2, <2>3 DEF Only
  <2>6. a = one
    BY DEF a
  <2> HIDE DEF one
  <2> QED
    BY <2>2, <2>3, <2>4, <2>5, <2>6
<1> HIDE DEF S, T, U, V, W, X, one
<1>8. IsSeq(S \o T) /\ \A name, type : Has(S \o T, name, type) <=> Has(S, name, type) \/ Has(T, name, type)
  BY <1>2, <1>3, FieldsJoin
<1>9. IsSeq(S \o T \o U) /\ \A name, type : Has(S \o T \o U, name, type) <=> Has((S \o T), name, type) \/ Has(U,
        name, type)
  BY <1>8, <1>4, FieldsJoin
<1>10. IsSeq(S \o T \o U \o V) /\ \A name, type : Has(S \o T \o U \o V, name, type) <=> Has((S \o T \o U), name,
         type) \/ Has(V, name, type)
  BY <1>9, <1>5, FieldsJoin
<1>11. IsSeq(S \o T \o U \o V \o W) /\ \A name, type : Has(S \o T \o U \o V \o W, name,
         type) <=> Has((S \o T \o U \o V), name, type) \/ Has(W, name, type)
  BY <1>10, <1>6, FieldsJoin
<1>12. IsSeq(S \o T \o U \o V \o W \o X) /\ \A name, type : Has(S \o T \o U \o V \o W \o X, name,
         type) <=> Has((S \o T \o U \o V \o W), name, type) \/ Has(X, name, type)
  BY <1>11, <1>7, FieldsJoin
<1>13. Only(S, "output_mode", one) /\ Only(T, "output_mode", one) /\ Only(U, "output_mode", one) /\ Only(V,
         "output_mode", one) /\ Only(W, "output_mode", one)
  <2>1. Only(S, "output_mode", one)
    BY <1>2, Absent
  <2>2. Only(T, "output_mode", one)
    BY <1>3, Absent
  <2>3. Only(U, "output_mode", one)
    BY <1>4, Absent
  <2>4. Only(V, "output_mode", one)
    BY <1>5, Absent
  <2>5. Only(W, "output_mode", one)
    BY <1>6, Absent
  <2> QED
    BY <2>1, <2>2, <2>3, <2>4, <2>5
<1>14. Only(S \o T \o U \o V \o W \o X, "output_mode", one)
  BY <1>13, <1>2, <1>3, <1>4, <1>5, <1>6, <1>7, <1>8, <1>9, <1>10, <1>11, <1>12, FieldsJoin
<1>15. \A name, type : Has(CreateCertFields, name, type) <=>
        \/ type = "must" /\ name \in {"cn", "encrypt_password"}
        \/ type = "text" /\ name \in {"org", "country", "extra_dn", "days", "path_len", "permitted_names",
             "excluded_names"}
        \/ type = "list" /\ name = "sans"
        \/ type = "multi" /\ name \in {"key_usage", "ext_key_usage"}
        \/ type = "radio" /\ name \in {"key_source", "algo", "size", "curve", "signing", "cert_type", "output_mode",
             "format"}
        \/ type = "check" /\ name = "encrypt_key"
        \/ type = "pick" /\ name \in {"key_path", "ca_cert", "ca_key", "cert_out", "key_out", "bundle_out"}
        \/ type = "button" /\ name = "submit"
  BY <1>1, <1>2, <1>3, <1>4, <1>5, <1>6, <1>7, <1>8, <1>9, <1>10, <1>11, <1>12
<1> QED
  BY <1>1, <1>12, <1>14, <1>15 DEF one

LEMMA CreateCSRFieldsAre ==
  /\ IsSeq(CreateCSRFields)
  /\ \A name, type : Has(CreateCSRFields, name, type) <=>
        \/ type = "must" /\ name = "cn"
        \/ type = "text" /\ name \in {"org", "country", "extra_dn"}
        \/ type = "list" /\ name = "sans"
        \/ type = "radio" /\ name \in {"key_source", "algo", "size", "curve", "format"}
        \/ type = "pick" /\ name \in {"key_path", "csr_out", "key_out"}
        \/ type = "button" /\ name = "submit"
<1> DEFINE S == SubjectFields
           T == <<Radio("key_source", <<Generate, Existing>>), Pick("key_path")>>
           U == KeyFields
           V == <<FormatField, Pick("csr_out"), Pick("key_out"), Button>>
<1>1. CreateCSRFields = S \o T \o U \o V
  BY DEF CreateCSRFields
<1>2. /\ IsSeq(S)
      /\ \A name, type : Has(S, name, type) <=>
            \/ type = "must" /\ name = "cn"
            \/ type = "text" /\ name \in {"org", "country", "extra_dn"}
            \/ type = "list" /\ name = "sans"
  BY SubjectFieldsAre
<1>3. /\ IsSeq(T)
      /\ \A name, type : Has(T, name, type) <=>
            \/ type = "radio" /\ name = "key_source"
            \/ type = "pick" /\ name = "key_path"
  <2> DEFINE a == Radio("key_source", <<Generate, Existing>>)
             b == Pick("key_path")
  <2>1. T = <<a, b>>
    OBVIOUS
  <2>2. /\ a.name = "key_source" /\ a.type = "radio"
        /\ b.name = "key_path" /\ b.type = "pick"
    BY DEF Field, Pick, Radio
  <2> HIDE DEF a, b, T
  <2>3. IsSeq(T) /\ ToSet(T) = {a, b}
    BY <2>1, Tuple2
  <2>4. \A name, type : Has(T, name, type) <=>
          \/ a.name = name /\ a.type = type
          \/ b.name = name /\ b.type = type
    BY <2>3 DEF Has
  <2> QED
    BY <2>2, <2>3, <2>4
<1>4. /\ IsSeq(U)
      /\ \A name, type : Has(U, name, type) <=>
            \/ type = "radio" /\ name \in {"algo", "size", "curve"}
  BY KeyFieldsAre
<1>5. /\ IsSeq(V)
      /\ \A name, type : Has(V, name, type) <=>
            \/ type = "radio" /\ name = "format"
            \/ type = "pick" /\ name \in {"csr_out", "key_out"}
            \/ type = "button" /\ name = "submit"
  <2> DEFINE a == FormatField
             b == Pick("csr_out")
             c == Pick("key_out")
             d == Button
  <2>1. V = <<a, b, c, d>>
    OBVIOUS
  <2>2. /\ a.name = "format" /\ a.type = "radio"
        /\ b.name = "csr_out" /\ b.type = "pick"
        /\ c.name = "key_out" /\ c.type = "pick"
        /\ d.name = "submit" /\ d.type = "button"
    BY DEF Button, Field, FormatField, Pick, Radio
  <2> HIDE DEF a, b, c, d, V
  <2>3. IsSeq(V) /\ ToSet(V) = {a, b, c, d}
    BY <2>1, Tuple4
  <2>4. \A name, type : Has(V, name, type) <=>
          \/ a.name = name /\ a.type = type
          \/ b.name = name /\ b.type = type
          \/ c.name = name /\ c.type = type
          \/ d.name = name /\ d.type = type
    BY <2>3 DEF Has
  <2> QED
    BY <2>2, <2>3, <2>4
<1> HIDE DEF S, T, U, V
<1>6. IsSeq(S \o T) /\ \A name, type : Has(S \o T, name, type) <=> Has(S, name, type) \/ Has(T, name, type)
  BY <1>2, <1>3, FieldsJoin
<1>7. IsSeq(S \o T \o U) /\ \A name, type : Has(S \o T \o U, name, type) <=> Has((S \o T), name, type) \/ Has(U,
        name, type)
  BY <1>6, <1>4, FieldsJoin
<1>8. IsSeq(S \o T \o U \o V) /\ \A name, type : Has(S \o T \o U \o V, name, type) <=> Has((S \o T \o U), name,
        type) \/ Has(V, name, type)
  BY <1>7, <1>5, FieldsJoin
<1> QED
  BY <1>1, <1>2, <1>3, <1>4, <1>5, <1>6, <1>7, <1>8

LEMMA SignCSRFieldsAre ==
  /\ IsSeq(SignCSRFields)
  /\ \A name, type : Has(SignCSRFields, name, type) <=>
        \/ type = "text" /\ name \in {"days", "path_len", "permitted_names", "excluded_names"}
        \/ type = "multi" /\ name \in {"key_usage", "ext_key_usage"}
        \/ type = "radio" /\ name \in {"signing", "cert_type", "format"}
        \/ type = "pick" /\ name \in {"ca_cert", "ca_key", "output"}
        \/ type = "button" /\ name = "submit"
<1> DEFINE S == SigningFields(<<WithCA, Autosign>>)
           T == CertSectionFields
           U == <<FormatField, Pick("output"), Button>>
<1>1. SignCSRFields = S \o T \o U
  BY DEF SignCSRFields
<1>2. /\ IsSeq(S)
      /\ \A name, type : Has(S, name, type) <=>
            \/ type = "radio" /\ name = "signing"
            \/ type = "pick" /\ name \in {"ca_cert", "ca_key"}
  BY SigningFieldsAre
<1>3. /\ IsSeq(T)
      /\ \A name, type : Has(T, name, type) <=>
            \/ type = "text" /\ name \in {"days", "path_len", "permitted_names", "excluded_names"}
            \/ type = "multi" /\ name \in {"key_usage", "ext_key_usage"}
            \/ type = "radio" /\ name = "cert_type"
  BY CertSectionFieldsAre
<1>4. /\ IsSeq(U)
      /\ \A name, type : Has(U, name, type) <=>
            \/ type = "radio" /\ name = "format"
            \/ type = "pick" /\ name = "output"
            \/ type = "button" /\ name = "submit"
  <2> DEFINE a == FormatField
             b == Pick("output")
             c == Button
  <2>1. U = <<a, b, c>>
    OBVIOUS
  <2>2. /\ a.name = "format" /\ a.type = "radio"
        /\ b.name = "output" /\ b.type = "pick"
        /\ c.name = "submit" /\ c.type = "button"
    BY DEF Button, Field, FormatField, Pick, Radio
  <2> HIDE DEF a, b, c, U
  <2>3. IsSeq(U) /\ ToSet(U) = {a, b, c}
    BY <2>1, Tuple3
  <2>4. \A name, type : Has(U, name, type) <=>
          \/ a.name = name /\ a.type = type
          \/ b.name = name /\ b.type = type
          \/ c.name = name /\ c.type = type
    BY <2>3 DEF Has
  <2> QED
    BY <2>2, <2>3, <2>4
<1> HIDE DEF S, T, U
<1>5. IsSeq(S \o T) /\ \A name, type : Has(S \o T, name, type) <=> Has(S, name, type) \/ Has(T, name, type)
  BY <1>2, <1>3, FieldsJoin
<1>6. IsSeq(S \o T \o U) /\ \A name, type : Has(S \o T \o U, name, type) <=> Has((S \o T), name, type) \/ Has(U,
        name, type)
  BY <1>5, <1>4, FieldsJoin
<1> QED
  BY <1>1, <1>2, <1>3, <1>4, <1>5, <1>6

LEMMA RenewFieldsAre ==
  /\ IsSeq(RenewFields)
  /\ \A name, type : Has(RenewFields, name, type) <=>
        \/ type = "text" /\ name = "days"
        \/ type = "radio" /\ name \in {"key_source", "algo", "size", "curve", "signing", "format"}
        \/ type = "pick" /\ name \in {"key_path", "ca_cert", "ca_key", "cert_out", "key_out"}
        \/ type = "button" /\ name = "submit"
  /\ Only(RenewFields, "key_source", Radio("key_source", <<"Reuse existing", Generate>>))
<1> DEFINE S == <<Line("days", <<"leafDays", "", "30", "bad">>), Radio("key_source", <<"Reuse existing",
               Generate>>), Pick("key_path")>>
           T == KeyFields
           U == SigningFields(<<"Self-signed", WithCA, Autosign>>)
           V == <<FormatField, Pick("cert_out"), Pick("key_out"), Button>>
           one == Radio("key_source", <<"Reuse existing", Generate>>)
<1>1. RenewFields = S \o T \o U \o V
  BY DEF RenewFields
<1>2. /\ IsSeq(S)
      /\ \A name, type : Has(S, name, type) <=>
            \/ type = "text" /\ name = "days"
            \/ type = "radio" /\ name = "key_source"
            \/ type = "pick" /\ name = "key_path"
      /\ Only(S, "key_source", one)
  <2> DEFINE a == Line("days", <<"leafDays", "", "30", "bad">>)
             b == Radio("key_source", <<"Reuse existing", Generate>>)
             c == Pick("key_path")
  <2>1. S = <<a, b, c>>
    OBVIOUS
  <2>2. /\ a.name = "days" /\ a.type = "text"
        /\ b.name = "key_source" /\ b.type = "radio"
        /\ c.name = "key_path" /\ c.type = "pick"
    BY DEF Field, Line, Pick, Radio
  <2> HIDE DEF a, b, c, S
  <2>3. IsSeq(S) /\ ToSet(S) = {a, b, c}
    BY <2>1, Tuple3
  <2>4. \A name, type : Has(S, name, type) <=>
          \/ a.name = name /\ a.type = type
          \/ b.name = name /\ b.type = type
          \/ c.name = name /\ c.type = type
    BY <2>3 DEF Has
  <2>5. Only(S, "key_source", b)
    BY <2>2, <2>3 DEF Only
  <2>6. b = one
    BY DEF b
  <2> HIDE DEF one
  <2> QED
    BY <2>2, <2>3, <2>4, <2>5, <2>6
<1>3. /\ IsSeq(T)
      /\ \A name, type : Has(T, name, type) <=>
            \/ type = "radio" /\ name \in {"algo", "size", "curve"}
  BY KeyFieldsAre
<1>4. /\ IsSeq(U)
      /\ \A name, type : Has(U, name, type) <=>
            \/ type = "radio" /\ name = "signing"
            \/ type = "pick" /\ name \in {"ca_cert", "ca_key"}
  BY SigningFieldsAre
<1>5. /\ IsSeq(V)
      /\ \A name, type : Has(V, name, type) <=>
            \/ type = "radio" /\ name = "format"
            \/ type = "pick" /\ name \in {"cert_out", "key_out"}
            \/ type = "button" /\ name = "submit"
  <2> DEFINE a == FormatField
             b == Pick("cert_out")
             c == Pick("key_out")
             d == Button
  <2>1. V = <<a, b, c, d>>
    OBVIOUS
  <2>2. /\ a.name = "format" /\ a.type = "radio"
        /\ b.name = "cert_out" /\ b.type = "pick"
        /\ c.name = "key_out" /\ c.type = "pick"
        /\ d.name = "submit" /\ d.type = "button"
    BY DEF Button, Field, FormatField, Pick, Radio
  <2> HIDE DEF a, b, c, d, V
  <2>3. IsSeq(V) /\ ToSet(V) = {a, b, c, d}
    BY <2>1, Tuple4
  <2>4. \A name, type : Has(V, name, type) <=>
          \/ a.name = name /\ a.type = type
          \/ b.name = name /\ b.type = type
          \/ c.name = name /\ c.type = type
          \/ d.name = name /\ d.type = type
    BY <2>3 DEF Has
  <2> QED
    BY <2>2, <2>3, <2>4
<1> HIDE DEF S, T, U, V, one
<1>6. IsSeq(S \o T) /\ \A name, type : Has(S \o T, name, type) <=> Has(S, name, type) \/ Has(T, name, type)
  BY <1>2, <1>3, FieldsJoin
<1>7. IsSeq(S \o T \o U) /\ \A name, type : Has(S \o T \o U, name, type) <=> Has((S \o T), name, type) \/ Has(U,
        name, type)
  BY <1>6, <1>4, FieldsJoin
<1>8. IsSeq(S \o T \o U \o V) /\ \A name, type : Has(S \o T \o U \o V, name, type) <=> Has((S \o T \o U), name,
        type) \/ Has(V, name, type)
  BY <1>7, <1>5, FieldsJoin
<1>9. Only(T, "key_source", one) /\ Only(U, "key_source", one) /\ Only(V, "key_source", one)
  <2>1. Only(T, "key_source", one)
    BY <1>3, Absent
  <2>2. Only(U, "key_source", one)
    BY <1>4, Absent
  <2>3. Only(V, "key_source", one)
    BY <1>5, Absent
  <2> QED
    BY <2>1, <2>2, <2>3
<1>10. Only(S \o T \o U \o V, "key_source", one)
  BY <1>9, <1>2, <1>3, <1>4, <1>5, <1>6, <1>7, <1>8, FieldsJoin
<1>11. \A name, type : Has(RenewFields, name, type) <=>
        \/ type = "text" /\ name = "days"
        \/ type = "radio" /\ name \in {"key_source", "algo", "size", "curve", "signing", "format"}
        \/ type = "pick" /\ name \in {"key_path", "ca_cert", "ca_key", "cert_out", "key_out"}
        \/ type = "button" /\ name = "submit"
  BY <1>1, <1>2, <1>3, <1>4, <1>5, <1>6, <1>7, <1>8
<1> QED
  BY <1>1, <1>8, <1>10, <1>11 DEF one

LEMMA ConvertFieldsAre ==
  /\ IsSeq(ConvertFields)
  /\ \A name, type : Has(ConvertFields, name, type) <=>
        \/ type = "text" /\ name \in {"password", "alias"}
        \/ type = "radio" /\ name \in {"format", "include"}
        \/ type = "check" /\ name = "legacy"
        \/ type = "pick" /\ name = "output"
        \/ type = "button" /\ name = "submit"
<1> DEFINE F == ConvertFields
<1> DEFINE a == Radio("format", <<"PEM", "DER", "PKCS#12", "PKCS#7", "JKS">>)
           b == Radio("include", <<"All", "Certificates only", "Keys only">>)
           c == Line("password", <<"", "p">>)
           d == Line("alias", <<"", "a">>)
           e == Box("legacy")
           f == Pick("output")
           g == Button
<1>1. F = <<a, b, c, d, e, f, g>>
  BY DEF ConvertFields
<1>2. /\ a.name = "format" /\ a.type = "radio"
      /\ b.name = "include" /\ b.type = "radio"
      /\ c.name = "password" /\ c.type = "text"
      /\ d.name = "alias" /\ d.type = "text"
      /\ e.name = "legacy" /\ e.type = "check"
      /\ f.name = "output" /\ f.type = "pick"
      /\ g.name = "submit" /\ g.type = "button"
  BY DEF Box, Button, Field, Line, Pick, Radio
<1> HIDE DEF a, b, c, d, e, f, g, F
<1>3. IsSeq(F) /\ ToSet(F) = {a, b, c, d, e, f, g}
  BY <1>1, Tuple7
<1>4. \A name, type : Has(F, name, type) <=>
        \/ a.name = name /\ a.type = type
        \/ b.name = name /\ b.type = type
        \/ c.name = name /\ c.type = type
        \/ d.name = name /\ d.type = type
        \/ e.name = name /\ e.type = type
        \/ f.name = name /\ f.type = type
        \/ g.name = name /\ g.type = type
  BY <1>3 DEF Has
<1>5. \A name, type : Has(F, name, type) <=>
        \/ type = "text" /\ name \in {"password", "alias"}
        \/ type = "radio" /\ name \in {"format", "include"}
        \/ type = "check" /\ name = "legacy"
        \/ type = "pick" /\ name = "output"
        \/ type = "button" /\ name = "submit"
  BY <1>2, <1>4
<1> QED
  BY <1>3, <1>5 DEF F

LEMMA ExtractFieldsAre ==
  /\ IsSeq(ExtractFields)
  /\ \A name, type : Has(ExtractFields, name, type) <=>
        \/ type = "radio" /\ name \in {"type_filter", "format"}
        \/ type = "pick" /\ name = "output_dir"
        \/ type = "button" /\ name = "submit"
<1> DEFINE F == ExtractFields
<1> DEFINE a == Radio("type_filter", <<"All", "Certificates only", "Keys only">>)
           b == FormatField
           c == Pick("output_dir")
           d == Button
<1>1. F = <<a, b, c, d>>
  BY DEF ExtractFields
<1>2. /\ a.name = "type_filter" /\ a.type = "radio"
      /\ b.name = "format" /\ b.type = "radio"
      /\ c.name = "output_dir" /\ c.type = "pick"
      /\ d.name = "submit" /\ d.type = "button"
  BY DEF Button, Field, FormatField, Pick, Radio
<1> HIDE DEF a, b, c, d, F
<1>3. IsSeq(F) /\ ToSet(F) = {a, b, c, d}
  BY <1>1, Tuple4
<1>4. \A name, type : Has(F, name, type) <=>
        \/ a.name = name /\ a.type = type
        \/ b.name = name /\ b.type = type
        \/ c.name = name /\ c.type = type
        \/ d.name = name /\ d.type = type
  BY <1>3 DEF Has
<1>5. \A name, type : Has(F, name, type) <=>
        \/ type = "radio" /\ name \in {"type_filter", "format"}
        \/ type = "pick" /\ name = "output_dir"
        \/ type = "button" /\ name = "submit"
  BY <1>2, <1>4
<1> QED
  BY <1>3, <1>5 DEF F

LEMMA ExtractItemFieldsAre ==
  /\ IsSeq(ExtractItemFields)
  /\ \A name, type : Has(ExtractItemFields, name, type) <=>
        \/ type = "radio" /\ name = "format"
        \/ type = "pick" /\ name = "output_file"
        \/ type = "button" /\ name = "submit"
<1> DEFINE F == ExtractItemFields
<1> DEFINE a == FormatField
           b == Field("output_file", "pick", <<"pem", "der", "txt">>)
           c == Button
<1>1. F = <<a, b, c>>
  BY DEF ExtractItemFields
<1>2. /\ a.name = "format" /\ a.type = "radio"
      /\ b.name = "output_file" /\ b.type = "pick"
      /\ c.name = "submit" /\ c.type = "button"
  BY DEF Button, Field, FormatField, Radio
<1> HIDE DEF a, b, c, F
<1>3. IsSeq(F) /\ ToSet(F) = {a, b, c}
  BY <1>1, Tuple3
<1>4. \A name, type : Has(F, name, type) <=>
        \/ a.name = name /\ a.type = type
        \/ b.name = name /\ b.type = type
        \/ c.name = name /\ c.type = type
  BY <1>3 DEF Has
<1>5. \A name, type : Has(F, name, type) <=>
        \/ type = "radio" /\ name = "format"
        \/ type = "pick" /\ name = "output_file"
        \/ type = "button" /\ name = "submit"
  BY <1>2, <1>4
<1> QED
  BY <1>3, <1>5 DEF F

LEMMA ReencryptFieldsAre ==
  /\ IsSeq(ReencryptFields)
  /\ \A name, type : Has(ReencryptFields, name, type) <=>
        \/ type = "must" /\ name = "new_password"
        \/ type = "confirm" /\ name = "confirm_password"
        \/ type = "radio" /\ name = "output_mode"
        \/ type = "check" /\ name = "remove_password"
        \/ type = "pick" /\ name = "output"
        \/ type = "button" /\ name = "submit"
  /\ Only(ReencryptFields, "output_mode", Radio("output_mode", <<"Overwrite original", "New file">>))
<1> DEFINE F == ReencryptFields
<1> DEFINE a == Box("remove_password")
           b == Must("new_password", <<"", "p", "q">>)
           c == Field("confirm_password", "confirm", <<"", "p", "q">>)
           d == Radio("output_mode", <<"Overwrite original", "New file">>)
           e == Pick("output")
           f == Button
<1>1. F = <<a, b, c, d, e, f>>
  BY DEF ReencryptFields
<1>2. /\ a.name = "remove_password" /\ a.type = "check"
      /\ b.name = "new_password" /\ b.type = "must"
      /\ c.name = "confirm_password" /\ c.type = "confirm"
      /\ d.name = "output_mode" /\ d.type = "radio"
      /\ e.name = "output" /\ e.type = "pick"
      /\ f.name = "submit" /\ f.type = "button"
  BY DEF Box, Button, Field, Must, Pick, Radio
<1> HIDE DEF a, b, c, d, e, f, F
<1>3. IsSeq(F) /\ ToSet(F) = {a, b, c, d, e, f}
  BY <1>1, Tuple6
<1>4. \A name, type : Has(F, name, type) <=>
        \/ a.name = name /\ a.type = type
        \/ b.name = name /\ b.type = type
        \/ c.name = name /\ c.type = type
        \/ d.name = name /\ d.type = type
        \/ e.name = name /\ e.type = type
        \/ f.name = name /\ f.type = type
  BY <1>3 DEF Has
<1>5. \A name, type : Has(F, name, type) <=>
        \/ type = "must" /\ name = "new_password"
        \/ type = "confirm" /\ name = "confirm_password"
        \/ type = "radio" /\ name = "output_mode"
        \/ type = "check" /\ name = "remove_password"
        \/ type = "pick" /\ name = "output"
        \/ type = "button" /\ name = "submit"
  BY <1>2, <1>4
<1>6. Only(F, "output_mode", d)
  BY <1>2, <1>3 DEF Only
<1> QED
  BY <1>3, <1>5, <1>6 DEF F, d

LEMMA RemovePassphraseFieldsAre ==
  /\ IsSeq(RemovePassphraseFields)
  /\ \A name, type : Has(RemovePassphraseFields, name, type) <=>
        \/ type = "radio" /\ name = "output_mode"
        \/ type = "pick" /\ name = "output"
        \/ type = "button" /\ name = "submit"
  /\ Only(RemovePassphraseFields, "output_mode", Radio("output_mode", <<"Overwrite original", "New file">>))
<1> DEFINE F == RemovePassphraseFields
<1> DEFINE a == Radio("output_mode", <<"Overwrite original", "New file">>)
           b == Pick("output")
           c == Button
<1>1. F = <<a, b, c>>
  BY DEF RemovePassphraseFields
<1>2. /\ a.name = "output_mode" /\ a.type = "radio"
      /\ b.name = "output" /\ b.type = "pick"
      /\ c.name = "submit" /\ c.type = "button"
  BY DEF Button, Field, Pick, Radio
<1> HIDE DEF a, b, c, F
<1>3. IsSeq(F) /\ ToSet(F) = {a, b, c}
  BY <1>1, Tuple3
<1>4. \A name, type : Has(F, name, type) <=>
        \/ a.name = name /\ a.type = type
        \/ b.name = name /\ b.type = type
        \/ c.name = name /\ c.type = type
  BY <1>3 DEF Has
<1>5. \A name, type : Has(F, name, type) <=>
        \/ type = "radio" /\ name = "output_mode"
        \/ type = "pick" /\ name = "output"
        \/ type = "button" /\ name = "submit"
  BY <1>2, <1>4
<1>6. Only(F, "output_mode", a)
  BY <1>2, <1>3 DEF Only
<1> QED
  BY <1>3, <1>5, <1>6 DEF F, a

LEMMA BundleFieldsAre ==
  /\ IsSeq(BundleFields)
  /\ \A name, type : Has(BundleFields, name, type) <=>
        \/ type = "text" /\ name = "password"
        \/ type = "radio" /\ name = "format"
        \/ type = "check" /\ name = "legacy"
        \/ type = "pick" /\ name = "output"
        \/ type = "aliases" /\ name = "item_aliases"
        \/ type = "note" /\ name \in {"tip", "pkcs12_notice"}
        \/ type = "button" /\ name = "submit"
  /\ Only(BundleFields, "item_aliases", Field("item_aliases", "aliases", <<"", "a", "b", "A">>))
<1> DEFINE F == BundleFields
<1> DEFINE a == Radio("format", <<"PEM", "PKCS#12", "PKCS#7", "JKS">>)
           b == Field("item_aliases", "aliases", <<"", "a", "b", "A">>)
           c == Field("tip", "note", <<"">>)
           d == Field("pkcs12_notice", "note", <<"">>)
           e == Line("password", <<"", "p">>)
           f == Box("legacy")
           g == Pick("output")
           h == Button
<1>1. F = <<a, b, c, d, e, f, g, h>>
  BY DEF BundleFields
<1>2. /\ a.name = "format" /\ a.type = "radio"
      /\ b.name = "item_aliases" /\ b.type = "aliases"
      /\ c.name = "tip" /\ c.type = "note"
      /\ d.name = "pkcs12_notice" /\ d.type = "note"
      /\ e.name = "password" /\ e.type = "text"
      /\ f.name = "legacy" /\ f.type = "check"
      /\ g.name = "output" /\ g.type = "pick"
      /\ h.name = "submit" /\ h.type = "button"
  BY DEF Box, Button, Field, Line, Pick, Radio
<1> HIDE DEF a, b, c, d, e, f, g, h, F
<1>3. IsSeq(F) /\ ToSet(F) = {a, b, c, d, e, f, g, h}
  BY <1>1, Tuple8
<1>4. \A name, type : Has(F, name, type) <=>
        \/ a.name = name /\ a.type = type
        \/ b.name = name /\ b.type = type
        \/ c.name = name /\ c.type = type
        \/ d.name = name /\ d.type = type
        \/ e.name = name /\ e.type = type
        \/ f.name = name /\ f.type = type
        \/ g.name = name /\ g.type = type
        \/ h.name = name /\ h.type = type
  BY <1>3 DEF Has
<1>5. \A name, type : Has(F, name, type) <=>
        \/ type = "text" /\ name = "password"
        \/ type = "radio" /\ name = "format"
        \/ type = "check" /\ name = "legacy"
        \/ type = "pick" /\ name = "output"
        \/ type = "aliases" /\ name = "item_aliases"
        \/ type = "note" /\ name \in {"tip", "pkcs12_notice"}
        \/ type = "button" /\ name = "submit"
  BY <1>2, <1>4
<1>6. Only(F, "item_aliases", b)
  BY <1>2, <1>3 DEF Only
<1> QED
  BY <1>3, <1>5, <1>6 DEF F, b

LEMMA RemoteFieldsAre ==
  /\ IsSeq(RemoteFields)
  /\ \A name, type : Has(RemoteFields, name, type) <=>
        \/ type = "must" /\ name = "target"
        \/ type = "text" /\ name \in {"sni", "client_cert", "client_key", "client_p12", "client_jks",
             "client_alias", "client_password"}
        \/ type = "radio" /\ name \in {"starttls", "tls_version", "ip_version", "mtls_mode"}
        \/ type = "button" /\ name = "submit"
  /\ Only(RemoteFields, "mtls_mode", Radio("mtls_mode", <<"None", "PEM cert+key", "PKCS#12", "JKS">>))
<1> DEFINE F == RemoteFields
<1> DEFINE a == Must("target", <<"", "host">>)
           b == Radio("starttls", <<"None", "SMTP", "IMAP", "POP3", "FTP", "LDAP", "MySQL", "PostgreSQL">>)
           c == Radio("tls_version", <<"Auto", "TLS 1.0", "TLS 1.1", "TLS 1.2", "TLS 1.3">>)
           d == Line("sni", <<"", "x">>)
           e == Radio("ip_version", <<"Any", "IPv4", "IPv6">>)
           f == Radio("mtls_mode", <<"None", "PEM cert+key", "PKCS#12", "JKS">>)
           g == Line("client_cert", <<"", "x">>)
           h == Line("client_key", <<"", "x">>)
           i == Line("client_p12", <<"", "x">>)
           j == Line("client_jks", <<"", "x">>)
           k == Line("client_alias", <<"", "a">>)
           l == Line("client_password", <<"", "p">>)
           m == Button
<1>1. F = <<a, b, c, d, e, f, g, h, i, j, k, l, m>>
  BY DEF RemoteFields
<1>2. /\ a.name = "target" /\ a.type = "must"
      /\ b.name = "starttls" /\ b.type = "radio"
      /\ c.name = "tls_version" /\ c.type = "radio"
      /\ d.name = "sni" /\ d.type = "text"
      /\ e.name = "ip_version" /\ e.type = "radio"
      /\ f.name = "mtls_mode" /\ f.type = "radio"
      /\ g.name = "client_cert" /\ g.type = "text"
      /\ h.name = "client_key" /\ h.type = "text"
      /\ i.name = "client_p12" /\ i.type = "text"
      /\ j.name = "client_jks" /\ j.type = "text"
      /\ k.name = "client_alias" /\ k.type = "text"
      /\ l.name = "client_password" /\ l.type = "text"
      /\ m.name = "submit" /\ m.type = "button"
  BY DEF Button, Field, Line, Must, Radio
<1> HIDE DEF a, b, c, d, e, f, g, h, i, j, k, l, m, F
<1>3. IsSeq(F) /\ ToSet(F) = {a, b, c, d, e, f, g, h, i, j, k, l, m}
  BY <1>1, Tuple13
<1>4. \A name, type : Has(F, name, type) <=>
        \/ a.name = name /\ a.type = type
        \/ b.name = name /\ b.type = type
        \/ c.name = name /\ c.type = type
        \/ d.name = name /\ d.type = type
        \/ e.name = name /\ e.type = type
        \/ f.name = name /\ f.type = type
        \/ g.name = name /\ g.type = type
        \/ h.name = name /\ h.type = type
        \/ i.name = name /\ i.type = type
        \/ j.name = name /\ j.type = type
        \/ k.name = name /\ k.type = type
        \/ l.name = name /\ l.type = type
        \/ m.name = name /\ m.type = type
  BY <1>3 DEF Has
<1>5. \A name, type : Has(F, name, type) <=>
        \/ type = "must" /\ name = "target"
        \/ type = "text" /\ name \in {"sni", "client_cert", "client_key", "client_p12", "client_jks",
             "client_alias", "client_password"}
        \/ type = "radio" /\ name \in {"starttls", "tls_version", "ip_version", "mtls_mode"}
        \/ type = "button" /\ name = "submit"
  BY <1>2, <1>4
<1>6. Only(F, "mtls_mode", f)
  BY <1>2, <1>3 DEF Only
<1> QED
  BY <1>3, <1>5, <1>6 DEF F, f

LEMMA ProxyFieldsAre ==
  /\ IsSeq(ProxyFields)
  /\ \A name, type : Has(ProxyFields, name, type) <=>
        \/ type = "must" /\ name \in {"proxy_listen", "proxy_target"}
        \/ type = "check" /\ name = "proxy_aggressive"
        \/ type = "button" /\ name = "submit"
<1> DEFINE F == ProxyFields
<1> DEFINE a == Must("proxy_listen", <<"", "at">>)
           b == Must("proxy_target", <<"", "host">>)
           c == Box("proxy_aggressive")
           d == Button
<1>1. F = <<a, b, c, d>>
  BY DEF ProxyFields
<1>2. /\ a.name = "proxy_listen" /\ a.type = "must"
      /\ b.name = "proxy_target" /\ b.type = "must"
      /\ c.name = "proxy_aggressive" /\ c.type = "check"
      /\ d.name = "submit" /\ d.type = "button"
  BY DEF Box, Button, Field, Must
<1> HIDE DEF a, b, c, d, F
<1>3. IsSeq(F) /\ ToSet(F) = {a, b, c, d}
  BY <1>1, Tuple4
<1>4. \A name, type : Has(F, name, type) <=>
        \/ a.name = name /\ a.type = type
        \/ b.name = name /\ b.type = type
        \/ c.name = name /\ c.type = type
        \/ d.name = name /\ d.type = type
  BY <1>3 DEF Has
<1>5. \A name, type : Has(F, name, type) <=>
        \/ type = "must" /\ name \in {"proxy_listen", "proxy_target"}
        \/ type = "check" /\ name = "proxy_aggressive"
        \/ type = "button" /\ name = "submit"
  BY <1>2, <1>4
<1> QED
  BY <1>3, <1>5 DEF F

LEMMA PcapFieldsAre ==
  /\ IsSeq(PcapFields)
  /\ \A name, type : Has(PcapFields, name, type) <=>
        \/ type = "check" /\ name = "pcap_aggressive"
        \/ type = "pick" /\ name = "pcap_file"
        \/ type = "button" /\ name = "submit"
<1> DEFINE F == PcapFields
<1> DEFINE a == Pick("pcap_file")
           b == Box("pcap_aggressive")
           c == Button
<1>1. F = <<a, b, c>>
  BY DEF PcapFields
<1>2. /\ a.name = "pcap_file" /\ a.type = "pick"
      /\ b.name = "pcap_aggressive" /\ b.type = "check"
      /\ c.name = "submit" /\ c.type = "button"
  BY DEF Box, Button, Field, Pick
<1> HIDE DEF a, b, c, F
<1>3. IsSeq(F) /\ ToSet(F) = {a, b, c}
  BY <1>1, Tuple3
<1>4. \A name, type : Has(F, name, type) <=>
        \/ a.name = name /\ a.type = type
        \/ b.name = name /\ b.type = type
        \/ c.name = name /\ c.type = type
  BY <1>3 DEF Has
<1>5. \A name, type : Has(F, name, type) <=>
        \/ type = "check" /\ name = "pcap_aggressive"
        \/ type = "pick" /\ name = "pcap_file"
        \/ type = "button" /\ name = "submit"
  BY <1>2, <1>4
<1> QED
  BY <1>3, <1>5 DEF F

-----------------------------------------------------------------------------
(* The rules of each form: what they target, and when they ask for it.       *)

LEMMA CreateKeyAsks ==
  ASSUME NEW v
  PROVE  /\ Sound(RulesOf("createKey", v))
         /\ Targets(RulesOf("createKey", v)) = {"size", "curve", "encrypt", "password"}
         /\ \A name, shown : Asked(RulesOf("createKey", v), name, shown) <=>
              \/ name = "size" /\ v.algo = "RSA" /\ "algo" \in shown
              \/ name = "curve" /\ v.algo = "ECDSA" /\ "algo" \in shown
              \/ name = "encrypt" /\ v.format = "PEM" /\ "format" \in shown
              \/ name = "password" /\ v.encrypt = "true" /\ "encrypt" \in shown
<1> DEFINE R == RulesOf("createKey", v)
<1>1. R = CreateKeyRules(v)
  BY DEF RulesOf
<1> HIDE DEF R
<1>2. Sound(R) /\ Targets(R) = {"size", "curve", "encrypt", "password"}
  BY <1>1, CreateKeyGroup
<1>3. \A name, shown : Asked(R, name, shown) <=>
        \/ name = "size" /\ v.algo = "RSA" /\ "algo" \in shown
        \/ name = "curve" /\ v.algo = "ECDSA" /\ "algo" \in shown
        \/ name = "encrypt" /\ v.format = "PEM" /\ "format" \in shown
        \/ name = "password" /\ v.encrypt = "true" /\ "encrypt" \in shown
  BY <1>1, CreateKeyGroup
<1> QED
  BY <1>2, <1>3 DEF R

LEMMA CreateCertAsks ==
  ASSUME NEW v
  PROVE  /\ Sound(RulesOf("createCert", v))
         /\ Targets(RulesOf("createCert", v)) = {"path_len", "permitted_names", "excluded_names", "key_path",
              "algo", "size", "curve", "ca_cert", "ca_key", "format", "cert_out", "key_out", "bundle_out",
              "encrypt_key", "encrypt_password"}
         /\ \A name, shown : Asked(RulesOf("createCert", v), name, shown) <=>
              \/ name \in {"path_len", "permitted_names", "excluded_names"} /\ v.cert_type = "CA" /\
                   "cert_type" \in shown
              \/ name = "key_path" /\ v.key_source = Existing /\ "key_source" \in shown
              \/ name = "algo" /\ v.key_source = Generate /\ "key_source" \in shown
              \/ name = "size" /\ v.key_source = Generate /\ v.algo = "RSA" /\ ("algo" \in shown \/
                   "key_source" \in shown)
              \/ name = "curve" /\ v.key_source = Generate /\ v.algo = "ECDSA" /\ ("algo" \in shown \/
                   "key_source" \in shown)
              \/ name \in {"ca_cert", "ca_key"} /\ v.signing = WithCA /\ "signing" \in shown
              \/ name \in {"format", "cert_out"} /\ InFiles(v) /\ "output_mode" \in shown
              \/ name = "key_out" /\ InFiles(v) /\ v.key_source = Generate /\ ("output_mode" \in shown \/
                   "key_source" \in shown)
              \/ name = "bundle_out" /\ ~ InFiles(v) /\ "output_mode" \in shown
              \/ name = "encrypt_key" /\ MayEncrypt(v) /\ ("key_source" \in shown \/ "output_mode" \in shown \/
                   "format" \in shown)
              \/ name = "encrypt_password" /\ v.encrypt_key = "true" /\ "encrypt_key" \in shown
<1> DEFINE S == CertSectionRules(v)
           T == KeySourceRules(v, Existing)
           U == SigningRules(v)
           V == OutputRules(v)
           W == EncryptRules(v)
           X == EncryptPasswordRules(v)
           R == RulesOf("createCert", v)
<1>1. R = S \o T \o U \o V \o W \o X
  BY DEF RulesOf, CreateCertRules
<1>2. /\ Sound(S)
      /\ Targets(S) = {"path_len", "permitted_names", "excluded_names"}
      /\ Ons(S) = {"cert_type"}
      /\ \A name, shown : Asked(S, name, shown) <=>
           \/ name \in {"path_len", "permitted_names", "excluded_names"} /\ v.cert_type = "CA" /\
                "cert_type" \in shown
  BY CertSectionGroup
<1>3. /\ Sound(T)
      /\ Targets(T) = {"key_path", "algo", "size", "curve"}
      /\ Ons(T) = {"key_source", "algo"}
      /\ \A name, shown : Asked(T, name, shown) <=>
           \/ name = "key_path" /\ v.key_source = Existing /\ "key_source" \in shown
           \/ name = "algo" /\ v.key_source = Generate /\ "key_source" \in shown
           \/ name = "size" /\ v.key_source = Generate /\ v.algo = "RSA" /\ ("algo" \in shown \/
                "key_source" \in shown)
           \/ name = "curve" /\ v.key_source = Generate /\ v.algo = "ECDSA" /\ ("algo" \in shown \/
                "key_source" \in shown)
  BY KeySourceGroup
<1>4. /\ Sound(U)
      /\ Targets(U) = {"ca_cert", "ca_key"}
      /\ Ons(U) = {"signing"}
      /\ \A name, shown : Asked(U, name, shown) <=>
           \/ name \in {"ca_cert", "ca_key"} /\ v.signing = WithCA /\ "signing" \in shown
  BY SigningGroup
<1>5. /\ Sound(V)
      /\ Targets(V) = {"format", "cert_out", "key_out", "bundle_out"}
      /\ Ons(V) = {"output_mode", "key_source"}
      /\ \A name, shown : Asked(V, name, shown) <=>
           \/ name \in {"format", "cert_out"} /\ InFiles(v) /\ "output_mode" \in shown
           \/ name = "key_out" /\ InFiles(v) /\ v.key_source = Generate /\ ("output_mode" \in shown \/
                "key_source" \in shown)
           \/ name = "bundle_out" /\ ~ InFiles(v) /\ "output_mode" \in shown
  BY OutputGroup
<1>6. /\ Sound(W)
      /\ Targets(W) = {"encrypt_key"}
      /\ Ons(W) = {"key_source", "output_mode", "format"}
      /\ \A name, shown : Asked(W, name, shown) <=>
           \/ name = "encrypt_key" /\ MayEncrypt(v) /\ ("key_source" \in shown \/ "output_mode" \in shown \/
                "format" \in shown)
  BY EncryptGroup
<1>7. /\ Sound(X)
      /\ Targets(X) = {"encrypt_password"}
      /\ Ons(X) = {"encrypt_key"}
      /\ \A name, shown : Asked(X, name, shown) <=>
           \/ name = "encrypt_password" /\ v.encrypt_key = "true" /\ "encrypt_key" \in shown
  BY EncryptPasswordGroup
<1> HIDE DEF S, T, U, V, W, X, R
<1>8. /\ Sound(S \o T)
      /\ Targets(S \o T) = {"path_len", "permitted_names", "excluded_names", "key_path", "algo", "size", "curve"}
      /\ Ons(S \o T) = {"cert_type", "key_source", "algo"}
      /\ \A name, shown : Asked(S \o T, name, shown) <=> Asked(S, name, shown) \/ Asked(T, name, shown)
  <2>1. Targets(T) \cap Ons(S) = {}
    BY <1>2, <1>3
  <2>2. /\ Sound(S \o T)
        /\ Targets(S \o T) = Targets(S) \union Targets(T)
        /\ Ons(S \o T) = Ons(S) \union Ons(T)
        /\ \A name, shown : Asked(S \o T, name, shown) <=> Asked(S, name, shown) \/ Asked(T, name, shown)
    BY <1>2, <1>3, <2>1, GroupsJoin
  <2> QED
    BY <1>2, <1>3, <2>2
<1>9. /\ Sound(S \o T \o U)
      /\ Targets(S \o T \o U) = {"path_len", "permitted_names", "excluded_names", "key_path", "algo", "size",
           "curve", "ca_cert", "ca_key"}
      /\ Ons(S \o T \o U) = {"cert_type", "key_source", "algo", "signing"}
      /\ \A name, shown : Asked(S \o T \o U, name, shown) <=> Asked(S \o T, name, shown) \/ Asked(U, name, shown)
  <2>1. Targets(U) \cap Ons(S \o T) = {}
    BY <1>8, <1>4
  <2>2. /\ Sound(S \o T \o U)
        /\ Targets(S \o T \o U) = Targets(S \o T) \union Targets(U)
        /\ Ons(S \o T \o U) = Ons(S \o T) \union Ons(U)
        /\ \A name, shown : Asked(S \o T \o U, name, shown) <=> Asked(S \o T, name, shown) \/ Asked(U, name, shown)
    BY <1>8, <1>4, <2>1, GroupsJoin
  <2> QED
    BY <1>8, <1>4, <2>2
<1>10. /\ Sound(S \o T \o U \o V)
      /\ Targets(S \o T \o U \o V) = {"path_len", "permitted_names", "excluded_names", "key_path", "algo", "size",
           "curve", "ca_cert", "ca_key", "format", "cert_out", "key_out", "bundle_out"}
      /\ Ons(S \o T \o U \o V) = {"cert_type", "key_source", "algo", "signing", "output_mode"}
      /\ \A name, shown : Asked(S \o T \o U \o V, name, shown) <=> Asked(S \o T \o U, name, shown) \/ Asked(V, name,
           shown)
  <2>1. Targets(V) \cap Ons(S \o T \o U) = {}
    BY <1>9, <1>5
  <2>2. /\ Sound(S \o T \o U \o V)
        /\ Targets(S \o T \o U \o V) = Targets(S \o T \o U) \union Targets(V)
        /\ Ons(S \o T \o U \o V) = Ons(S \o T \o U) \union Ons(V)
        /\ \A name, shown : Asked(S \o T \o U \o V, name, shown) <=> Asked(S \o T \o U, name, shown) \/ Asked(V,
             name, shown)
    BY <1>9, <1>5, <2>1, GroupsJoin
  <2> QED
    BY <1>9, <1>5, <2>2
<1>11. /\ Sound(S \o T \o U \o V \o W)
      /\ Targets(S \o T \o U \o V \o W) = {"path_len", "permitted_names", "excluded_names", "key_path", "algo",
           "size", "curve", "ca_cert", "ca_key", "format", "cert_out", "key_out", "bundle_out", "encrypt_key"}
      /\ Ons(S \o T \o U \o V \o W) = {"cert_type", "key_source", "algo", "signing", "output_mode", "format"}
      /\ \A name, shown : Asked(S \o T \o U \o V \o W, name, shown) <=> Asked(S \o T \o U \o V, name, shown) \/
           Asked(W, name, shown)
  <2>1. Targets(W) \cap Ons(S \o T \o U \o V) = {}
    BY <1>10, <1>6
  <2>2. /\ Sound(S \o T \o U \o V \o W)
        /\ Targets(S \o T \o U \o V \o W) = Targets(S \o T \o U \o V) \union Targets(W)
        /\ Ons(S \o T \o U \o V \o W) = Ons(S \o T \o U \o V) \union Ons(W)
        /\ \A name, shown : Asked(S \o T \o U \o V \o W, name, shown) <=> Asked(S \o T \o U \o V, name, shown) \/
             Asked(W, name, shown)
    BY <1>10, <1>6, <2>1, GroupsJoin
  <2> QED
    BY <1>10, <1>6, <2>2
<1>12. /\ Sound(S \o T \o U \o V \o W \o X)
      /\ Targets(S \o T \o U \o V \o W \o X) = {"path_len", "permitted_names", "excluded_names", "key_path", "algo",
           "size", "curve", "ca_cert", "ca_key", "format", "cert_out", "key_out", "bundle_out", "encrypt_key",
           "encrypt_password"}
      /\ Ons(S \o T \o U \o V \o W \o X) = {"cert_type", "key_source", "algo", "signing", "output_mode", "format",
           "encrypt_key"}
      /\ \A name, shown : Asked(S \o T \o U \o V \o W \o X, name, shown) <=> Asked(S \o T \o U \o V \o W, name,
           shown) \/ Asked(X, name, shown)
  <2>1. Targets(X) \cap Ons(S \o T \o U \o V \o W) = {}
    BY <1>11, <1>7
  <2>2. /\ Sound(S \o T \o U \o V \o W \o X)
        /\ Targets(S \o T \o U \o V \o W \o X) = Targets(S \o T \o U \o V \o W) \union Targets(X)
        /\ Ons(S \o T \o U \o V \o W \o X) = Ons(S \o T \o U \o V \o W) \union Ons(X)
        /\ \A name, shown : Asked(S \o T \o U \o V \o W \o X, name, shown) <=> Asked(S \o T \o U \o V \o W, name,
             shown) \/ Asked(X, name, shown)
    BY <1>11, <1>7, <2>1, GroupsJoin
  <2> QED
    BY <1>11, <1>7, <2>2
<1>13. Sound(R) /\ Targets(R) = {"path_len", "permitted_names", "excluded_names", "key_path", "algo", "size",
         "curve", "ca_cert", "ca_key", "format", "cert_out", "key_out", "bundle_out", "encrypt_key",
         "encrypt_password"}
  BY <1>1, <1>12
<1>14. \A name, shown : Asked(R, name, shown) <=> Asked(S, name, shown) \/ Asked(T, name, shown) \/ Asked(U, name,
         shown) \/ Asked(V, name, shown) \/ Asked(W, name, shown) \/ Asked(X, name, shown)
  BY <1>1, <1>8, <1>9, <1>10, <1>11, <1>12
<1>15. \A name, shown : Asked(R, name, shown) <=>
        \/ name \in {"path_len", "permitted_names", "excluded_names"} /\ v.cert_type = "CA" /\ "cert_type" \in shown
        \/ name = "key_path" /\ v.key_source = Existing /\ "key_source" \in shown
        \/ name = "algo" /\ v.key_source = Generate /\ "key_source" \in shown
        \/ name = "size" /\ v.key_source = Generate /\ v.algo = "RSA" /\ ("algo" \in shown \/
             "key_source" \in shown)
        \/ name = "curve" /\ v.key_source = Generate /\ v.algo = "ECDSA" /\ ("algo" \in shown \/
             "key_source" \in shown)
        \/ name \in {"ca_cert", "ca_key"} /\ v.signing = WithCA /\ "signing" \in shown
        \/ name \in {"format", "cert_out"} /\ InFiles(v) /\ "output_mode" \in shown
        \/ name = "key_out" /\ InFiles(v) /\ v.key_source = Generate /\ ("output_mode" \in shown \/
             "key_source" \in shown)
        \/ name = "bundle_out" /\ ~ InFiles(v) /\ "output_mode" \in shown
        \/ name = "encrypt_key" /\ MayEncrypt(v) /\ ("key_source" \in shown \/ "output_mode" \in shown \/
             "format" \in shown)
        \/ name = "encrypt_password" /\ v.encrypt_key = "true" /\ "encrypt_key" \in shown
  BY <1>14, <1>2, <1>3, <1>4, <1>5, <1>6, <1>7
<1> QED
  BY <1>13, <1>15 DEF R

LEMMA CreateCSRAsks ==
  ASSUME NEW v
  PROVE  /\ Sound(RulesOf("createCSR", v))
         /\ Targets(RulesOf("createCSR", v)) = {"key_path", "algo", "size", "curve", "key_out"}
         /\ \A name, shown : Asked(RulesOf("createCSR", v), name, shown) <=>
              \/ name = "key_path" /\ v.key_source = Existing /\ "key_source" \in shown
              \/ name \in {"algo", "key_out"} /\ v.key_source = Generate /\ "key_source" \in shown
              \/ name = "size" /\ v.key_source = Generate /\ v.algo = "RSA" /\ ("algo" \in shown \/
                   "key_source" \in shown)
              \/ name = "curve" /\ v.key_source = Generate /\ v.algo = "ECDSA" /\ ("algo" \in shown \/
                   "key_source" \in shown)
<1> DEFINE S == KeySourceRules(v, Existing)
           T == KeyOutRules(v)
           R == RulesOf("createCSR", v)
<1>1. R = S \o T
  BY DEF RulesOf, CreateCSRRules
<1>2. /\ Sound(S)
      /\ Targets(S) = {"key_path", "algo", "size", "curve"}
      /\ Ons(S) = {"key_source", "algo"}
      /\ \A name, shown : Asked(S, name, shown) <=>
           \/ name = "key_path" /\ v.key_source = Existing /\ "key_source" \in shown
           \/ name = "algo" /\ v.key_source = Generate /\ "key_source" \in shown
           \/ name = "size" /\ v.key_source = Generate /\ v.algo = "RSA" /\ ("algo" \in shown \/
                "key_source" \in shown)
           \/ name = "curve" /\ v.key_source = Generate /\ v.algo = "ECDSA" /\ ("algo" \in shown \/
                "key_source" \in shown)
  BY KeySourceGroup
<1>3. /\ Sound(T)
      /\ Targets(T) = {"key_out"}
      /\ Ons(T) = {"key_source"}
      /\ \A name, shown : Asked(T, name, shown) <=>
           \/ name = "key_out" /\ v.key_source = Generate /\ "key_source" \in shown
  BY KeyOutGroup
<1> HIDE DEF S, T, R
<1>4. /\ Sound(S \o T)
      /\ Targets(S \o T) = {"key_path", "algo", "size", "curve", "key_out"}
      /\ Ons(S \o T) = {"key_source", "algo"}
      /\ \A name, shown : Asked(S \o T, name, shown) <=> Asked(S, name, shown) \/ Asked(T, name, shown)
  <2>1. Targets(T) \cap Ons(S) = {}
    BY <1>2, <1>3
  <2>2. /\ Sound(S \o T)
        /\ Targets(S \o T) = Targets(S) \union Targets(T)
        /\ Ons(S \o T) = Ons(S) \union Ons(T)
        /\ \A name, shown : Asked(S \o T, name, shown) <=> Asked(S, name, shown) \/ Asked(T, name, shown)
    BY <1>2, <1>3, <2>1, GroupsJoin
  <2> QED
    BY <1>2, <1>3, <2>2
<1>5. Sound(R) /\ Targets(R) = {"key_path", "algo", "size", "curve", "key_out"}
  BY <1>1, <1>4
<1>6. \A name, shown : Asked(R, name, shown) <=> Asked(S, name, shown) \/ Asked(T, name, shown)
  BY <1>1, <1>4
<1>7. \A name, shown : Asked(R, name, shown) <=>
        \/ name = "key_path" /\ v.key_source = Existing /\ "key_source" \in shown
        \/ name \in {"algo", "key_out"} /\ v.key_source = Generate /\ "key_source" \in shown
        \/ name = "size" /\ v.key_source = Generate /\ v.algo = "RSA" /\ ("algo" \in shown \/
             "key_source" \in shown)
        \/ name = "curve" /\ v.key_source = Generate /\ v.algo = "ECDSA" /\ ("algo" \in shown \/
             "key_source" \in shown)
  BY <1>6, <1>2, <1>3
<1> QED
  BY <1>5, <1>7 DEF R

LEMMA SignCSRAsks ==
  ASSUME NEW v
  PROVE  /\ Sound(RulesOf("signCSR", v))
         /\ Targets(RulesOf("signCSR", v)) = {"path_len", "permitted_names", "excluded_names", "ca_cert", "ca_key"}
         /\ \A name, shown : Asked(RulesOf("signCSR", v), name, shown) <=>
              \/ name \in {"path_len", "permitted_names", "excluded_names"} /\ v.cert_type = "CA" /\
                   "cert_type" \in shown
              \/ name \in {"ca_cert", "ca_key"} /\ v.signing = WithCA /\ "signing" \in shown
<1> DEFINE S == CertSectionRules(v)
           T == SigningRules(v)
           R == RulesOf("signCSR", v)
<1>1. R = S \o T
  BY DEF RulesOf, SignCSRRules
<1>2. /\ Sound(S)
      /\ Targets(S) = {"path_len", "permitted_names", "excluded_names"}
      /\ Ons(S) = {"cert_type"}
      /\ \A name, shown : Asked(S, name, shown) <=>
           \/ name \in {"path_len", "permitted_names", "excluded_names"} /\ v.cert_type = "CA" /\
                "cert_type" \in shown
  BY CertSectionGroup
<1>3. /\ Sound(T)
      /\ Targets(T) = {"ca_cert", "ca_key"}
      /\ Ons(T) = {"signing"}
      /\ \A name, shown : Asked(T, name, shown) <=>
           \/ name \in {"ca_cert", "ca_key"} /\ v.signing = WithCA /\ "signing" \in shown
  BY SigningGroup
<1> HIDE DEF S, T, R
<1>4. /\ Sound(S \o T)
      /\ Targets(S \o T) = {"path_len", "permitted_names", "excluded_names", "ca_cert", "ca_key"}
      /\ Ons(S \o T) = {"cert_type", "signing"}
      /\ \A name, shown : Asked(S \o T, name, shown) <=> Asked(S, name, shown) \/ Asked(T, name, shown)
  <2>1. Targets(T) \cap Ons(S) = {}
    BY <1>2, <1>3
  <2>2. /\ Sound(S \o T)
        /\ Targets(S \o T) = Targets(S) \union Targets(T)
        /\ Ons(S \o T) = Ons(S) \union Ons(T)
        /\ \A name, shown : Asked(S \o T, name, shown) <=> Asked(S, name, shown) \/ Asked(T, name, shown)
    BY <1>2, <1>3, <2>1, GroupsJoin
  <2> QED
    BY <1>2, <1>3, <2>2
<1>5. Sound(R) /\ Targets(R) = {"path_len", "permitted_names", "excluded_names", "ca_cert", "ca_key"}
  BY <1>1, <1>4
<1>6. \A name, shown : Asked(R, name, shown) <=> Asked(S, name, shown) \/ Asked(T, name, shown)
  BY <1>1, <1>4
<1>7. \A name, shown : Asked(R, name, shown) <=>
        \/ name \in {"path_len", "permitted_names", "excluded_names"} /\ v.cert_type = "CA" /\ "cert_type" \in shown
        \/ name \in {"ca_cert", "ca_key"} /\ v.signing = WithCA /\ "signing" \in shown
  BY <1>6, <1>2, <1>3
<1> QED
  BY <1>5, <1>7 DEF R

LEMMA RenewAsks ==
  ASSUME NEW v
  PROVE  /\ Sound(RulesOf("renew", v))
         /\ Targets(RulesOf("renew", v)) = {"key_path", "algo", "size", "curve", "ca_cert", "ca_key", "key_out"}
         /\ \A name, shown : Asked(RulesOf("renew", v), name, shown) <=>
              \/ name = "key_path" /\ v.key_source = "Reuse existing" /\ "key_source" \in shown
              \/ name \in {"algo", "key_out"} /\ v.key_source = Generate /\ "key_source" \in shown
              \/ name = "size" /\ v.key_source = Generate /\ v.algo = "RSA" /\ ("algo" \in shown \/
                   "key_source" \in shown)
              \/ name = "curve" /\ v.key_source = Generate /\ v.algo = "ECDSA" /\ ("algo" \in shown \/
                   "key_source" \in shown)
              \/ name \in {"ca_cert", "ca_key"} /\ v.signing = WithCA /\ "signing" \in shown
<1> DEFINE S == KeySourceRules(v, "Reuse existing")
           T == SigningRules(v)
           U == KeyOutRules(v)
           R == RulesOf("renew", v)
<1>1. R = S \o T \o U
  BY DEF RulesOf, RenewRules
<1>2. /\ Sound(S)
      /\ Targets(S) = {"key_path", "algo", "size", "curve"}
      /\ Ons(S) = {"key_source", "algo"}
      /\ \A name, shown : Asked(S, name, shown) <=>
           \/ name = "key_path" /\ v.key_source = "Reuse existing" /\ "key_source" \in shown
           \/ name = "algo" /\ v.key_source = Generate /\ "key_source" \in shown
           \/ name = "size" /\ v.key_source = Generate /\ v.algo = "RSA" /\ ("algo" \in shown \/
                "key_source" \in shown)
           \/ name = "curve" /\ v.key_source = Generate /\ v.algo = "ECDSA" /\ ("algo" \in shown \/
                "key_source" \in shown)
  BY KeySourceGroup
<1>3. /\ Sound(T)
      /\ Targets(T) = {"ca_cert", "ca_key"}
      /\ Ons(T) = {"signing"}
      /\ \A name, shown : Asked(T, name, shown) <=>
           \/ name \in {"ca_cert", "ca_key"} /\ v.signing = WithCA /\ "signing" \in shown
  BY SigningGroup
<1>4. /\ Sound(U)
      /\ Targets(U) = {"key_out"}
      /\ Ons(U) = {"key_source"}
      /\ \A name, shown : Asked(U, name, shown) <=>
           \/ name = "key_out" /\ v.key_source = Generate /\ "key_source" \in shown
  BY KeyOutGroup
<1> HIDE DEF S, T, U, R
<1>5. /\ Sound(S \o T)
      /\ Targets(S \o T) = {"key_path", "algo", "size", "curve", "ca_cert", "ca_key"}
      /\ Ons(S \o T) = {"key_source", "algo", "signing"}
      /\ \A name, shown : Asked(S \o T, name, shown) <=> Asked(S, name, shown) \/ Asked(T, name, shown)
  <2>1. Targets(T) \cap Ons(S) = {}
    BY <1>2, <1>3
  <2>2. /\ Sound(S \o T)
        /\ Targets(S \o T) = Targets(S) \union Targets(T)
        /\ Ons(S \o T) = Ons(S) \union Ons(T)
        /\ \A name, shown : Asked(S \o T, name, shown) <=> Asked(S, name, shown) \/ Asked(T, name, shown)
    BY <1>2, <1>3, <2>1, GroupsJoin
  <2> QED
    BY <1>2, <1>3, <2>2
<1>6. /\ Sound(S \o T \o U)
      /\ Targets(S \o T \o U) = {"key_path", "algo", "size", "curve", "ca_cert", "ca_key", "key_out"}
      /\ Ons(S \o T \o U) = {"key_source", "algo", "signing"}
      /\ \A name, shown : Asked(S \o T \o U, name, shown) <=> Asked(S \o T, name, shown) \/ Asked(U, name, shown)
  <2>1. Targets(U) \cap Ons(S \o T) = {}
    BY <1>5, <1>4
  <2>2. /\ Sound(S \o T \o U)
        /\ Targets(S \o T \o U) = Targets(S \o T) \union Targets(U)
        /\ Ons(S \o T \o U) = Ons(S \o T) \union Ons(U)
        /\ \A name, shown : Asked(S \o T \o U, name, shown) <=> Asked(S \o T, name, shown) \/ Asked(U, name, shown)
    BY <1>5, <1>4, <2>1, GroupsJoin
  <2> QED
    BY <1>5, <1>4, <2>2
<1>7. Sound(R) /\ Targets(R) = {"key_path", "algo", "size", "curve", "ca_cert", "ca_key", "key_out"}
  BY <1>1, <1>6
<1>8. \A name, shown : Asked(R, name, shown) <=> Asked(S, name, shown) \/ Asked(T, name, shown) \/ Asked(U, name,
        shown)
  BY <1>1, <1>5, <1>6
<1>9. \A name, shown : Asked(R, name, shown) <=>
        \/ name = "key_path" /\ v.key_source = "Reuse existing" /\ "key_source" \in shown
        \/ name \in {"algo", "key_out"} /\ v.key_source = Generate /\ "key_source" \in shown
        \/ name = "size" /\ v.key_source = Generate /\ v.algo = "RSA" /\ ("algo" \in shown \/
             "key_source" \in shown)
        \/ name = "curve" /\ v.key_source = Generate /\ v.algo = "ECDSA" /\ ("algo" \in shown \/
             "key_source" \in shown)
        \/ name \in {"ca_cert", "ca_key"} /\ v.signing = WithCA /\ "signing" \in shown
  BY <1>8, <1>2, <1>3, <1>4
<1> QED
  BY <1>7, <1>9 DEF R

LEMMA ConvertAsks ==
  ASSUME NEW v
  PROVE  /\ Sound(RulesOf("convert", v))
         /\ Targets(RulesOf("convert", v)) = {"password", "alias", "legacy"}
         /\ \A name, shown : Asked(RulesOf("convert", v), name, shown) <=>
              \/ name = "password" /\ v.format \in {"PKCS#12", "JKS"} /\ "format" \in shown
              \/ name = "alias" /\ v.format = "JKS" /\ "format" \in shown
              \/ name = "legacy" /\ v.format = "PKCS#12" /\ "format" \in shown
<1> DEFINE R == RulesOf("convert", v)
<1>1. R = ConvertRules(v)
  BY DEF RulesOf
<1> HIDE DEF R
<1>2. Sound(R) /\ Targets(R) = {"password", "alias", "legacy"}
  BY <1>1, ConvertGroup
<1>3. \A name, shown : Asked(R, name, shown) <=>
        \/ name = "password" /\ v.format \in {"PKCS#12", "JKS"} /\ "format" \in shown
        \/ name = "alias" /\ v.format = "JKS" /\ "format" \in shown
        \/ name = "legacy" /\ v.format = "PKCS#12" /\ "format" \in shown
  BY <1>1, ConvertGroup
<1> QED
  BY <1>2, <1>3 DEF R

LEMMA ReencryptAsks ==
  ASSUME NEW v
  PROVE  /\ Sound(RulesOf("reencrypt", v))
         /\ Targets(RulesOf("reencrypt", v)) = {"new_password", "confirm_password", "output"}
         /\ \A name, shown : Asked(RulesOf("reencrypt", v), name, shown) <=>
              \/ name \in {"new_password", "confirm_password"} /\ v.remove_password # "true" /\
                   "remove_password" \in shown
              \/ name = "output" /\ v.output_mode = "New file" /\ "output_mode" \in shown
<1> DEFINE S == ReencryptPasswordRules(v)
           T == NewFileRules(v)
           R == RulesOf("reencrypt", v)
<1>1. R = S \o T
  BY DEF RulesOf, ReencryptRules
<1>2. /\ Sound(S)
      /\ Targets(S) = {"new_password", "confirm_password"}
      /\ Ons(S) = {"remove_password"}
      /\ \A name, shown : Asked(S, name, shown) <=>
           \/ name \in {"new_password", "confirm_password"} /\ v.remove_password # "true" /\
                "remove_password" \in shown
  BY PasswordGroup
<1>3. /\ Sound(T)
      /\ Targets(T) = {"output"}
      /\ Ons(T) = {"output_mode"}
      /\ \A name, shown : Asked(T, name, shown) <=>
           \/ name = "output" /\ v.output_mode = "New file" /\ "output_mode" \in shown
  BY NewFileGroup
<1> HIDE DEF S, T, R
<1>4. /\ Sound(S \o T)
      /\ Targets(S \o T) = {"new_password", "confirm_password", "output"}
      /\ Ons(S \o T) = {"remove_password", "output_mode"}
      /\ \A name, shown : Asked(S \o T, name, shown) <=> Asked(S, name, shown) \/ Asked(T, name, shown)
  <2>1. Targets(T) \cap Ons(S) = {}
    BY <1>2, <1>3
  <2>2. /\ Sound(S \o T)
        /\ Targets(S \o T) = Targets(S) \union Targets(T)
        /\ Ons(S \o T) = Ons(S) \union Ons(T)
        /\ \A name, shown : Asked(S \o T, name, shown) <=> Asked(S, name, shown) \/ Asked(T, name, shown)
    BY <1>2, <1>3, <2>1, GroupsJoin
  <2> QED
    BY <1>2, <1>3, <2>2
<1>5. Sound(R) /\ Targets(R) = {"new_password", "confirm_password", "output"}
  BY <1>1, <1>4
<1>6. \A name, shown : Asked(R, name, shown) <=> Asked(S, name, shown) \/ Asked(T, name, shown)
  BY <1>1, <1>4
<1>7. \A name, shown : Asked(R, name, shown) <=>
        \/ name \in {"new_password", "confirm_password"} /\ v.remove_password # "true" /\
             "remove_password" \in shown
        \/ name = "output" /\ v.output_mode = "New file" /\ "output_mode" \in shown
  BY <1>6, <1>2, <1>3
<1> QED
  BY <1>5, <1>7 DEF R

LEMMA RemovePassphraseAsks ==
  ASSUME NEW v
  PROVE  /\ Sound(RulesOf("removePassphrase", v))
         /\ Targets(RulesOf("removePassphrase", v)) = {"output"}
         /\ \A name, shown : Asked(RulesOf("removePassphrase", v), name, shown) <=>
              \/ name = "output" /\ v.output_mode = "New file" /\ "output_mode" \in shown
<1> DEFINE R == RulesOf("removePassphrase", v)
<1>1. R = NewFileRules(v)
  BY DEF RulesOf
<1> HIDE DEF R
<1>2. Sound(R) /\ Targets(R) = {"output"}
  BY <1>1, NewFileGroup
<1>3. \A name, shown : Asked(R, name, shown) <=>
        \/ name = "output" /\ v.output_mode = "New file" /\ "output_mode" \in shown
  BY <1>1, NewFileGroup
<1> QED
  BY <1>2, <1>3 DEF R

LEMMA BundleAsks ==
  ASSUME NEW v
  PROVE  /\ Sound(RulesOf("bundle", v))
         /\ Targets(RulesOf("bundle", v)) = {"pkcs12_notice", "password", "legacy"}
         /\ \A name, shown : Asked(RulesOf("bundle", v), name, shown) <=>
              \/ name \in {"pkcs12_notice", "legacy"} /\ v.format = "PKCS#12" /\ "format" \in shown
              \/ name = "password" /\ v.format \in {"PKCS#12", "JKS"} /\ "format" \in shown
<1> DEFINE R == RulesOf("bundle", v)
<1>1. R = BundleRules(v)
  BY DEF RulesOf
<1> HIDE DEF R
<1>2. Sound(R) /\ Targets(R) = {"pkcs12_notice", "password", "legacy"}
  BY <1>1, BundleGroup
<1>3. \A name, shown : Asked(R, name, shown) <=>
        \/ name \in {"pkcs12_notice", "legacy"} /\ v.format = "PKCS#12" /\ "format" \in shown
        \/ name = "password" /\ v.format \in {"PKCS#12", "JKS"} /\ "format" \in shown
  BY <1>1, BundleGroup
<1> QED
  BY <1>2, <1>3 DEF R

LEMMA RemoteAsks ==
  ASSUME NEW v
  PROVE  /\ Sound(RulesOf("remote", v))
         /\ Targets(RulesOf("remote", v)) = {"client_cert", "client_key", "client_p12", "client_jks",
              "client_alias", "client_password"}
         /\ \A name, shown : Asked(RulesOf("remote", v), name, shown) <=>
              \/ name \in {"client_cert", "client_key"} /\ v.mtls_mode \in {"PEM cert+key"} /\ "mtls_mode" \in shown
              \/ name = "client_p12" /\ v.mtls_mode \in {"PKCS#12"} /\ "mtls_mode" \in shown
              \/ name = "client_jks" /\ v.mtls_mode \in {"JKS"} /\ "mtls_mode" \in shown
              \/ name = "client_alias" /\ v.mtls_mode \in {"PKCS#12", "JKS"} /\ "mtls_mode" \in shown
              \/ name = "client_password" /\ v.mtls_mode \in {"PEM cert+key", "PKCS#12", "JKS"} /\
                   "mtls_mode" \in shown
<1> DEFINE R == RulesOf("remote", v)
<1>1. R = RemoteRules(v)
  BY DEF RulesOf
<1> HIDE DEF R
<1>2. Sound(R) /\ Targets(R) = {"client_cert", "client_key", "client_p12", "client_jks", "client_alias",
        "client_password"}
  BY <1>1, RemoteGroup
<1>3. \A name, shown : Asked(R, name, shown) <=>
        \/ name \in {"client_cert", "client_key"} /\ v.mtls_mode \in {"PEM cert+key"} /\ "mtls_mode" \in shown
        \/ name = "client_p12" /\ v.mtls_mode \in {"PKCS#12"} /\ "mtls_mode" \in shown
        \/ name = "client_jks" /\ v.mtls_mode \in {"JKS"} /\ "mtls_mode" \in shown
        \/ name = "client_alias" /\ v.mtls_mode \in {"PKCS#12", "JKS"} /\ "mtls_mode" \in shown
        \/ name = "client_password" /\ v.mtls_mode \in {"PEM cert+key", "PKCS#12", "JKS"} /\ "mtls_mode" \in shown
  BY <1>1, RemoteGroup
<1> QED
  BY <1>2, <1>3 DEF R

-----------------------------------------------------------------------------
(* What all forms have in common.                                            *)

LEMMA FieldsOfKinds ==
  /\ DOMAIN FieldsOf = {"createKey", "createCert", "createCSR", "signCSR", "renew", "convert", "extract",
       "extractItem", "reencrypt", "removePassphrase", "bundle", "remote", "proxy", "pcap"}
  /\ FieldsOf["createKey"] = CreateKeyFields
  /\ FieldsOf["createCert"] = CreateCertFields
  /\ FieldsOf["createCSR"] = CreateCSRFields
  /\ FieldsOf["signCSR"] = SignCSRFields
  /\ FieldsOf["renew"] = RenewFields
  /\ FieldsOf["convert"] = ConvertFields
  /\ FieldsOf["extract"] = ExtractFields
  /\ FieldsOf["extractItem"] = ExtractItemFields
  /\ FieldsOf["reencrypt"] = ReencryptFields
  /\ FieldsOf["removePassphrase"] = RemovePassphraseFields
  /\ FieldsOf["bundle"] = BundleFields
  /\ FieldsOf["remote"] = RemoteFields
  /\ FieldsOf["proxy"] = ProxyFields
  /\ FieldsOf["pcap"] = PcapFields
BY DEF FieldsOf

\* The fields the rules depend on: choices and boxes, never a file.
DependedOn == {"algo", "format", "encrypt", "cert_type", "key_source", "signing", "output_mode", "encrypt_key",
               "remove_password", "mtls_mode"}

Proper(kind, name, type) ==
  /\ type = "list" <=> name = "sans"
  /\ type = "aliases" <=> name = "item_aliases"
  /\ name = "sans" => kind \in {"createCert", "createCSR"}
  /\ name = "item_aliases" => kind = "bundle"
  /\ name \in DependedOn => type \in {"radio", "check"}
  /\ name \in {"output_mode", "key_source", "mtls_mode", "format"} => type = "radio"

LEMMA FieldsAreProper ==
  ASSUME NEW kind \in DOMAIN FieldsOf
  PROVE  /\ IsSeq(FieldsOf[kind])
         /\ Has(FieldsOf[kind], "submit", "button")
         /\ kind \in {"createCert", "createCSR"} => Has(FieldsOf[kind], "sans", "list")
         /\ kind = "bundle" => Has(FieldsOf[kind], "item_aliases", "aliases") /\ Has(FieldsOf[kind], "format",
              "radio")
         /\ \A name, type : Has(FieldsOf[kind], name, type) => Proper(kind, name, type)
<1> DEFINE F == FieldsOf[kind]
<1>1. CASE kind = "createKey"
  <2>1. F = CreateKeyFields
    BY <1>1, FieldsOfKinds
  <2> HIDE DEF F
  <2>2. IsSeq(F) /\ Has(F, "submit", "button")
    BY <2>1, CreateKeyFieldsAre
  <2>3. \A name, type : Has(F, name, type) => Proper(kind, name, type)
    BY <1>1, <2>1, CreateKeyFieldsAre DEF Proper, DependedOn
  <2> QED
    BY <1>1, <2>2, <2>3 DEF F
<1>2. CASE kind = "createCert"
  <2>1. F = CreateCertFields
    BY <1>2, FieldsOfKinds
  <2> HIDE DEF F
  <2>2. IsSeq(F) /\ Has(F, "submit", "button")
    BY <2>1, CreateCertFieldsAre
  <2>3. ASSUME NEW name, NEW type, Has(F, name, type) PROVE Proper(kind, name, type)
    <3>1. CASE type = "must" /\ name \in {"cn", "encrypt_password"}
      BY <1>2, <3>1 DEF Proper, DependedOn
    <3>2. CASE type = "text" /\ name \in {"org", "country", "extra_dn", "days", "path_len", "permitted_names",
            "excluded_names"}
      BY <1>2, <3>2 DEF Proper, DependedOn
    <3>3. CASE type = "list" /\ name = "sans"
      BY <1>2, <3>3 DEF Proper, DependedOn
    <3>4. CASE type = "multi" /\ name \in {"key_usage", "ext_key_usage"}
      BY <1>2, <3>4 DEF Proper, DependedOn
    <3>5. CASE type = "radio" /\ name \in {"key_source", "algo", "size", "curve", "signing", "cert_type",
            "output_mode", "format"}
      BY <1>2, <3>5 DEF Proper, DependedOn
    <3>6. CASE type = "check" /\ name = "encrypt_key"
      BY <1>2, <3>6 DEF Proper, DependedOn
    <3>7. CASE type = "pick" /\ name \in {"key_path", "ca_cert", "ca_key", "cert_out", "key_out", "bundle_out"}
      BY <1>2, <3>7 DEF Proper, DependedOn
    <3>8. CASE type = "button" /\ name = "submit"
      BY <1>2, <3>8 DEF Proper, DependedOn
    <3> QED
      BY <2>1, <2>3, CreateCertFieldsAre, <3>1, <3>2, <3>3, <3>4, <3>5, <3>6, <3>7, <3>8
  <2>4. Has(F, "sans", "list")
    BY <2>1, CreateCertFieldsAre
  <2> QED
    BY <1>2, <2>2, <2>3, <2>4 DEF F
<1>3. CASE kind = "createCSR"
  <2>1. F = CreateCSRFields
    BY <1>3, FieldsOfKinds
  <2> HIDE DEF F
  <2>2. IsSeq(F) /\ Has(F, "submit", "button")
    BY <2>1, CreateCSRFieldsAre
  <2>3. \A name, type : Has(F, name, type) => Proper(kind, name, type)
    BY <1>3, <2>1, CreateCSRFieldsAre DEF Proper, DependedOn
  <2>4. Has(F, "sans", "list")
    BY <2>1, CreateCSRFieldsAre
  <2> QED
    BY <1>3, <2>2, <2>3, <2>4 DEF F
<1>4. CASE kind = "signCSR"
  <2>1. F = SignCSRFields
    BY <1>4, FieldsOfKinds
  <2> HIDE DEF F
  <2>2. IsSeq(F) /\ Has(F, "submit", "button")
    BY <2>1, SignCSRFieldsAre
  <2>3. \A name, type : Has(F, name, type) => Proper(kind, name, type)
    BY <1>4, <2>1, SignCSRFieldsAre DEF Proper, DependedOn
  <2> QED
    BY <1>4, <2>2, <2>3 DEF F
<1>5. CASE kind = "renew"
  <2>1. F = RenewFields
    BY <1>5, FieldsOfKinds
  <2> HIDE DEF F
  <2>2. IsSeq(F) /\ Has(F, "submit", "button")
    BY <2>1, RenewFieldsAre
  <2>3. \A name, type : Has(F, name, type) => Proper(kind, name, type)
    BY <1>5, <2>1, RenewFieldsAre DEF Proper, DependedOn
  <2> QED
    BY <1>5, <2>2, <2>3 DEF F
<1>6. CASE kind = "convert"
  <2>1. F = ConvertFields
    BY <1>6, FieldsOfKinds
  <2> HIDE DEF F
  <2>2. IsSeq(F) /\ Has(F, "submit", "button")
    BY <2>1, ConvertFieldsAre
  <2>3. \A name, type : Has(F, name, type) => Proper(kind, name, type)
    BY <1>6, <2>1, ConvertFieldsAre DEF Proper, DependedOn
  <2> QED
    BY <1>6, <2>2, <2>3 DEF F
<1>7. CASE kind = "extract"
  <2>1. F = ExtractFields
    BY <1>7, FieldsOfKinds
  <2> HIDE DEF F
  <2>2. IsSeq(F) /\ Has(F, "submit", "button")
    BY <2>1, ExtractFieldsAre
  <2>3. \A name, type : Has(F, name, type) => Proper(kind, name, type)
    BY <1>7, <2>1, ExtractFieldsAre DEF Proper, DependedOn
  <2> QED
    BY <1>7, <2>2, <2>3 DEF F
<1>8. CASE kind = "extractItem"
  <2>1. F = ExtractItemFields
    BY <1>8, FieldsOfKinds
  <2> HIDE DEF F
  <2>2. IsSeq(F) /\ Has(F, "submit", "button")
    BY <2>1, ExtractItemFieldsAre
  <2>3. \A name, type : Has(F, name, type) => Proper(kind, name, type)
    BY <1>8, <2>1, ExtractItemFieldsAre DEF Proper, DependedOn
  <2> QED
    BY <1>8, <2>2, <2>3 DEF F
<1>9. CASE kind = "reencrypt"
  <2>1. F = ReencryptFields
    BY <1>9, FieldsOfKinds
  <2> HIDE DEF F
  <2>2. IsSeq(F) /\ Has(F, "submit", "button")
    BY <2>1, ReencryptFieldsAre
  <2>3. \A name, type : Has(F, name, type) => Proper(kind, name, type)
    BY <1>9, <2>1, ReencryptFieldsAre DEF Proper, DependedOn
  <2> QED
    BY <1>9, <2>2, <2>3 DEF F
<1>10. CASE kind = "removePassphrase"
  <2>1. F = RemovePassphraseFields
    BY <1>10, FieldsOfKinds
  <2> HIDE DEF F
  <2>2. IsSeq(F) /\ Has(F, "submit", "button")
    BY <2>1, RemovePassphraseFieldsAre
  <2>3. \A name, type : Has(F, name, type) => Proper(kind, name, type)
    BY <1>10, <2>1, RemovePassphraseFieldsAre DEF Proper, DependedOn
  <2> QED
    BY <1>10, <2>2, <2>3 DEF F
<1>11. CASE kind = "bundle"
  <2>1. F = BundleFields
    BY <1>11, FieldsOfKinds
  <2> HIDE DEF F
  <2>2. IsSeq(F) /\ Has(F, "submit", "button")
    BY <2>1, BundleFieldsAre
  <2>3. \A name, type : Has(F, name, type) => Proper(kind, name, type)
    BY <1>11, <2>1, BundleFieldsAre DEF Proper, DependedOn
  <2>4. Has(F, "item_aliases", "aliases") /\ Has(F, "format", "radio")
    BY <2>1, BundleFieldsAre
  <2> QED
    BY <1>11, <2>2, <2>3, <2>4 DEF F
<1>12. CASE kind = "remote"
  <2>1. F = RemoteFields
    BY <1>12, FieldsOfKinds
  <2> HIDE DEF F
  <2>2. IsSeq(F) /\ Has(F, "submit", "button")
    BY <2>1, RemoteFieldsAre
  <2>3. \A name, type : Has(F, name, type) => Proper(kind, name, type)
    BY <1>12, <2>1, RemoteFieldsAre DEF Proper, DependedOn
  <2> QED
    BY <1>12, <2>2, <2>3 DEF F
<1>13. CASE kind = "proxy"
  <2>1. F = ProxyFields
    BY <1>13, FieldsOfKinds
  <2> HIDE DEF F
  <2>2. IsSeq(F) /\ Has(F, "submit", "button")
    BY <2>1, ProxyFieldsAre
  <2>3. \A name, type : Has(F, name, type) => Proper(kind, name, type)
    BY <1>13, <2>1, ProxyFieldsAre DEF Proper, DependedOn
  <2> QED
    BY <1>13, <2>2, <2>3 DEF F
<1>14. CASE kind = "pcap"
  <2>1. F = PcapFields
    BY <1>14, FieldsOfKinds
  <2> HIDE DEF F
  <2>2. IsSeq(F) /\ Has(F, "submit", "button")
    BY <2>1, PcapFieldsAre
  <2>3. \A name, type : Has(F, name, type) => Proper(kind, name, type)
    BY <1>14, <2>1, PcapFieldsAre DEF Proper, DependedOn
  <2> QED
    BY <1>14, <2>2, <2>3 DEF F
<1> QED
  BY FieldsOfKinds, <1>1, <1>2, <1>3, <1>4, <1>5, <1>6, <1>7, <1>8, <1>9, <1>10, <1>11, <1>12, <1>13, <1>14

LEMMA NoRules == Sound(<<>>) /\ Targets(<<>>) = {} /\ \A name, shown : ~ Asked(<<>>, name, shown)
<1>1. <<>> \in Seq({}) /\ DOMAIN <<>> = {}
  OBVIOUS
<1>2. ToSet(<<>>) = {}
  BY <1>1 DEF ToSet
<1> QED
  BY <1>1, <1>2 DEF Sound, IsSeq, Ordered, Targets, Asked

\* Which fields have rules is a matter of the kind alone; the button has none.
LEMMA RulesAreSound ==
  ASSUME NEW kind \in DOMAIN FieldsOf, NEW v, NEW w
  PROVE  /\ Sound(RulesOf(kind, v))
         /\ Targets(RulesOf(kind, v)) = Targets(RulesOf(kind, w))
         /\ "submit" \notin Targets(RulesOf(kind, v))
<1>1. CASE kind = "createKey"
  <2>1. \A u : Sound(RulesOf("createKey", u)) /\ Targets(RulesOf("createKey", u)) = {"size", "curve", "encrypt",
          "password"}
    BY CreateKeyAsks
  <2> QED
    BY <1>1, <2>1
<1>2. CASE kind = "createCert"
  <2>1. \A u : Sound(RulesOf("createCert", u)) /\ Targets(RulesOf("createCert", u)) = {"path_len",
          "permitted_names", "excluded_names", "key_path", "algo", "size", "curve", "ca_cert", "ca_key", "format",
          "cert_out", "key_out", "bundle_out", "encrypt_key", "encrypt_password"}
    BY CreateCertAsks
  <2> QED
    BY <1>2, <2>1
<1>3. CASE kind = "createCSR"
  <2>1. \A u : Sound(RulesOf("createCSR", u)) /\ Targets(RulesOf("createCSR", u)) = {"key_path", "algo", "size",
          "curve", "key_out"}
    BY CreateCSRAsks
  <2> QED
    BY <1>3, <2>1
<1>4. CASE kind = "signCSR"
  <2>1. \A u : Sound(RulesOf("signCSR", u)) /\ Targets(RulesOf("signCSR", u)) = {"path_len", "permitted_names",
          "excluded_names", "ca_cert", "ca_key"}
    BY SignCSRAsks
  <2> QED
    BY <1>4, <2>1
<1>5. CASE kind = "renew"
  <2>1. \A u : Sound(RulesOf("renew", u)) /\ Targets(RulesOf("renew", u)) = {"key_path", "algo", "size", "curve",
          "ca_cert", "ca_key", "key_out"}
    BY RenewAsks
  <2> QED
    BY <1>5, <2>1
<1>6. CASE kind = "convert"
  <2>1. \A u : Sound(RulesOf("convert", u)) /\ Targets(RulesOf("convert", u)) = {"password", "alias", "legacy"}
    BY ConvertAsks
  <2> QED
    BY <1>6, <2>1
<1>7. CASE kind = "reencrypt"
  <2>1. \A u : Sound(RulesOf("reencrypt", u)) /\ Targets(RulesOf("reencrypt", u)) = {"new_password",
          "confirm_password", "output"}
    BY ReencryptAsks
  <2> QED
    BY <1>7, <2>1
<1>8. CASE kind = "removePassphrase"
  <2>1. \A u : Sound(RulesOf("removePassphrase", u)) /\ Targets(RulesOf("removePassphrase", u)) = {"output"}
    BY RemovePassphraseAsks
  <2> QED
    BY <1>8, <2>1
<1>9. CASE kind = "bundle"
  <2>1. \A u : Sound(RulesOf("bundle", u)) /\ Targets(RulesOf("bundle", u)) = {"pkcs12_notice", "password",
          "legacy"}
    BY BundleAsks
  <2> QED
    BY <1>9, <2>1
<1>10. CASE kind = "remote"
  <2>1. \A u : Sound(RulesOf("remote", u)) /\ Targets(RulesOf("remote", u)) = {"client_cert", "client_key",
          "client_p12", "client_jks", "client_alias", "client_password"}
    BY RemoteAsks
  <2> QED
    BY <1>10, <2>1
<1>11. CASE kind \in {"extract", "extractItem", "proxy", "pcap"}
  <2>1. RulesOf(kind, v) = <<>> /\ RulesOf(kind, w) = <<>>
    BY <1>11 DEF RulesOf
  <2> QED
    BY <2>1, NoRules
<1> QED
  BY FieldsOfKinds, <1>1, <1>2, <1>3, <1>4, <1>5, <1>6, <1>7, <1>8, <1>9, <1>10, <1>11

\* The rules say the same while what they depend on stays the same.
LEMMA SameRules ==
  ASSUME NEW kind \in DOMAIN FieldsOf, NEW v, NEW w,
         \A name, type : name \in DependedOn /\ Has(FieldsOf[kind], name, type) => v[name] = w[name]
  PROVE  RulesOf(kind, v) = RulesOf(kind, w)
<1>1. CASE kind = "createKey"
  <2>1. FieldsOf[kind] = CreateKeyFields
    BY <1>1, FieldsOfKinds
  <2>2. v.algo = w.algo
    <3>1. Has(CreateKeyFields, "algo", "radio")
      BY CreateKeyFieldsAre
    <3> QED
      BY <2>1, <3>1 DEF DependedOn
  <2>3. v.format = w.format
    <3>1. Has(CreateKeyFields, "format", "radio")
      BY CreateKeyFieldsAre
    <3> QED
      BY <2>1, <3>1 DEF DependedOn
  <2>4. v.encrypt = w.encrypt
    <3>1. Has(CreateKeyFields, "encrypt", "check")
      BY CreateKeyFieldsAre
    <3> QED
      BY <2>1, <3>1 DEF DependedOn
  <2>5. CreateKeyRules(v) = CreateKeyRules(w)
    BY <2>2, <2>3, <2>4 DEF CreateKeyRules
  <2> QED
    BY <1>1, <2>5 DEF RulesOf
<1>2. CASE kind = "createCert"
  <2>1. FieldsOf[kind] = CreateCertFields
    BY <1>2, FieldsOfKinds
  <2>2. v.cert_type = w.cert_type
    <3>1. Has(CreateCertFields, "cert_type", "radio")
      BY CreateCertFieldsAre
    <3> QED
      BY <2>1, <3>1 DEF DependedOn
  <2>3. v.key_source = w.key_source
    <3>1. Has(CreateCertFields, "key_source", "radio")
      BY CreateCertFieldsAre
    <3> QED
      BY <2>1, <3>1 DEF DependedOn
  <2>4. v.algo = w.algo
    <3>1. Has(CreateCertFields, "algo", "radio")
      BY CreateCertFieldsAre
    <3> QED
      BY <2>1, <3>1 DEF DependedOn
  <2>5. v.signing = w.signing
    <3>1. Has(CreateCertFields, "signing", "radio")
      BY CreateCertFieldsAre
    <3> QED
      BY <2>1, <3>1 DEF DependedOn
  <2>6. v.output_mode = w.output_mode
    <3>1. Has(CreateCertFields, "output_mode", "radio")
      BY CreateCertFieldsAre
    <3> QED
      BY <2>1, <3>1 DEF DependedOn
  <2>7. v.format = w.format
    <3>1. Has(CreateCertFields, "format", "radio")
      BY CreateCertFieldsAre
    <3> QED
      BY <2>1, <3>1 DEF DependedOn
  <2>8. v.encrypt_key = w.encrypt_key
    <3>1. Has(CreateCertFields, "encrypt_key", "check")
      BY CreateCertFieldsAre
    <3> QED
      BY <2>1, <3>1 DEF DependedOn
  <2>9. CertSectionRules(v) = CertSectionRules(w)
    BY <2>2, <2>3, <2>4, <2>5, <2>6, <2>7, <2>8 DEF CertSectionRules
  <2>10. KeySourceRules(v, Existing) = KeySourceRules(w, Existing)
    BY <2>2, <2>3, <2>4, <2>5, <2>6, <2>7, <2>8 DEF KeySourceRules
  <2>11. SigningRules(v) = SigningRules(w)
    BY <2>2, <2>3, <2>4, <2>5, <2>6, <2>7, <2>8 DEF SigningRules
  <2>12. OutputRules(v) = OutputRules(w)
    BY <2>2, <2>3, <2>4, <2>5, <2>6, <2>7, <2>8 DEF OutputRules
  <2>13. EncryptRules(v) = EncryptRules(w)
    BY <2>2, <2>3, <2>4, <2>5, <2>6, <2>7, <2>8 DEF EncryptRules
  <2>14. EncryptPasswordRules(v) = EncryptPasswordRules(w)
    BY <2>2, <2>3, <2>4, <2>5, <2>6, <2>7, <2>8 DEF EncryptPasswordRules
  <2> QED
    BY <1>2, <2>9, <2>10, <2>11, <2>12, <2>13, <2>14 DEF RulesOf, CreateCertRules
<1>3. CASE kind = "createCSR"
  <2>1. FieldsOf[kind] = CreateCSRFields
    BY <1>3, FieldsOfKinds
  <2>2. v.key_source = w.key_source
    <3>1. Has(CreateCSRFields, "key_source", "radio")
      BY CreateCSRFieldsAre
    <3> QED
      BY <2>1, <3>1 DEF DependedOn
  <2>3. v.algo = w.algo
    <3>1. Has(CreateCSRFields, "algo", "radio")
      BY CreateCSRFieldsAre
    <3> QED
      BY <2>1, <3>1 DEF DependedOn
  <2>4. KeySourceRules(v, Existing) = KeySourceRules(w, Existing)
    BY <2>2, <2>3 DEF KeySourceRules
  <2>5. KeyOutRules(v) = KeyOutRules(w)
    BY <2>2, <2>3 DEF KeyOutRules
  <2> QED
    BY <1>3, <2>4, <2>5 DEF RulesOf, CreateCSRRules
<1>4. CASE kind = "signCSR"
  <2>1. FieldsOf[kind] = SignCSRFields
    BY <1>4, FieldsOfKinds
  <2>2. v.cert_type = w.cert_type
    <3>1. Has(SignCSRFields, "cert_type", "radio")
      BY SignCSRFieldsAre
    <3> QED
      BY <2>1, <3>1 DEF DependedOn
  <2>3. v.signing = w.signing
    <3>1. Has(SignCSRFields, "signing", "radio")
      BY SignCSRFieldsAre
    <3> QED
      BY <2>1, <3>1 DEF DependedOn
  <2>4. CertSectionRules(v) = CertSectionRules(w)
    BY <2>2, <2>3 DEF CertSectionRules
  <2>5. SigningRules(v) = SigningRules(w)
    BY <2>2, <2>3 DEF SigningRules
  <2> QED
    BY <1>4, <2>4, <2>5 DEF RulesOf, SignCSRRules
<1>5. CASE kind = "renew"
  <2>1. FieldsOf[kind] = RenewFields
    BY <1>5, FieldsOfKinds
  <2>2. v.key_source = w.key_source
    <3>1. Has(RenewFields, "key_source", "radio")
      BY RenewFieldsAre
    <3> QED
      BY <2>1, <3>1 DEF DependedOn
  <2>3. v.algo = w.algo
    <3>1. Has(RenewFields, "algo", "radio")
      BY RenewFieldsAre
    <3> QED
      BY <2>1, <3>1 DEF DependedOn
  <2>4. v.signing = w.signing
    <3>1. Has(RenewFields, "signing", "radio")
      BY RenewFieldsAre
    <3> QED
      BY <2>1, <3>1 DEF DependedOn
  <2>5. KeySourceRules(v, "Reuse existing") = KeySourceRules(w, "Reuse existing")
    BY <2>2, <2>3, <2>4 DEF KeySourceRules
  <2>6. SigningRules(v) = SigningRules(w)
    BY <2>2, <2>3, <2>4 DEF SigningRules
  <2>7. KeyOutRules(v) = KeyOutRules(w)
    BY <2>2, <2>3, <2>4 DEF KeyOutRules
  <2> QED
    BY <1>5, <2>5, <2>6, <2>7 DEF RulesOf, RenewRules
<1>6. CASE kind = "convert"
  <2>1. FieldsOf[kind] = ConvertFields
    BY <1>6, FieldsOfKinds
  <2>2. v.format = w.format
    <3>1. Has(ConvertFields, "format", "radio")
      BY ConvertFieldsAre
    <3> QED
      BY <2>1, <3>1 DEF DependedOn
  <2>3. ConvertRules(v) = ConvertRules(w)
    BY <2>2 DEF ConvertRules
  <2> QED
    BY <1>6, <2>3 DEF RulesOf
<1>7. CASE kind = "reencrypt"
  <2>1. FieldsOf[kind] = ReencryptFields
    BY <1>7, FieldsOfKinds
  <2>2. v.remove_password = w.remove_password
    <3>1. Has(ReencryptFields, "remove_password", "check")
      BY ReencryptFieldsAre
    <3> QED
      BY <2>1, <3>1 DEF DependedOn
  <2>3. v.output_mode = w.output_mode
    <3>1. Has(ReencryptFields, "output_mode", "radio")
      BY ReencryptFieldsAre
    <3> QED
      BY <2>1, <3>1 DEF DependedOn
  <2>4. ReencryptPasswordRules(v) = ReencryptPasswordRules(w)
    BY <2>2, <2>3 DEF ReencryptPasswordRules
  <2>5. NewFileRules(v) = NewFileRules(w)
    BY <2>2, <2>3 DEF NewFileRules
  <2> QED
    BY <1>7, <2>4, <2>5 DEF RulesOf, ReencryptRules
<1>8. CASE kind = "removePassphrase"
  <2>1. FieldsOf[kind] = RemovePassphraseFields
    BY <1>8, FieldsOfKinds
  <2>2. v.output_mode = w.output_mode
    <3>1. Has(RemovePassphraseFields, "output_mode", "radio")
      BY RemovePassphraseFieldsAre
    <3> QED
      BY <2>1, <3>1 DEF DependedOn
  <2>3. NewFileRules(v) = NewFileRules(w)
    BY <2>2 DEF NewFileRules
  <2> QED
    BY <1>8, <2>3 DEF RulesOf
<1>9. CASE kind = "bundle"
  <2>1. FieldsOf[kind] = BundleFields
    BY <1>9, FieldsOfKinds
  <2>2. v.format = w.format
    <3>1. Has(BundleFields, "format", "radio")
      BY BundleFieldsAre
    <3> QED
      BY <2>1, <3>1 DEF DependedOn
  <2>3. BundleRules(v) = BundleRules(w)
    BY <2>2 DEF BundleRules
  <2> QED
    BY <1>9, <2>3 DEF RulesOf
<1>10. CASE kind = "remote"
  <2>1. FieldsOf[kind] = RemoteFields
    BY <1>10, FieldsOfKinds
  <2>2. v.mtls_mode = w.mtls_mode
    <3>1. Has(RemoteFields, "mtls_mode", "radio")
      BY RemoteFieldsAre
    <3> QED
      BY <2>1, <3>1 DEF DependedOn
  <2>3. RemoteRules(v) = RemoteRules(w)
    BY <2>2 DEF RemoteRules
  <2> QED
    BY <1>10, <2>3 DEF RulesOf
<1>11. CASE kind \in {"extract", "extractItem", "proxy", "pcap"}
  BY <1>11 DEF RulesOf
<1> QED
  BY FieldsOfKinds, <1>1, <1>2, <1>3, <1>4, <1>5, <1>6, <1>7, <1>8, <1>9, <1>10, <1>11

-----------------------------------------------------------------------------
(* The invariant.                                                            *)

\* The choice the operation of a form reads as one of two: it has no third value.
ModeField(kind) ==
  CASE kind = "createCert" -> Radio("output_mode", <<"Individual files", "Bundle (PEM)">>)
    [] kind = "renew" -> Radio("key_source", <<"Reuse existing", Generate>>)
    [] kind = "remote" -> Radio("mtls_mode", <<"None", "PEM cert+key", "PKCS#12", "JKS">>)
    [] OTHER -> Radio("output_mode", <<"Overwrite original", "New file">>)
Moded == {"createCert", "renew", "remote", "reencrypt", "removePassphrase"}
Chosen(kind, v) == kind \in Moded => v[ModeField(kind).name] \in ToSet(ModeField(kind).holds)

LEMMA RadioIs ==
  ASSUME NEW name, NEW holds
  PROVE  Radio(name, holds).name = name /\ Radio(name, holds).type = "radio" /\ Radio(name, holds).holds = holds
BY DEF Radio, Field

LEMMA Two ==
  /\ \A a, b : IsSeq(<<a, b>>) /\ Len(<<a, b>>) > 0
  /\ \A a, b, c, d : IsSeq(<<a, b, c, d>>) /\ Len(<<a, b, c, d>>) > 0
<1>1. \A a, b : Len(<<a, b>>) > 0
  OBVIOUS
<1>2. \A a, b, c, d : Len(<<a, b, c, d>>) > 0
  OBVIOUS
<1> QED
  BY <1>1, <1>2, Tuple2, Tuple4

LEMMA ModeFields ==
  ASSUME NEW kind \in Moded
  PROVE  /\ Only(FieldsOf[kind], ModeField(kind).name, ModeField(kind))
         /\ Has(FieldsOf[kind], ModeField(kind).name, "radio")
         /\ ModeField(kind).name \in {"output_mode", "key_source", "mtls_mode"}
         /\ ModeField(kind).type = "radio"
         /\ IsSeq(ModeField(kind).holds) /\ Len(ModeField(kind).holds) > 0
<1> DEFINE m == ModeField(kind)
<1>1. CASE kind = "createCert"
  <2>1. m = Radio("output_mode", <<"Individual files", "Bundle (PEM)">>) /\ FieldsOf[kind] = CreateCertFields
    BY <1>1, FieldsOfKinds DEF ModeField
  <2> HIDE DEF m
  <2>2. m.name = "output_mode" /\ m.type = "radio" /\ m.holds = <<"Individual files", "Bundle (PEM)">>
    BY <2>1, RadioIs, Zenon
  <2>3. IsSeq(m.holds) /\ Len(m.holds) > 0
    BY <2>2, Two
  <2>4. Only(FieldsOf[kind], m.name, m) /\ Has(FieldsOf[kind], m.name, "radio")
    BY <2>1, <2>2, CreateCertFieldsAre
  <2> QED
    BY <2>2, <2>3, <2>4 DEF m
<1>2. CASE kind = "renew"
  <2>1. m = Radio("key_source", <<"Reuse existing", Generate>>) /\ FieldsOf[kind] = RenewFields
    BY <1>2, FieldsOfKinds DEF ModeField
  <2> HIDE DEF m
  <2>2. m.name = "key_source" /\ m.type = "radio" /\ m.holds = <<"Reuse existing", Generate>>
    BY <2>1, RadioIs, Zenon
  <2>3. IsSeq(m.holds) /\ Len(m.holds) > 0
    BY <2>2, Two
  <2>4. Only(FieldsOf[kind], m.name, m) /\ Has(FieldsOf[kind], m.name, "radio")
    BY <2>1, <2>2, RenewFieldsAre
  <2> QED
    BY <2>2, <2>3, <2>4 DEF m
<1>3. CASE kind = "remote"
  <2>1. m = Radio("mtls_mode", <<"None", "PEM cert+key", "PKCS#12", "JKS">>) /\ FieldsOf[kind] = RemoteFields
    BY <1>3, FieldsOfKinds DEF ModeField
  <2> HIDE DEF m
  <2>2. m.name = "mtls_mode" /\ m.type = "radio" /\ m.holds = <<"None", "PEM cert+key", "PKCS#12", "JKS">>
    BY <2>1, RadioIs, Zenon
  <2>3. IsSeq(m.holds) /\ Len(m.holds) > 0
    BY <2>2, Two
  <2>4. Only(FieldsOf[kind], m.name, m) /\ Has(FieldsOf[kind], m.name, "radio")
    BY <2>1, <2>2, RemoteFieldsAre
  <2> QED
    BY <2>2, <2>3, <2>4 DEF m
<1>4. CASE kind \in {"reencrypt", "removePassphrase"}
  <2>1. /\ m = Radio("output_mode", <<"Overwrite original", "New file">>)
        /\ FieldsOf[kind] = ReencryptFields \/ FieldsOf[kind] = RemovePassphraseFields
    BY <1>4, FieldsOfKinds DEF ModeField
  <2> HIDE DEF m
  <2>2. m.name = "output_mode" /\ m.type = "radio" /\ m.holds = <<"Overwrite original", "New file">>
    BY <2>1, RadioIs, Zenon
  <2>3. IsSeq(m.holds) /\ Len(m.holds) > 0
    BY <2>2, Two
  <2>4. Only(FieldsOf[kind], m.name, m) /\ Has(FieldsOf[kind], m.name, "radio")
    BY <2>1, <2>2, ReencryptFieldsAre, RemovePassphraseFieldsAre
  <2> QED
    BY <2>2, <2>3, <2>4 DEF m
<1> QED
  BY <1>1, <1>2, <1>3, <1>4 DEF Moded

IsForm(f) == DOMAIN f = {"kind", "changes", "v", "initial", "shown", "focus", "row", "last"}
Named(f, name) == \E type : Has(FieldsOf[f.kind], name, type)

\* What every key leaves alone: a value for every field, and those without a rule shown.
Core(f) ==
  /\ IsForm(f) /\ f.kind \in DOMAIN FieldsOf
  /\ \A name : Named(f, name) => name \in DOMAIN f.v
  /\ f.focus \in Places(f)
  /\ Chosen(f.kind, f.v)
  /\ \A name : Named(f, name) /\ name \notin Targets(RulesOf(f.kind, f.v)) => name \in f.shown

Lists(kind) == kind \in {"createCert", "createCSR"}
RowsExist(f) ==
  /\ Lists(f.kind) => IsSeq(f.v.sans) /\ f.row \in 1..Len(f.v.sans)
  /\ f.kind = "bundle" =>
       /\ IsSeq(f.v.item_aliases)
       /\ Aliasable(f) # {} => f.row \in 1..Cardinality(Aliasable(f))

Settled(f) == Core(f) /\ RulesHold(f) /\ Stops(f, f.focus) /\ RowsExist(f)

LEMMA PlacesAre ==
  ASSUME NEW f, f.kind \in DOMAIN FieldsOf
  PROVE  /\ Len(FieldsOf[f.kind]) \in Nat \ {0} /\ Places(f) = 1..Len(FieldsOf[f.kind])
         /\ \A i \in Places(f) : /\ Has(FieldsOf[f.kind], FieldAt(f, i).name, FieldAt(f, i).type)
                                 /\ Proper(f.kind, FieldAt(f, i).name, FieldAt(f, i).type)
                                 /\ FieldAt(f, i) \in ToSet(FieldsOf[f.kind])
         /\ \A name, type : Has(FieldsOf[f.kind], name, type) =>
              \E i \in Places(f) : FieldAt(f, i).name = name /\ FieldAt(f, i).type = type
<1> DEFINE F == FieldsOf[f.kind]
<1>1. IsSeq(F) /\ Has(F, "submit", "button") /\ \A name, type : Has(F, name, type) => Proper(f.kind, name, type)
  BY FieldsAreProper
<1>2. Places(f) = DOMAIN F /\ \A i : FieldAt(f, i) = F[i]
  BY DEF Places, FieldAt
<1> HIDE DEF F
<1>3. Len(F) \in Nat /\ DOMAIN F = 1..Len(F)
  BY <1>1 DEF IsSeq
<1>4. \A i \in DOMAIN F : F[i] \in ToSet(F)
  BY Zenon DEF ToSet
<1>5. \A i \in DOMAIN F : Has(F, F[i].name, F[i].type)
  BY <1>4 DEF Has
<1>6. \A field \in ToSet(F) : \E i \in DOMAIN F : F[i] = field
  BY Zenon DEF ToSet
<1>7. \A name, type : Has(F, name, type) => \E i \in DOMAIN F : F[i].name = name /\ F[i].type = type
  BY <1>6 DEF Has
<1>8. DOMAIN F # {}
  BY <1>1, <1>7
<1>9. Len(F) # 0
  BY <1>3, <1>8
<1> QED
  BY <1>1, <1>2, <1>3, <1>4, <1>5, <1>7, <1>9 DEF F

\* What is shown, said of names.
LEMMA HoldsByName ==
  ASSUME NEW f, f.kind \in DOMAIN FieldsOf
  PROVE  RulesHold(f) <=>
           \A name : Named(f, name) =>
             (name \in f.shown <=> \/ name \notin Targets(RulesOf(f.kind, f.v))
                                   \/ Asked(RulesOf(f.kind, f.v), name, f.shown))
<1> DEFINE R == RulesOf(f.kind, f.v)
           Says(name) == name \in f.shown <=> name \notin Targets(R) \/ Asked(R, name, f.shown)
<1>1. \A name : {r \in ToSet(R) : r.target = name} = {} <=> name \notin Targets(R)
  BY DEF Targets
<1>2. \A name : (\E r \in {q \in ToSet(R) : q.target = name} : r.when /\ r.on \in f.shown) <=> Asked(R, name,
        f.shown)
  BY DEF Asked
<1>3. RulesHold(f) <=> \A i \in Places(f) : Says(FieldAt(f, i).name)
  BY <1>1, <1>2 DEF RulesHold
<1> HIDE DEF Says, R
<1>4. \A i \in Places(f) : Named(f, FieldAt(f, i).name)
  BY PlacesAre DEF Named
<1>5. \A name : Named(f, name) => \E i \in Places(f) : FieldAt(f, i).name = name
  BY PlacesAre DEF Named
<1>6. RulesHold(f) <=> \A name : Named(f, name) => Says(name)
  BY <1>3, <1>4, <1>5
<1> QED
  BY <1>6 DEF Says, R

-----------------------------------------------------------------------------
(* After every key the form is settled again.                                *)

LEMMA GoesAround ==
  ASSUME NEW n \in Nat, NEW p \in 1..n, NEW k \in 1..n
  PROVE  /\ (IF p + k > n THEN p + k - n ELSE IF p + k < 1 THEN p + k + n ELSE p + k) \in 1..n
         /\ (IF p - k > n THEN p - k - n ELSE IF p - k < 1 THEN p - k + n ELSE p - k) \in 1..n
OBVIOUS

LEMMA NeighbourIsAPlace ==
  ASSUME NEW f, f.kind \in DOMAIN FieldsOf, f.focus \in Places(f), NEW d
  PROVE  /\ Neighbour(f, d) \in Places(f)
         /\ d = 1 /\ (\E i \in Places(f) : Stops(f, i)) => Stops(f, Neighbour(f, d))
<1> DEFINE n == Len(FieldsOf[f.kind])
           at(k) == IF d = 1 THEN f.focus + k ELSE f.focus - k
           around(k) == IF at(k) > n THEN at(k) - n ELSE IF at(k) < 1 THEN at(k) + n ELSE at(k)
           stops == {k \in 1..n : Stops(f, around(k))}
           least == CHOOSE k \in stops : \A other \in stops : k <= other
<1>1. n \in Nat \ {0} /\ Places(f) = 1..n
  BY PlacesAre
<1>2. Neighbour(f, d) = IF stops = {} THEN f.focus ELSE around(least)
  BY DEF Neighbour
<1>3. stops # {} => least \in stops
  <2> SUFFICES ASSUME stops # {} PROVE least \in stops
    OBVIOUS
  <2>1. stops \subseteq Nat
    BY <1>1
  <2> HIDE DEF stops
  <2>2. \E k \in stops : \A other \in stops : k <= other
    BY <2>1, Least
  <2> QED
    BY <2>2
<1>4. \A k \in 1..n : around(k) \in 1..n
  <2> SUFFICES ASSUME NEW k \in 1..n PROVE around(k) \in 1..n
    OBVIOUS
  <2>1. n \in Nat /\ f.focus \in 1..n
    BY <1>1
  <2> HIDE DEF n
  <2>2. CASE d = 1
    BY <2>1, <2>2, GoesAround
  <2>3. CASE d # 1
    BY <2>1, <2>3, GoesAround
  <2> QED
    BY <2>2, <2>3
<1>5. d = 1 => \A i \in 1..n : \E k \in 1..n : around(k) = i
  <2> SUFFICES ASSUME d = 1, NEW i \in 1..n PROVE \E k \in 1..n : around(k) = i
    OBVIOUS
  <2>1. CASE i > f.focus
    <3>1. i - f.focus \in 1..n /\ around(i - f.focus) = i
      BY <1>1, <2>1
    <3> HIDE DEF around
    <3> QED
      BY <3>1
  <2>2. CASE i <= f.focus
    <3>1. i - f.focus + n \in 1..n /\ around(i - f.focus + n) = i
      BY <1>1, <2>2
    <3> HIDE DEF around
    <3> QED
      BY <3>1
  <2> QED
    BY <1>1, <2>1, <2>2
<1>6. \A k \in stops : k \in 1..n /\ Stops(f, around(k))
  OBVIOUS
<1>7. d = 1 /\ (\E i \in Places(f) : Stops(f, i)) => stops # {}
  <2> HIDE DEF around
  <2> QED
    BY <1>1, <1>5
<1> HIDE DEF around, stops, least
<1> QED
  BY <1>1, <1>2, <1>3, <1>4, <1>6, <1>7

\* g differs from f in the values of some fields.
Alike(f, g, names) ==
  /\ IsForm(g) /\ g.kind = f.kind /\ g.shown = f.shown /\ g.focus = f.focus /\ g.row = f.row
  /\ DOMAIN f.v \subseteq DOMAIN g.v
  /\ \A name \in DOMAIN f.v : name \notin names => g.v[name] = f.v[name]
Free(names) == names \cap (DependedOn \union {"sans", "item_aliases"}) = {}

LEMMA AlikeRows ==
  ASSUME NEW f, NEW g, Core(f), g.kind = f.kind, g.row = f.row,
         \A name \in {"sans", "item_aliases"} : Named(f, name) => g.v[name] = f.v[name]
  PROVE  RowsExist(f) => RowsExist(g)
<1>1. Lists(f.kind) => g.v.sans = f.v.sans
  BY FieldsAreProper DEF Core, Named, Lists
<1>2. f.kind = "bundle" => g.v.item_aliases = f.v.item_aliases
  BY FieldsAreProper DEF Core, Named
<1>3. f.kind = "bundle" => Aliasable(g) = Aliasable(f)
  BY <1>2 DEF Aliasable
<1> QED
  BY <1>1, <1>2, <1>3 DEF RowsExist

LEMMA AlikeIsSettled ==
  ASSUME NEW f, NEW g, Core(f), NEW names, Free(names), Alike(f, g, names)
  PROVE  /\ Core(g)
         /\ RulesHold(f) => RulesHold(g)
         /\ \A i \in Places(f) : Stops(f, i) => Stops(g, i)
         /\ RowsExist(f) => RowsExist(g)
         /\ \A name \in {"sans", "item_aliases"} : Named(f, name) => g.v[name] = f.v[name]
<1>1. /\ IsForm(g) /\ f.kind \in DOMAIN FieldsOf /\ g.kind = f.kind /\ g.shown = f.shown
      /\ g.focus = f.focus /\ g.row = f.row /\ Places(g) = Places(f)
  BY DEF Alike, Core, Places
<1>2. \A name : Named(f, name) => name \in DOMAIN f.v /\ name \in DOMAIN g.v /\ (name \notin names =>
        g.v[name] = f.v[name])
  BY DEF Alike, Core
<1>3. \A name : Named(g, name) <=> Named(f, name)
  BY <1>1 DEF Named
<1>4. \A name, type : name \in DependedOn /\ Has(FieldsOf[f.kind], name, type) => f.v[name] = g.v[name]
  BY <1>2 DEF Free, Named
<1>5. RulesOf(g.kind, g.v) = RulesOf(f.kind, f.v)
  BY <1>1, <1>4, SameRules
<1>6. Chosen(g.kind, g.v)
  <2> SUFFICES ASSUME f.kind \in Moded PROVE g.v[ModeField(f.kind).name] \in ToSet(ModeField(f.kind).holds)
    BY <1>1 DEF Chosen
  <2>1. Has(FieldsOf[f.kind], ModeField(f.kind).name, "radio") /\ ModeField(f.kind).name \in DependedOn
    BY ModeFields DEF DependedOn
  <2>2. g.v[ModeField(f.kind).name] = f.v[ModeField(f.kind).name]
    BY <1>4, <2>1
  <2> QED
    BY <2>2 DEF Core, Chosen
<1>7. Core(g)
  BY <1>1, <1>2, <1>3, <1>5, <1>6 DEF Core
<1>8. RulesHold(f) => RulesHold(g)
  BY <1>1, <1>3, <1>5, HoldsByName
<1>9. \A name \in {"sans", "item_aliases"} : Named(f, name) => g.v[name] = f.v[name]
  BY <1>2 DEF Free
<1>10. RowsExist(f) => RowsExist(g)
  BY <1>1, <1>9, AlikeRows
<1>11. ASSUME NEW i \in Places(f), Stops(f, i) PROVE Stops(g, i)
  <2>1. FieldAt(g, i) = FieldAt(f, i) /\ Proper(f.kind, FieldAt(f, i).name, FieldAt(f, i).type)
    BY <1>1, PlacesAre DEF FieldAt
  <2>2. CASE FieldAt(f, i).type # "aliases"
    BY <1>1, <1>11, <2>1, <2>2 DEF Stops
  <2>3. CASE FieldAt(f, i).type = "aliases"
    <3>1. f.kind = "bundle"
      BY <2>1, <2>3 DEF Proper
    <3>2. Has(FieldsOf[f.kind], "format", "radio") /\ Has(FieldsOf[f.kind], "item_aliases", "aliases")
      BY <1>1, <3>1, FieldsAreProper
    <3>3. g.v.format = f.v.format
      BY <1>4, <3>2 DEF DependedOn
    <3>4. g.v.item_aliases = f.v.item_aliases
      BY <1>9, <3>2 DEF Named
    <3>5. Aliasable(g) = Aliasable(f)
      BY <3>4 DEF Aliasable
    <3> QED
      BY <1>1, <1>11, <2>1, <3>3, <3>5 DEF Stops
  <2> QED
    BY <2>2, <2>3
<1> QED
  BY <1>7, <1>8, <1>9, <1>10, <1>11

\* evaluateVisibility, its first part: what is shown.
LEMMA ShownIsSettled ==
  ASSUME NEW f, Core(f), NEW g, g = [f EXCEPT !.shown = ShownBy(f)]
  PROVE  /\ Core(g) /\ RulesHold(g)
         /\ g.kind = f.kind /\ g.v = f.v /\ g.focus = f.focus /\ g.row = f.row
<1> DEFINE R == RulesOf(f.kind, f.v)
<1>1. /\ IsForm(g) /\ g.kind = f.kind /\ g.v = f.v /\ g.focus = f.focus /\ g.row = f.row
      /\ g.shown = ShownBy(f) /\ Places(g) = Places(f)
  BY DEF Core, IsForm, Places
<1>2. Sound(R)
  BY RulesAreSound DEF Core
<1>3. g.shown = Applied(R, f.shown)
  BY <1>1 DEF ShownBy
<1> HIDE DEF R
<1>4. \A name : name \in Targets(R) <=> \E j \in DOMAIN R : R[j].target = name
  BY DEF Targets, ToSet
<1>5. \A name, shown : Asked(R, name, shown) <=> \E j \in DOMAIN R : R[j].target = name /\ R[j].when /\
        R[j].on \in shown
  BY DEF Asked, ToSet
<1>6. \A name : name \in g.shown <=> IF name \in Targets(R) THEN Asked(R, name, g.shown) ELSE name \in f.shown
  BY <1>2, <1>3, <1>4, <1>5, OnePass DEF Sound
<1>7. \A name : Named(g, name) <=> Named(f, name)
  BY <1>1 DEF Named
<1>8. \A name : Named(f, name) /\ name \notin Targets(R) => name \in f.shown
  BY DEF Core, R
<1>9. RulesHold(g)
  <2>1. RulesOf(g.kind, g.v) = R /\ g.kind \in DOMAIN FieldsOf
    BY <1>1 DEF R, Core
  <2>2. \A name : Asked(R, name, g.shown) => name \in Targets(R)
    BY DEF Asked, Targets
  <2> QED
    BY <1>6, <1>7, <1>8, <2>1, <2>2, HoldsByName
<1>10. Core(g)
  BY <1>1, <1>6, <1>7, <1>8 DEF Core, R
<1> QED
  BY <1>1, <1>9, <1>10

LEMMA SetIsAlike ==
  ASSUME NEW f, IsForm(f), NEW new
  PROVE  Alike(f, Set(f, new), DOMAIN new)
<1>1. IsForm(Set(f, new)) /\ Set(f, new).v = new ++ f.v
  BY DEF Set, IsForm
<1>2. /\ Set(f, new).kind = f.kind /\ Set(f, new).shown = f.shown
      /\ Set(f, new).focus = f.focus /\ Set(f, new).row = f.row
  BY DEF Set, IsForm
<1>3. DOMAIN f.v \subseteq DOMAIN (new ++ f.v) /\ \A x \in DOMAIN f.v : x \notin DOMAIN new =>
        (new ++ f.v)[x] = f.v[x]
  BY DEF ++
<1> QED
  BY <1>1, <1>2, <1>3 DEF Alike

LEMMA DefaultsAreAlike ==
  ASSUME NEW f, IsForm(f)
  PROVE  Alike(f, Defaults(f), {"days", "key_usage", "ext_key_usage"})
<1>1. CASE Defaults(f) = f
  BY <1>1 DEF Alike
<1>2. CASE "cert_type" \in DOMAIN f.v /\ f.v.cert_type # f.last
  <2> DEFINE ca == f.v.cert_type = "CA"
             new == [days |-> IF ca THEN "caDays" ELSE "leafDays", key_usage |-> IF ca THEN "ca" ELSE "leaf",
                     ext_key_usage |-> IF ca THEN "none" ELSE "leaf"]
             g == Set(f, new)
  <2>1. Defaults(f) = [g EXCEPT !.last = f.v.cert_type]
    BY <1>2 DEF Defaults
  <2>2. DOMAIN new = {"days", "key_usage", "ext_key_usage"}
    OBVIOUS
  <2> HIDE DEF new
  <2>3. Alike(f, g, {"days", "key_usage", "ext_key_usage"})
    BY <2>2, SetIsAlike
  <2> HIDE DEF g
  <2>4. /\ IsForm(Defaults(f)) /\ Defaults(f).kind = g.kind /\ Defaults(f).shown = g.shown
        /\ Defaults(f).focus = g.focus /\ Defaults(f).row = g.row /\ Defaults(f).v = g.v
    BY <2>1, <2>3 DEF Alike, IsForm
  <2> QED
    BY <2>3, <2>4 DEF Alike
<1> QED
  BY <1>1, <1>2 DEF Defaults

LEMMA RewriteIsAlike ==
  ASSUME NEW f, IsForm(f)
  PROVE  Alike(f, RewriteOutputExt(f), {"output_file"})
<1>1. CASE RewriteOutputExt(f) = f
  BY <1>1 DEF Alike
<1>2. CASE RewriteOutputExt(f) = Set(f, [output_file |-> ExtOf(f.v.format)])
  <2>1. DOMAIN [output_file |-> ExtOf(f.v.format)] = {"output_file"}
    OBVIOUS
  <2> QED
    BY <1>2, <2>1, SetIsAlike
<1> QED
  BY <1>1, <1>2 DEF RewriteOutputExt

LEMMA TheButtonStops ==
  ASSUME NEW f, Core(f)
  PROVE  \E i \in Places(f) : Stops(f, i)
<1>1. Has(FieldsOf[f.kind], "submit", "button") /\ "submit" \notin Targets(RulesOf(f.kind, f.v))
  BY FieldsAreProper, RulesAreSound DEF Core
<1>4. \A name, type : Has(FieldsOf[f.kind], name, type) =>
        \E i \in Places(f) : FieldAt(f, i).name = name /\ FieldAt(f, i).type = type
  BY PlacesAre DEF Core
<1>2. PICK i \in Places(f) : FieldAt(f, i).name = "submit" /\ FieldAt(f, i).type = "button"
  BY <1>1, <1>4
<1>3. "submit" \in f.shown
  BY <1>1 DEF Core, Named
<1> QED
  BY <1>2, <1>3 DEF Stops

LEMMA AdvanceSettles ==
  ASSUME NEW f, Core(f), RulesHold(f)
  PROVE  LET g == Advance(f) IN
         /\ Core(g) /\ RulesHold(g) /\ Stops(g, g.focus)
         /\ g.kind = f.kind /\ g.v = f.v /\ g.row = f.row
<1> DEFINE g == Advance(f)
<1>1. CASE Stops(f, f.focus)
  BY <1>1 DEF Advance
<1>2. CASE ~ Stops(f, f.focus)
  <2> DEFINE to == Neighbour(f, 1)
  <2>1. to \in Places(f) /\ Stops(f, to)
    BY TheButtonStops, NeighbourIsAPlace DEF Core
  <2>2. g = [f EXCEPT !.focus = to]
    BY <1>2 DEF Advance
  <2> HIDE DEF to, g
  <2>3. /\ IsForm(g) /\ g.kind = f.kind /\ g.shown = f.shown /\ g.v = f.v /\ g.row = f.row
        /\ g.focus = to
    BY <2>2 DEF Core, IsForm
  <2>4. Places(g) = Places(f) /\ Aliasable(g) = Aliasable(f)
    BY <2>3 DEF Places, Aliasable
  <2>5. \A name : Named(g, name) <=> Named(f, name)
    BY <2>3 DEF Named
  <2>6. Core(g)
    BY <2>1, <2>3, <2>4, <2>5 DEF Core
  <2>7. RulesHold(g)
    BY <2>3, <2>5, HoldsByName DEF Core
  <2>8. \A i : FieldAt(g, i) = FieldAt(f, i)
    BY <2>3 DEF FieldAt
  <2>9. Stops(g, g.focus)
    BY <2>1, <2>3, <2>4, <2>8 DEF Stops
  <2> QED
    BY <2>3, <2>6, <2>7, <2>9 DEF g
<1> QED
  BY <1>1, <1>2

LEMMA EvaluateVisibilitySettles ==
  ASSUME NEW f, Core(f), NEW g, g = EvaluateVisibility(f)
  PROVE  /\ Core(g) /\ RulesHold(g) /\ Stops(g, g.focus)
         /\ g.kind = f.kind /\ g.row = f.row
         /\ \A name \in {"sans", "item_aliases"} : Named(f, name) => g.v[name] = f.v[name]
         /\ RowsExist(f) => RowsExist(g)
<1> DEFINE a == [f EXCEPT !.shown = ShownBy(f)]
           b == Defaults(a)
           c == RewriteOutputExt(b)
<1>1. g = Advance(c)
  BY DEF EvaluateVisibility
<1>2. Core(a) /\ RulesHold(a) /\ a.kind = f.kind /\ a.v = f.v /\ a.row = f.row
  BY ShownIsSettled
<1> HIDE DEF a
<1>3. Alike(a, b, {"days", "key_usage", "ext_key_usage"})
  BY <1>2, DefaultsAreAlike DEF Core
<1> HIDE DEF b
<1>4. Free({"days", "key_usage", "ext_key_usage"}) /\ Free({"output_file"})
  BY DEF Free, DependedOn
<1>5. /\ Core(b) /\ RulesHold(b) /\ b.kind = f.kind /\ b.row = f.row
      /\ \A name \in {"sans", "item_aliases"} : Named(a, name) => b.v[name] = a.v[name]
  BY <1>2, <1>3, <1>4, AlikeIsSettled DEF Alike
<1>6. Alike(b, c, {"output_file"})
  BY <1>5, RewriteIsAlike DEF Core
<1> HIDE DEF c
<1>7. /\ Core(c) /\ RulesHold(c) /\ c.kind = f.kind /\ c.row = f.row
      /\ \A name \in {"sans", "item_aliases"} : Named(b, name) => c.v[name] = b.v[name]
  BY <1>4, <1>5, <1>6, AlikeIsSettled DEF Alike
<1>8. /\ Core(g) /\ RulesHold(g) /\ Stops(g, g.focus)
      /\ g.kind = f.kind /\ g.v = c.v /\ g.row = f.row
  BY <1>1, <1>7, AdvanceSettles
<1>9. \A name \in {"sans", "item_aliases"} : Named(f, name) => g.v[name] = f.v[name]
  BY <1>2, <1>5, <1>7, <1>8 DEF Named
<1>10. RowsExist(f) => RowsExist(g)
  BY <1>8, <1>9, AlikeRows
<1> QED
  BY <1>8, <1>9, <1>10

LEMMA Longer ==
  ASSUME NEW U, NEW s \in Seq(U), NEW t \in Seq(U)
  PROVE  s \o t \in Seq(U) /\ Len(s \o t) = Len(s) + Len(t)
OBVIOUS

LEMMA Inserted ==
  ASSUME NEW s, IsSeq(s), NEW i \in 1..Len(s), NEW e
  PROVE  IsSeq(InsertAt(s, i + 1, e)) /\ Len(InsertAt(s, i + 1, e)) = Len(s) + 1
<1>1. PICK S : s \in Seq(S)
  BY DEF IsSeq
<1> DEFINE U == S \union {e}
<1>2. s \in Seq(U) /\ <<e>> \in Seq(U) /\ Len(s) \in Nat
  BY <1>1
<1>3. SubSeq(s, 1, i) \in Seq(U) /\ Len(SubSeq(s, 1, i)) = i
  BY <1>2
<1>4. SubSeq(s, i + 1, Len(s)) \in Seq(U) /\ Len(SubSeq(s, i + 1, Len(s))) = Len(s) - i
  BY <1>2
<1>5. InsertAt(s, i + 1, e) = SubSeq(s, 1, i) \o <<e>> \o SubSeq(s, i + 1, Len(s))
  <2>1. (i + 1) - 1 = i
    BY <1>2
  <2>2. InsertAt(s, i + 1, e) = SubSeq(s, 1, (i + 1) - 1) \o <<e>> \o SubSeq(s, i + 1, Len(s))
    BY DEF InsertAt
  <2> QED
    BY <2>1, <2>2
<1> DEFINE left == SubSeq(s, 1, i)
           one == <<e>>
           right == SubSeq(s, i + 1, Len(s))
<1>6. Len(one) = 1
  OBVIOUS
<1>7. InsertAt(s, i + 1, e) \in Seq(U) /\ Len(InsertAt(s, i + 1, e)) = Len(s) + 1
  <2> HIDE DEF left, one, right
  <2>1. left \o one \in Seq(U) /\ Len(left \o one) = i + 1
    BY <1>2, <1>3, <1>6, Longer DEF left, one
  <2>2. right \in Seq(U) /\ Len(right) = Len(s) - i
    BY <1>4 DEF right
  <2>3. left \o one \o right \in Seq(U) /\ Len(left \o one \o right) = (i + 1) + (Len(s) - i)
    BY <2>1, <2>2, Longer
  <2>4. InsertAt(s, i + 1, e) = left \o one \o right
    BY <1>5 DEF left, one, right
  <2>5. (i + 1) + (Len(s) - i) = Len(s) + 1
    BY <1>2
  <2> QED
    BY <2>3, <2>4, <2>5
<1> QED
  BY <1>7 DEF IsSeq

LEMMA Removed ==
  ASSUME NEW s, IsSeq(s), NEW i \in 1..Len(s)
  PROVE  IsSeq(RemoveAt(s, i)) /\ Len(RemoveAt(s, i)) = Len(s) - 1
<1>1. PICK S : s \in Seq(S)
  BY DEF IsSeq
<1>2. Len(s) \in Nat
  BY <1>1
<1>3. SubSeq(s, 1, i - 1) \in Seq(S) /\ Len(SubSeq(s, 1, i - 1)) = i - 1
  BY <1>1, <1>2
<1>4. SubSeq(s, i + 1, Len(s)) \in Seq(S) /\ Len(SubSeq(s, i + 1, Len(s))) = Len(s) - i
  BY <1>1, <1>2
<1> DEFINE left == SubSeq(s, 1, i - 1)
           right == SubSeq(s, i + 1, Len(s))
<1>5. RemoveAt(s, i) = left \o right
  BY DEF RemoveAt
<1> HIDE DEF left, right
<1>6. left \o right \in Seq(S) /\ Len(left \o right) = (i - 1) + (Len(s) - i)
  BY <1>3, <1>4, Longer DEF left, right
<1>7. RemoveAt(s, i) \in Seq(S) /\ Len(RemoveAt(s, i)) = Len(s) - 1
  BY <1>2, <1>5, <1>6
<1> QED
  BY <1>7 DEF IsSeq

LEMMA AliasableIsFinite ==
  ASSUME NEW f, IsSeq(f.v.item_aliases)
  PROVE  IsFiniteSet(Aliasable(f)) /\ Cardinality(Aliasable(f)) \in Nat
         /\ (Aliasable(f) # {} => 1 \in 1..Cardinality(Aliasable(f)))
<1>1. Len(f.v.item_aliases) \in Nat /\ Aliasable(f) \subseteq 1..Len(f.v.item_aliases)
  BY DEF Aliasable, IsSeq
<1>2. IsFiniteSet(Aliasable(f))
  <2>1. IsFiniteSet(1..Len(f.v.item_aliases))
    BY <1>1, FS_Interval
  <2> QED
    BY <1>1, <2>1, FS_Subset
<1>3. Cardinality(Aliasable(f)) \in Nat
  BY <1>2, FS_CardinalityType
<1>4. Aliasable(f) # {} => Cardinality(Aliasable(f)) # 0
  BY <1>2, FS_EmptySet
<1> QED
  BY <1>2, <1>3, <1>4

\* What a key does before evaluateVisibility.
LEMMA CoreKept ==
  ASSUME NEW f, Core(f), NEW g, IsForm(g), g.kind = f.kind, g.shown = f.shown, g.focus \in Places(f),
         DOMAIN f.v \subseteq DOMAIN g.v, Chosen(f.kind, g.v)
  PROVE  Core(g)
<1>1. Places(g) = Places(f) /\ \A name : Named(g, name) <=> Named(f, name)
  BY DEF Places, Named
<1>2. Targets(RulesOf(g.kind, g.v)) = Targets(RulesOf(f.kind, f.v))
  BY RulesAreSound DEF Core
<1> QED
  BY <1>1, <1>2 DEF Core

LEMMA FocusKeeps ==
  ASSUME NEW f, Settled(f), NEW i \in Places(f)
  PROVE  Settled(SetFocus(f, i))
<1> DEFINE g == [f EXCEPT !.focus = i]
<1>1. /\ IsForm(g) /\ g.kind = f.kind /\ g.shown = f.shown /\ g.focus = i /\ g.v = f.v /\ g.row = f.row
  BY DEF Settled, Core, IsForm
<1> HIDE DEF g
<1>2. Core(g)
  BY <1>1, CoreKept DEF Settled, Core
<1>3. RowsExist(g)
  BY <1>1, AlikeRows DEF Settled
<1>4. SetFocus(f, i) = EvaluateVisibility(g)
  BY DEF SetFocus, g
<1> QED
  BY <1>2, <1>3, <1>4, EvaluateVisibilitySettles DEF Settled

\* A value typed or chosen: before evaluateVisibility the form keeps its core.
LEMMA ValueKeepsCore ==
  ASSUME NEW f, Core(f), NEW name, Named(f, name), NEW value,
         f.kind \in Moded /\ name = ModeField(f.kind).name => value \in ToSet(ModeField(f.kind).holds),
         NEW g, g = [f EXCEPT !.v[name] = value]
  PROVE  /\ Core(g) /\ g.kind = f.kind /\ g.row = f.row /\ g.v[name] = value
         /\ \A other : Named(f, other) /\ other # name => g.v[other] = f.v[other]
<1>1. /\ IsForm(g) /\ g.kind = f.kind /\ g.shown = f.shown /\ g.focus = f.focus /\ g.row = f.row
      /\ g.v = [f.v EXCEPT ![name] = value]
  BY DEF Core, IsForm
<1>2. \A other : Named(f, other) => other \in DOMAIN f.v
  BY DEF Core
<1>3. DOMAIN g.v = DOMAIN f.v /\ g.v[name] = value
  BY <1>1, <1>2
<1>4. \A other : Named(f, other) /\ other # name => g.v[other] = f.v[other]
  BY <1>1, <1>2
<1>5. Chosen(f.kind, g.v)
  <2> SUFFICES ASSUME f.kind \in Moded PROVE g.v[ModeField(f.kind).name] \in ToSet(ModeField(f.kind).holds)
    BY DEF Chosen
  <2>1. Named(f, ModeField(f.kind).name)
    BY ModeFields DEF Named
  <2>2. CASE name = ModeField(f.kind).name
    BY <1>3, <2>2
  <2>3. CASE name # ModeField(f.kind).name
    BY <1>4, <2>1, <2>3 DEF Core, Chosen
  <2> QED
    BY <2>2, <2>3
<1>6. Core(g)
  BY <1>1, <1>3, <1>5, CoreKept DEF Core
<1> QED
  BY <1>1, <1>3, <1>4, <1>6

\* The field the focus is on.
LEMMA FocusedIs ==
  ASSUME Settled(form)
  PROVE  /\ Focused \in ToSet(FieldsOf[form.kind]) /\ Has(FieldsOf[form.kind], Focused.name, Focused.type)
         /\ Named(form, Focused.name)
         /\ Proper(form.kind, Focused.name, Focused.type)
         /\ form.kind \in Moded /\ Focused.name = ModeField(form.kind).name => Focused = ModeField(form.kind)
<1>1. /\ Focused \in ToSet(FieldsOf[form.kind]) /\ Has(FieldsOf[form.kind], Focused.name, Focused.type)
      /\ Proper(form.kind, Focused.name, Focused.type)
  BY PlacesAre DEF Settled, Core, Focused
<1>2. Named(form, Focused.name)
  BY <1>1 DEF Named
<1>3. form.kind \in Moded /\ Focused.name = ModeField(form.kind).name => Focused = ModeField(form.kind)
  BY <1>1, ModeFields DEF Only
<1> QED
  BY <1>1, <1>2, <1>3

LEMMA OtherValueKeeps ==
  ASSUME Settled(form), NEW value, Focused.type \notin {"list", "aliases"},
         form.kind \in Moded /\ Focused.name = ModeField(form.kind).name =>
           value \in ToSet(ModeField(form.kind).holds)
  PROVE  Settled(Holding(value))
<1> DEFINE g == [form EXCEPT !.v[Focused.name] = value]
<1>1. Focused.name \notin {"sans", "item_aliases"}
  BY FocusedIs DEF Proper
<1>2. /\ Core(g) /\ g.kind = form.kind /\ g.row = form.row
      /\ \A other : Named(form, other) /\ other # Focused.name => g.v[other] = form.v[other]
  BY FocusedIs, ValueKeepsCore DEF Settled
<1> HIDE DEF g
<1>3. RowsExist(g)
  BY <1>1, <1>2, AlikeRows DEF Settled
<1>4. Holding(value) = EvaluateVisibility(g)
  BY DEF Holding, g
<1> QED
  BY <1>2, <1>3, <1>4, EvaluateVisibilitySettles DEF Settled

\* The rows of a list: any new rows, of which the row is one.
LEMMA RowsKeep ==
  ASSUME Settled(form), Focused.type = "list", NEW rows, IsSeq(rows)
  PROVE  LET g == Holding(rows) IN
         /\ Core(g) /\ RulesHold(g) /\ Stops(g, g.focus) /\ g.kind = form.kind /\ g.row = form.row
         /\ g.v.sans = rows /\ Lists(form.kind)
<1> DEFINE h == [form EXCEPT !.v[Focused.name] = rows]
           g == Holding(rows)
<1>1. Focused.name = "sans" /\ Lists(form.kind)
  BY FocusedIs DEF Proper, Lists
<1>2. ~ (form.kind \in Moded /\ Focused.name = ModeField(form.kind).name)
  BY FocusedIs, ModeFields
<1>3. Core(h) /\ h.kind = form.kind /\ h.row = form.row /\ h.v[Focused.name] = rows
  BY <1>2, FocusedIs, ValueKeepsCore DEF Settled
<1> HIDE DEF h
<1>4. g = EvaluateVisibility(h)
  BY DEF Holding, h
<1> HIDE DEF g
<1>5. Named(h, "sans")
  BY <1>1, <1>3, FocusedIs DEF Named
<1>6. /\ Core(g) /\ RulesHold(g) /\ Stops(g, g.focus)
      /\ g.kind = h.kind /\ g.row = h.row /\ g.v["sans"] = h.v["sans"]
  BY <1>3, <1>4, <1>5, EvaluateVisibilitySettles
<1> QED
  BY <1>1, <1>3, <1>6 DEF g

LEMMA RowIsOne ==
  ASSUME NEW g, Core(g), RulesHold(g), Stops(g, g.focus), Lists(g.kind), IsSeq(g.v.sans), NEW r \in 1..Len(g.v.sans)
  PROVE  Settled([g EXCEPT !.row = r])
<1> DEFINE h == [g EXCEPT !.row = r]
<1>1. /\ IsForm(h) /\ h.kind = g.kind /\ h.shown = g.shown /\ h.focus = g.focus /\ h.v = g.v /\ h.row = r
  BY DEF Core, IsForm
<1> HIDE DEF h
<1>2. Core(h)
  BY <1>1, CoreKept DEF Core
<1>3. \A name : Named(h, name) <=> Named(g, name)
  BY <1>1 DEF Named
<1>4. RulesHold(h)
  BY <1>1, <1>3, HoldsByName DEF Core
<1>5. Aliasable(h) = Aliasable(g) /\ FieldAt(h, h.focus) = FieldAt(g, g.focus)
  BY <1>1 DEF Aliasable, FieldAt
<1>6. Stops(h, h.focus)
  BY <1>1, <1>5 DEF Stops
<1>7. RowsExist(h)
  BY <1>1 DEF RowsExist, Lists
<1> QED
  BY <1>2, <1>4, <1>6, <1>7 DEF Settled, h

LEMMA Replaced ==
  ASSUME NEW s, IsSeq(s), NEW i, NEW e
  PROVE  LET t == [s EXCEPT ![i] = e] IN IsSeq(t) /\ DOMAIN t = DOMAIN s /\ Len(t) = Len(s)
<1> DEFINE t == [s EXCEPT ![i] = e]
<1>1. PICK S : s \in Seq(S)
  BY DEF IsSeq
<1> DEFINE U == S \union {e}
<1>2. Len(s) \in Nat /\ DOMAIN s = 1..Len(s) /\ \A j \in 1..Len(s) : s[j] \in U
  BY <1>1
<1>3. t \in [1..Len(s) -> U]
  BY <1>2
<1> HIDE DEF t
<1>4. t \in Seq(U) /\ Len(t) = Len(s)
  BY <1>2, <1>3
<1> QED
  BY <1>2, <1>3, <1>4 DEF IsSeq, t

LEMMA AliasKeeps ==
  ASSUME Settled(form), Focused.type = "aliases", NEW item \in Aliasable(form), NEW text \in RowTexts
  PROVE  Settled(Holding([form.v.item_aliases EXCEPT ![item] = text]))
<1> DEFINE rows == [form.v.item_aliases EXCEPT ![item] = text]
           h == [form EXCEPT !.v[Focused.name] = rows]
<1>1. Focused.name = "item_aliases" /\ form.kind = "bundle" /\ ~ Lists(form.kind)
  BY FocusedIs DEF Proper, Lists
<1>2. /\ Core(h) /\ h.kind = form.kind /\ h.row = form.row /\ h.v["item_aliases"] = rows
  BY <1>1, FocusedIs, ValueKeepsCore DEF Settled, Moded
<1>3. text # "key"
  <2>1. Focused = Field("item_aliases", "aliases", <<"", "a", "b", "A">>)
    BY <1>1, FocusedIs, FieldsOfKinds, BundleFieldsAre DEF Only
  <2>2. Focused.holds = <<"", "a", "b", "A">>
    BY <2>1 DEF Field
  <2>3. RowTexts = {"", "a", "b", "A"}
    <3>1. RowTexts = ToSet(<<"", "a", "b", "A">>)
      BY <2>2 DEF RowTexts
    <3>2. ToSet(<<"", "a", "b", "A">>) = {"", "a", "b", "A"}
      BY Tuple4
    <3> QED
      BY <3>1, <3>2
  <2> QED
    BY <2>3
<1>4. IsSeq(form.v.item_aliases)
  BY <1>1 DEF Settled, RowsExist
<1>5. IsSeq(rows) /\ DOMAIN rows = DOMAIN form.v.item_aliases
  BY <1>4, Replaced
<1>6. \A i \in DOMAIN rows : rows[i] = IF i = item THEN text ELSE form.v.item_aliases[i]
  OBVIOUS
<1>7. form.v.item_aliases[item] # "key" /\ item \in DOMAIN form.v.item_aliases
  BY DEF Aliasable
<1> HIDE DEF rows, h
<1>8. Aliasable(h) = Aliasable(form)
  BY <1>2, <1>3, <1>5, <1>6, <1>7 DEF Aliasable
<1>9. RowsExist(h)
  BY <1>1, <1>2, <1>5, <1>8 DEF Settled, RowsExist
<1>10. Holding(rows) = EvaluateVisibility(h)
  BY <1>1 DEF Holding, h
<1> QED
  BY <1>2, <1>9, <1>10, EvaluateVisibilitySettles DEF Settled, rows

LEMMA ChosenIsOffered ==
  ASSUME NEW holds, IsSeq(holds), Len(holds) > 0, NEW value \in ToSet(holds), NEW d \in {1, -1}
  PROVE  LET n == Len(holds)
             at == CHOOSE i \in 1..n : holds[i] = value
         IN holds[((at - 1 + d) % n) + 1] \in ToSet(holds)
<1> DEFINE n == Len(holds)
           at == CHOOSE i \in 1..n : holds[i] = value
<1>1. n \in Nat /\ n > 0 /\ DOMAIN holds = 1..n
  BY DEF IsSeq
<1>2. \E i \in 1..n : holds[i] = value
  BY <1>1 DEF ToSet
<1>3. at \in 1..n
  BY <1>2
<1> HIDE DEF at
<1> DEFINE x == at - 1 + d
<1>4. x \in Int
  BY <1>3
<1> HIDE DEF n, x
<1>5. x % n \in 0..(n - 1)
  BY <1>1, <1>4
<1>6. (x % n) + 1 \in 1..n
  BY <1>1, <1>5
<1>7. \A i \in 1..n : holds[i] \in ToSet(holds)
  BY <1>1, Zenon DEF ToSet
<1>8. holds[(x % n) + 1] \in ToSet(holds)
  BY <1>6, <1>7
<1> QED
  BY <1>8 DEF n, x, at

LEMMA NextKeepsSettled ==
  ASSUME Settled(form), FormNext
  PROVE  Settled(form')
<1>0. form.kind \in DOMAIN FieldsOf /\ form.focus \in Places(form)
  BY DEF Settled, Core
<1>1. CASE TabForm
  <2>1. PICK d \in {1, -1} : form' = SetFocus(form, Neighbour(form, d))
    BY <1>1 DEF TabForm
  <2> QED
    BY <1>0, <2>1, NeighbourIsAPlace, FocusKeeps
<1>2. CASE Arrow
  <2>1. PICK d \in {1, -1} : ~ AtBoundary(d) /\ form' = EvaluateVisibility([form EXCEPT !.row = @ + d])
    BY <1>2 DEF Arrow
  <2> DEFINE g == [form EXCEPT !.row = form.row + d]
  <2>2. form' = EvaluateVisibility(g)
    BY <2>1
  <2>3. /\ IsForm(g) /\ g.kind = form.kind /\ g.shown = form.shown /\ g.focus = form.focus /\ g.v = form.v
        /\ g.row = form.row + d
    BY DEF Settled, Core, IsForm
  <2>4. Composite /\ form.row + d \in 1..Rows1(form)
    BY <2>1 DEF AtBoundary
  <2> HIDE DEF g
  <2>5. Core(g)
    BY <1>0, <2>3, CoreKept DEF Settled, Core
  <2>6. Aliasable(g) = Aliasable(form)
    BY <2>3 DEF Aliasable
  <2>7. CASE Focused.type = "list"
    <3>1. Lists(form.kind) /\ form.kind # "bundle"
      BY <2>7, FocusedIs DEF Proper, Lists
    <3>2. RowsExist(g)
      BY <2>3, <2>4, <2>7, <3>1 DEF Settled, RowsExist, Rows1
    <3> QED
      BY <2>2, <2>5, <3>2, EvaluateVisibilitySettles DEF Settled
  <2>8. CASE Focused.type = "aliases"
    <3>1. ~ Lists(form.kind) /\ form.kind = "bundle"
      BY <2>8, FocusedIs DEF Proper, Lists
    <3>2. RowsExist(g)
      BY <2>3, <2>4, <2>6, <2>8, <3>1 DEF Settled, RowsExist, Rows1
    <3> QED
      BY <2>2, <2>5, <3>2, EvaluateVisibilitySettles DEF Settled
  <2> QED
    BY <2>4, <2>7, <2>8 DEF Composite
<1>3. CASE Choose
  <2> DEFINE n == Len(Focused.holds)
             at == CHOOSE i \in 1..n : Focused.holds[i] = form.v[Focused.name]
  <2>1. Focused.type \in {"radio", "check"}
    BY <1>3 DEF Choose, Changes
  <2>2. PICK d \in {1, -1} : form' = Holding(Focused.holds[((at - 1 + d) % n) + 1])
    BY <1>3 DEF Choose
  <2> DEFINE value == Focused.holds[((at - 1 + d) % n) + 1]
  <2>3. ASSUME form.kind \in Moded, Focused.name = ModeField(form.kind).name
        PROVE  value \in ToSet(ModeField(form.kind).holds)
    <3>1. Focused = ModeField(form.kind) /\ IsSeq(Focused.holds) /\ Len(Focused.holds) > 0
      BY <2>3, FocusedIs, ModeFields
    <3>2. form.v[Focused.name] \in ToSet(Focused.holds)
      BY <2>3, <3>1 DEF Settled, Core, Chosen
    <3>3. value \in ToSet(Focused.holds)
      BY <3>1, <3>2, ChosenIsOffered
    <3> QED
      BY <3>1, <3>3
  <2> HIDE DEF value
  <2>4. Settled(Holding(value))
    BY <2>1, <2>3, OtherValueKeeps
  <2> QED
    BY <2>2, <2>4 DEF value
<1>4. CASE TypeText
  <2>1. Focused.type \in {"text", "must", "confirm", "multi"}
    BY <1>4 DEF TypeText, Changes
  <2>2. PICK text : form' = Holding(text)
    BY <1>4 DEF TypeText
  <2>3. ~ (form.kind \in Moded /\ Focused.name = ModeField(form.kind).name)
    BY <2>1, FocusedIs, ModeFields
  <2> QED
    BY <2>1, <2>2, <2>3, OtherValueKeeps
<1>5. CASE TypeRow
  <2>1. Focused.type = "list"
    BY <1>5 DEF TypeRow, Changes
  <2>2. PICK text : form' = Holding([form.v.sans EXCEPT ![form.row] = text])
    BY <1>5 DEF TypeRow
  <2> DEFINE rows == [form.v.sans EXCEPT ![form.row] = text]
  <2>3. Lists(form.kind)
    BY <2>1, FocusedIs DEF Proper, Lists
  <2>4. IsSeq(form.v.sans) /\ form.row \in 1..Len(form.v.sans)
    BY <2>3 DEF Settled, RowsExist
  <2>5. IsSeq(rows) /\ Len(rows) = Len(form.v.sans)
    BY <2>4, Replaced
  <2> HIDE DEF rows
  <2> DEFINE g == Holding(rows)
  <2>6. /\ Core(g) /\ RulesHold(g) /\ Stops(g, g.focus) /\ g.kind = form.kind /\ g.row = form.row
        /\ g.v.sans = rows
    BY <2>1, <2>5, RowsKeep
  <2> HIDE DEF g
  <2>7. RowsExist(g)
    BY <2>3, <2>4, <2>5, <2>6 DEF RowsExist, Lists
  <2> QED
    BY <2>2, <2>6, <2>7 DEF Settled, g, rows
<1>6. CASE AddRow
  <2> DEFINE rows == InsertAt(form.v.sans, form.row + 1, "")
             g == Holding(rows)
  <2>1. Focused.type = "list" /\ form' = [g EXCEPT !.row = g.row + 1]
    BY <1>6 DEF AddRow, Changes
  <2>2. IsSeq(form.v.sans) /\ form.row \in 1..Len(form.v.sans)
    BY <2>1, FocusedIs DEF Proper, Lists, Settled, RowsExist
  <2>3. IsSeq(rows) /\ Len(rows) = Len(form.v.sans) + 1
    BY <2>2, Inserted
  <2> HIDE DEF rows
  <2>4. /\ Core(g) /\ RulesHold(g) /\ Stops(g, g.focus) /\ g.kind = form.kind /\ g.row = form.row
        /\ g.v.sans = rows /\ Lists(form.kind)
    BY <2>1, <2>3, RowsKeep
  <2> HIDE DEF g
  <2>5. g.row + 1 \in 1..Len(g.v.sans)
    BY <2>2, <2>3, <2>4 DEF IsSeq
  <2> QED
    BY <2>1, <2>3, <2>4, <2>5, RowIsOne
<1>7. CASE RemoveRow
  <2> DEFINE rows == RemoveAt(form.v.sans, form.row)
             g == Holding(rows)
             r == IF g.row = Len(form.v.sans) THEN g.row - 1 ELSE g.row
  <2>1. Focused.type = "list" /\ Len(form.v.sans) > 1 /\ form' = [g EXCEPT !.row = r]
    BY <1>7 DEF RemoveRow, Changes
  <2>2. IsSeq(form.v.sans) /\ form.row \in 1..Len(form.v.sans)
    BY <2>1, FocusedIs DEF Proper, Lists, Settled, RowsExist
  <2>3. IsSeq(rows) /\ Len(rows) = Len(form.v.sans) - 1
    BY <2>2, Removed
  <2> HIDE DEF rows
  <2>4. /\ Core(g) /\ RulesHold(g) /\ Stops(g, g.focus) /\ g.kind = form.kind /\ g.row = form.row
        /\ g.v.sans = rows /\ Lists(form.kind)
    BY <2>1, <2>3, RowsKeep
  <2> HIDE DEF g
  <2>5. r \in 1..Len(g.v.sans)
    BY <2>1, <2>2, <2>3, <2>4 DEF IsSeq
  <2> HIDE DEF r
  <2> QED
    BY <2>1, <2>3, <2>4, <2>5, RowIsOne
<1>8. CASE TypeAlias
  <2>1. Focused.type = "aliases"
    BY <1>8 DEF TypeAlias, Changes
  <2>2. PICK item \in Aliasable(form),
          text \in RowTexts : form' = Holding([form.v.item_aliases EXCEPT ![item] = text])
    BY <1>8 DEF TypeAlias
  <2> QED
    BY <2>1, <2>2, AliasKeeps
<1>9. CASE PickFile
  <2>1. PICK picked : Focused.type = "pick" /\ form' = Set(form, [name \in {Focused.name} |-> picked])
    BY <1>9 DEF PickFile, Changes
  <2> DEFINE new == [name \in {Focused.name} |-> picked]
             g == Set(form, new)
  <2>2. DOMAIN new = {Focused.name}
    OBVIOUS
  <2>3. Free({Focused.name})
    BY <2>1, FocusedIs DEF Proper, Free
  <2> HIDE DEF new
  <2>4. Alike(form, g, {Focused.name})
    BY <2>2, SetIsAlike DEF Settled, Core
  <2> HIDE DEF g
  <2>5. Core(g) /\ RulesHold(g) /\ RowsExist(g) /\ Stops(g, form.focus)
    BY <1>0, <2>3, <2>4, AlikeIsSettled DEF Settled
  <2>6. Settled(g)
    BY <2>4, <2>5 DEF Settled, Alike
  <2> QED
    BY <2>1, <2>6 DEF g, new
<1>10. CASE Submit
  <2>1. CASE Invalid(form) = {}
    <3>1. form' = form
      BY <1>10, <2>1 DEF Submit, Sends
    <3> QED
      BY <3>1
  <2>2. CASE Invalid(form) # {}
    <3>1. form' = SetFocus(form, First(Invalid(form)))
      BY <1>10, <2>2 DEF Submit
    <3>2. Invalid(form) \subseteq Places(form) /\ Invalid(form) \subseteq Nat
      BY <1>0, PlacesAre DEF Invalid
    <3>3. \E i \in Invalid(form) : \A k \in Invalid(form) : i <= k
      BY <2>2, <3>2, Least
    <3>4. First(Invalid(form)) \in Places(form)
      BY <3>2, <3>3 DEF First
    <3> QED
      BY <3>1, <3>4, FocusKeeps
  <2> QED
    BY <2>1, <2>2
<1>11. CASE EscForm \/ AnswerDiscard \/ AnswerOverwrite \/ FormResult
  <2>1. form' = form
    BY <1>11 DEF EscForm, AnswerDiscard, AnswerOverwrite, FormResult, Sends
  <2> QED
    BY <2>1
<1> QED
  BY <1>1, <1>2, <1>3, <1>4, <1>5, <1>6, <1>7, <1>8, <1>9, <1>10, <1>11 DEF FormNext

LEMMA OpensSettled ==
  ASSUME NEW s \in FormSessions
  PROVE  Settled(NewForm(s))
<1> DEFINE F == FieldsOf[s.kind]
           names == NamesOf(F)
           holds(name) == CHOOSE i \in DOMAIN F : F[i].name = name
           first == [name \in names |-> IF name = "sans" THEN <<"">> ELSE F[holds(name)].holds[1]]
           opening == s.opens ++ first
           last == IF "cert_type" \in names THEN opening.cert_type ELSE ""
           f == [kind |-> s.kind, changes |-> s.changes, v |-> opening, initial |-> opening,
                 shown |-> names, focus |-> 1, row |-> 1, last |-> last]
<1>1. NewForm(s) = EvaluateVisibility(f)
  BY DEF NewForm
<1>2. /\ s.kind \in DOMAIN FieldsOf
      /\ "sans" \in DOMAIN s.opens => s.opens.sans \in Seq(STRING) \ {<<>>}
      /\ s.kind = "bundle" => "item_aliases" \in DOMAIN s.opens /\ s.opens.item_aliases \in Seq(STRING)
      /\ \A field \in ToSet(F) :
           field.type = "radio" /\ field.name \in DOMAIN s.opens => s.opens[field.name] \in ToSet(field.holds)
  BY FormAssumption
<1> HIDE DEF last
<1>3. /\ IsForm(f) /\ f.kind = s.kind /\ f.v = opening /\ f.shown = names /\ f.focus = 1 /\ f.row = 1
  BY DEF IsForm
<1> HIDE DEF f
<1>4. Len(F) \in Nat \ {0} /\ DOMAIN F = 1..Len(F) /\ Places(f) = DOMAIN F
  BY <1>2, <1>3, PlacesAre DEF Places
<1>5. \A name : Named(f, name) <=> name \in names
  <2>3. FieldsOf[f.kind] = F /\ \A i : FieldAt(f, i) = F[i]
    BY <1>3 DEF FieldAt
  <2>4. /\ \A i \in Places(f) : Has(FieldsOf[f.kind], FieldAt(f, i).name, FieldAt(f, i).type)
        /\ \A name, type : Has(FieldsOf[f.kind], name, type) =>
             \E i \in Places(f) : FieldAt(f, i).name = name /\ FieldAt(f, i).type = type
    <3>1. f.kind \in DOMAIN FieldsOf
      BY <1>2, <1>3
    <3> QED
      BY <3>1, PlacesAre
  <2>1. \A i \in DOMAIN F : Has(F, F[i].name, F[i].type)
    BY <1>4, <2>3, <2>4
  <2>2. \A name, type : Has(F, name, type) => \E i \in DOMAIN F : F[i].name = name
    BY <1>4, <2>3, <2>4
  <2> QED
    BY <1>3, <2>1, <2>2 DEF Named, NamesOf
<1>6. DOMAIN first = names /\ \A name \in names : first[name] = IF name = "sans" THEN <<"">> ELSE F[holds(name)].holds[1]
  OBVIOUS
<1>7. \A name \in names : holds(name) \in DOMAIN F /\ F[holds(name)].name = name
  BY DEF NamesOf
<1> HIDE DEF first, holds, names
<1>8. /\ names \subseteq DOMAIN opening
      /\ \A name \in DOMAIN s.opens : opening[name] = s.opens[name]
      /\ \A name \in names : name \notin DOMAIN s.opens => opening[name] = first[name]
  BY <1>6 DEF ++
<1> HIDE DEF opening
<1>9. Chosen(s.kind, opening)
  <2> DEFINE m == ModeField(s.kind)
  <2> SUFFICES ASSUME s.kind \in Moded PROVE opening[m.name] \in ToSet(m.holds)
    BY DEF Chosen
  <2>1. /\ Only(F, m.name, m) /\ Has(F, m.name, "radio") /\ m.type = "radio" /\ m.name # "sans"
        /\ IsSeq(m.holds) /\ Len(m.holds) > 0
    BY ModeFields
  <2> HIDE DEF m, F
  <2>2. m.name \in names
    BY <1>3, <1>5, <2>1 DEF Named, F
  <2>3. m \in ToSet(F)
    BY <2>1 DEF Only, Has
  <2>4. CASE m.name \in DOMAIN s.opens
    BY <1>2, <1>8, <2>1, <2>3, <2>4
  <2>5. CASE m.name \notin DOMAIN s.opens
    <3>1. holds(m.name) \in DOMAIN F /\ F[holds(m.name)].name = m.name
      BY <1>7, <2>2
    <3>2. F[holds(m.name)] \in ToSet(F)
      BY <3>1, Zenon DEF ToSet
    <3>3. F[holds(m.name)] = m
      BY <2>1, <3>1, <3>2 DEF Only
    <3>4. opening[m.name] = m.holds[1]
      BY <1>6, <1>8, <2>1, <2>2, <2>5, <3>3
    <3>5. 1 \in DOMAIN m.holds
      BY <2>1 DEF IsSeq
    <3>6. m.holds[1] \in ToSet(m.holds)
      BY <3>5, Zenon DEF ToSet
    <3> QED
      BY <3>4, <3>6
  <2> QED
    BY <2>4, <2>5 DEF m
<1>10. Core(f)
  BY <1>2, <1>3, <1>4, <1>5, <1>8, <1>9 DEF Core
<1>11. RowsExist(f)
  <2>1. ASSUME Lists(s.kind) PROVE IsSeq(opening.sans) /\ 1 \in 1..Len(opening.sans)
    <3>1. "sans" \in names
      BY <1>2, <1>3, <1>5, <2>1, FieldsAreProper DEF Lists, Named
    <3>2. CASE "sans" \in DOMAIN s.opens
      <4>1. opening.sans \in Seq(STRING) /\ opening.sans # <<>>
        BY <1>2, <1>8, <3>2
      <4>2. Len(opening.sans) \in Nat /\ Len(opening.sans) # 0
        BY <4>1
      <4> QED
        BY <4>1, <4>2 DEF IsSeq
    <3>3. CASE "sans" \notin DOMAIN s.opens
      <4>1. opening.sans = <<"">>
        BY <1>6, <1>8, <3>1, <3>3
      <4>2. Len(<<"">>) = 1
        OBVIOUS
      <4>3. IsSeq(<<"">>)
        BY Tuple1
      <4>4. Len(opening.sans) = 1 /\ IsSeq(opening.sans)
        BY <4>1, <4>2, <4>3
      <4> QED
        BY <4>4
    <3> QED
      BY <3>2, <3>3
  <2>2. ASSUME s.kind = "bundle" PROVE IsSeq(opening.item_aliases)
    BY <1>2, <1>8, <2>2 DEF IsSeq
  <2>3. s.kind = "bundle" => (Aliasable(f) # {} => 1 \in 1..Cardinality(Aliasable(f)))
    BY <1>3, <2>2, AliasableIsFinite
  <2> QED
    BY <1>3, <2>1, <2>2, <2>3 DEF RowsExist
<1> QED
  BY <1>1, <1>10, <1>11, EvaluateVisibilitySettles DEF Settled

-----------------------------------------------------------------------------
(* What each form shows.                                                     *)

LEMMA CreateKeyShows ==
  ASSUME NEW f, f.kind = "createKey", RulesHold(f)
  PROVE  /\ {"algo", "format", "output", "submit"} \subseteq f.shown
         /\ "size" \in f.shown <=> f.v.algo = "RSA"
         /\ "curve" \in f.shown <=> f.v.algo = "ECDSA"
         /\ "encrypt" \in f.shown <=> f.v.format = "PEM"
         /\ "password" \in f.shown <=> f.v.encrypt = "true" /\ "encrypt" \in f.shown
<1>1. f.kind \in DOMAIN FieldsOf /\ FieldsOf[f.kind] = CreateKeyFields
  BY FieldsOfKinds
<1> DEFINE R == RulesOf("createKey", f.v)
<1>2. \A name : Named(f, name) => (name \in f.shown <=> name \notin Targets(R) \/ Asked(R, name, f.shown))
  BY <1>1, HoldsByName
<1>3. Targets(R) = {"size", "curve", "encrypt", "password"}
  BY CreateKeyAsks
<1>4. \A name : Asked(R, name, f.shown) <=>
        \/ name = "size" /\ f.v.algo = "RSA" /\ "algo" \in f.shown
        \/ name = "curve" /\ f.v.algo = "ECDSA" /\ "algo" \in f.shown
        \/ name = "encrypt" /\ f.v.format = "PEM" /\ "format" \in f.shown
        \/ name = "password" /\ f.v.encrypt = "true" /\ "encrypt" \in f.shown
  BY CreateKeyAsks
<1> HIDE DEF R
<1>5. Named(f, "algo") /\ Named(f, "size") /\ Named(f, "curve") /\ Named(f, "format") /\ Named(f, "encrypt") /\
        Named(f, "password") /\ Named(f, "output") /\ Named(f, "submit")
  BY <1>1, CreateKeyFieldsAre DEF Named
<1>6. {"algo", "format", "output", "submit"} \subseteq f.shown
  BY <1>2, <1>3, <1>5
<1>7. "size" \in f.shown <=> f.v.algo = "RSA"
  <2>1. "size" \in f.shown <=> Asked(R, "size", f.shown)
    BY <1>2, <1>3, <1>5
  <2>2. Asked(R, "size", f.shown) <=> (f.v.algo = "RSA") /\ "algo" \in f.shown
    BY <1>4
  <2>3. "algo" \in f.shown
    BY <1>6
  <2> QED
    BY Zenon, <2>1, <2>2, <2>3
<1>8. "curve" \in f.shown <=> f.v.algo = "ECDSA"
  <2>1. "curve" \in f.shown <=> Asked(R, "curve", f.shown)
    BY <1>2, <1>3, <1>5
  <2>2. Asked(R, "curve", f.shown) <=> (f.v.algo = "ECDSA") /\ "algo" \in f.shown
    BY <1>4
  <2>3. "algo" \in f.shown
    BY <1>6
  <2> QED
    BY Zenon, <2>1, <2>2, <2>3
<1>9. "encrypt" \in f.shown <=> f.v.format = "PEM"
  <2>1. "encrypt" \in f.shown <=> Asked(R, "encrypt", f.shown)
    BY <1>2, <1>3, <1>5
  <2>2. Asked(R, "encrypt", f.shown) <=> (f.v.format = "PEM") /\ "format" \in f.shown
    BY <1>4
  <2>3. "format" \in f.shown
    BY <1>6
  <2> QED
    BY Zenon, <2>1, <2>2, <2>3
<1>10. "password" \in f.shown <=> f.v.encrypt = "true" /\ "encrypt" \in f.shown
  <2>1. "password" \in f.shown <=> Asked(R, "password", f.shown)
    BY <1>2, <1>3, <1>5
  <2>2. Asked(R, "password", f.shown) <=> (f.v.encrypt = "true") /\ "encrypt" \in f.shown
    BY <1>4
  <2> QED
    BY Zenon, <2>1, <2>2
<1> QED
  BY <1>6, <1>7, <1>8, <1>9, <1>10

LEMMA CreateCertShows ==
  ASSUME NEW f, f.kind = "createCert", RulesHold(f)
  PROVE  /\ {"cn", "org", "country", "extra_dn", "sans", "key_source", "signing", "cert_type", "days", "key_usage",
              "ext_key_usage", "output_mode", "submit"} \subseteq f.shown
         /\ "path_len" \in f.shown <=> f.v.cert_type = "CA"
         /\ "permitted_names" \in f.shown <=> f.v.cert_type = "CA"
         /\ "excluded_names" \in f.shown <=> f.v.cert_type = "CA"
         /\ "key_path" \in f.shown <=> f.v.key_source = Existing
         /\ "algo" \in f.shown <=> f.v.key_source = Generate
         /\ "size" \in f.shown <=> f.v.key_source = Generate /\ f.v.algo = "RSA"
         /\ "curve" \in f.shown <=> f.v.key_source = Generate /\ f.v.algo = "ECDSA"
         /\ "ca_cert" \in f.shown <=> f.v.signing = WithCA
         /\ "ca_key" \in f.shown <=> f.v.signing = WithCA
         /\ "format" \in f.shown <=> InFiles(f.v)
         /\ "cert_out" \in f.shown <=> InFiles(f.v)
         /\ "key_out" \in f.shown <=> InFiles(f.v) /\ f.v.key_source = Generate
         /\ "bundle_out" \in f.shown <=> ~ InFiles(f.v)
         /\ "encrypt_key" \in f.shown <=> MayEncrypt(f.v)
         /\ "encrypt_password" \in f.shown <=> f.v.encrypt_key = "true" /\ "encrypt_key" \in f.shown
<1>1. f.kind \in DOMAIN FieldsOf /\ FieldsOf[f.kind] = CreateCertFields
  BY FieldsOfKinds
<1> DEFINE R == RulesOf("createCert", f.v)
<1>2. \A name : Named(f, name) => (name \in f.shown <=> name \notin Targets(R) \/ Asked(R, name, f.shown))
  BY <1>1, HoldsByName
<1>3. Targets(R) = {"path_len", "permitted_names", "excluded_names", "key_path", "algo", "size", "curve", "ca_cert",
        "ca_key", "format", "cert_out", "key_out", "bundle_out", "encrypt_key", "encrypt_password"}
  BY CreateCertAsks
<1>4. \A name : Asked(R, name, f.shown) <=>
        \/ name \in {"path_len", "permitted_names", "excluded_names"} /\ f.v.cert_type = "CA" /\
             "cert_type" \in f.shown
        \/ name = "key_path" /\ f.v.key_source = Existing /\ "key_source" \in f.shown
        \/ name = "algo" /\ f.v.key_source = Generate /\ "key_source" \in f.shown
        \/ name = "size" /\ f.v.key_source = Generate /\ f.v.algo = "RSA" /\ ("algo" \in f.shown \/
             "key_source" \in f.shown)
        \/ name = "curve" /\ f.v.key_source = Generate /\ f.v.algo = "ECDSA" /\ ("algo" \in f.shown \/
             "key_source" \in f.shown)
        \/ name \in {"ca_cert", "ca_key"} /\ f.v.signing = WithCA /\ "signing" \in f.shown
        \/ name \in {"format", "cert_out"} /\ InFiles(f.v) /\ "output_mode" \in f.shown
        \/ name = "key_out" /\ InFiles(f.v) /\ f.v.key_source = Generate /\ ("output_mode" \in f.shown \/
             "key_source" \in f.shown)
        \/ name = "bundle_out" /\ ~ InFiles(f.v) /\ "output_mode" \in f.shown
        \/ name = "encrypt_key" /\ MayEncrypt(f.v) /\ ("key_source" \in f.shown \/ "output_mode" \in f.shown \/
             "format" \in f.shown)
        \/ name = "encrypt_password" /\ f.v.encrypt_key = "true" /\ "encrypt_key" \in f.shown
  BY CreateCertAsks
<1> HIDE DEF R
<1>5. Named(f, "cn") /\ Named(f, "org") /\ Named(f, "country") /\ Named(f, "extra_dn") /\ Named(f, "sans") /\
        Named(f, "key_source") /\ Named(f, "key_path") /\ Named(f, "algo") /\ Named(f, "size") /\ Named(f,
        "curve") /\ Named(f, "signing") /\ Named(f, "ca_cert") /\ Named(f, "ca_key") /\ Named(f, "cert_type") /\
        Named(f, "days") /\ Named(f, "path_len") /\ Named(f, "permitted_names") /\ Named(f, "excluded_names") /\
        Named(f, "key_usage") /\ Named(f, "ext_key_usage") /\ Named(f, "output_mode") /\ Named(f, "format") /\
        Named(f, "encrypt_key") /\ Named(f, "encrypt_password") /\ Named(f, "cert_out") /\ Named(f, "key_out") /\
        Named(f, "bundle_out") /\ Named(f, "submit")
  BY <1>1, CreateCertFieldsAre DEF Named
<1>6. {"cn", "org", "country", "extra_dn", "sans", "key_source", "signing", "cert_type", "days", "key_usage",
        "ext_key_usage", "output_mode", "submit"} \subseteq f.shown
  BY <1>2, <1>3, <1>5
<1>7. "path_len" \in f.shown <=> f.v.cert_type = "CA"
  <2>1. "path_len" \in f.shown <=> Asked(R, "path_len", f.shown)
    BY <1>2, <1>3, <1>5
  <2>2. Asked(R, "path_len", f.shown) <=> (f.v.cert_type = "CA") /\ "cert_type" \in f.shown
    BY <1>4
  <2>3. "cert_type" \in f.shown
    BY <1>6
  <2> QED
    BY Zenon, <2>1, <2>2, <2>3
<1>8. "permitted_names" \in f.shown <=> f.v.cert_type = "CA"
  <2>1. "permitted_names" \in f.shown <=> Asked(R, "permitted_names", f.shown)
    BY <1>2, <1>3, <1>5
  <2>2. Asked(R, "permitted_names", f.shown) <=> (f.v.cert_type = "CA") /\ "cert_type" \in f.shown
    BY <1>4
  <2>3. "cert_type" \in f.shown
    BY <1>6
  <2> QED
    BY Zenon, <2>1, <2>2, <2>3
<1>9. "excluded_names" \in f.shown <=> f.v.cert_type = "CA"
  <2>1. "excluded_names" \in f.shown <=> Asked(R, "excluded_names", f.shown)
    BY <1>2, <1>3, <1>5
  <2>2. Asked(R, "excluded_names", f.shown) <=> (f.v.cert_type = "CA") /\ "cert_type" \in f.shown
    BY <1>4
  <2>3. "cert_type" \in f.shown
    BY <1>6
  <2> QED
    BY Zenon, <2>1, <2>2, <2>3
<1>10. "key_path" \in f.shown <=> f.v.key_source = Existing
  <2>1. "key_path" \in f.shown <=> Asked(R, "key_path", f.shown)
    BY <1>2, <1>3, <1>5
  <2>2. Asked(R, "key_path", f.shown) <=> (f.v.key_source = Existing) /\ "key_source" \in f.shown
    BY <1>4
  <2>3. "key_source" \in f.shown
    BY <1>6
  <2> QED
    BY Zenon, <2>1, <2>2, <2>3
<1>11. "algo" \in f.shown <=> f.v.key_source = Generate
  <2>1. "algo" \in f.shown <=> Asked(R, "algo", f.shown)
    BY <1>2, <1>3, <1>5
  <2>2. Asked(R, "algo", f.shown) <=> (f.v.key_source = Generate) /\ "key_source" \in f.shown
    BY <1>4
  <2>3. "key_source" \in f.shown
    BY <1>6
  <2> QED
    BY Zenon, <2>1, <2>2, <2>3
<1>12. "size" \in f.shown <=> f.v.key_source = Generate /\ f.v.algo = "RSA"
  <2>1. "size" \in f.shown <=> Asked(R, "size", f.shown)
    BY <1>2, <1>3, <1>5
  <2>2. Asked(R, "size", f.shown) <=> (f.v.key_source = Generate /\ f.v.algo = "RSA") /\ ("algo" \in f.shown \/
          "key_source" \in f.shown)
    BY <1>4
  <2>3. "key_source" \in f.shown
    BY <1>6
  <2> QED
    BY Zenon, <2>1, <2>2, <2>3
<1>13. "curve" \in f.shown <=> f.v.key_source = Generate /\ f.v.algo = "ECDSA"
  <2>1. "curve" \in f.shown <=> Asked(R, "curve", f.shown)
    BY <1>2, <1>3, <1>5
  <2>2. Asked(R, "curve", f.shown) <=> (f.v.key_source = Generate /\ f.v.algo = "ECDSA") /\ ("algo" \in f.shown \/
          "key_source" \in f.shown)
    BY <1>4
  <2>3. "key_source" \in f.shown
    BY <1>6
  <2> QED
    BY Zenon, <2>1, <2>2, <2>3
<1>14. "ca_cert" \in f.shown <=> f.v.signing = WithCA
  <2>1. "ca_cert" \in f.shown <=> Asked(R, "ca_cert", f.shown)
    BY <1>2, <1>3, <1>5
  <2>2. Asked(R, "ca_cert", f.shown) <=> (f.v.signing = WithCA) /\ "signing" \in f.shown
    BY <1>4
  <2>3. "signing" \in f.shown
    BY <1>6
  <2> QED
    BY Zenon, <2>1, <2>2, <2>3
<1>15. "ca_key" \in f.shown <=> f.v.signing = WithCA
  <2>1. "ca_key" \in f.shown <=> Asked(R, "ca_key", f.shown)
    BY <1>2, <1>3, <1>5
  <2>2. Asked(R, "ca_key", f.shown) <=> (f.v.signing = WithCA) /\ "signing" \in f.shown
    BY <1>4
  <2>3. "signing" \in f.shown
    BY <1>6
  <2> QED
    BY Zenon, <2>1, <2>2, <2>3
<1>16. "format" \in f.shown <=> InFiles(f.v)
  <2>1. "format" \in f.shown <=> Asked(R, "format", f.shown)
    BY <1>2, <1>3, <1>5
  <2>2. Asked(R, "format", f.shown) <=> (InFiles(f.v)) /\ "output_mode" \in f.shown
    BY <1>4
  <2>3. "output_mode" \in f.shown
    BY <1>6
  <2> QED
    BY Zenon, <2>1, <2>2, <2>3
<1>17. "cert_out" \in f.shown <=> InFiles(f.v)
  <2>1. "cert_out" \in f.shown <=> Asked(R, "cert_out", f.shown)
    BY <1>2, <1>3, <1>5
  <2>2. Asked(R, "cert_out", f.shown) <=> (InFiles(f.v)) /\ "output_mode" \in f.shown
    BY <1>4
  <2>3. "output_mode" \in f.shown
    BY <1>6
  <2> QED
    BY Zenon, <2>1, <2>2, <2>3
<1>18. "key_out" \in f.shown <=> InFiles(f.v) /\ f.v.key_source = Generate
  <2>1. "key_out" \in f.shown <=> Asked(R, "key_out", f.shown)
    BY <1>2, <1>3, <1>5
  <2>2. Asked(R, "key_out", f.shown) <=> (InFiles(f.v) /\ f.v.key_source = Generate) /\
          ("output_mode" \in f.shown \/ "key_source" \in f.shown)
    BY <1>4
  <2>3. "output_mode" \in f.shown
    BY <1>6
  <2> QED
    BY Zenon, <2>1, <2>2, <2>3
<1>19. "bundle_out" \in f.shown <=> ~ InFiles(f.v)
  <2>1. "bundle_out" \in f.shown <=> Asked(R, "bundle_out", f.shown)
    BY <1>2, <1>3, <1>5
  <2>2. Asked(R, "bundle_out", f.shown) <=> (~ InFiles(f.v)) /\ "output_mode" \in f.shown
    BY <1>4
  <2>3. "output_mode" \in f.shown
    BY <1>6
  <2> QED
    BY Zenon, <2>1, <2>2, <2>3
<1>20. "encrypt_key" \in f.shown <=> MayEncrypt(f.v)
  <2>1. "encrypt_key" \in f.shown <=> Asked(R, "encrypt_key", f.shown)
    BY <1>2, <1>3, <1>5
  <2>2. Asked(R, "encrypt_key", f.shown) <=> (MayEncrypt(f.v)) /\ ("key_source" \in f.shown \/
          "output_mode" \in f.shown \/ "format" \in f.shown)
    BY <1>4
  <2>3. "key_source" \in f.shown
    BY <1>6
  <2> QED
    BY Zenon, <2>1, <2>2, <2>3
<1>21. "encrypt_password" \in f.shown <=> f.v.encrypt_key = "true" /\ "encrypt_key" \in f.shown
  <2>1. "encrypt_password" \in f.shown <=> Asked(R, "encrypt_password", f.shown)
    BY <1>2, <1>3, <1>5
  <2>2. Asked(R, "encrypt_password", f.shown) <=> (f.v.encrypt_key = "true") /\ "encrypt_key" \in f.shown
    BY <1>4
  <2> QED
    BY Zenon, <2>1, <2>2
<1> QED
  BY <1>6, <1>7, <1>8, <1>9, <1>10, <1>11, <1>12, <1>13, <1>14, <1>15, <1>16, <1>17, <1>18, <1>19, <1>20, <1>21

LEMMA CreateCSRShows ==
  ASSUME NEW f, f.kind = "createCSR", RulesHold(f)
  PROVE  /\ {"cn", "org", "country", "extra_dn", "sans", "key_source", "format", "csr_out",
              "submit"} \subseteq f.shown
         /\ "key_path" \in f.shown <=> f.v.key_source = Existing
         /\ "algo" \in f.shown <=> f.v.key_source = Generate
         /\ "key_out" \in f.shown <=> f.v.key_source = Generate
         /\ "size" \in f.shown <=> f.v.key_source = Generate /\ f.v.algo = "RSA"
         /\ "curve" \in f.shown <=> f.v.key_source = Generate /\ f.v.algo = "ECDSA"
<1>1. f.kind \in DOMAIN FieldsOf /\ FieldsOf[f.kind] = CreateCSRFields
  BY FieldsOfKinds
<1> DEFINE R == RulesOf("createCSR", f.v)
<1>2. \A name : Named(f, name) => (name \in f.shown <=> name \notin Targets(R) \/ Asked(R, name, f.shown))
  BY <1>1, HoldsByName
<1>3. Targets(R) = {"key_path", "algo", "key_out", "size", "curve"}
  BY CreateCSRAsks
<1>4. \A name : Asked(R, name, f.shown) <=>
        \/ name = "key_path" /\ f.v.key_source = Existing /\ "key_source" \in f.shown
        \/ name \in {"algo", "key_out"} /\ f.v.key_source = Generate /\ "key_source" \in f.shown
        \/ name = "size" /\ f.v.key_source = Generate /\ f.v.algo = "RSA" /\ ("algo" \in f.shown \/
             "key_source" \in f.shown)
        \/ name = "curve" /\ f.v.key_source = Generate /\ f.v.algo = "ECDSA" /\ ("algo" \in f.shown \/
             "key_source" \in f.shown)
  BY CreateCSRAsks
<1> HIDE DEF R
<1>5. Named(f, "cn") /\ Named(f, "org") /\ Named(f, "country") /\ Named(f, "extra_dn") /\ Named(f, "sans") /\
        Named(f, "key_source") /\ Named(f, "key_path") /\ Named(f, "algo") /\ Named(f, "size") /\ Named(f,
        "curve") /\ Named(f, "format") /\ Named(f, "csr_out") /\ Named(f, "key_out") /\ Named(f, "submit")
  BY <1>1, CreateCSRFieldsAre DEF Named
<1>6. {"cn", "org", "country", "extra_dn", "sans", "key_source", "format", "csr_out", "submit"} \subseteq f.shown
  BY <1>2, <1>3, <1>5
<1>7. "key_path" \in f.shown <=> f.v.key_source = Existing
  <2>1. "key_path" \in f.shown <=> Asked(R, "key_path", f.shown)
    BY <1>2, <1>3, <1>5
  <2>2. Asked(R, "key_path", f.shown) <=> (f.v.key_source = Existing) /\ "key_source" \in f.shown
    BY <1>4
  <2>3. "key_source" \in f.shown
    BY <1>6
  <2> QED
    BY Zenon, <2>1, <2>2, <2>3
<1>8. "algo" \in f.shown <=> f.v.key_source = Generate
  <2>1. "algo" \in f.shown <=> Asked(R, "algo", f.shown)
    BY <1>2, <1>3, <1>5
  <2>2. Asked(R, "algo", f.shown) <=> (f.v.key_source = Generate) /\ "key_source" \in f.shown
    BY <1>4
  <2>3. "key_source" \in f.shown
    BY <1>6
  <2> QED
    BY Zenon, <2>1, <2>2, <2>3
<1>9. "key_out" \in f.shown <=> f.v.key_source = Generate
  <2>1. "key_out" \in f.shown <=> Asked(R, "key_out", f.shown)
    BY <1>2, <1>3, <1>5
  <2>2. Asked(R, "key_out", f.shown) <=> (f.v.key_source = Generate) /\ "key_source" \in f.shown
    BY <1>4
  <2>3. "key_source" \in f.shown
    BY <1>6
  <2> QED
    BY Zenon, <2>1, <2>2, <2>3
<1>10. "size" \in f.shown <=> f.v.key_source = Generate /\ f.v.algo = "RSA"
  <2>1. "size" \in f.shown <=> Asked(R, "size", f.shown)
    BY <1>2, <1>3, <1>5
  <2>2. Asked(R, "size", f.shown) <=> (f.v.key_source = Generate /\ f.v.algo = "RSA") /\ ("algo" \in f.shown \/
          "key_source" \in f.shown)
    BY <1>4
  <2>3. "key_source" \in f.shown
    BY <1>6
  <2> QED
    BY Zenon, <2>1, <2>2, <2>3
<1>11. "curve" \in f.shown <=> f.v.key_source = Generate /\ f.v.algo = "ECDSA"
  <2>1. "curve" \in f.shown <=> Asked(R, "curve", f.shown)
    BY <1>2, <1>3, <1>5
  <2>2. Asked(R, "curve", f.shown) <=> (f.v.key_source = Generate /\ f.v.algo = "ECDSA") /\ ("algo" \in f.shown \/
          "key_source" \in f.shown)
    BY <1>4
  <2>3. "key_source" \in f.shown
    BY <1>6
  <2> QED
    BY Zenon, <2>1, <2>2, <2>3
<1> QED
  BY <1>6, <1>7, <1>8, <1>9, <1>10, <1>11

LEMMA SignCSRShows ==
  ASSUME NEW f, f.kind = "signCSR", RulesHold(f)
  PROVE  /\ {"signing", "cert_type", "days", "key_usage", "ext_key_usage", "format", "output",
              "submit"} \subseteq f.shown
         /\ "path_len" \in f.shown <=> f.v.cert_type = "CA"
         /\ "permitted_names" \in f.shown <=> f.v.cert_type = "CA"
         /\ "excluded_names" \in f.shown <=> f.v.cert_type = "CA"
         /\ "ca_cert" \in f.shown <=> f.v.signing = WithCA
         /\ "ca_key" \in f.shown <=> f.v.signing = WithCA
<1>1. f.kind \in DOMAIN FieldsOf /\ FieldsOf[f.kind] = SignCSRFields
  BY FieldsOfKinds
<1> DEFINE R == RulesOf("signCSR", f.v)
<1>2. \A name : Named(f, name) => (name \in f.shown <=> name \notin Targets(R) \/ Asked(R, name, f.shown))
  BY <1>1, HoldsByName
<1>3. Targets(R) = {"path_len", "permitted_names", "excluded_names", "ca_cert", "ca_key"}
  BY SignCSRAsks
<1>4. \A name : Asked(R, name, f.shown) <=>
        \/ name \in {"path_len", "permitted_names", "excluded_names"} /\ f.v.cert_type = "CA" /\
             "cert_type" \in f.shown
        \/ name \in {"ca_cert", "ca_key"} /\ f.v.signing = WithCA /\ "signing" \in f.shown
  BY SignCSRAsks
<1> HIDE DEF R
<1>5. Named(f, "signing") /\ Named(f, "ca_cert") /\ Named(f, "ca_key") /\ Named(f, "cert_type") /\ Named(f,
        "days") /\ Named(f, "path_len") /\ Named(f, "permitted_names") /\ Named(f, "excluded_names") /\ Named(f,
        "key_usage") /\ Named(f, "ext_key_usage") /\ Named(f, "format") /\ Named(f, "output") /\ Named(f, "submit")
  BY <1>1, SignCSRFieldsAre DEF Named
<1>6. {"signing", "cert_type", "days", "key_usage", "ext_key_usage", "format", "output", "submit"} \subseteq f.shown
  BY <1>2, <1>3, <1>5
<1>7. "path_len" \in f.shown <=> f.v.cert_type = "CA"
  <2>1. "path_len" \in f.shown <=> Asked(R, "path_len", f.shown)
    BY <1>2, <1>3, <1>5
  <2>2. Asked(R, "path_len", f.shown) <=> (f.v.cert_type = "CA") /\ "cert_type" \in f.shown
    BY <1>4
  <2>3. "cert_type" \in f.shown
    BY <1>6
  <2> QED
    BY Zenon, <2>1, <2>2, <2>3
<1>8. "permitted_names" \in f.shown <=> f.v.cert_type = "CA"
  <2>1. "permitted_names" \in f.shown <=> Asked(R, "permitted_names", f.shown)
    BY <1>2, <1>3, <1>5
  <2>2. Asked(R, "permitted_names", f.shown) <=> (f.v.cert_type = "CA") /\ "cert_type" \in f.shown
    BY <1>4
  <2>3. "cert_type" \in f.shown
    BY <1>6
  <2> QED
    BY Zenon, <2>1, <2>2, <2>3
<1>9. "excluded_names" \in f.shown <=> f.v.cert_type = "CA"
  <2>1. "excluded_names" \in f.shown <=> Asked(R, "excluded_names", f.shown)
    BY <1>2, <1>3, <1>5
  <2>2. Asked(R, "excluded_names", f.shown) <=> (f.v.cert_type = "CA") /\ "cert_type" \in f.shown
    BY <1>4
  <2>3. "cert_type" \in f.shown
    BY <1>6
  <2> QED
    BY Zenon, <2>1, <2>2, <2>3
<1>10. "ca_cert" \in f.shown <=> f.v.signing = WithCA
  <2>1. "ca_cert" \in f.shown <=> Asked(R, "ca_cert", f.shown)
    BY <1>2, <1>3, <1>5
  <2>2. Asked(R, "ca_cert", f.shown) <=> (f.v.signing = WithCA) /\ "signing" \in f.shown
    BY <1>4
  <2>3. "signing" \in f.shown
    BY <1>6
  <2> QED
    BY Zenon, <2>1, <2>2, <2>3
<1>11. "ca_key" \in f.shown <=> f.v.signing = WithCA
  <2>1. "ca_key" \in f.shown <=> Asked(R, "ca_key", f.shown)
    BY <1>2, <1>3, <1>5
  <2>2. Asked(R, "ca_key", f.shown) <=> (f.v.signing = WithCA) /\ "signing" \in f.shown
    BY <1>4
  <2>3. "signing" \in f.shown
    BY <1>6
  <2> QED
    BY Zenon, <2>1, <2>2, <2>3
<1> QED
  BY <1>6, <1>7, <1>8, <1>9, <1>10, <1>11

LEMMA RenewShows ==
  ASSUME NEW f, f.kind = "renew", RulesHold(f)
  PROVE  /\ {"days", "key_source", "signing", "format", "cert_out", "submit"} \subseteq f.shown
         /\ "key_path" \in f.shown <=> f.v.key_source = "Reuse existing"
         /\ "algo" \in f.shown <=> f.v.key_source = Generate
         /\ "key_out" \in f.shown <=> f.v.key_source = Generate
         /\ "size" \in f.shown <=> f.v.key_source = Generate /\ f.v.algo = "RSA"
         /\ "curve" \in f.shown <=> f.v.key_source = Generate /\ f.v.algo = "ECDSA"
         /\ "ca_cert" \in f.shown <=> f.v.signing = WithCA
         /\ "ca_key" \in f.shown <=> f.v.signing = WithCA
<1>1. f.kind \in DOMAIN FieldsOf /\ FieldsOf[f.kind] = RenewFields
  BY FieldsOfKinds
<1> DEFINE Mode1 == f.v.key_source = "Reuse existing"
<1> DEFINE R == RulesOf("renew", f.v)
<1>2. \A name : Named(f, name) => (name \in f.shown <=> name \notin Targets(R) \/ Asked(R, name, f.shown))
  BY <1>1, HoldsByName
<1>3. Targets(R) = {"key_path", "algo", "key_out", "size", "curve", "ca_cert", "ca_key"}
  BY RenewAsks
<1>4. \A name : Asked(R, name, f.shown) <=>
        \/ name = "key_path" /\ Mode1 /\ "key_source" \in f.shown
        \/ name \in {"algo", "key_out"} /\ f.v.key_source = Generate /\ "key_source" \in f.shown
        \/ name = "size" /\ f.v.key_source = Generate /\ f.v.algo = "RSA" /\ ("algo" \in f.shown \/
             "key_source" \in f.shown)
        \/ name = "curve" /\ f.v.key_source = Generate /\ f.v.algo = "ECDSA" /\ ("algo" \in f.shown \/
             "key_source" \in f.shown)
        \/ name \in {"ca_cert", "ca_key"} /\ f.v.signing = WithCA /\ "signing" \in f.shown
  BY RenewAsks
<1> HIDE DEF R, Mode1
<1>5. Named(f, "days") /\ Named(f, "key_source") /\ Named(f, "key_path") /\ Named(f, "algo") /\ Named(f, "size") /\
        Named(f, "curve") /\ Named(f, "signing") /\ Named(f, "ca_cert") /\ Named(f, "ca_key") /\ Named(f,
        "format") /\ Named(f, "cert_out") /\ Named(f, "key_out") /\ Named(f, "submit")
  BY <1>1, RenewFieldsAre DEF Named
<1>6. {"days", "key_source", "signing", "format", "cert_out", "submit"} \subseteq f.shown
  BY <1>2, <1>3, <1>5
<1>7. "key_path" \in f.shown <=> Mode1
  <2>1. "key_path" \in f.shown <=> Asked(R, "key_path", f.shown)
    BY <1>2, <1>3, <1>5
  <2>2. Asked(R, "key_path", f.shown) <=> (Mode1) /\ "key_source" \in f.shown
    BY <1>4
  <2>3. "key_source" \in f.shown
    BY <1>6
  <2> QED
    BY Zenon, <2>1, <2>2, <2>3
<1>8. "algo" \in f.shown <=> f.v.key_source = Generate
  <2>1. "algo" \in f.shown <=> Asked(R, "algo", f.shown)
    BY <1>2, <1>3, <1>5
  <2>2. Asked(R, "algo", f.shown) <=> (f.v.key_source = Generate) /\ "key_source" \in f.shown
    BY <1>4
  <2>3. "key_source" \in f.shown
    BY <1>6
  <2> QED
    BY Zenon, <2>1, <2>2, <2>3
<1>9. "key_out" \in f.shown <=> f.v.key_source = Generate
  <2>1. "key_out" \in f.shown <=> Asked(R, "key_out", f.shown)
    BY <1>2, <1>3, <1>5
  <2>2. Asked(R, "key_out", f.shown) <=> (f.v.key_source = Generate) /\ "key_source" \in f.shown
    BY <1>4
  <2>3. "key_source" \in f.shown
    BY <1>6
  <2> QED
    BY Zenon, <2>1, <2>2, <2>3
<1>10. "size" \in f.shown <=> f.v.key_source = Generate /\ f.v.algo = "RSA"
  <2>1. "size" \in f.shown <=> Asked(R, "size", f.shown)
    BY <1>2, <1>3, <1>5
  <2>2. Asked(R, "size", f.shown) <=> (f.v.key_source = Generate /\ f.v.algo = "RSA") /\ ("algo" \in f.shown \/
          "key_source" \in f.shown)
    BY <1>4
  <2>3. "key_source" \in f.shown
    BY <1>6
  <2> QED
    BY Zenon, <2>1, <2>2, <2>3
<1>11. "curve" \in f.shown <=> f.v.key_source = Generate /\ f.v.algo = "ECDSA"
  <2>1. "curve" \in f.shown <=> Asked(R, "curve", f.shown)
    BY <1>2, <1>3, <1>5
  <2>2. Asked(R, "curve", f.shown) <=> (f.v.key_source = Generate /\ f.v.algo = "ECDSA") /\ ("algo" \in f.shown \/
          "key_source" \in f.shown)
    BY <1>4
  <2>3. "key_source" \in f.shown
    BY <1>6
  <2> QED
    BY Zenon, <2>1, <2>2, <2>3
<1>12. "ca_cert" \in f.shown <=> f.v.signing = WithCA
  <2>1. "ca_cert" \in f.shown <=> Asked(R, "ca_cert", f.shown)
    BY <1>2, <1>3, <1>5
  <2>2. Asked(R, "ca_cert", f.shown) <=> (f.v.signing = WithCA) /\ "signing" \in f.shown
    BY <1>4
  <2>3. "signing" \in f.shown
    BY <1>6
  <2> QED
    BY Zenon, <2>1, <2>2, <2>3
<1>13. "ca_key" \in f.shown <=> f.v.signing = WithCA
  <2>1. "ca_key" \in f.shown <=> Asked(R, "ca_key", f.shown)
    BY <1>2, <1>3, <1>5
  <2>2. Asked(R, "ca_key", f.shown) <=> (f.v.signing = WithCA) /\ "signing" \in f.shown
    BY <1>4
  <2>3. "signing" \in f.shown
    BY <1>6
  <2> QED
    BY Zenon, <2>1, <2>2, <2>3
<1> QED
  BY <1>6, <1>7, <1>8, <1>9, <1>10, <1>11, <1>12, <1>13 DEF Mode1

LEMMA ConvertShows ==
  ASSUME NEW f, f.kind = "convert", RulesHold(f)
  PROVE  /\ {"format", "include", "output", "submit"} \subseteq f.shown
         /\ "password" \in f.shown <=> f.v.format \in {"PKCS#12", "JKS"}
         /\ "alias" \in f.shown <=> f.v.format = "JKS"
         /\ "legacy" \in f.shown <=> f.v.format = "PKCS#12"
<1>1. f.kind \in DOMAIN FieldsOf /\ FieldsOf[f.kind] = ConvertFields
  BY FieldsOfKinds
<1> DEFINE R == RulesOf("convert", f.v)
<1>2. \A name : Named(f, name) => (name \in f.shown <=> name \notin Targets(R) \/ Asked(R, name, f.shown))
  BY <1>1, HoldsByName
<1>3. Targets(R) = {"password", "alias", "legacy"}
  BY ConvertAsks
<1>4. \A name : Asked(R, name, f.shown) <=>
        \/ name = "password" /\ f.v.format \in {"PKCS#12", "JKS"} /\ "format" \in f.shown
        \/ name = "alias" /\ f.v.format = "JKS" /\ "format" \in f.shown
        \/ name = "legacy" /\ f.v.format = "PKCS#12" /\ "format" \in f.shown
  BY ConvertAsks
<1> HIDE DEF R
<1>5. Named(f, "format") /\ Named(f, "include") /\ Named(f, "password") /\ Named(f, "alias") /\ Named(f,
        "legacy") /\ Named(f, "output") /\ Named(f, "submit")
  BY <1>1, ConvertFieldsAre DEF Named
<1>6. {"format", "include", "output", "submit"} \subseteq f.shown
  BY <1>2, <1>3, <1>5
<1>7. "password" \in f.shown <=> f.v.format \in {"PKCS#12", "JKS"}
  <2>1. "password" \in f.shown <=> Asked(R, "password", f.shown)
    BY <1>2, <1>3, <1>5
  <2>2. Asked(R, "password", f.shown) <=> (f.v.format \in {"PKCS#12", "JKS"}) /\ "format" \in f.shown
    BY <1>4
  <2>3. "format" \in f.shown
    BY <1>6
  <2> QED
    BY Zenon, <2>1, <2>2, <2>3
<1>8. "alias" \in f.shown <=> f.v.format = "JKS"
  <2>1. "alias" \in f.shown <=> Asked(R, "alias", f.shown)
    BY <1>2, <1>3, <1>5
  <2>2. Asked(R, "alias", f.shown) <=> (f.v.format = "JKS") /\ "format" \in f.shown
    BY <1>4
  <2>3. "format" \in f.shown
    BY <1>6
  <2> QED
    BY Zenon, <2>1, <2>2, <2>3
<1>9. "legacy" \in f.shown <=> f.v.format = "PKCS#12"
  <2>1. "legacy" \in f.shown <=> Asked(R, "legacy", f.shown)
    BY <1>2, <1>3, <1>5
  <2>2. Asked(R, "legacy", f.shown) <=> (f.v.format = "PKCS#12") /\ "format" \in f.shown
    BY <1>4
  <2>3. "format" \in f.shown
    BY <1>6
  <2> QED
    BY Zenon, <2>1, <2>2, <2>3
<1> QED
  BY <1>6, <1>7, <1>8, <1>9

LEMMA ExtractShows ==
  ASSUME NEW f, f.kind = "extract", RulesHold(f)
  PROVE  /\ {"type_filter", "format", "output_dir", "submit"} \subseteq f.shown
<1>1. f.kind \in DOMAIN FieldsOf /\ FieldsOf[f.kind] = ExtractFields
  BY FieldsOfKinds
<1>2. RulesOf(f.kind, f.v) = <<>>
  BY DEF RulesOf
<1>3. \A name : Named(f, name) => name \in f.shown
  BY <1>1, <1>2, HoldsByName, NoRules
<1>4. Named(f, "type_filter") /\ Named(f, "format") /\ Named(f, "output_dir") /\ Named(f, "submit")
  BY <1>1, ExtractFieldsAre DEF Named
<1> QED
  BY <1>3, <1>4

LEMMA ExtractItemShows ==
  ASSUME NEW f, f.kind = "extractItem", RulesHold(f)
  PROVE  /\ {"format", "output_file", "submit"} \subseteq f.shown
<1>1. f.kind \in DOMAIN FieldsOf /\ FieldsOf[f.kind] = ExtractItemFields
  BY FieldsOfKinds
<1>2. RulesOf(f.kind, f.v) = <<>>
  BY DEF RulesOf
<1>3. \A name : Named(f, name) => name \in f.shown
  BY <1>1, <1>2, HoldsByName, NoRules
<1>4. Named(f, "format") /\ Named(f, "output_file") /\ Named(f, "submit")
  BY <1>1, ExtractItemFieldsAre DEF Named
<1> QED
  BY <1>3, <1>4

LEMMA ReencryptShows ==
  ASSUME NEW f, f.kind = "reencrypt", RulesHold(f)
  PROVE  /\ {"remove_password", "output_mode", "submit"} \subseteq f.shown
         /\ "new_password" \in f.shown <=> f.v.remove_password # "true"
         /\ "confirm_password" \in f.shown <=> f.v.remove_password # "true"
         /\ "output" \in f.shown <=> f.v.output_mode = "New file"
<1>1. f.kind \in DOMAIN FieldsOf /\ FieldsOf[f.kind] = ReencryptFields
  BY FieldsOfKinds
<1> DEFINE Mode1 == f.v.output_mode = "New file"
<1> DEFINE R == RulesOf("reencrypt", f.v)
<1>2. \A name : Named(f, name) => (name \in f.shown <=> name \notin Targets(R) \/ Asked(R, name, f.shown))
  BY <1>1, HoldsByName
<1>3. Targets(R) = {"new_password", "confirm_password", "output"}
  BY ReencryptAsks
<1>4. \A name : Asked(R, name, f.shown) <=>
        \/ name \in {"new_password", "confirm_password"} /\ f.v.remove_password # "true" /\
             "remove_password" \in f.shown
        \/ name = "output" /\ Mode1 /\ "output_mode" \in f.shown
  BY ReencryptAsks
<1> HIDE DEF R, Mode1
<1>5. Named(f, "remove_password") /\ Named(f, "new_password") /\ Named(f, "confirm_password") /\ Named(f,
        "output_mode") /\ Named(f, "output") /\ Named(f, "submit")
  BY <1>1, ReencryptFieldsAre DEF Named
<1>6. {"remove_password", "output_mode", "submit"} \subseteq f.shown
  BY <1>2, <1>3, <1>5
<1>7. "new_password" \in f.shown <=> f.v.remove_password # "true"
  <2>1. "new_password" \in f.shown <=> Asked(R, "new_password", f.shown)
    BY <1>2, <1>3, <1>5
  <2>2. Asked(R, "new_password", f.shown) <=> (f.v.remove_password # "true") /\ "remove_password" \in f.shown
    BY <1>4
  <2>3. "remove_password" \in f.shown
    BY <1>6
  <2> QED
    BY Zenon, <2>1, <2>2, <2>3
<1>8. "confirm_password" \in f.shown <=> f.v.remove_password # "true"
  <2>1. "confirm_password" \in f.shown <=> Asked(R, "confirm_password", f.shown)
    BY <1>2, <1>3, <1>5
  <2>2. Asked(R, "confirm_password", f.shown) <=> (f.v.remove_password # "true") /\ "remove_password" \in f.shown
    BY <1>4
  <2>3. "remove_password" \in f.shown
    BY <1>6
  <2> QED
    BY Zenon, <2>1, <2>2, <2>3
<1>9. "output" \in f.shown <=> Mode1
  <2>1. "output" \in f.shown <=> Asked(R, "output", f.shown)
    BY <1>2, <1>3, <1>5
  <2>2. Asked(R, "output", f.shown) <=> (Mode1) /\ "output_mode" \in f.shown
    BY <1>4
  <2>3. "output_mode" \in f.shown
    BY <1>6
  <2> QED
    BY Zenon, <2>1, <2>2, <2>3
<1> QED
  BY <1>6, <1>7, <1>8, <1>9 DEF Mode1

LEMMA RemovePassphraseShows ==
  ASSUME NEW f, f.kind = "removePassphrase", RulesHold(f)
  PROVE  /\ {"output_mode", "submit"} \subseteq f.shown
         /\ "output" \in f.shown <=> f.v.output_mode = "New file"
<1>1. f.kind \in DOMAIN FieldsOf /\ FieldsOf[f.kind] = RemovePassphraseFields
  BY FieldsOfKinds
<1> DEFINE Mode1 == f.v.output_mode = "New file"
<1> DEFINE R == RulesOf("removePassphrase", f.v)
<1>2. \A name : Named(f, name) => (name \in f.shown <=> name \notin Targets(R) \/ Asked(R, name, f.shown))
  BY <1>1, HoldsByName
<1>3. Targets(R) = {"output"}
  BY RemovePassphraseAsks
<1>4. \A name : Asked(R, name, f.shown) <=>
        \/ name = "output" /\ Mode1 /\ "output_mode" \in f.shown
  BY RemovePassphraseAsks
<1> HIDE DEF R, Mode1
<1>5. Named(f, "output_mode") /\ Named(f, "output") /\ Named(f, "submit")
  BY <1>1, RemovePassphraseFieldsAre DEF Named
<1>6. {"output_mode", "submit"} \subseteq f.shown
  BY <1>2, <1>3, <1>5
<1>7. "output" \in f.shown <=> Mode1
  <2>1. "output" \in f.shown <=> Asked(R, "output", f.shown)
    BY <1>2, <1>3, <1>5
  <2>2. Asked(R, "output", f.shown) <=> (Mode1) /\ "output_mode" \in f.shown
    BY <1>4
  <2>3. "output_mode" \in f.shown
    BY <1>6
  <2> QED
    BY Zenon, <2>1, <2>2, <2>3
<1> QED
  BY <1>6, <1>7 DEF Mode1

LEMMA BundleShows ==
  ASSUME NEW f, f.kind = "bundle", RulesHold(f)
  PROVE  /\ {"format", "item_aliases", "tip", "output", "submit"} \subseteq f.shown
         /\ "pkcs12_notice" \in f.shown <=> f.v.format = "PKCS#12"
         /\ "legacy" \in f.shown <=> f.v.format = "PKCS#12"
         /\ "password" \in f.shown <=> f.v.format \in {"PKCS#12", "JKS"}
<1>1. f.kind \in DOMAIN FieldsOf /\ FieldsOf[f.kind] = BundleFields
  BY FieldsOfKinds
<1> DEFINE R == RulesOf("bundle", f.v)
<1>2. \A name : Named(f, name) => (name \in f.shown <=> name \notin Targets(R) \/ Asked(R, name, f.shown))
  BY <1>1, HoldsByName
<1>3. Targets(R) = {"pkcs12_notice", "legacy", "password"}
  BY BundleAsks
<1>4. \A name : Asked(R, name, f.shown) <=>
        \/ name \in {"pkcs12_notice", "legacy"} /\ f.v.format = "PKCS#12" /\ "format" \in f.shown
        \/ name = "password" /\ f.v.format \in {"PKCS#12", "JKS"} /\ "format" \in f.shown
  BY BundleAsks
<1> HIDE DEF R
<1>5. Named(f, "format") /\ Named(f, "item_aliases") /\ Named(f, "tip") /\ Named(f, "pkcs12_notice") /\ Named(f,
        "password") /\ Named(f, "legacy") /\ Named(f, "output") /\ Named(f, "submit")
  BY <1>1, BundleFieldsAre DEF Named
<1>6. {"format", "item_aliases", "tip", "output", "submit"} \subseteq f.shown
  BY <1>2, <1>3, <1>5
<1>7. "pkcs12_notice" \in f.shown <=> f.v.format = "PKCS#12"
  <2>1. "pkcs12_notice" \in f.shown <=> Asked(R, "pkcs12_notice", f.shown)
    BY <1>2, <1>3, <1>5
  <2>2. Asked(R, "pkcs12_notice", f.shown) <=> (f.v.format = "PKCS#12") /\ "format" \in f.shown
    BY <1>4
  <2>3. "format" \in f.shown
    BY <1>6
  <2> QED
    BY Zenon, <2>1, <2>2, <2>3
<1>8. "legacy" \in f.shown <=> f.v.format = "PKCS#12"
  <2>1. "legacy" \in f.shown <=> Asked(R, "legacy", f.shown)
    BY <1>2, <1>3, <1>5
  <2>2. Asked(R, "legacy", f.shown) <=> (f.v.format = "PKCS#12") /\ "format" \in f.shown
    BY <1>4
  <2>3. "format" \in f.shown
    BY <1>6
  <2> QED
    BY Zenon, <2>1, <2>2, <2>3
<1>9. "password" \in f.shown <=> f.v.format \in {"PKCS#12", "JKS"}
  <2>1. "password" \in f.shown <=> Asked(R, "password", f.shown)
    BY <1>2, <1>3, <1>5
  <2>2. Asked(R, "password", f.shown) <=> (f.v.format \in {"PKCS#12", "JKS"}) /\ "format" \in f.shown
    BY <1>4
  <2>3. "format" \in f.shown
    BY <1>6
  <2> QED
    BY Zenon, <2>1, <2>2, <2>3
<1> QED
  BY <1>6, <1>7, <1>8, <1>9

LEMMA RemoteShows ==
  ASSUME NEW f, f.kind = "remote", RulesHold(f)
  PROVE  /\ {"target", "starttls", "tls_version", "sni", "ip_version", "mtls_mode", "submit"} \subseteq f.shown
         /\ "client_cert" \in f.shown <=> f.v.mtls_mode \in {"PEM cert+key"}
         /\ "client_key" \in f.shown <=> f.v.mtls_mode \in {"PEM cert+key"}
         /\ "client_p12" \in f.shown <=> f.v.mtls_mode \in {"PKCS#12"}
         /\ "client_jks" \in f.shown <=> f.v.mtls_mode \in {"JKS"}
         /\ "client_alias" \in f.shown <=> f.v.mtls_mode \in {"PKCS#12", "JKS"}
         /\ "client_password" \in f.shown <=> f.v.mtls_mode \in {"PEM cert+key", "PKCS#12", "JKS"}
<1>1. f.kind \in DOMAIN FieldsOf /\ FieldsOf[f.kind] = RemoteFields
  BY FieldsOfKinds
<1> DEFINE Mode1 == f.v.mtls_mode \in {"PEM cert+key"}
           Mode2 == f.v.mtls_mode \in {"PEM cert+key", "PKCS#12", "JKS"}
<1> DEFINE R == RulesOf("remote", f.v)
<1>2. \A name : Named(f, name) => (name \in f.shown <=> name \notin Targets(R) \/ Asked(R, name, f.shown))
  BY <1>1, HoldsByName
<1>3. Targets(R) = {"client_cert", "client_key", "client_p12", "client_jks", "client_alias", "client_password"}
  BY RemoteAsks
<1>4. \A name : Asked(R, name, f.shown) <=>
        \/ name \in {"client_cert", "client_key"} /\ Mode1 /\ "mtls_mode" \in f.shown
        \/ name = "client_p12" /\ f.v.mtls_mode \in {"PKCS#12"} /\ "mtls_mode" \in f.shown
        \/ name = "client_jks" /\ f.v.mtls_mode \in {"JKS"} /\ "mtls_mode" \in f.shown
        \/ name = "client_alias" /\ f.v.mtls_mode \in {"PKCS#12", "JKS"} /\ "mtls_mode" \in f.shown
        \/ name = "client_password" /\ Mode2 /\ "mtls_mode" \in f.shown
  BY RemoteAsks
<1> HIDE DEF R, Mode1, Mode2
<1>5. Named(f, "target") /\ Named(f, "starttls") /\ Named(f, "tls_version") /\ Named(f, "sni") /\ Named(f,
        "ip_version") /\ Named(f, "mtls_mode") /\ Named(f, "client_cert") /\ Named(f, "client_key") /\ Named(f,
        "client_p12") /\ Named(f, "client_jks") /\ Named(f, "client_alias") /\ Named(f, "client_password") /\
        Named(f, "submit")
  BY <1>1, RemoteFieldsAre DEF Named
<1>6. {"target", "starttls", "tls_version", "sni", "ip_version", "mtls_mode", "submit"} \subseteq f.shown
  BY <1>2, <1>3, <1>5
<1>7. "client_cert" \in f.shown <=> Mode1
  <2>1. "client_cert" \in f.shown <=> Asked(R, "client_cert", f.shown)
    BY <1>2, <1>3, <1>5
  <2>2. Asked(R, "client_cert", f.shown) <=> (Mode1) /\ "mtls_mode" \in f.shown
    BY <1>4
  <2>3. "mtls_mode" \in f.shown
    BY <1>6
  <2> QED
    BY Zenon, <2>1, <2>2, <2>3
<1>8. "client_key" \in f.shown <=> Mode1
  <2>1. "client_key" \in f.shown <=> Asked(R, "client_key", f.shown)
    BY <1>2, <1>3, <1>5
  <2>2. Asked(R, "client_key", f.shown) <=> (Mode1) /\ "mtls_mode" \in f.shown
    BY <1>4
  <2>3. "mtls_mode" \in f.shown
    BY <1>6
  <2> QED
    BY Zenon, <2>1, <2>2, <2>3
<1>9. "client_p12" \in f.shown <=> f.v.mtls_mode \in {"PKCS#12"}
  <2>1. "client_p12" \in f.shown <=> Asked(R, "client_p12", f.shown)
    BY <1>2, <1>3, <1>5
  <2>2. Asked(R, "client_p12", f.shown) <=> (f.v.mtls_mode \in {"PKCS#12"}) /\ "mtls_mode" \in f.shown
    BY <1>4
  <2>3. "mtls_mode" \in f.shown
    BY <1>6
  <2> QED
    BY Zenon, <2>1, <2>2, <2>3
<1>10. "client_jks" \in f.shown <=> f.v.mtls_mode \in {"JKS"}
  <2>1. "client_jks" \in f.shown <=> Asked(R, "client_jks", f.shown)
    BY <1>2, <1>3, <1>5
  <2>2. Asked(R, "client_jks", f.shown) <=> (f.v.mtls_mode \in {"JKS"}) /\ "mtls_mode" \in f.shown
    BY <1>4
  <2>3. "mtls_mode" \in f.shown
    BY <1>6
  <2> QED
    BY Zenon, <2>1, <2>2, <2>3
<1>11. "client_alias" \in f.shown <=> f.v.mtls_mode \in {"PKCS#12", "JKS"}
  <2>1. "client_alias" \in f.shown <=> Asked(R, "client_alias", f.shown)
    BY <1>2, <1>3, <1>5
  <2>2. Asked(R, "client_alias", f.shown) <=> (f.v.mtls_mode \in {"PKCS#12", "JKS"}) /\ "mtls_mode" \in f.shown
    BY <1>4
  <2>3. "mtls_mode" \in f.shown
    BY <1>6
  <2> QED
    BY Zenon, <2>1, <2>2, <2>3
<1>12. "client_password" \in f.shown <=> Mode2
  <2>1. "client_password" \in f.shown <=> Asked(R, "client_password", f.shown)
    BY <1>2, <1>3, <1>5
  <2>2. Asked(R, "client_password", f.shown) <=> (Mode2) /\ "mtls_mode" \in f.shown
    BY <1>4
  <2>3. "mtls_mode" \in f.shown
    BY <1>6
  <2> QED
    BY Zenon, <2>1, <2>2, <2>3
<1> QED
  BY <1>6, <1>7, <1>8, <1>9, <1>10, <1>11, <1>12 DEF Mode1, Mode2

LEMMA ProxyShows ==
  ASSUME NEW f, f.kind = "proxy", RulesHold(f)
  PROVE  /\ {"proxy_listen", "proxy_target", "proxy_aggressive", "submit"} \subseteq f.shown
<1>1. f.kind \in DOMAIN FieldsOf /\ FieldsOf[f.kind] = ProxyFields
  BY FieldsOfKinds
<1>2. RulesOf(f.kind, f.v) = <<>>
  BY DEF RulesOf
<1>3. \A name : Named(f, name) => name \in f.shown
  BY <1>1, <1>2, HoldsByName, NoRules
<1>4. Named(f, "proxy_listen") /\ Named(f, "proxy_target") /\ Named(f, "proxy_aggressive") /\ Named(f, "submit")
  BY <1>1, ProxyFieldsAre DEF Named
<1> QED
  BY <1>3, <1>4

LEMMA PcapShows ==
  ASSUME NEW f, f.kind = "pcap", RulesHold(f)
  PROVE  /\ {"pcap_file", "pcap_aggressive", "submit"} \subseteq f.shown
<1>1. f.kind \in DOMAIN FieldsOf /\ FieldsOf[f.kind] = PcapFields
  BY FieldsOfKinds
<1>2. RulesOf(f.kind, f.v) = <<>>
  BY DEF RulesOf
<1>3. \A name : Named(f, name) => name \in f.shown
  BY <1>1, <1>2, HoldsByName, NoRules
<1>4. Named(f, "pcap_file") /\ Named(f, "pcap_aggressive") /\ Named(f, "submit")
  BY <1>1, PcapFieldsAre DEF Named
<1> QED
  BY <1>3, <1>4

-----------------------------------------------------------------------------
(* What is hidden is not read.                                               *)

Seen(f, w) == \A name : Named(f, name) /\ name \in f.shown => w[name] = f.v[name]

LEMMA BlankIsSeen ==
  ASSUME NEW f, f.kind \in DOMAIN FieldsOf, \A name : Named(f, name) => name \in DOMAIN f.v,
         NEW names, NEW blank, DOMAIN blank = {FieldAt(f, i).name : i \in {k \in Places(f) : FieldAt(f,
           k).name \notin f.shown}}
  PROVE  Seen(f, blank ++ f.v)
<1> SUFFICES ASSUME NEW name, Named(f, name), name \in f.shown PROVE (blank ++ f.v)[name] = f.v[name]
  BY DEF Seen
<1>1. name \notin DOMAIN blank /\ name \in DOMAIN f.v
  OBVIOUS
<1> QED
  BY <1>1 DEF ++

LEMMA KeyGenAlike ==
  ASSUME NEW v, NEW w, w.algo = v.algo, v.algo = "RSA" => w.size = v.size, v.algo = "ECDSA" => w.curve = v.curve
  PROVE  KeyGenOptions(w) = KeyGenOptions(v)
<1>1. When(w.algo = "RSA", [size |-> w.size]) = When(v.algo = "RSA", [size |-> v.size])
  BY DEF When
<1>2. When(w.algo = "ECDSA", [curve |-> w.curve]) = When(v.algo = "ECDSA", [curve |-> v.curve])
  BY DEF When
<1>3. [algo |-> w.algo] = [algo |-> v.algo]
  OBVIOUS
<1> QED
  BY <1>1, <1>2, <1>3, Zenon DEF KeyGenOptions

LEMMA SubjectAlike ==
  ASSUME NEW v, NEW w, w.cn = v.cn, w.org = v.org, w.country = v.country, w.extra_dn = v.extra_dn, w.sans = v.sans
  PROVE  SubjectOptions(w) = SubjectOptions(v)
BY DEF SubjectOptions

LEMMA SignerAlike ==
  ASSUME NEW v, NEW w, w.signing = v.signing, v.signing = WithCA => w.ca_cert = v.ca_cert /\ w.ca_key = v.ca_key
  PROVE  SignerOptions(w) = SignerOptions(v)
<1>1. When(w.signing = WithCA, [ca_cert |-> w.ca_cert, ca_key |-> w.ca_key])
        = When(v.signing = WithCA, [ca_cert |-> v.ca_cert, ca_key |-> v.ca_key])
  BY DEF When
<1> QED
  BY <1>1 DEF SignerOptions

LEMMA UsageAlike ==
  ASSUME NEW v, NEW w, w.days = v.days, w.key_usage = v.key_usage, w.ext_key_usage = v.ext_key_usage
  PROVE  UsageOptions(w) = UsageOptions(v) /\ Days(w) = Days(v)
BY DEF UsageOptions, Days

LEMMA EncodeAlike ==
  ASSUME NEW v, NEW w, w.format = v.format, w.output = v.output,
         v.format \in {"PKCS#12", "JKS"} => w.password = v.password, v.format = "PKCS#12" => w.legacy = v.legacy
  PROVE  EncodeOptions(w) = EncodeOptions(v)
<1>1. When(w.format \in {"PKCS#12", "JKS"}, [outputPassword |-> w.password])
        = When(v.format \in {"PKCS#12", "JKS"}, [outputPassword |-> v.password])
  BY DEF When
<1>2. When(w.format = "PKCS#12", [legacy |-> w.legacy]) = When(v.format = "PKCS#12", [legacy |-> v.legacy])
  BY DEF When
<1>3. [format |-> w.format, output |-> w.output] = [format |-> v.format, output |-> v.output]
  OBVIOUS
<1> QED
  BY <1>1, <1>2, <1>3, Zenon DEF EncodeOptions

LEMMA NewFileAlike ==
  ASSUME NEW v, NEW w, w.output_mode = v.output_mode, v.output_mode # "Overwrite original" => w.output = v.output
  PROVE  NewFileOptions(w) = NewFileOptions(v)
BY DEF NewFileOptions

LEMMA ClientAlike ==
  ASSUME NEW v, NEW w, w.mtls_mode = v.mtls_mode,
         v.mtls_mode # "None" => w.client_password = v.client_password,
         v.mtls_mode = "PEM cert+key" => w.client_cert = v.client_cert /\ w.client_key = v.client_key,
         v.mtls_mode = "PKCS#12" => w.client_p12 = v.client_p12 /\ w.client_alias = v.client_alias,
         v.mtls_mode = "JKS" => w.client_jks = v.client_jks /\ w.client_alias = v.client_alias
  PROVE  ClientOptions(w) = ClientOptions(v)
<1>1. When(w.mtls_mode # "None", [outputPassword |-> w.client_password])
        = When(v.mtls_mode # "None", [outputPassword |-> v.client_password])
  BY DEF When
<1>2. When(w.mtls_mode = "PEM cert+key", [cert |-> w.client_cert, key |-> w.client_key])
        = When(v.mtls_mode = "PEM cert+key", [cert |-> v.client_cert, key |-> v.client_key])
  BY DEF When
<1>3. When(w.mtls_mode = "PKCS#12", [container |-> w.client_p12, alias |-> w.client_alias])
        = When(v.mtls_mode = "PKCS#12", [container |-> v.client_p12, alias |-> v.client_alias])
  BY DEF When
<1>4. When(w.mtls_mode = "JKS", [container |-> w.client_jks, alias |-> w.client_alias])
        = When(v.mtls_mode = "JKS", [container |-> v.client_jks, alias |-> v.client_alias])
  BY DEF When
<1> QED
  BY <1>1, <1>2, <1>3, <1>4, Zenon DEF ClientOptions

LEMMA EffectiveAlike ==
  ASSUME NEW v, NEW w, NEW shown, NEW name, name \in shown => w[name] = v[name]
  PROVE  EffectiveValue(w, shown, name) = EffectiveValue(v, shown, name)
BY DEF EffectiveValue

LEMMA ChosenAre ==
  ASSUME NEW kind, NEW v, Chosen(kind, v)
  PROVE  /\ kind = "createCert" => v.output_mode \in {"Individual files", "Bundle (PEM)"}
         /\ kind = "renew" => v.key_source \in {"Reuse existing", Generate}
         /\ kind = "remote" => v.mtls_mode \in {"None", "PEM cert+key", "PKCS#12", "JKS"}
         /\ kind \in {"reencrypt", "removePassphrase"} => v.output_mode \in {"Overwrite original", "New file"}
<1> DEFINE m == ModeField(kind)
<1>1. \A a, b : ToSet(<<a, b>>) = {a, b}
  BY Tuple2
<1>2. \A a, b, c, d : ToSet(<<a, b, c, d>>) = {a, b, c, d}
  BY Tuple4
<1>3. CASE kind = "createCert"
  <2>1. m = Radio("output_mode", <<"Individual files", "Bundle (PEM)">>)
    BY <1>3 DEF ModeField
  <2>2. v[m.name] \in ToSet(m.holds)
    BY <1>3 DEF Chosen, Moded
  <2> HIDE DEF m
  <2>3. m.name = "output_mode" /\ m.holds = <<"Individual files", "Bundle (PEM)">>
    BY <2>1, RadioIs, Zenon
  <2>4. v["output_mode"] \in ToSet(<<"Individual files", "Bundle (PEM)">>)
    BY <2>2, <2>3, Zenon
  <2> QED
    BY <1>1, <1>3, <2>4
<1>4. CASE kind = "renew"
  <2>1. m = Radio("key_source", <<"Reuse existing", Generate>>)
    BY <1>4 DEF ModeField
  <2>2. v[m.name] \in ToSet(m.holds)
    BY <1>4 DEF Chosen, Moded
  <2> HIDE DEF m
  <2>3. m.name = "key_source" /\ m.holds = <<"Reuse existing", Generate>>
    BY <2>1, RadioIs, Zenon
  <2>4. v["key_source"] \in ToSet(<<"Reuse existing", Generate>>)
    BY <2>2, <2>3, Zenon
  <2> QED
    BY <1>1, <1>4, <2>4
<1>5. CASE kind = "remote"
  <2>1. m = Radio("mtls_mode", <<"None", "PEM cert+key", "PKCS#12", "JKS">>)
    BY <1>5 DEF ModeField
  <2>2. v[m.name] \in ToSet(m.holds)
    BY <1>5 DEF Chosen, Moded
  <2> HIDE DEF m
  <2>3. m.name = "mtls_mode" /\ m.holds = <<"None", "PEM cert+key", "PKCS#12", "JKS">>
    BY <2>1, RadioIs, Zenon
  <2>4. v["mtls_mode"] \in ToSet(<<"None", "PEM cert+key", "PKCS#12", "JKS">>)
    BY <2>2, <2>3, Zenon
  <2> QED
    <3>1. ToSet(<<"None", "PEM cert+key", "PKCS#12", "JKS">>) = {"None", "PEM cert+key", "PKCS#12", "JKS"}
      BY <1>2, Zenon
    <3>2. v["mtls_mode"] \in {"None", "PEM cert+key", "PKCS#12", "JKS"}
      BY <2>4, <3>1, Zenon
    <3> QED
      BY <1>5, <3>2
<1>6. CASE kind \in {"reencrypt", "removePassphrase"}
  <2>1. m = Radio("output_mode", <<"Overwrite original", "New file">>)
    BY <1>6 DEF ModeField
  <2>2. v[m.name] \in ToSet(m.holds)
    BY <1>6 DEF Chosen, Moded
  <2> HIDE DEF m
  <2>3. m.name = "output_mode" /\ m.holds = <<"Overwrite original", "New file">>
    BY <2>1, RadioIs, Zenon
  <2>4. v["output_mode"] \in ToSet(<<"Overwrite original", "New file">>)
    BY <2>2, <2>3, Zenon
  <2> QED
    BY <1>1, <1>6, <2>4
<1> QED
  BY <1>3, <1>4, <1>5, <1>6

LEMMA CreateKeyIgnores ==
  ASSUME NEW f, f.kind = "createKey", RulesHold(f), Chosen(f.kind, f.v), NEW w, Seen(f, w)
  PROVE  OptionsOf(f.kind, w, f.shown) = OptionsOf(f.kind, f.v, f.shown)
<1> DEFINE v == f.v
<1>1. f.kind \in DOMAIN FieldsOf /\ FieldsOf[f.kind] = CreateKeyFields
  BY FieldsOfKinds
<1>2. /\ Named(f, "algo")
      /\ Named(f, "format")
      /\ Named(f, "output")
      /\ Named(f, "size")
      /\ Named(f, "curve")
      /\ Named(f, "encrypt")
      /\ Named(f, "password")
  BY <1>1, CreateKeyFieldsAre DEF Named
<1>3. {"algo", "format", "output"} \subseteq f.shown
  BY CreateKeyShows
<1>4. /\ w.algo = v.algo
      /\ w.format = v.format
      /\ w.output = v.output
  BY <1>2, <1>3 DEF Seen
<1>5. v.algo = "RSA" => w.size = v.size
  <2>1. v.algo = "RSA" => "size" \in f.shown
    BY CreateKeyShows
  <2> QED
    BY <1>2, <2>1 DEF Seen
<1>6. v.algo = "ECDSA" => w.curve = v.curve
  <2>1. v.algo = "ECDSA" => "curve" \in f.shown
    BY CreateKeyShows
  <2> QED
    BY <1>2, <2>1 DEF Seen
<1> DEFINE P1(u) == KeyGenOptions(u)
           P2(u) == [output |-> u.output, format |-> u.format]
           P3(u) == When(EffectiveValue(u, f.shown, "encrypt") = "true", [password |-> EffectiveValue(u, f.shown,
             "password")])
<1>7. P1(w) = P1(v)
  BY <1>4, <1>5, <1>6, KeyGenAlike
<1>8. P2(w) = P2(v)
  BY <1>4, <1>5, <1>6
<1>9. P3(w) = P3(v)
  <2>1. EffectiveValue(w, f.shown, "encrypt") = EffectiveValue(v, f.shown, "encrypt")
    BY <1>2, EffectiveAlike DEF Seen
  <2>2. EffectiveValue(w, f.shown, "password") = EffectiveValue(v, f.shown, "password")
    BY <1>2, EffectiveAlike DEF Seen
  <2> QED
    BY <1>4, <2>1, <2>2, Zenon
<1>10. \A u : OptionsOf(f.kind, u, f.shown) = CreateKeyOptions(u, f.shown)
  BY DEF OptionsOf
<1>11. \A u : CreateKeyOptions(u, f.shown) = P1(u) ++ P2(u) ++ P3(u)
  BY Zenon DEF CreateKeyOptions
<1> HIDE DEF P1, P2, P3
<1> QED
  BY <1>7, <1>8, <1>9, <1>10, <1>11

LEMMA CreateCertIgnores ==
  ASSUME NEW f, f.kind = "createCert", RulesHold(f), Chosen(f.kind, f.v), NEW w, Seen(f, w)
  PROVE  OptionsOf(f.kind, w, f.shown) = OptionsOf(f.kind, f.v, f.shown)
<1> DEFINE v == f.v
<1>1. f.kind \in DOMAIN FieldsOf /\ FieldsOf[f.kind] = CreateCertFields
  BY FieldsOfKinds
<1>2. /\ Named(f, "cn")
      /\ Named(f, "org")
      /\ Named(f, "country")
      /\ Named(f, "extra_dn")
      /\ Named(f, "sans")
      /\ Named(f, "days")
      /\ Named(f, "key_usage")
      /\ Named(f, "ext_key_usage")
      /\ Named(f, "cert_type")
      /\ Named(f, "output_mode")
      /\ Named(f, "key_source")
      /\ Named(f, "signing")
      /\ Named(f, "path_len")
      /\ Named(f, "permitted_names")
      /\ Named(f, "excluded_names")
      /\ Named(f, "bundle_out")
      /\ Named(f, "cert_out")
      /\ Named(f, "format")
      /\ Named(f, "key_path")
      /\ Named(f, "algo")
      /\ Named(f, "size")
      /\ Named(f, "curve")
      /\ Named(f, "key_out")
      /\ Named(f, "ca_cert")
      /\ Named(f, "ca_key")
      /\ Named(f, "encrypt_key")
      /\ Named(f, "encrypt_password")
  BY <1>1, CreateCertFieldsAre DEF Named
<1>3. {"cn", "org", "country", "extra_dn", "sans", "days", "key_usage", "ext_key_usage", "cert_type", "output_mode",
        "key_source", "signing"} \subseteq f.shown
  BY CreateCertShows
<1>4. /\ w.cn = v.cn
      /\ w.org = v.org
      /\ w.country = v.country
      /\ w.extra_dn = v.extra_dn
      /\ w.sans = v.sans
      /\ w.days = v.days
      /\ w.key_usage = v.key_usage
      /\ w.ext_key_usage = v.ext_key_usage
      /\ w.cert_type = v.cert_type
      /\ w.output_mode = v.output_mode
      /\ w.key_source = v.key_source
      /\ w.signing = v.signing
  BY <1>2, <1>3 DEF Seen
<1>5. v.cert_type = "CA" => w.path_len = v.path_len
  <2>1. v.cert_type = "CA" => "path_len" \in f.shown
    BY CreateCertShows
  <2> QED
    BY <1>2, <2>1 DEF Seen
<1>6. v.cert_type = "CA" => w.permitted_names = v.permitted_names
  <2>1. v.cert_type = "CA" => "permitted_names" \in f.shown
    BY CreateCertShows
  <2> QED
    BY <1>2, <2>1 DEF Seen
<1>7. v.cert_type = "CA" => w.excluded_names = v.excluded_names
  <2>1. v.cert_type = "CA" => "excluded_names" \in f.shown
    BY CreateCertShows
  <2> QED
    BY <1>2, <2>1 DEF Seen
<1>8. v.output_mode = "Bundle (PEM)" => w.bundle_out = v.bundle_out
  <2>1. v.output_mode = "Bundle (PEM)" => "bundle_out" \in f.shown
    BY CreateCertShows DEF InFiles
  <2> QED
    BY <1>2, <2>1 DEF Seen
<1>9. v.output_mode # "Bundle (PEM)" => w.cert_out = v.cert_out
  <2>1. v.output_mode \in {"Individual files", "Bundle (PEM)"}
    BY ChosenAre
  <2>2. v.output_mode # "Bundle (PEM)" => "cert_out" \in f.shown
    BY <2>1, CreateCertShows DEF InFiles
  <2> QED
    BY <1>2, <2>2 DEF Seen
<1>10. v.output_mode # "Bundle (PEM)" => w.format = v.format
  <2>1. v.output_mode \in {"Individual files", "Bundle (PEM)"}
    BY ChosenAre
  <2>2. v.output_mode # "Bundle (PEM)" => "format" \in f.shown
    BY <2>1, CreateCertShows DEF InFiles
  <2> QED
    BY <1>2, <2>2 DEF Seen
<1>11. v.key_source = Existing => w.key_path = v.key_path
  <2>1. v.key_source = Existing => "key_path" \in f.shown
    BY CreateCertShows
  <2> QED
    BY <1>2, <2>1 DEF Seen
<1>12. v.key_source = Generate => w.algo = v.algo
  <2>1. v.key_source = Generate => "algo" \in f.shown
    BY CreateCertShows
  <2> QED
    BY <1>2, <2>1 DEF Seen
<1>13. v.key_source = Generate /\ v.algo = "RSA" => w.size = v.size
  <2>1. v.key_source = Generate /\ v.algo = "RSA" => "size" \in f.shown
    BY CreateCertShows
  <2> QED
    BY <1>2, <2>1 DEF Seen
<1>14. v.key_source = Generate /\ v.algo = "ECDSA" => w.curve = v.curve
  <2>1. v.key_source = Generate /\ v.algo = "ECDSA" => "curve" \in f.shown
    BY CreateCertShows
  <2> QED
    BY <1>2, <2>1 DEF Seen
<1>15. v.key_source = Generate /\ v.output_mode # "Bundle (PEM)" => w.key_out = v.key_out
  <2>1. v.output_mode \in {"Individual files", "Bundle (PEM)"}
    BY ChosenAre
  <2>2. v.key_source = Generate /\ v.output_mode # "Bundle (PEM)" => "key_out" \in f.shown
    BY <2>1, CreateCertShows DEF InFiles
  <2> QED
    BY <1>2, <2>2 DEF Seen
<1>16. v.signing = WithCA => w.ca_cert = v.ca_cert
  <2>1. v.signing = WithCA => "ca_cert" \in f.shown
    BY CreateCertShows
  <2> QED
    BY <1>2, <2>1 DEF Seen
<1>17. v.signing = WithCA => w.ca_key = v.ca_key
  <2>1. v.signing = WithCA => "ca_key" \in f.shown
    BY CreateCertShows
  <2> QED
    BY <1>2, <2>1 DEF Seen
<1> DEFINE P1(u) == SubjectOptions(u)
           P2(u) == UsageOptions(u)
           P3(u) == [isCA |-> u.cert_type = "CA"]
           P4(u) == When(u.cert_type = "CA", [path_len |-> u.path_len, permitted |-> u.permitted_names,
             excluded |-> u.excluded_names])
           P5(u) == When(u.output_mode = "Bundle (PEM)", [output |-> OrSuggested(u.bundle_out)])
           P6(u) == When(~ (u.output_mode = "Bundle (PEM)"), [output |-> OrSuggested(u.cert_out),
             format |-> u.format])
           P7(u) == When(u.key_source = Existing, [key |-> u.key_path])
           P8(u) == When(u.key_source = Generate, KeyGenOptions(u))
           P9(u) == When(u.key_source = Generate /\ ~ (u.output_mode = "Bundle (PEM)"),
             [keyOutput |-> OrSuggested(u.key_out)])
           P10(u) == When(u.key_source = Generate /\ EffectiveValue(u, f.shown, "encrypt_key") = "true",
             [password |-> EffectiveValue(u, f.shown, "encrypt_password")])
           P11(u) == SignerOptions(u)
<1>18. P1(w) = P1(v)
  BY <1>4, <1>5, <1>6, <1>7, <1>8, <1>9, <1>10, <1>11, <1>12, <1>13, <1>14, <1>15, <1>16, <1>17, SubjectAlike
<1>19. P2(w) = P2(v)
  BY <1>4, <1>5, <1>6, <1>7, <1>8, <1>9, <1>10, <1>11, <1>12, <1>13, <1>14, <1>15, <1>16, <1>17, UsageAlike
<1>20. P3(w) = P3(v)
  BY <1>4, <1>5, <1>6, <1>7, <1>8, <1>9, <1>10, <1>11, <1>12, <1>13, <1>14, <1>15, <1>16, <1>17
<1>21. P4(w) = P4(v)
  BY <1>4, <1>5, <1>6, <1>7, <1>8, <1>9, <1>10, <1>11, <1>12, <1>13, <1>14, <1>15, <1>16, <1>17 DEF When
<1>22. P5(w) = P5(v)
  BY <1>4, <1>5, <1>6, <1>7, <1>8, <1>9, <1>10, <1>11, <1>12, <1>13, <1>14, <1>15, <1>16, <1>17 DEF When
<1>23. P6(w) = P6(v)
  BY <1>4, <1>5, <1>6, <1>7, <1>8, <1>9, <1>10, <1>11, <1>12, <1>13, <1>14, <1>15, <1>16, <1>17 DEF When
<1>24. P7(w) = P7(v)
  BY <1>4, <1>5, <1>6, <1>7, <1>8, <1>9, <1>10, <1>11, <1>12, <1>13, <1>14, <1>15, <1>16, <1>17 DEF When
<1>25. P8(w) = P8(v)
  <2>1. v.key_source = Generate => KeyGenOptions(w) = KeyGenOptions(v)
    BY <1>4, <1>5, <1>6, <1>7, <1>8, <1>9, <1>10, <1>11, <1>12, <1>13, <1>14, <1>15, <1>16, <1>17, KeyGenAlike
  <2> QED
    BY <1>4, <1>5, <1>6, <1>7, <1>8, <1>9, <1>10, <1>11, <1>12, <1>13, <1>14, <1>15, <1>16, <1>17, <2>1 DEF When
<1>26. P9(w) = P9(v)
  BY <1>4, <1>5, <1>6, <1>7, <1>8, <1>9, <1>10, <1>11, <1>12, <1>13, <1>14, <1>15, <1>16, <1>17 DEF When
<1>27. P10(w) = P10(v)
  <2>1. EffectiveValue(w, f.shown, "encrypt_key") = EffectiveValue(v, f.shown, "encrypt_key")
    BY <1>2, EffectiveAlike DEF Seen
  <2>2. EffectiveValue(w, f.shown, "encrypt_password") = EffectiveValue(v, f.shown, "encrypt_password")
    BY <1>2, EffectiveAlike DEF Seen
  <2> QED
    BY <1>4, <2>1, <2>2, Zenon
<1>28. P11(w) = P11(v)
  BY <1>4, <1>5, <1>6, <1>7, <1>8, <1>9, <1>10, <1>11, <1>12, <1>13, <1>14, <1>15, <1>16, <1>17, SignerAlike
<1>29. \A u : OptionsOf(f.kind, u, f.shown) = CreateCertOptions(u, f.shown)
  BY DEF OptionsOf
<1>30. \A u : CreateCertOptions(u,
         f.shown) = P1(u) ++ P2(u) ++ P3(u) ++ P4(u) ++ P5(u) ++ P6(u) ++ P7(u) ++ P8(u) ++ P9(u) ++ P10(u) ++ P11(u)
  BY Zenon DEF CreateCertOptions
<1> HIDE DEF P1, P2, P3, P4, P5, P6, P7, P8, P9, P10, P11
<1> QED
  BY <1>18, <1>19, <1>20, <1>21, <1>22, <1>23, <1>24, <1>25, <1>26, <1>27, <1>28, <1>29, <1>30

LEMMA CreateCSRIgnores ==
  ASSUME NEW f, f.kind = "createCSR", RulesHold(f), Chosen(f.kind, f.v), NEW w, Seen(f, w)
  PROVE  OptionsOf(f.kind, w, f.shown) = OptionsOf(f.kind, f.v, f.shown)
<1> DEFINE v == f.v
<1>1. f.kind \in DOMAIN FieldsOf /\ FieldsOf[f.kind] = CreateCSRFields
  BY FieldsOfKinds
<1>2. /\ Named(f, "cn")
      /\ Named(f, "org")
      /\ Named(f, "country")
      /\ Named(f, "extra_dn")
      /\ Named(f, "sans")
      /\ Named(f, "key_source")
      /\ Named(f, "format")
      /\ Named(f, "csr_out")
      /\ Named(f, "key_path")
      /\ Named(f, "algo")
      /\ Named(f, "size")
      /\ Named(f, "curve")
      /\ Named(f, "key_out")
  BY <1>1, CreateCSRFieldsAre DEF Named
<1>3. {"cn", "org", "country", "extra_dn", "sans", "key_source", "format", "csr_out"} \subseteq f.shown
  BY CreateCSRShows
<1>4. /\ w.cn = v.cn
      /\ w.org = v.org
      /\ w.country = v.country
      /\ w.extra_dn = v.extra_dn
      /\ w.sans = v.sans
      /\ w.key_source = v.key_source
      /\ w.format = v.format
      /\ w.csr_out = v.csr_out
  BY <1>2, <1>3 DEF Seen
<1>5. v.key_source = Existing => w.key_path = v.key_path
  <2>1. v.key_source = Existing => "key_path" \in f.shown
    BY CreateCSRShows
  <2> QED
    BY <1>2, <2>1 DEF Seen
<1>6. v.key_source = Generate => w.algo = v.algo
  <2>1. v.key_source = Generate => "algo" \in f.shown
    BY CreateCSRShows
  <2> QED
    BY <1>2, <2>1 DEF Seen
<1>7. v.key_source = Generate /\ v.algo = "RSA" => w.size = v.size
  <2>1. v.key_source = Generate /\ v.algo = "RSA" => "size" \in f.shown
    BY CreateCSRShows
  <2> QED
    BY <1>2, <2>1 DEF Seen
<1>8. v.key_source = Generate /\ v.algo = "ECDSA" => w.curve = v.curve
  <2>1. v.key_source = Generate /\ v.algo = "ECDSA" => "curve" \in f.shown
    BY CreateCSRShows
  <2> QED
    BY <1>2, <2>1 DEF Seen
<1>9. v.key_source = Generate => w.key_out = v.key_out
  <2>1. v.key_source = Generate => "key_out" \in f.shown
    BY CreateCSRShows
  <2> QED
    BY <1>2, <2>1 DEF Seen
<1> DEFINE P1(u) == SubjectOptions(u)
           P2(u) == [output |-> IF u["csr_out"] = "" /\ u.cn = "x" THEN "suggested" ELSE u["csr_out"],
             format |-> u.format]
           P3(u) == When(u.key_source = Existing, [key |-> u.key_path])
           P4(u) == When(u.key_source = Generate, KeyGenOptions(u) ++ [keyOutput |-> IF u["key_out"] = "" /\
             u.cn = "x" THEN "suggested" ELSE u["key_out"]])
<1>10. P1(w) = P1(v)
  BY <1>4, <1>5, <1>6, <1>7, <1>8, <1>9, SubjectAlike
<1>11. P2(w) = P2(v)
  BY <1>4, <1>5, <1>6, <1>7, <1>8, <1>9
<1>12. P3(w) = P3(v)
  BY <1>4, <1>5, <1>6, <1>7, <1>8, <1>9 DEF When
<1>13. P4(w) = P4(v)
  <2>1. v.key_source = Generate => KeyGenOptions(w) = KeyGenOptions(v)
    BY <1>4, <1>5, <1>6, <1>7, <1>8, <1>9, KeyGenAlike
  <2> QED
    BY <1>4, <1>5, <1>6, <1>7, <1>8, <1>9, <2>1 DEF When
<1>14. \A u : OptionsOf(f.kind, u, f.shown) = CreateCSROptions(u)
  BY DEF OptionsOf
<1>15. \A u : CreateCSROptions(u) = P1(u) ++ P2(u) ++ P3(u) ++ P4(u)
  BY Zenon DEF CreateCSROptions
<1> HIDE DEF P1, P2, P3, P4
<1> QED
  BY <1>10, <1>11, <1>12, <1>13, <1>14, <1>15

LEMMA SignCSRIgnores ==
  ASSUME NEW f, f.kind = "signCSR", RulesHold(f), Chosen(f.kind, f.v), NEW w, Seen(f, w)
  PROVE  OptionsOf(f.kind, w, f.shown) = OptionsOf(f.kind, f.v, f.shown)
<1> DEFINE v == f.v
<1>1. f.kind \in DOMAIN FieldsOf /\ FieldsOf[f.kind] = SignCSRFields
  BY FieldsOfKinds
<1>2. /\ Named(f, "days")
      /\ Named(f, "key_usage")
      /\ Named(f, "ext_key_usage")
      /\ Named(f, "cert_type")
      /\ Named(f, "output")
      /\ Named(f, "format")
      /\ Named(f, "signing")
      /\ Named(f, "path_len")
      /\ Named(f, "ca_cert")
      /\ Named(f, "ca_key")
  BY <1>1, SignCSRFieldsAre DEF Named
<1>3. {"days", "key_usage", "ext_key_usage", "cert_type", "output", "format", "signing"} \subseteq f.shown
  BY SignCSRShows
<1>4. /\ w.days = v.days
      /\ w.key_usage = v.key_usage
      /\ w.ext_key_usage = v.ext_key_usage
      /\ w.cert_type = v.cert_type
      /\ w.output = v.output
      /\ w.format = v.format
      /\ w.signing = v.signing
  BY <1>2, <1>3 DEF Seen
<1>5. v.cert_type = "CA" => w.path_len = v.path_len
  <2>1. v.cert_type = "CA" => "path_len" \in f.shown
    BY SignCSRShows
  <2> QED
    BY <1>2, <2>1 DEF Seen
<1>6. v.signing = WithCA => w.ca_cert = v.ca_cert
  <2>1. v.signing = WithCA => "ca_cert" \in f.shown
    BY SignCSRShows
  <2> QED
    BY <1>2, <2>1 DEF Seen
<1>7. v.signing = WithCA => w.ca_key = v.ca_key
  <2>1. v.signing = WithCA => "ca_key" \in f.shown
    BY SignCSRShows
  <2> QED
    BY <1>2, <2>1 DEF Seen
<1> DEFINE P1(u) == UsageOptions(u)
           P2(u) == [isCA |-> u.cert_type = "CA", output |-> OrSuggested(u.output), format |-> u.format]
           P3(u) == When(u.cert_type = "CA", [path_len |-> u.path_len])
           P4(u) == SignerOptions(u)
<1>8. P1(w) = P1(v)
  BY <1>4, <1>5, <1>6, <1>7, UsageAlike
<1>9. P2(w) = P2(v)
  BY <1>4, <1>5, <1>6, <1>7
<1>10. P3(w) = P3(v)
  BY <1>4, <1>5, <1>6, <1>7 DEF When
<1>11. P4(w) = P4(v)
  BY <1>4, <1>5, <1>6, <1>7, SignerAlike
<1>12. \A u : OptionsOf(f.kind, u, f.shown) = SignCSROptions(u)
  BY DEF OptionsOf
<1>13. \A u : SignCSROptions(u) = P1(u) ++ P2(u) ++ P3(u) ++ P4(u)
  BY Zenon DEF SignCSROptions
<1> HIDE DEF P1, P2, P3, P4
<1> QED
  BY <1>8, <1>9, <1>10, <1>11, <1>12, <1>13

LEMMA RenewIgnores ==
  ASSUME NEW f, f.kind = "renew", RulesHold(f), Chosen(f.kind, f.v), NEW w, Seen(f, w)
  PROVE  OptionsOf(f.kind, w, f.shown) = OptionsOf(f.kind, f.v, f.shown)
<1> DEFINE v == f.v
<1>1. f.kind \in DOMAIN FieldsOf /\ FieldsOf[f.kind] = RenewFields
  BY FieldsOfKinds
<1>2. /\ Named(f, "days")
      /\ Named(f, "key_source")
      /\ Named(f, "signing")
      /\ Named(f, "format")
      /\ Named(f, "cert_out")
      /\ Named(f, "key_path")
      /\ Named(f, "algo")
      /\ Named(f, "size")
      /\ Named(f, "curve")
      /\ Named(f, "key_out")
      /\ Named(f, "ca_cert")
      /\ Named(f, "ca_key")
  BY <1>1, RenewFieldsAre DEF Named
<1>3. {"days", "key_source", "signing", "format", "cert_out"} \subseteq f.shown
  BY RenewShows
<1>4. /\ w.days = v.days
      /\ w.key_source = v.key_source
      /\ w.signing = v.signing
      /\ w.format = v.format
      /\ w.cert_out = v.cert_out
  BY <1>2, <1>3 DEF Seen
<1>5. v.key_source # Generate => w.key_path = v.key_path
  <2>1. v.key_source \in {"Reuse existing", Generate}
    BY ChosenAre
  <2>2. v.key_source # Generate => "key_path" \in f.shown
    BY <2>1, RenewShows
  <2> QED
    BY <1>2, <2>2 DEF Seen
<1>6. v.key_source = Generate => w.algo = v.algo
  <2>1. v.key_source = Generate => "algo" \in f.shown
    BY RenewShows
  <2> QED
    BY <1>2, <2>1 DEF Seen
<1>7. v.key_source = Generate /\ v.algo = "RSA" => w.size = v.size
  <2>1. v.key_source = Generate /\ v.algo = "RSA" => "size" \in f.shown
    BY RenewShows
  <2> QED
    BY <1>2, <2>1 DEF Seen
<1>8. v.key_source = Generate /\ v.algo = "ECDSA" => w.curve = v.curve
  <2>1. v.key_source = Generate /\ v.algo = "ECDSA" => "curve" \in f.shown
    BY RenewShows
  <2> QED
    BY <1>2, <2>1 DEF Seen
<1>9. v.key_source = Generate => w.key_out = v.key_out
  <2>1. v.key_source = Generate => "key_out" \in f.shown
    BY RenewShows
  <2> QED
    BY <1>2, <2>1 DEF Seen
<1>10. v.signing = WithCA => w.ca_cert = v.ca_cert
  <2>1. v.signing = WithCA => "ca_cert" \in f.shown
    BY RenewShows
  <2> QED
    BY <1>2, <2>1 DEF Seen
<1>11. v.signing = WithCA => w.ca_key = v.ca_key
  <2>1. v.signing = WithCA => "ca_key" \in f.shown
    BY RenewShows
  <2> QED
    BY <1>2, <2>1 DEF Seen
<1> DEFINE P1(u) == [days |-> Days(u), output |-> u.cert_out, format |-> u.format]
           P2(u) == SignerOptions(u)
           P3(u) == When(u.key_source # Generate, [key |-> u.key_path])
           P4(u) == When(u.key_source = Generate, KeyGenOptions(u) ++ [keyOutput |-> u.key_out])
<1>12. P1(w) = P1(v)
  <2>1. Days(w) = Days(v)
    BY <1>4 DEF Days
  <2> QED
    BY <1>4, <2>1
<1>13. P2(w) = P2(v)
  BY <1>4, <1>5, <1>6, <1>7, <1>8, <1>9, <1>10, <1>11, SignerAlike
<1>14. P3(w) = P3(v)
  BY <1>4, <1>5, <1>6, <1>7, <1>8, <1>9, <1>10, <1>11 DEF When
<1>15. P4(w) = P4(v)
  <2>1. v.key_source = Generate => KeyGenOptions(w) = KeyGenOptions(v)
    BY <1>4, <1>5, <1>6, <1>7, <1>8, <1>9, <1>10, <1>11, KeyGenAlike
  <2> QED
    BY <1>4, <1>5, <1>6, <1>7, <1>8, <1>9, <1>10, <1>11, <2>1 DEF When
<1>16. \A u : OptionsOf(f.kind, u, f.shown) = RenewOptions(u)
  BY DEF OptionsOf
<1>17. \A u : RenewOptions(u) = P1(u) ++ P2(u) ++ P3(u) ++ P4(u)
  BY Zenon DEF RenewOptions
<1> HIDE DEF P1, P2, P3, P4
<1> QED
  BY <1>12, <1>13, <1>14, <1>15, <1>16, <1>17

LEMMA ConvertIgnores ==
  ASSUME NEW f, f.kind = "convert", RulesHold(f), Chosen(f.kind, f.v), NEW w, Seen(f, w)
  PROVE  OptionsOf(f.kind, w, f.shown) = OptionsOf(f.kind, f.v, f.shown)
<1> DEFINE v == f.v
<1>1. f.kind \in DOMAIN FieldsOf /\ FieldsOf[f.kind] = ConvertFields
  BY FieldsOfKinds
<1>2. /\ Named(f, "format")
      /\ Named(f, "include")
      /\ Named(f, "output")
      /\ Named(f, "password")
      /\ Named(f, "legacy")
      /\ Named(f, "alias")
  BY <1>1, ConvertFieldsAre DEF Named
<1>3. {"format", "include", "output"} \subseteq f.shown
  BY ConvertShows
<1>4. /\ w.format = v.format
      /\ w.include = v.include
      /\ w.output = v.output
  BY <1>2, <1>3 DEF Seen
<1>5. v.format \in {"PKCS#12", "JKS"} => w.password = v.password
  <2>1. v.format \in {"PKCS#12", "JKS"} => "password" \in f.shown
    BY ConvertShows
  <2> QED
    BY <1>2, <2>1 DEF Seen
<1>6. v.format = "PKCS#12" => w.legacy = v.legacy
  <2>1. v.format = "PKCS#12" => "legacy" \in f.shown
    BY ConvertShows
  <2> QED
    BY <1>2, <2>1 DEF Seen
<1>7. v.format = "JKS" => w.alias = v.alias
  <2>1. v.format = "JKS" => "alias" \in f.shown
    BY ConvertShows
  <2> QED
    BY <1>2, <2>1 DEF Seen
<1> DEFINE P1(u) == EncodeOptions(u)
           P2(u) == [include |-> u.include]
           P3(u) == When(u.format = "JKS", [alias |-> u.alias])
<1>8. P1(w) = P1(v)
  BY <1>4, <1>5, <1>6, <1>7, EncodeAlike
<1>9. P2(w) = P2(v)
  BY <1>4, <1>5, <1>6, <1>7
<1>10. P3(w) = P3(v)
  BY <1>4, <1>5, <1>6, <1>7 DEF When
<1>11. \A u : OptionsOf(f.kind, u, f.shown) = ConvertOptions(u)
  BY DEF OptionsOf
<1>12. \A u : ConvertOptions(u) = P1(u) ++ P2(u) ++ P3(u)
  BY Zenon DEF ConvertOptions
<1> HIDE DEF P1, P2, P3
<1> QED
  BY <1>8, <1>9, <1>10, <1>11, <1>12

LEMMA ExtractIgnores ==
  ASSUME NEW f, f.kind = "extract", RulesHold(f), Chosen(f.kind, f.v), NEW w, Seen(f, w)
  PROVE  OptionsOf(f.kind, w, f.shown) = OptionsOf(f.kind, f.v, f.shown)
<1> DEFINE v == f.v
<1>1. f.kind \in DOMAIN FieldsOf /\ FieldsOf[f.kind] = ExtractFields
  BY FieldsOfKinds
<1>2. /\ Named(f, "output_dir")
      /\ Named(f, "format")
      /\ Named(f, "type_filter")
  BY <1>1, ExtractFieldsAre DEF Named
<1>3. {"output_dir", "format", "type_filter"} \subseteq f.shown
  BY ExtractShows
<1>4. /\ w.output_dir = v.output_dir
      /\ w.format = v.format
      /\ w.type_filter = v.type_filter
  BY <1>2, <1>3 DEF Seen
<1>5. [output |-> w.output_dir, format |-> w.format, filter |-> w.type_filter]
        = [output |-> v.output_dir, format |-> v.format, filter |-> v.type_filter]
  BY <1>4
<1>6. \A u : OptionsOf(f.kind, u, f.shown) = ExtractOptions(u)
  BY DEF OptionsOf
<1> QED
  BY Zenon, <1>5, <1>6 DEF ExtractOptions

LEMMA ExtractItemIgnores ==
  ASSUME NEW f, f.kind = "extractItem", RulesHold(f), Chosen(f.kind, f.v), NEW w, Seen(f, w)
  PROVE  OptionsOf(f.kind, w, f.shown) = OptionsOf(f.kind, f.v, f.shown)
<1> DEFINE v == f.v
<1>1. f.kind \in DOMAIN FieldsOf /\ FieldsOf[f.kind] = ExtractItemFields
  BY FieldsOfKinds
<1>2. /\ Named(f, "output_file")
      /\ Named(f, "format")
  BY <1>1, ExtractItemFieldsAre DEF Named
<1>3. {"output_file", "format"} \subseteq f.shown
  BY ExtractItemShows
<1>4. /\ w.output_file = v.output_file
      /\ w.format = v.format
  BY <1>2, <1>3 DEF Seen
<1>5. [output |-> w.output_file, format |-> w.format]
        = [output |-> v.output_file, format |-> v.format]
  BY <1>4
<1>6. \A u : OptionsOf(f.kind, u, f.shown) = ExtractItemOptions(u)
  BY DEF OptionsOf
<1> QED
  BY Zenon, <1>5, <1>6 DEF ExtractItemOptions

LEMMA ReencryptIgnores ==
  ASSUME NEW f, f.kind = "reencrypt", RulesHold(f), Chosen(f.kind, f.v), NEW w, Seen(f, w)
  PROVE  OptionsOf(f.kind, w, f.shown) = OptionsOf(f.kind, f.v, f.shown)
<1> DEFINE v == f.v
<1>1. f.kind \in DOMAIN FieldsOf /\ FieldsOf[f.kind] = ReencryptFields
  BY FieldsOfKinds
<1>2. /\ Named(f, "output_mode")
      /\ Named(f, "remove_password")
      /\ Named(f, "output")
      /\ Named(f, "new_password")
  BY <1>1, ReencryptFieldsAre DEF Named
<1>3. {"output_mode", "remove_password"} \subseteq f.shown
  BY ReencryptShows
<1>4. /\ w.output_mode = v.output_mode
      /\ w.remove_password = v.remove_password
  BY <1>2, <1>3 DEF Seen
<1>5. v.output_mode # "Overwrite original" => w.output = v.output
  <2>1. v.output_mode \in {"Overwrite original", "New file"}
    BY ChosenAre
  <2>2. v.output_mode # "Overwrite original" => "output" \in f.shown
    BY <2>1, ReencryptShows
  <2> QED
    BY <1>2, <2>2 DEF Seen
<1>6. v.remove_password # "true" => w.new_password = v.new_password
  <2>1. v.remove_password # "true" => "new_password" \in f.shown
    BY ReencryptShows
  <2> QED
    BY <1>2, <2>1 DEF Seen
<1> DEFINE P1(u) == NewFileOptions(u)
           P2(u) == When(u.remove_password # "true", [password |-> u.new_password])
<1>7. P1(w) = P1(v)
  BY <1>4, <1>5, <1>6, NewFileAlike
<1>8. P2(w) = P2(v)
  BY <1>4, <1>5, <1>6 DEF When
<1>9. \A u : OptionsOf(f.kind, u, f.shown) = ReencryptOptions(u)
  BY DEF OptionsOf
<1>10. \A u : ReencryptOptions(u) = P1(u) ++ P2(u)
  BY Zenon DEF ReencryptOptions
<1> HIDE DEF P1, P2
<1> QED
  BY <1>7, <1>8, <1>9, <1>10

LEMMA RemovePassphraseIgnores ==
  ASSUME NEW f, f.kind = "removePassphrase", RulesHold(f), Chosen(f.kind, f.v), NEW w, Seen(f, w)
  PROVE  OptionsOf(f.kind, w, f.shown) = OptionsOf(f.kind, f.v, f.shown)
<1> DEFINE v == f.v
<1>1. f.kind \in DOMAIN FieldsOf /\ FieldsOf[f.kind] = RemovePassphraseFields
  BY FieldsOfKinds
<1>2. /\ Named(f, "output_mode")
      /\ Named(f, "output")
  BY <1>1, RemovePassphraseFieldsAre DEF Named
<1>3. {"output_mode"} \subseteq f.shown
  BY RemovePassphraseShows
<1>4. /\ w.output_mode = v.output_mode
  BY <1>2, <1>3 DEF Seen
<1>5. v.output_mode # "Overwrite original" => w.output = v.output
  <2>1. v.output_mode \in {"Overwrite original", "New file"}
    BY ChosenAre
  <2>2. v.output_mode # "Overwrite original" => "output" \in f.shown
    BY <2>1, RemovePassphraseShows
  <2> QED
    BY <1>2, <2>2 DEF Seen
<1>6. NewFileOptions(w) = NewFileOptions(v)
  BY <1>4, <1>5, NewFileAlike
<1>7. \A u : OptionsOf(f.kind, u, f.shown) = NewFileOptions(u)
  BY DEF OptionsOf
<1> QED
  BY Zenon, <1>6, <1>7

LEMMA BundleIgnores ==
  ASSUME NEW f, f.kind = "bundle", RulesHold(f), Chosen(f.kind, f.v), NEW w, Seen(f, w)
  PROVE  OptionsOf(f.kind, w, f.shown) = OptionsOf(f.kind, f.v, f.shown)
<1> DEFINE v == f.v
<1>1. f.kind \in DOMAIN FieldsOf /\ FieldsOf[f.kind] = BundleFields
  BY FieldsOfKinds
<1>2. /\ Named(f, "format")
      /\ Named(f, "item_aliases")
      /\ Named(f, "output")
      /\ Named(f, "password")
      /\ Named(f, "legacy")
  BY <1>1, BundleFieldsAre DEF Named
<1>3. {"format", "item_aliases", "output"} \subseteq f.shown
  BY BundleShows
<1>4. /\ w.format = v.format
      /\ w.item_aliases = v.item_aliases
      /\ w.output = v.output
  BY <1>2, <1>3 DEF Seen
<1>5. v.format \in {"PKCS#12", "JKS"} => w.password = v.password
  <2>1. v.format \in {"PKCS#12", "JKS"} => "password" \in f.shown
    BY BundleShows
  <2> QED
    BY <1>2, <2>1 DEF Seen
<1>6. v.format = "PKCS#12" => w.legacy = v.legacy
  <2>1. v.format = "PKCS#12" => "legacy" \in f.shown
    BY BundleShows
  <2> QED
    BY <1>2, <2>1 DEF Seen
<1> DEFINE P1(u) == EncodeOptions(u)
           P2(u) == When(u.format = "JKS", [aliases |-> u.item_aliases])
<1>7. P1(w) = P1(v)
  BY <1>4, <1>5, <1>6, EncodeAlike
<1>8. P2(w) = P2(v)
  BY <1>4, <1>5, <1>6 DEF When
<1>9. \A u : OptionsOf(f.kind, u, f.shown) = BundleOptions(u)
  BY DEF OptionsOf
<1>10. \A u : BundleOptions(u) = P1(u) ++ P2(u)
  BY Zenon DEF BundleOptions
<1> HIDE DEF P1, P2
<1> QED
  BY <1>7, <1>8, <1>9, <1>10

LEMMA RemoteIgnores ==
  ASSUME NEW f, f.kind = "remote", RulesHold(f), Chosen(f.kind, f.v), NEW w, Seen(f, w)
  PROVE  OptionsOf(f.kind, w, f.shown) = OptionsOf(f.kind, f.v, f.shown)
<1> DEFINE v == f.v
<1>1. f.kind \in DOMAIN FieldsOf /\ FieldsOf[f.kind] = RemoteFields
  BY FieldsOfKinds
<1>2. /\ Named(f, "target")
      /\ Named(f, "starttls")
      /\ Named(f, "tls_version")
      /\ Named(f, "sni")
      /\ Named(f, "ip_version")
      /\ Named(f, "mtls_mode")
      /\ Named(f, "client_password")
      /\ Named(f, "client_cert")
      /\ Named(f, "client_key")
      /\ Named(f, "client_p12")
      /\ Named(f, "client_jks")
      /\ Named(f, "client_alias")
  BY <1>1, RemoteFieldsAre DEF Named
<1>3. {"target", "starttls", "tls_version", "sni", "ip_version", "mtls_mode"} \subseteq f.shown
  BY RemoteShows
<1>4. /\ w.target = v.target
      /\ w.starttls = v.starttls
      /\ w.tls_version = v.tls_version
      /\ w.sni = v.sni
      /\ w.ip_version = v.ip_version
      /\ w.mtls_mode = v.mtls_mode
  BY <1>2, <1>3 DEF Seen
<1>5. v.mtls_mode # "None" => w.client_password = v.client_password
  <2>1. v.mtls_mode \in {"None", "PEM cert+key", "PKCS#12", "JKS"}
    BY ChosenAre
  <2>2. v.mtls_mode # "None" => "client_password" \in f.shown
    BY <2>1, RemoteShows
  <2> QED
    BY <1>2, <2>2 DEF Seen
<1>6. v.mtls_mode = "PEM cert+key" => w.client_cert = v.client_cert
  <2>1. v.mtls_mode = "PEM cert+key" => "client_cert" \in f.shown
    BY RemoteShows
  <2> QED
    BY <1>2, <2>1 DEF Seen
<1>7. v.mtls_mode = "PEM cert+key" => w.client_key = v.client_key
  <2>1. v.mtls_mode = "PEM cert+key" => "client_key" \in f.shown
    BY RemoteShows
  <2> QED
    BY <1>2, <2>1 DEF Seen
<1>8. v.mtls_mode = "PKCS#12" => w.client_p12 = v.client_p12
  <2>1. v.mtls_mode = "PKCS#12" => "client_p12" \in f.shown
    BY RemoteShows
  <2> QED
    BY <1>2, <2>1 DEF Seen
<1>9. v.mtls_mode = "JKS" => w.client_jks = v.client_jks
  <2>1. v.mtls_mode = "JKS" => "client_jks" \in f.shown
    BY RemoteShows
  <2> QED
    BY <1>2, <2>1 DEF Seen
<1>10. v.mtls_mode \in {"PKCS#12", "JKS"} => w.client_alias = v.client_alias
  <2>1. v.mtls_mode \in {"PKCS#12", "JKS"} => "client_alias" \in f.shown
    BY RemoteShows
  <2> QED
    BY <1>2, <2>1 DEF Seen
<1> DEFINE P1(u) == [target |-> u.target, starttls |-> u.starttls, tls_version |-> u.tls_version, sni |-> u.sni,
               ip_version |-> u.ip_version]
           P2(u) == ClientOptions(u)
<1>11. P1(w) = P1(v)
  BY <1>4, <1>5, <1>6, <1>7, <1>8, <1>9, <1>10
<1>12. P2(w) = P2(v)
  BY <1>4, <1>5, <1>6, <1>7, <1>8, <1>9, <1>10, ClientAlike
<1>13. \A u : OptionsOf(f.kind, u, f.shown) = RemoteOptions(u)
  BY DEF OptionsOf
<1>14. \A u : RemoteOptions(u) = P1(u) ++ P2(u)
  BY Zenon DEF RemoteOptions
<1> HIDE DEF P1, P2
<1> QED
  BY <1>11, <1>12, <1>13, <1>14

LEMMA ProxyIgnores ==
  ASSUME NEW f, f.kind = "proxy", RulesHold(f), Chosen(f.kind, f.v), NEW w, Seen(f, w)
  PROVE  OptionsOf(f.kind, w, f.shown) = OptionsOf(f.kind, f.v, f.shown)
<1> DEFINE v == f.v
<1>1. f.kind \in DOMAIN FieldsOf /\ FieldsOf[f.kind] = ProxyFields
  BY FieldsOfKinds
<1>2. /\ Named(f, "proxy_listen")
      /\ Named(f, "proxy_target")
      /\ Named(f, "proxy_aggressive")
  BY <1>1, ProxyFieldsAre DEF Named
<1>3. {"proxy_listen", "proxy_target", "proxy_aggressive"} \subseteq f.shown
  BY ProxyShows
<1>4. /\ w.proxy_listen = v.proxy_listen
      /\ w.proxy_target = v.proxy_target
      /\ w.proxy_aggressive = v.proxy_aggressive
  BY <1>2, <1>3 DEF Seen
<1>5. [listen |-> w.proxy_listen, target |-> w.proxy_target, aggressive |-> w.proxy_aggressive]
        = [listen |-> v.proxy_listen, target |-> v.proxy_target, aggressive |-> v.proxy_aggressive]
  BY <1>4
<1>6. \A u : OptionsOf(f.kind, u, f.shown) = ProxyOptions(u)
  BY DEF OptionsOf
<1> QED
  BY Zenon, <1>5, <1>6 DEF ProxyOptions

LEMMA PcapIgnores ==
  ASSUME NEW f, f.kind = "pcap", RulesHold(f), Chosen(f.kind, f.v), NEW w, Seen(f, w)
  PROVE  OptionsOf(f.kind, w, f.shown) = OptionsOf(f.kind, f.v, f.shown)
<1> DEFINE v == f.v
<1>1. f.kind \in DOMAIN FieldsOf /\ FieldsOf[f.kind] = PcapFields
  BY FieldsOfKinds
<1>2. /\ Named(f, "pcap_file")
      /\ Named(f, "pcap_aggressive")
  BY <1>1, PcapFieldsAre DEF Named
<1>3. {"pcap_file", "pcap_aggressive"} \subseteq f.shown
  BY PcapShows
<1>4. /\ w.pcap_file = v.pcap_file
      /\ w.pcap_aggressive = v.pcap_aggressive
  BY <1>2, <1>3 DEF Seen
<1>5. [file |-> w.pcap_file, aggressive |-> w.pcap_aggressive]
        = [file |-> v.pcap_file, aggressive |-> v.pcap_aggressive]
  BY <1>4
<1>6. \A u : OptionsOf(f.kind, u, f.shown) = PcapOptions(u)
  BY DEF OptionsOf
<1> QED
  BY Zenon, <1>5, <1>6 DEF PcapOptions

LEMMA HiddenHasNoEffect ==
  ASSUME NEW f, f.kind \in DOMAIN FieldsOf, RulesHold(f), Chosen(f.kind, f.v), NEW w, Seen(f, w)
  PROVE  OptionsOf(f.kind, w, f.shown) = OptionsOf(f.kind, f.v, f.shown)
BY FieldsOfKinds, CreateKeyIgnores, CreateCertIgnores, CreateCSRIgnores, SignCSRIgnores, RenewIgnores,
   ConvertIgnores,
   ExtractIgnores, ExtractItemIgnores, ReencryptIgnores, RemovePassphraseIgnores, BundleIgnores, RemoteIgnores,
   ProxyIgnores, PcapIgnores

LEMMA CoreIgnores ==
  ASSUME NEW f, Core(f), RulesHold(f)
  PROVE  HiddenIsIgnored(f)
<1> DEFINE asItOpened(i) == IF FieldAt(f, i).type = "list" THEN <<"">> ELSE FieldAt(f, i).holds[1]
           hidden == {i \in Places(f) : FieldAt(f, i).name \notin f.shown}
           blank == [name \in {FieldAt(f, i).name : i \in hidden} |->
                       asItOpened(CHOOSE i \in hidden : FieldAt(f, i).name = name)]
<1>1. DOMAIN blank = {FieldAt(f, i).name : i \in {k \in Places(f) : FieldAt(f, k).name \notin f.shown}}
  OBVIOUS
<1>2. HiddenIsIgnored(f) <=> OptionsOf(f.kind, blank ++ f.v, f.shown) = OptionsOf(f.kind, f.v, f.shown)
  BY Zenon DEF HiddenIsIgnored
<1> HIDE DEF blank
<1>3. Seen(f, blank ++ f.v)
  BY <1>1, BlankIsSeen DEF Core
<1> QED
  BY <1>2, <1>3, HiddenHasNoEffect DEF Core

\* What the theorem says, of a form that is settled.
LEMMA SettledForm ==
  ASSUME Settled(form)
  PROVE  FormSettled
<1>1. Core(form) /\ RulesHold(form) /\ Stops(form, form.focus) /\ RowsExist(form)
  BY DEF Settled
<1>2. HiddenIsIgnored(form)
  BY <1>1, CoreIgnores
<1>3. form.kind \in DOMAIN FieldsOf /\ form.focus \in Places(form)
  BY <1>1 DEF Core
<1>4. Proper(form.kind, Focused.name, Focused.type)
  BY <1>3, PlacesAre DEF Focused
<1>5. CASE Focused.type = "list"
  <2>1. Lists(form.kind)
    BY <1>4, <1>5 DEF Proper, Lists
  <2> QED
    BY <1>1, <1>2, <1>5, <2>1 DEF FormSettled, RowsExist, Rows1
<1>6. CASE Focused.type = "aliases"
  <2>1. form.kind = "bundle" /\ Aliasable(form) # {}
    BY <1>1, <1>4, <1>6 DEF Proper, Stops, Focused
  <2> QED
    BY <1>1, <1>2, <1>6, <2>1 DEF FormSettled, RowsExist, Rows1
<1>7. CASE ~ Composite
  BY <1>1, <1>2, <1>7 DEF FormSettled
<1> QED
  BY <1>5, <1>6, <1>7 DEF Composite

-----------------------------------------------------------------------------
(* What is carried out lacks nothing.                                        *)

Given(text) == text # ""
Whole(options) == \A name \in DOMAIN options : name \in Needed => Given(options[name])
Meets(options) == Whole(options) /\ "aliases" \notin DOMAIN options

LEMMA LacksNothing == ASSUME NEW options PROVE Whole(options) <=> ~ Lacks(options)
BY Zenon DEF Whole, Lacks, Given

LEMMA NotEmpty == Given("found") /\ Given("suggested") /\ Given("original")
BY Zenon DEF Given

LEMMA JoinMeets ==
  ASSUME NEW g, NEW h
  PROVE  /\ Whole(g) /\ Whole(h) => Whole(g ++ h)
         /\ Meets(g) /\ Meets(h) => Meets(g ++ h)
<1>1. DOMAIN (g ++ h) = DOMAIN g \union DOMAIN h
  BY DEF ++
<1>2. \A x \in DOMAIN g \union DOMAIN h : (g ++ h)[x] = IF x \in DOMAIN g THEN g[x] ELSE h[x]
  BY DEF ++
<1> QED
  BY <1>1, <1>2 DEF Meets, Whole

LEMMA WhenMeets ==
  ASSUME NEW condition, NEW options
  PROVE  /\ (condition => Meets(options)) => Meets(When(condition, options))
         /\ (condition => Whole(options)) => Whole(When(condition, options))
<1>1. DOMAIN <<>> = {}
  OBVIOUS
<1>2. Meets(<<>>) /\ Whole(<<>>)
  BY <1>1 DEF Meets, Whole
<1> QED
  BY <1>2 DEF When

LEMMA KeyGenMeets == ASSUME NEW v PROVE Meets(KeyGenOptions(v))
<1> DEFINE P == [algo |-> v.algo]
           Q == [size |-> v.size]
           R == [curve |-> v.curve]
<1>1. Meets(P) /\ Meets(Q) /\ Meets(R)
  BY DEF Meets, Whole, Needed
<1>2. KeyGenOptions(v) = P ++ When(v.algo = "RSA", Q) ++ When(v.algo = "ECDSA", R)
  BY Zenon DEF KeyGenOptions
<1> HIDE DEF P, Q, R
<1> QED
  BY <1>1, <1>2, WhenMeets, JoinMeets

LEMMA SubjectMeets == ASSUME NEW v, Given(v.cn) PROVE Meets(SubjectOptions(v))
BY DEF SubjectOptions, Meets, Whole, Needed

LEMMA UsageMeets == ASSUME NEW v PROVE Meets(UsageOptions(v))
BY DEF UsageOptions, Meets, Whole, Needed

LEMMA SignerMeets ==
  ASSUME NEW v, v.signing = WithCA => Given(v.ca_cert) /\ Given(v.ca_key)
  PROVE  Meets(SignerOptions(v))
<1> DEFINE P == [ca_cert |-> v.ca_cert, ca_key |-> v.ca_key]
           Q == [ca_cert |-> "found", ca_key |-> "found"]
<1>1. v.signing = WithCA => Meets(P)
  BY DEF Meets, Whole, Needed
<1>2. Meets(Q)
  BY NotEmpty DEF Meets, Whole, Needed
<1>3. SignerOptions(v) = When(v.signing = WithCA, P) ++ When(v.signing = Autosign, Q)
  BY Zenon DEF SignerOptions
<1> HIDE DEF P, Q
<1>4. Meets(When(v.signing = WithCA, P)) /\ Meets(When(v.signing = Autosign, Q))
  BY <1>1, <1>2, WhenMeets
<1> QED
  BY <1>3, <1>4, JoinMeets

LEMMA EncodeMeets == ASSUME NEW v, Given(v.output) PROVE Meets(EncodeOptions(v))
<1> DEFINE P == [format |-> v.format, output |-> v.output]
           Q == [outputPassword |-> v.password]
           R == [legacy |-> v.legacy]
<1>1. Meets(P) /\ Meets(Q) /\ Meets(R)
  BY DEF Meets, Whole, Needed
<1>2. EncodeOptions(v) = P ++ When(v.format \in {"PKCS#12", "JKS"}, Q) ++ When(v.format = "PKCS#12", R)
  BY Zenon DEF EncodeOptions
<1> HIDE DEF P, Q, R
<1> QED
  BY <1>1, <1>2, WhenMeets, JoinMeets

LEMMA OutputMeets == ASSUME NEW path, Given(path) PROVE Meets([output |-> path]) /\
  DOMAIN [output |-> path] = {"output"}
BY DEF Meets, Whole, Needed

LEMMA NewFileMeets ==
  ASSUME NEW v, v.output_mode # "Overwrite original" => Given(v.output)
  PROVE  Meets(NewFileOptions(v)) /\ DOMAIN NewFileOptions(v) = {"output"}
<1> DEFINE path == IF v.output_mode = "Overwrite original" THEN "original" ELSE v.output
<1>1. Given(path)
  BY NotEmpty
<1>2. NewFileOptions(v) = [output |-> path]
  BY DEF NewFileOptions
<1> HIDE DEF path
<1> QED
  BY <1>1, <1>2, OutputMeets, Zenon

LEMMA ClientMeets == ASSUME NEW v, Whole(ClientOptions(v)) PROVE Meets(ClientOptions(v))
<1> DEFINE P == [outputPassword |-> v.client_password]
           Q == [cert |-> v.client_cert, key |-> v.client_key]
           R == [container |-> v.client_p12, alias |-> v.client_alias]
           S == [container |-> v.client_jks, alias |-> v.client_alias]
           Names(o) == "aliases" \in DOMAIN o
<1>1. ~ Names(P) /\ ~ Names(Q) /\ ~ Names(R) /\ ~ Names(S) /\ ~ Names(<<>>)
  OBVIOUS
<1>2. \A g, h : ~ Names(g) /\ ~ Names(h) => ~ Names(g ++ h)
  BY DEF ++
<1> DEFINE files == v.mtls_mode = "PEM cert+key"
<1>3. ClientOptions(v) = When(v.mtls_mode # "None", P) ++ When(files, Q)
                         ++ When(v.mtls_mode = "PKCS#12", R) ++ When(v.mtls_mode = "JKS", S)
  BY Zenon DEF ClientOptions
<1> HIDE DEF P, Q, R, S, Names, files
<1>4. \A c : ~ Names(When(c, P)) /\ ~ Names(When(c, Q)) /\ ~ Names(When(c, R)) /\ ~ Names(When(c, S))
  BY <1>1 DEF When
<1>5. ~ Names(ClientOptions(v))
  BY <1>2, <1>3, <1>4
<1> QED
  BY <1>5 DEF Meets, Names

\* What validation says of a field that is shown.
LEMMA Filled ==
  ASSUME NEW f, f.kind \in DOMAIN FieldsOf, Invalid(f) = {}, NEW name \in f.shown
  PROVE  /\ Has(FieldsOf[f.kind], name, "must") => Given(f.v[name])
         /\ Has(FieldsOf[f.kind], name, "confirm") => Given(f.v[name]) /\ f.v[name] = f.v.new_password
         /\ Has(FieldsOf[f.kind], name, "pick") => Given(f.v[name]) \/ Suggests(f, name)
         /\ Has(FieldsOf[f.kind], name, "aliases") /\ f.v.format = "JKS" => AliasesDiffer(f)
<1>1. \A type : Has(FieldsOf[f.kind], name, type) =>
        \E i \in Places(f) : FieldAt(f, i).name = name /\ FieldAt(f, i).type = type
  BY PlacesAre
<1>2. \A i \in Places(f) : FieldAt(f, i).name = name => Valid(f, i)
  BY DEF Invalid
<1>3. ASSUME NEW i \in Places(f), Valid(f, i)
      PROVE  LET n == FieldAt(f, i).name
                 type == FieldAt(f, i).type
             IN /\ type \in {"must", "confirm"} => Given(f.v[n])
                /\ type = "confirm" => f.v[n] = f.v.new_password
                /\ type = "pick" => Given(f.v[n]) \/ Suggests(f, n)
                /\ type = "aliases" /\ f.v.format = "JKS" => AliasesDiffer(f)
  BY <1>3, Zenon DEF Valid, Given
<1> QED
  BY <1>1, <1>2, <1>3

LEMMA Suggested == \A path : Given(OrSuggested(path))
BY NotEmpty, Zenon DEF OrSuggested, Given

LEMMA CreateKeyLacksNothing ==
  ASSUME NEW f, f.kind = "createKey", RulesHold(f), Chosen(f.kind, f.v), Invalid(f) = {}
  PROVE  Meets(OptionsOf(f.kind, f.v, f.shown))
<1> DEFINE v == f.v
<1>1. f.kind \in DOMAIN FieldsOf /\ FieldsOf[f.kind] = CreateKeyFields
  BY FieldsOfKinds
<1>2. Given(v.output)
  <2>1. "output" \in f.shown
    BY CreateKeyShows
  <2>2. Has(FieldsOf[f.kind], "output", "pick")
    BY <1>1, CreateKeyFieldsAre
  <2>3. ~ Suggests(f, "output")
    BY DEF Suggests
  <2>4. "output" \in f.shown => Given(v["output"])
    BY <1>1, <2>2, <2>3, Filled
  <2> QED
    BY <2>1, <2>4
<1>3. EffectiveValue(v, f.shown, "encrypt") = "true" => Given(EffectiveValue(v, f.shown, "password"))
  <2>1. EffectiveValue(v, f.shown, "encrypt") = "true" => "encrypt" \in f.shown /\ v["encrypt"] = "true"
    BY Zenon DEF EffectiveValue
  <2>2. EffectiveValue(v, f.shown, "encrypt") = "true" => "password" \in f.shown
    BY <2>1, CreateKeyShows
  <2>3. "password" \in f.shown => EffectiveValue(v, f.shown, "password") = v["password"]
    BY DEF EffectiveValue
  <2>4. Has(FieldsOf[f.kind], "password", "must")
    BY <1>1, CreateKeyFieldsAre
  <2>5. "password" \in f.shown => Given(v["password"])
    BY <1>1, <2>4, Filled
  <2> QED
    BY Zenon, <2>2, <2>3, <2>5
<1> DEFINE O1 == KeyGenOptions(v)
           O2 == [output |-> v.output, format |-> v.format]
           C3 == EffectiveValue(v, f.shown, "encrypt") = "true"
           O3 == [password |-> EffectiveValue(v, f.shown, "password")]
<1>4. Meets(O1)
  BY KeyGenMeets
<1>5. Meets(O2)
  BY <1>2 DEF Meets, Whole, Needed
<1>6. C3 => Meets(O3)
  BY <1>3 DEF Meets, Whole, Needed
<1>7. OptionsOf(f.kind, v, f.shown) = CreateKeyOptions(v, f.shown)
  BY DEF OptionsOf
<1>8. CreateKeyOptions(v, f.shown) = O1 ++ O2 ++ When(C3, O3)
  BY Zenon DEF CreateKeyOptions
<1> HIDE DEF C3, O1, O2, O3
<1>9. Meets(When(C3, O3))
  BY <1>6, WhenMeets
<1> QED
  BY <1>4, <1>5, <1>7, <1>8, <1>9, JoinMeets

LEMMA CreateCertLacksNothing ==
  ASSUME NEW f, f.kind = "createCert", RulesHold(f), Chosen(f.kind, f.v), Invalid(f) = {}
  PROVE  Meets(OptionsOf(f.kind, f.v, f.shown))
<1> DEFINE v == f.v
<1>1. f.kind \in DOMAIN FieldsOf /\ FieldsOf[f.kind] = CreateCertFields
  BY FieldsOfKinds
<1>2. Given(v.cn)
  <2>1. "cn" \in f.shown
    BY CreateCertShows
  <2>2. Has(FieldsOf[f.kind], "cn", "must")
    BY <1>1, CreateCertFieldsAre
  <2>4. "cn" \in f.shown => Given(v["cn"])
    BY <1>1, <2>2, Filled
  <2> QED
    BY <2>1, <2>4
<1>3. v.key_source = Existing => Given(v.key_path)
  <2>1. v.key_source = Existing => "key_path" \in f.shown
    BY CreateCertShows
  <2>2. Has(FieldsOf[f.kind], "key_path", "pick")
    BY <1>1, CreateCertFieldsAre
  <2>3. ~ Suggests(f, "key_path")
    BY DEF Suggests
  <2>4. "key_path" \in f.shown => Given(v["key_path"])
    BY <1>1, <2>2, <2>3, Filled
  <2> QED
    BY <2>1, <2>4
<1>4. v.signing = WithCA => Given(v.ca_cert)
  <2>1. v.signing = WithCA => "ca_cert" \in f.shown
    BY CreateCertShows
  <2>2. Has(FieldsOf[f.kind], "ca_cert", "pick")
    BY <1>1, CreateCertFieldsAre
  <2>3. ~ Suggests(f, "ca_cert")
    BY DEF Suggests
  <2>4. "ca_cert" \in f.shown => Given(v["ca_cert"])
    BY <1>1, <2>2, <2>3, Filled
  <2> QED
    BY <2>1, <2>4
<1>5. v.signing = WithCA => Given(v.ca_key)
  <2>1. v.signing = WithCA => "ca_key" \in f.shown
    BY CreateCertShows
  <2>2. Has(FieldsOf[f.kind], "ca_key", "pick")
    BY <1>1, CreateCertFieldsAre
  <2>3. ~ Suggests(f, "ca_key")
    BY DEF Suggests
  <2>4. "ca_key" \in f.shown => Given(v["ca_key"])
    BY <1>1, <2>2, <2>3, Filled
  <2> QED
    BY <2>1, <2>4
<1>6. EffectiveValue(v, f.shown, "encrypt_key") = "true" => Given(EffectiveValue(v, f.shown, "encrypt_password"))
  <2>1. EffectiveValue(v, f.shown, "encrypt_key") = "true" => "encrypt_key" \in f.shown /\ v["encrypt_key"] = "true"
    BY Zenon DEF EffectiveValue
  <2>2. EffectiveValue(v, f.shown, "encrypt_key") = "true" => "encrypt_password" \in f.shown
    BY <2>1, CreateCertShows
  <2>3. "encrypt_password" \in f.shown => EffectiveValue(v, f.shown, "encrypt_password") = v["encrypt_password"]
    BY DEF EffectiveValue
  <2>4. Has(FieldsOf[f.kind], "encrypt_password", "must")
    BY <1>1, CreateCertFieldsAre
  <2>5. "encrypt_password" \in f.shown => Given(v["encrypt_password"])
    BY <1>1, <2>4, Filled
  <2> QED
    BY Zenon, <2>2, <2>3, <2>5
<1> DEFINE O1 == SubjectOptions(v)
           O2 == UsageOptions(v)
           O3 == [isCA |-> v.cert_type = "CA"]
           C4 == v.cert_type = "CA"
           O4 == [path_len |-> v.path_len, permitted |-> v.permitted_names, excluded |-> v.excluded_names]
           C5 == v.output_mode = "Bundle (PEM)"
           O5 == [output |-> OrSuggested(v.bundle_out)]
           C6 == ~ (v.output_mode = "Bundle (PEM)")
           O6 == [output |-> OrSuggested(v.cert_out), format |-> v.format]
           C7 == v.key_source = Existing
           O7 == [key |-> v.key_path]
           C8 == v.key_source = Generate
           O8 == KeyGenOptions(v)
           C9 == v.key_source = Generate /\ ~ (v.output_mode = "Bundle (PEM)")
           O9 == [keyOutput |-> OrSuggested(v.key_out)]
           C10 == v.key_source = Generate /\ EffectiveValue(v, f.shown, "encrypt_key") = "true"
           O10 == [password |-> EffectiveValue(v, f.shown, "encrypt_password")]
           O11 == SignerOptions(v)
<1>7. Meets(O1)
  BY <1>2, SubjectMeets
<1>8. Meets(O2)
  BY UsageMeets
<1>9. Meets(O3)
  BY DEF Meets, Whole, Needed
<1>10. C4 => Meets(O4)
  BY DEF Meets, Whole, Needed
<1>11. Meets(O5)
  BY Suggested DEF Meets, Whole, Needed
<1>12. Meets(O6)
  BY Suggested DEF Meets, Whole, Needed
<1>13. C7 => Meets(O7)
  BY <1>3 DEF Meets, Whole, Needed
<1>14. C8 => Meets(O8)
  BY KeyGenMeets
<1>15. Meets(O9)
  BY Suggested DEF Meets, Whole, Needed
<1>16. C10 => Meets(O10)
  BY <1>6 DEF Meets, Whole, Needed
<1>17. Meets(O11)
  BY <1>4, <1>5, SignerMeets
<1>18. OptionsOf(f.kind, v, f.shown) = CreateCertOptions(v, f.shown)
  BY DEF OptionsOf
<1>19. CreateCertOptions(v, f.shown) = O1 ++ O2 ++ O3 ++ When(C4, O4) ++ When(C5, O5) ++ When(C6, O6) ++ When(C7,
         O7) ++ When(C8, O8) ++ When(C9, O9) ++ When(C10, O10) ++ O11
  BY Zenon DEF CreateCertOptions
<1> HIDE DEF C4, C5, C6, C7, C8, C9, C10, O1, O2, O3, O4, O5, O6, O7, O8, O9, O10, O11
<1>20. Meets(When(C4, O4)) /\ Meets(When(C5, O5)) /\ Meets(When(C6, O6)) /\ Meets(When(C7, O7)) /\ Meets(When(C8,
         O8)) /\ Meets(When(C9, O9)) /\ Meets(When(C10, O10))
  BY <1>10, <1>11, <1>12, <1>13, <1>14, <1>15, <1>16, WhenMeets
<1> QED
  BY <1>7, <1>8, <1>9, <1>17, <1>18, <1>19, <1>20, JoinMeets

LEMMA CreateCSRLacksNothing ==
  ASSUME NEW f, f.kind = "createCSR", RulesHold(f), Chosen(f.kind, f.v), Invalid(f) = {}
  PROVE  Meets(OptionsOf(f.kind, f.v, f.shown))
<1> DEFINE v == f.v
<1>1. f.kind \in DOMAIN FieldsOf /\ FieldsOf[f.kind] = CreateCSRFields
  BY FieldsOfKinds
<1>2. Given(v.cn)
  <2>1. "cn" \in f.shown
    BY CreateCSRShows
  <2>2. Has(FieldsOf[f.kind], "cn", "must")
    BY <1>1, CreateCSRFieldsAre
  <2>4. "cn" \in f.shown => Given(v["cn"])
    BY <1>1, <2>2, Filled
  <2> QED
    BY <2>1, <2>4
<1>3. Given(v.csr_out) \/ v.cn = "x"
  <2>1. "csr_out" \in f.shown
    BY CreateCSRShows
  <2>2. Has(FieldsOf[f.kind], "csr_out", "pick")
    BY <1>1, CreateCSRFieldsAre
  <2>3. Suggests(f, "csr_out") => v.cn = "x"
    BY DEF Suggests
  <2>4. "csr_out" \in f.shown => Given(v["csr_out"]) \/ v.cn = "x"
    BY <1>1, <2>2, <2>3, Filled
  <2> QED
    BY <2>1, <2>4
<1>4. v.key_source = Existing => Given(v.key_path)
  <2>1. v.key_source = Existing => "key_path" \in f.shown
    BY CreateCSRShows
  <2>2. Has(FieldsOf[f.kind], "key_path", "pick")
    BY <1>1, CreateCSRFieldsAre
  <2>3. ~ Suggests(f, "key_path")
    BY DEF Suggests
  <2>4. "key_path" \in f.shown => Given(v["key_path"])
    BY <1>1, <2>2, <2>3, Filled
  <2> QED
    BY <2>1, <2>4
<1>5. v.key_source = Generate => Given(v.key_out) \/ v.cn = "x"
  <2>1. v.key_source = Generate => "key_out" \in f.shown
    BY CreateCSRShows
  <2>2. Has(FieldsOf[f.kind], "key_out", "pick")
    BY <1>1, CreateCSRFieldsAre
  <2>3. Suggests(f, "key_out") => v.cn = "x"
    BY DEF Suggests
  <2>4. "key_out" \in f.shown => Given(v["key_out"]) \/ v.cn = "x"
    BY <1>1, <2>2, <2>3, Filled
  <2> QED
    BY <2>1, <2>4
<1> DEFINE O1 == SubjectOptions(v)
           path2 == IF v["csr_out"] = "" /\ v.cn = "x" THEN "suggested" ELSE v["csr_out"]
           O2 == [output |-> path2, format |-> v.format]
           C3 == v.key_source = Existing
           O3 == [key |-> v.key_path]
           C4 == v.key_source = Generate
           path4 == IF v["key_out"] = "" /\ v.cn = "x" THEN "suggested" ELSE v["key_out"]
           O4 == KeyGenOptions(v) ++ [keyOutput |-> path4]
<1>6. Meets(O1)
  BY <1>2, SubjectMeets
<1>7. Meets(O2)
  <2>1. Given(path2)
    BY <1>3, NotEmpty, Zenon DEF Given
  <2> HIDE DEF path2
  <2> QED
    BY <2>1 DEF Meets, Whole, Needed
<1>8. C3 => Meets(O3)
  BY <1>4 DEF Meets, Whole, Needed
<1>9. C4 => Meets(O4)
  <2>1. C4 => Given(path4)
    BY <1>5, NotEmpty, Zenon DEF Given
  <2> HIDE DEF path4, C4
  <2>2. C4 => Meets([keyOutput |-> path4])
    BY <2>1 DEF Meets, Whole, Needed
  <2> QED
    BY <2>2, KeyGenMeets, JoinMeets
<1>10. OptionsOf(f.kind, v, f.shown) = CreateCSROptions(v)
  BY DEF OptionsOf
<1>11. CreateCSROptions(v) = O1 ++ O2 ++ When(C3, O3) ++ When(C4, O4)
  BY Zenon DEF CreateCSROptions
<1> HIDE DEF C3, C4, O1, O2, O3, O4
<1>12. Meets(When(C3, O3)) /\ Meets(When(C4, O4))
  BY <1>8, <1>9, WhenMeets
<1> QED
  BY <1>6, <1>7, <1>10, <1>11, <1>12, JoinMeets

LEMMA SignCSRLacksNothing ==
  ASSUME NEW f, f.kind = "signCSR", RulesHold(f), Chosen(f.kind, f.v), Invalid(f) = {}
  PROVE  Meets(OptionsOf(f.kind, f.v, f.shown))
<1> DEFINE v == f.v
<1>1. f.kind \in DOMAIN FieldsOf /\ FieldsOf[f.kind] = SignCSRFields
  BY FieldsOfKinds
<1>2. v.signing = WithCA => Given(v.ca_cert)
  <2>1. v.signing = WithCA => "ca_cert" \in f.shown
    BY SignCSRShows
  <2>2. Has(FieldsOf[f.kind], "ca_cert", "pick")
    BY <1>1, SignCSRFieldsAre
  <2>3. ~ Suggests(f, "ca_cert")
    BY DEF Suggests
  <2>4. "ca_cert" \in f.shown => Given(v["ca_cert"])
    BY <1>1, <2>2, <2>3, Filled
  <2> QED
    BY <2>1, <2>4
<1>3. v.signing = WithCA => Given(v.ca_key)
  <2>1. v.signing = WithCA => "ca_key" \in f.shown
    BY SignCSRShows
  <2>2. Has(FieldsOf[f.kind], "ca_key", "pick")
    BY <1>1, SignCSRFieldsAre
  <2>3. ~ Suggests(f, "ca_key")
    BY DEF Suggests
  <2>4. "ca_key" \in f.shown => Given(v["ca_key"])
    BY <1>1, <2>2, <2>3, Filled
  <2> QED
    BY <2>1, <2>4
<1> DEFINE O1 == UsageOptions(v)
           O2 == [isCA |-> v.cert_type = "CA", output |-> OrSuggested(v.output), format |-> v.format]
           C3 == v.cert_type = "CA"
           O3 == [path_len |-> v.path_len]
           O4 == SignerOptions(v)
<1>4. Meets(O1)
  BY UsageMeets
<1>5. Meets(O2)
  BY Suggested DEF Meets, Whole, Needed
<1>6. C3 => Meets(O3)
  BY DEF Meets, Whole, Needed
<1>7. Meets(O4)
  BY <1>2, <1>3, SignerMeets
<1>8. OptionsOf(f.kind, v, f.shown) = SignCSROptions(v)
  BY DEF OptionsOf
<1>9. SignCSROptions(v) = O1 ++ O2 ++ When(C3, O3) ++ O4
  BY Zenon DEF SignCSROptions
<1> HIDE DEF C3, O1, O2, O3, O4
<1>10. Meets(When(C3, O3))
  BY <1>6, WhenMeets
<1> QED
  BY <1>4, <1>5, <1>7, <1>8, <1>9, <1>10, JoinMeets

LEMMA RenewLacksNothing ==
  ASSUME NEW f, f.kind = "renew", RulesHold(f), Chosen(f.kind, f.v), Invalid(f) = {}
  PROVE  Meets(OptionsOf(f.kind, f.v, f.shown))
<1> DEFINE v == f.v
<1>1. f.kind \in DOMAIN FieldsOf /\ FieldsOf[f.kind] = RenewFields
  BY FieldsOfKinds
<1>2. Given(v.cert_out)
  <2>1. "cert_out" \in f.shown
    BY RenewShows
  <2>2. Has(FieldsOf[f.kind], "cert_out", "pick")
    BY <1>1, RenewFieldsAre
  <2>3. ~ Suggests(f, "cert_out")
    BY DEF Suggests
  <2>4. "cert_out" \in f.shown => Given(v["cert_out"])
    BY <1>1, <2>2, <2>3, Filled
  <2> QED
    BY <2>1, <2>4
<1>3. v.key_source # Generate => Given(v.key_path)
  <2>0. v.key_source \in {"Reuse existing", Generate}
    BY ChosenAre
  <2>1. v.key_source # Generate => "key_path" \in f.shown
    BY <2>0, RenewShows
  <2>2. Has(FieldsOf[f.kind], "key_path", "pick")
    BY <1>1, RenewFieldsAre
  <2>3. ~ Suggests(f, "key_path")
    BY DEF Suggests
  <2>4. "key_path" \in f.shown => Given(v["key_path"])
    BY <1>1, <2>2, <2>3, Filled
  <2> QED
    BY <2>1, <2>4
<1>4. v.key_source = Generate => Given(v.key_out)
  <2>1. v.key_source = Generate => "key_out" \in f.shown
    BY RenewShows
  <2>2. Has(FieldsOf[f.kind], "key_out", "pick")
    BY <1>1, RenewFieldsAre
  <2>3. ~ Suggests(f, "key_out")
    BY DEF Suggests
  <2>4. "key_out" \in f.shown => Given(v["key_out"])
    BY <1>1, <2>2, <2>3, Filled
  <2> QED
    BY <2>1, <2>4
<1>5. v.signing = WithCA => Given(v.ca_cert)
  <2>1. v.signing = WithCA => "ca_cert" \in f.shown
    BY RenewShows
  <2>2. Has(FieldsOf[f.kind], "ca_cert", "pick")
    BY <1>1, RenewFieldsAre
  <2>3. ~ Suggests(f, "ca_cert")
    BY DEF Suggests
  <2>4. "ca_cert" \in f.shown => Given(v["ca_cert"])
    BY <1>1, <2>2, <2>3, Filled
  <2> QED
    BY <2>1, <2>4
<1>6. v.signing = WithCA => Given(v.ca_key)
  <2>1. v.signing = WithCA => "ca_key" \in f.shown
    BY RenewShows
  <2>2. Has(FieldsOf[f.kind], "ca_key", "pick")
    BY <1>1, RenewFieldsAre
  <2>3. ~ Suggests(f, "ca_key")
    BY DEF Suggests
  <2>4. "ca_key" \in f.shown => Given(v["ca_key"])
    BY <1>1, <2>2, <2>3, Filled
  <2> QED
    BY <2>1, <2>4
<1> DEFINE O1 == [days |-> Days(v), output |-> v.cert_out, format |-> v.format]
           O2 == SignerOptions(v)
           C3 == v.key_source # Generate
           O3 == [key |-> v.key_path]
           C4 == v.key_source = Generate
           O4 == KeyGenOptions(v) ++ [keyOutput |-> v.key_out]
<1>7. Meets(O1)
  BY <1>2 DEF Meets, Whole, Needed
<1>8. Meets(O2)
  BY <1>5, <1>6, SignerMeets
<1>9. C3 => Meets(O3)
  BY <1>3 DEF Meets, Whole, Needed
<1>10. C4 => Meets(O4)
  <2>1. C4 => Meets([keyOutput |-> v.key_out])
    BY <1>4 DEF Meets, Whole, Needed
  <2> QED
    BY <2>1, KeyGenMeets, JoinMeets
<1>11. OptionsOf(f.kind, v, f.shown) = RenewOptions(v)
  BY DEF OptionsOf
<1>12. RenewOptions(v) = O1 ++ O2 ++ When(C3, O3) ++ When(C4, O4)
  BY Zenon DEF RenewOptions
<1> HIDE DEF C3, C4, O1, O2, O3, O4
<1>13. Meets(When(C3, O3)) /\ Meets(When(C4, O4))
  BY <1>9, <1>10, WhenMeets
<1> QED
  BY <1>7, <1>8, <1>11, <1>12, <1>13, JoinMeets

LEMMA ConvertLacksNothing ==
  ASSUME NEW f, f.kind = "convert", RulesHold(f), Chosen(f.kind, f.v), Invalid(f) = {}
  PROVE  Meets(OptionsOf(f.kind, f.v, f.shown))
<1> DEFINE v == f.v
<1>1. f.kind \in DOMAIN FieldsOf /\ FieldsOf[f.kind] = ConvertFields
  BY FieldsOfKinds
<1>2. Given(v.output)
  <2>1. "output" \in f.shown
    BY ConvertShows
  <2>2. Has(FieldsOf[f.kind], "output", "pick")
    BY <1>1, ConvertFieldsAre
  <2>3. ~ Suggests(f, "output")
    BY DEF Suggests
  <2>4. "output" \in f.shown => Given(v["output"])
    BY <1>1, <2>2, <2>3, Filled
  <2> QED
    BY <2>1, <2>4
<1> DEFINE O1 == EncodeOptions(v)
           O2 == [include |-> v.include]
           C3 == v.format = "JKS"
           O3 == [alias |-> v.alias]
<1>3. Meets(O1)
  BY <1>2, EncodeMeets
<1>4. Meets(O2)
  BY DEF Meets, Whole, Needed
<1>5. C3 => Meets(O3)
  BY DEF Meets, Whole, Needed
<1>6. OptionsOf(f.kind, v, f.shown) = ConvertOptions(v)
  BY DEF OptionsOf
<1>7. ConvertOptions(v) = O1 ++ O2 ++ When(C3, O3)
  BY Zenon DEF ConvertOptions
<1> HIDE DEF C3, O1, O2, O3
<1>8. Meets(When(C3, O3))
  BY <1>5, WhenMeets
<1> QED
  BY <1>3, <1>4, <1>6, <1>7, <1>8, JoinMeets

LEMMA ExtractLacksNothing ==
  ASSUME NEW f, f.kind = "extract", RulesHold(f), Chosen(f.kind, f.v), Invalid(f) = {}
  PROVE  Meets(OptionsOf(f.kind, f.v, f.shown))
<1> DEFINE v == f.v
<1>1. f.kind \in DOMAIN FieldsOf /\ FieldsOf[f.kind] = ExtractFields
  BY FieldsOfKinds
<1>2. Given(v.output_dir)
  <2>1. "output_dir" \in f.shown
    BY ExtractShows
  <2>2. Has(FieldsOf[f.kind], "output_dir", "pick")
    BY <1>1, ExtractFieldsAre
  <2>3. ~ Suggests(f, "output_dir")
    BY DEF Suggests
  <2>4. "output_dir" \in f.shown => Given(v["output_dir"])
    BY <1>1, <2>2, <2>3, Filled
  <2> QED
    BY <2>1, <2>4
<1>3. Meets([output |-> v.output_dir, format |-> v.format, filter |-> v.type_filter])
  BY <1>2 DEF Meets, Whole, Needed
<1> QED
  BY <1>3 DEF OptionsOf, ExtractOptions

LEMMA ExtractItemLacksNothing ==
  ASSUME NEW f, f.kind = "extractItem", RulesHold(f), Chosen(f.kind, f.v), Invalid(f) = {}
  PROVE  Meets(OptionsOf(f.kind, f.v, f.shown))
<1> DEFINE v == f.v
<1>1. f.kind \in DOMAIN FieldsOf /\ FieldsOf[f.kind] = ExtractItemFields
  BY FieldsOfKinds
<1>2. Given(v.output_file)
  <2>1. "output_file" \in f.shown
    BY ExtractItemShows
  <2>2. Has(FieldsOf[f.kind], "output_file", "pick")
    BY <1>1, ExtractItemFieldsAre
  <2>3. ~ Suggests(f, "output_file")
    BY DEF Suggests
  <2>4. "output_file" \in f.shown => Given(v["output_file"])
    BY <1>1, <2>2, <2>3, Filled
  <2> QED
    BY <2>1, <2>4
<1>3. Meets([output |-> v.output_file, format |-> v.format])
  BY <1>2 DEF Meets, Whole, Needed
<1> QED
  BY <1>3 DEF OptionsOf, ExtractItemOptions

LEMMA ReencryptLacksNothing ==
  ASSUME NEW f, f.kind = "reencrypt", RulesHold(f), Chosen(f.kind, f.v), Invalid(f) = {}
  PROVE  Meets(OptionsOf(f.kind, f.v, f.shown))
<1> DEFINE v == f.v
<1>1. f.kind \in DOMAIN FieldsOf /\ FieldsOf[f.kind] = ReencryptFields
  BY FieldsOfKinds
<1>2. v.output_mode # "Overwrite original" => Given(v.output)
  <2>0. v.output_mode \in {"Overwrite original", "New file"}
    BY ChosenAre
  <2>1. v.output_mode # "Overwrite original" => "output" \in f.shown
    BY <2>0, ReencryptShows
  <2>2. Has(FieldsOf[f.kind], "output", "pick")
    BY <1>1, ReencryptFieldsAre
  <2>3. ~ Suggests(f, "output")
    BY DEF Suggests
  <2>4. "output" \in f.shown => Given(v["output"])
    BY <1>1, <2>2, <2>3, Filled
  <2> QED
    BY <2>1, <2>4
<1>3. v.remove_password # "true" => Given(v.new_password)
  <2>1. v.remove_password # "true" => "new_password" \in f.shown
    BY ReencryptShows
  <2>2. Has(FieldsOf[f.kind], "new_password", "must")
    BY <1>1, ReencryptFieldsAre
  <2>4. "new_password" \in f.shown => Given(v["new_password"])
    BY <1>1, <2>2, Filled
  <2> QED
    BY <2>1, <2>4
<1> DEFINE O1 == NewFileOptions(v)
           C2 == v.remove_password # "true"
           O2 == [password |-> v.new_password]
<1>4. Meets(O1)
  BY <1>2, NewFileMeets
<1>5. C2 => Meets(O2)
  BY <1>3 DEF Meets, Whole, Needed
<1>6. OptionsOf(f.kind, v, f.shown) = ReencryptOptions(v)
  BY DEF OptionsOf
<1>7. ReencryptOptions(v) = O1 ++ When(C2, O2)
  BY Zenon DEF ReencryptOptions
<1> HIDE DEF C2, O1, O2
<1>8. Meets(When(C2, O2))
  BY <1>5, WhenMeets
<1> QED
  BY <1>4, <1>6, <1>7, <1>8, JoinMeets

LEMMA RemovePassphraseLacksNothing ==
  ASSUME NEW f, f.kind = "removePassphrase", RulesHold(f), Chosen(f.kind, f.v), Invalid(f) = {}
  PROVE  Meets(OptionsOf(f.kind, f.v, f.shown))
<1> DEFINE v == f.v
<1>1. f.kind \in DOMAIN FieldsOf /\ FieldsOf[f.kind] = RemovePassphraseFields
  BY FieldsOfKinds
<1>2. v.output_mode # "Overwrite original" => Given(v.output)
  <2>0. v.output_mode \in {"Overwrite original", "New file"}
    BY ChosenAre
  <2>1. v.output_mode # "Overwrite original" => "output" \in f.shown
    BY <2>0, RemovePassphraseShows
  <2>2. Has(FieldsOf[f.kind], "output", "pick")
    BY <1>1, RemovePassphraseFieldsAre
  <2>3. ~ Suggests(f, "output")
    BY DEF Suggests
  <2>4. "output" \in f.shown => Given(v["output"])
    BY <1>1, <2>2, <2>3, Filled
  <2> QED
    BY <2>1, <2>4
<1>3. Meets(NewFileOptions(v))
  BY <1>2, NewFileMeets
<1> QED
  BY <1>3 DEF OptionsOf

LEMMA BundleLacksNothing ==
  ASSUME NEW f, f.kind = "bundle", RulesHold(f), Chosen(f.kind, f.v), Invalid(f) = {}
  PROVE  Whole(OptionsOf(f.kind, f.v, f.shown))
<1> DEFINE v == f.v
<1>1. f.kind \in DOMAIN FieldsOf /\ FieldsOf[f.kind] = BundleFields
  BY FieldsOfKinds
<1>2. Given(v.output)
  <2>1. "output" \in f.shown
    BY BundleShows
  <2>2. Has(FieldsOf[f.kind], "output", "pick")
    BY <1>1, BundleFieldsAre
  <2>3. ~ Suggests(f, "output")
    BY DEF Suggests
  <2>4. "output" \in f.shown => Given(v["output"])
    BY <1>1, <2>2, <2>3, Filled
  <2> QED
    BY <2>1, <2>4
<1> DEFINE O1 == EncodeOptions(v)
           C2 == v.format = "JKS"
           O2 == [aliases |-> v.item_aliases]
<1>3. Whole(O1)
  BY <1>2, EncodeMeets DEF Meets
<1>4. C2 => Whole(O2)
  BY DEF Meets, Whole, Needed
<1>5. OptionsOf(f.kind, v, f.shown) = BundleOptions(v)
  BY DEF OptionsOf
<1>6. BundleOptions(v) = O1 ++ When(C2, O2)
  BY Zenon DEF BundleOptions
<1> HIDE DEF C2, O1, O2
<1>7. Whole(When(C2, O2))
  BY <1>4, WhenMeets
<1> QED
  BY <1>3, <1>5, <1>6, <1>7, JoinMeets

LEMMA RemoteLacksNothing ==
  ASSUME NEW f, f.kind = "remote", RulesHold(f), Chosen(f.kind, f.v), Invalid(f) = {}, Whole(ClientOptions(f.v))
  PROVE  Meets(OptionsOf(f.kind, f.v, f.shown))
<1> DEFINE v == f.v
<1>1. f.kind \in DOMAIN FieldsOf /\ FieldsOf[f.kind] = RemoteFields
  BY FieldsOfKinds
<1>2. Given(v.target)
  <2>1. "target" \in f.shown
    BY RemoteShows
  <2>2. Has(FieldsOf[f.kind], "target", "must")
    BY <1>1, RemoteFieldsAre
  <2>4. "target" \in f.shown => Given(v["target"])
    BY <1>1, <2>2, Filled
  <2> QED
    BY <2>1, <2>4
<1> DEFINE O1 == [target |-> v.target, starttls |-> v.starttls, tls_version |-> v.tls_version, sni |-> v.sni,
               ip_version |-> v.ip_version]
           O2 == ClientOptions(v)
<1>3. Meets(O1)
  BY <1>2 DEF Meets, Whole, Needed
<1>4. Meets(O2)
  BY ClientMeets
<1>5. OptionsOf(f.kind, v, f.shown) = RemoteOptions(v)
  BY DEF OptionsOf
<1>6. RemoteOptions(v) = O1 ++ O2
  BY Zenon DEF RemoteOptions
<1> HIDE DEF O1, O2
<1> QED
  BY <1>3, <1>4, <1>5, <1>6, JoinMeets

LEMMA ProxyLacksNothing ==
  ASSUME NEW f, f.kind = "proxy", RulesHold(f), Chosen(f.kind, f.v), Invalid(f) = {}
  PROVE  Meets(OptionsOf(f.kind, f.v, f.shown))
<1> DEFINE v == f.v
<1>1. f.kind \in DOMAIN FieldsOf /\ FieldsOf[f.kind] = ProxyFields
  BY FieldsOfKinds
<1>2. Given(v.proxy_listen)
  <2>1. "proxy_listen" \in f.shown
    BY ProxyShows
  <2>2. Has(FieldsOf[f.kind], "proxy_listen", "must")
    BY <1>1, ProxyFieldsAre
  <2>4. "proxy_listen" \in f.shown => Given(v["proxy_listen"])
    BY <1>1, <2>2, Filled
  <2> QED
    BY <2>1, <2>4
<1>3. Given(v.proxy_target)
  <2>1. "proxy_target" \in f.shown
    BY ProxyShows
  <2>2. Has(FieldsOf[f.kind], "proxy_target", "must")
    BY <1>1, ProxyFieldsAre
  <2>4. "proxy_target" \in f.shown => Given(v["proxy_target"])
    BY <1>1, <2>2, Filled
  <2> QED
    BY <2>1, <2>4
<1>4. Meets([listen |-> v.proxy_listen, target |-> v.proxy_target, aggressive |-> v.proxy_aggressive])
  BY <1>2, <1>3 DEF Meets, Whole, Needed
<1> QED
  BY <1>4 DEF OptionsOf, ProxyOptions

LEMMA PcapLacksNothing ==
  ASSUME NEW f, f.kind = "pcap", RulesHold(f), Chosen(f.kind, f.v), Invalid(f) = {}
  PROVE  Meets(OptionsOf(f.kind, f.v, f.shown))
<1> DEFINE v == f.v
<1>1. f.kind \in DOMAIN FieldsOf /\ FieldsOf[f.kind] = PcapFields
  BY FieldsOfKinds
<1>2. Given(v.pcap_file)
  <2>1. "pcap_file" \in f.shown
    BY PcapShows
  <2>2. Has(FieldsOf[f.kind], "pcap_file", "pick")
    BY <1>1, PcapFieldsAre
  <2>3. ~ Suggests(f, "pcap_file")
    BY DEF Suggests
  <2>4. "pcap_file" \in f.shown => Given(v["pcap_file"])
    BY <1>1, <2>2, <2>3, Filled
  <2> QED
    BY <2>1, <2>4
<1>3. Meets([file |-> v.pcap_file, aggressive |-> v.pcap_aggressive])
  BY <1>2 DEF Meets, Whole, Needed
<1> QED
  BY <1>3 DEF OptionsOf, PcapOptions

LEMMA NothingLacks ==
  ASSUME NEW f, f.kind \in DOMAIN FieldsOf, RulesHold(f), Chosen(f.kind, f.v), Invalid(f) = {}, ~ Refused(f)
  PROVE  /\ ~ Lacks(OptionsOf(f.kind, f.v, f.shown))
         /\ f.kind # "bundle" => "aliases" \notin DOMAIN OptionsOf(f.kind, f.v, f.shown)
<1> DEFINE o == OptionsOf(f.kind, f.v, f.shown)
<1>1. f.kind = "remote" => Whole(ClientOptions(f.v))
  BY LacksNothing, Zenon DEF Refused
<1>2. CASE f.kind = "bundle"
  <2>1. Whole(o)
    BY <1>2, BundleLacksNothing
  <2> QED
    BY <1>2, <2>1, LacksNothing
<1>3. CASE f.kind # "bundle"
  <2>1. Meets(o)
    BY <1>1, <1>3, FieldsOfKinds, CreateKeyLacksNothing, CreateCertLacksNothing, CreateCSRLacksNothing,
       SignCSRLacksNothing, RenewLacksNothing, ConvertLacksNothing, ExtractLacksNothing, ExtractItemLacksNothing,
       ReencryptLacksNothing, RemovePassphraseLacksNothing, RemoteLacksNothing, ProxyLacksNothing, PcapLacksNothing
  <2>2. Whole(o) /\ "aliases" \notin DOMAIN o
    BY <2>1 DEF Meets
  <2> HIDE DEF o
  <2>3. ~ Lacks(o)
    BY <2>2, LacksNothing
  <2> QED
    BY <2>2, <2>3 DEF o
<1> QED
  BY <1>2, <1>3

LEMMA ThePasswordWasConfirmed ==
  ASSUME NEW f, f.kind = "reencrypt", RulesHold(f), Chosen(f.kind, f.v), Invalid(f) = {},
         "password" \in DOMAIN OptionsOf(f.kind, f.v, f.shown)
  PROVE  OptionsOf(f.kind, f.v, f.shown).password = f.v.confirm_password
<1> DEFINE v == f.v
           O == NewFileOptions(v)
           asked == v.remove_password # "true"
           P == [password |-> v.new_password]
<1>1. f.kind \in DOMAIN FieldsOf /\ FieldsOf[f.kind] = ReencryptFields
  BY FieldsOfKinds
<1>2. asked => "confirm_password" \in f.shown
  BY ReencryptShows
<1>3. Has(FieldsOf[f.kind], "confirm_password", "confirm")
  BY <1>1, ReencryptFieldsAre
<1>4. asked => v["confirm_password"] = v.new_password
  BY <1>1, <1>2, <1>3, Filled
<1>5. DOMAIN O = {"output"}
  BY Zenon DEF NewFileOptions
<1>6. OptionsOf(f.kind, v, f.shown) = O ++ When(asked, P)
  <2>1. OptionsOf(f.kind, v, f.shown) = ReencryptOptions(v)
    BY DEF OptionsOf
  <2> QED
    BY <2>1, Zenon DEF ReencryptOptions
<1>7. P.password = v.new_password /\ DOMAIN P = {"password"} /\ DOMAIN <<>> = {}
  OBVIOUS
<1> HIDE DEF O, P, asked
<1>8. DOMAIN (O ++ When(asked, P)) = DOMAIN O \union DOMAIN When(asked, P)
  BY DEF ++
<1>9. asked
  BY <1>5, <1>6, <1>7, <1>8 DEF When
<1>10. When(asked, P) = P
  BY <1>9 DEF When
<1>11. (O ++ P)["password"] = P["password"]
  BY <1>5, <1>7 DEF ++
<1> QED
  BY <1>4, <1>6, <1>7, <1>9, <1>10, <1>11

LEMMA TheAliasesDiffer ==
  ASSUME NEW f, f.kind = "bundle", RulesHold(f), Invalid(f) = {}, "aliases" \in DOMAIN OptionsOf(f.kind, f.v,
           f.shown)
  PROVE  /\ AliasesDiffer(f)
         /\ OptionsOf(f.kind, f.v, f.shown).aliases = f.v.item_aliases
<1> DEFINE v == f.v
           O == EncodeOptions(v)
           P == [aliases |-> v.item_aliases]
           jks == v.format = "JKS"
           A == [format |-> v.format, output |-> v.output]
           B == [outputPassword |-> v.password]
           C == [legacy |-> v.legacy]
           Names(o) == "aliases" \in DOMAIN o
<1>1. f.kind \in DOMAIN FieldsOf /\ FieldsOf[f.kind] = BundleFields
  BY FieldsOfKinds
<1>2. "item_aliases" \in f.shown
  BY BundleShows
<1>3. Has(FieldsOf[f.kind], "item_aliases", "aliases")
  BY <1>1, BundleFieldsAre
<1>4. jks => AliasesDiffer(f)
  BY <1>1, <1>2, <1>3, Filled
<1>5. ~ Names(A) /\ ~ Names(B) /\ ~ Names(C) /\ ~ Names(<<>>) /\ P.aliases = v.item_aliases /\ Names(P)
  OBVIOUS
<1>6. \A g, h : ~ Names(g) /\ ~ Names(h) => ~ Names(g ++ h)
  BY DEF ++
<1>7. O = A ++ When(v.format \in {"PKCS#12", "JKS"}, B) ++ When(v.format = "PKCS#12", C)
  BY Zenon DEF EncodeOptions
<1>8. OptionsOf(f.kind, v, f.shown) = O ++ When(jks, P)
  <2>1. OptionsOf(f.kind, v, f.shown) = BundleOptions(v)
    BY DEF OptionsOf
  <2> QED
    BY <2>1, Zenon DEF BundleOptions
<1>9. \A g, h : ~ Names(g) /\ Names(h) => (g ++ h)["aliases"] = h["aliases"]
  BY DEF ++
<1> HIDE DEF A, B, C, O, P, jks
<1>10. Names(OptionsOf(f.kind, v, f.shown))
  OBVIOUS
<1> HIDE DEF Names
<1>11. ~ Names(O)
  BY <1>5, <1>6, <1>7 DEF When
<1>12. jks
  BY <1>5, <1>6, <1>8, <1>10, <1>11 DEF When
<1>13. When(jks, P) = P
  BY <1>12 DEF When
<1> QED
  BY <1>4, <1>5, <1>8, <1>9, <1>11, <1>12, <1>13

-----------------------------------------------------------------------------
(* The theorems.                                                             *)

\* What was sent, and what is asked to replace a file, is what the form still holds,
\* and nothing of it is invalid.
SentMeans ==
  formPhase \in {"sent", "overwrite", "done"} =>
    request.options = OptionsOf(form.kind, form.v, form.shown) /\ Invalid(form) = {}

LEMMA NextKeepsSent ==
  ASSUME SentMeans, FormNext
  PROVE  SentMeans'
<1>1. CASE Submit
  BY <1>1 DEF Submit, Editing, Sends, SentMeans
<1>2. CASE AnswerOverwrite
  BY <1>2 DEF AnswerOverwrite, Sends, SentMeans
<1>3. CASE FormResult
  BY <1>3 DEF FormResult, SentMeans
<1>4. CASE EscForm \/ AnswerDiscard
  BY <1>4 DEF EscForm, AnswerDiscard, SentMeans
<1>5. CASE TabForm \/ Arrow \/ Choose \/ TypeText \/ TypeRow \/ AddRow \/ RemoveRow \/ TypeAlias \/ PickFile
  <2>1. formPhase' = "edit"
    BY <1>5 DEF TabForm, Arrow, Choose, TypeText, TypeRow, AddRow, RemoveRow, TypeAlias, PickFile, Changes, Editing
  <2> QED
    BY <2>1 DEF SentMeans
<1> QED
  BY <1>1, <1>2, <1>3, <1>4, <1>5 DEF FormNext

FormInv == Settled(form) /\ SentMeans

LEMMA FormInvHolds == FormSpec => []FormInv
<1>1. FormInit => FormInv
  BY OpensSettled DEF FormInit, FormInv, SentMeans
<1>2. FormInv /\ [FormNext]_formVars => FormInv'
  <2> SUFFICES ASSUME FormInv, [FormNext]_formVars PROVE FormInv'
    OBVIOUS
  <2>1. CASE FormNext
    BY <2>1, NextKeepsSettled, NextKeepsSent DEF FormInv
  <2>2. CASE UNCHANGED formVars
    BY <2>2 DEF formVars, FormInv, SentMeans
  <2> QED
    BY <2>1, <2>2
<1> QED
  BY <1>1, <1>2, PTL DEF FormSpec

\* After every key of every form the focus is on a field that takes it, the row of a list
\* exists, what is shown is what the rules say of the values, and a value that is hidden
\* does not reach the operation (evaluateVisibility, form.go).
THEOREM FormIsSettled == FormSpec => []FormSettled
<1>1. FormInv => FormSettled
  BY SettledForm DEF FormInv
<1> QED
  BY <1>1, FormInvHolds, PTL

\* One step of an open form that ends in an operation, or asks it again.
LEMMA StepIsMeant ==
  ASSUME FormInv, FormNext
  PROVE  /\ formPhase' = "done" =>
              /\ ~ Lacks(request.options)
              /\ form.kind = "reencrypt" /\ "password" \in DOMAIN request.options =>
                   request.options.password = form.v.confirm_password
              /\ "aliases" \in DOMAIN request.options =>
                   \A i, k \in Aliasable(form) : i # k =>
                     LowerCase(request.options.aliases[i]) # LowerCase(request.options.aliases[k])
         /\ formPhase' = "sent" /\ request'.overwrite =>
              formPhase = "overwrite" /\ request'.options = request.options
<1> DEFINE o == OptionsOf(form.kind, form.v, form.shown)
<1>1. form.kind \in DOMAIN FieldsOf /\ RulesHold(form) /\ Chosen(form.kind, form.v)
  BY DEF FormInv, Settled, Core
<1>2. CASE formPhase' = "done"
  <2>1. FormResult
    BY <1>2 DEF FormNext, TabForm, Arrow, Choose, TypeText, TypeRow, AddRow, RemoveRow, TypeAlias, PickFile,
       Changes,
                Editing, Submit, EscForm, AnswerDiscard, AnswerOverwrite, Sends
  <2>2. formPhase = "sent" /\ ~ Refused(form)
    BY <1>2, <2>1 DEF FormResult
  <2>3. request.options = o /\ Invalid(form) = {}
    BY <2>2 DEF FormInv, SentMeans
  <2>4. ~ Lacks(o) /\ (form.kind # "bundle" => "aliases" \notin DOMAIN o)
    BY <1>1, <2>2, <2>3, NothingLacks
  <2>5. form.kind = "reencrypt" /\ "password" \in DOMAIN o => o.password = form.v.confirm_password
    BY <1>1, <2>3, ThePasswordWasConfirmed
  <2>6. ASSUME "aliases" \in DOMAIN o, NEW i \in Aliasable(form), NEW k \in Aliasable(form), i # k
        PROVE  LowerCase(o.aliases[i]) # LowerCase(o.aliases[k])
    <3>1. AliasesDiffer(form) /\ o.aliases = form.v.item_aliases
      BY <1>1, <2>3, <2>4, <2>6, TheAliasesDiffer
    <3>2. LowerCase(form.v.item_aliases[i]) # LowerCase(form.v.item_aliases[k])
      BY <2>6, <3>1, Zenon DEF AliasesDiffer
    <3> QED
      BY <3>1, <3>2
  <2> HIDE DEF o
  <2> QED
    BY <1>2, <2>3, <2>4, <2>5, <2>6
<1>3. CASE formPhase' = "sent" /\ request'.overwrite
  <2>1. ~ Submit
    BY <1>3 DEF Submit, Editing, Sends
  <2>2. ~ FormResult
    BY <1>3 DEF FormResult
  <2>3. AnswerOverwrite
    BY <1>3, <2>1, <2>2 DEF FormNext, TabForm, Arrow, Choose, TypeText, TypeRow, AddRow, RemoveRow, TypeAlias,
                            PickFile, Changes, Editing, EscForm, AnswerDiscard
  <2>4. formPhase = "overwrite" /\ Sends(TRUE)
    BY <1>3, <2>3 DEF AnswerOverwrite
  <2> QED
    BY <1>3, <2>4 DEF Sends, FormInv, SentMeans
<1> QED
  BY <1>2, <1>3

\* What is carried out lacks nothing it needs, sets the password that was confirmed and gives
\* each certificate an alias of its own; a file is replaced only by the very request that was
\* refused because of it, after the answer (submitForm, handleFormResult, handleFileOverwrite).
THEOREM FormSubmitsWhatWasMeant == FormSpec => SubmitIsMeant
<1>1. FormInv /\ [FormNext]_formVars =>
        [/\ formPhase' = "done" =>
              /\ ~ Lacks(request.options)
              /\ form.kind = "reencrypt" /\ "password" \in DOMAIN request.options =>
                   request.options.password = form.v.confirm_password
              /\ "aliases" \in DOMAIN request.options =>
                   \A i, k \in Aliasable(form) : i # k =>
                     LowerCase(request.options.aliases[i]) # LowerCase(request.options.aliases[k])
         /\ formPhase' = "sent" /\ request'.overwrite =>
              formPhase = "overwrite" /\ request'.options = request.options]_formVars
  BY StepIsMeant
<1> QED
  BY <1>1, FormInvHolds, PTL DEF FormSpec, SubmitIsMeant

=============================================================================
