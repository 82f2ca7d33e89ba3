------------------------ MODULE DeliveryGatesProofs ------------------------
(***************************************************************************)
(* What gates a revision: for any set of StageSets, windows with any       *)
(* starts, budgets, answers and dependency graphs.                         *)
(***************************************************************************)
EXTENDS DeliveryGates, WellFoundedInduction, TLAPS

(* Numbers: a set of naturals has a least element, a bounded one a largest. *)

Below == {ss \in Nat \X Nat : ss[1] < ss[2]}

LEMMA BelowWellFounded == IsWellFoundedOn(Below, Nat)
BY NatLessThanWellFounded DEF OpToRel, Below

LEMMA LeastNatural == ASSUME NEW T, T \subseteq Nat, T # {} PROVE \E x \in T : \A y \in T : x <= y
<1>1. PICK x \in T : \A y \in T : ~ (<<y, x>> \in Below)
  BY WFMin, BelowWellFounded
<1>2. \A y \in T : ~(y < x)
  BY <1>1 DEF Below
<1> QED
  BY <1>2

LEMMA MinIsLeast == ASSUME NEW T, T \subseteq Nat, T # {} PROVE Min(T) \in T /\ \A y \in T : Min(T) <= y
BY LeastNatural DEF Min

LEMMA MaxIsLargest == ASSUME NEW T, T \subseteq Nat, T # {}, NEW b \in Nat, \A x \in T : x <= b
    PROVE  Max(T) \in T /\ \A y \in T : y <= Max(T)
<1> DEFINE D == {b - x : x \in T}
<1>1. D \subseteq Nat /\ D # {}
  <2>1. \A x \in T : x \in Nat /\ x <= b
    OBVIOUS
  <2>2. \A x \in T : b - x \in Nat
    BY <2>1
  <2> QED
    BY <2>2
<1>2. PICK d \in D : \A y \in D : d <= y
  <2> HIDE DEF D
  <2> QED
    BY <1>1, LeastNatural
<1>3. PICK x \in T : d = b - x
  BY <1>2
<1>4. \A y \in T : x >= y
  <2> TAKE y \in T
  <2>1. b - x <= b - y
    BY <1>2, <1>3
  <2> QED
    BY <2>1
<1>5. Max(T) \in T /\ \A y \in T : Max(T) >= y
  BY <1>4 DEF Max
<1>6. T \subseteq Int
  OBVIOUS
<1> QED
  BY <1>5, <1>6

-----------------------------------------------------------------------------
(* Windows.                                                                *)

\* What evaluating a window at t promises: whether it covers t, and that this
\* stays so up to the boundary, or for ever when there is none.
EvalSound(w, t) ==
    LET e == evalWindow(w, t) IN
    /\ (e.active <=> Covers(w, t))
    /\ e.boundary \in Nat \cup {NoTime} /\ (e.boundary # NoTime => e.boundary > t)
    /\ \A u \in Nat : t <= u /\ (e.boundary = NoTime \/ u < e.boundary) => (Covers(w, u) <=> Covers(w, t))

LEMMA NextStartSound == ASSUME NEW w, w.starts \subseteq Nat, NEW t \in Int
    PROVE  LET n == NextStart(w, t) IN
           \/ n = NoTime /\ \A s \in w.starts : s <= t
           \/ n \in w.starts /\ n > t /\ \A s \in w.starts : s > t => n <= s
<1> DEFINE later == {s \in w.starts : s > t}
<1>1. CASE later = {}
  BY <1>1 DEF NextStart
<1>2. CASE later # {}
  <2>1. later \subseteq Nat
    OBVIOUS
  <2>2. Min(later) \in later /\ \A y \in later : Min(later) <= y
    <3> HIDE DEF later
    <3> QED
      BY <1>2, <2>1, MinIsLeast
  <2>3. NextStart(w, t) = Min(later)
    BY <1>2 DEF NextStart
  <2> QED
    BY <2>2, <2>3
<1> QED
  BY <1>1, <1>2

LEMMA AbsoluteSound ==
    ASSUME NEW w, WindowForm(w), ~WindowInvalid(w), w.form = "absolute", NEW t \in Nat
    PROVE  EvalSound(w, t)
<1>1. w.from \in Nat /\ w.to \in Nat /\ w.from < w.to
  BY DEF WindowForm, WindowInvalid, NoTime
<1>2. evalWindow(w, t) = CASE t < w.from -> Active(FALSE, w.from)
                           [] t >= w.from /\ t < w.to -> Active(TRUE, w.to)
                           [] OTHER -> Active(FALSE, NoTime)
  BY DEF evalWindow, evalAbsolute
<1>3. \A u : Covers(w, u) <=> w.from <= u /\ u < w.to
  BY DEF Covers
<1>4. CASE t < w.from
  <2>1. evalWindow(w, t) = Active(FALSE, w.from)
    <3>1. ~(t >= w.from /\ t < w.to)
      BY <1>1, <1>4
    <3> QED
      BY <1>2, <1>4, <3>1
  <2>2. ~Covers(w, t) /\ \A u \in Nat : t <= u /\ u < w.from => ~Covers(w, u)
    BY <1>1, <1>3, <1>4
  <2> QED
    BY <1>1, <1>4, <2>1, <2>2 DEF EvalSound, Active, NoTime
<1>5. CASE t >= w.from /\ t < w.to
  <2>1. evalWindow(w, t) = Active(TRUE, w.to)
    <3>1. ~(t < w.from)
      BY <1>1, <1>5
    <3> QED
      BY <1>2, <1>5, <3>1
  <2>2. Covers(w, t) /\ \A u \in Nat : t <= u /\ u < w.to => Covers(w, u)
    BY <1>1, <1>3, <1>5
  <2> QED
    BY <1>1, <1>5, <2>1, <2>2 DEF EvalSound, Active, NoTime
<1>6. CASE t >= w.to
  <2>1. ~(t < w.from) /\ ~(t >= w.from /\ t < w.to)
    BY <1>1, <1>6
  <2>2. evalWindow(w, t) = Active(FALSE, NoTime)
    BY <1>2, <2>1
  <2>3. ~Covers(w, t) /\ \A u \in Nat : t <= u => ~Covers(w, u)
    BY <1>1, <1>3, <1>6
  <2> QED
    BY <2>2, <2>3 DEF EvalSound, Active, NoTime
<1> QED
  BY <1>1, <1>4, <1>5, <1>6

LEMMA RecurringSound ==
    ASSUME NEW w, WindowForm(w), ~WindowInvalid(w), w.form = "recurring", NEW t \in Nat
    PROVE  EvalSound(w, t)
<1>1. w.dur \in Nat /\ w.dur > 0 /\ w.starts \subseteq Nat
  BY DEF WindowForm, WindowInvalid
<1> DEFINE c == NextStart(w, t - w.dur)
           recent == {s \in w.starts : c <= s /\ s <= t}
<1>2. evalWindow(w, t) = CASE c = NoTime -> Active(FALSE, NoTime)
                           [] c > t -> Active(FALSE, c)
                           [] OTHER -> Active(TRUE, Max(recent) + w.dur)
  BY DEF evalWindow, evalRecurring
<1>3. \/ c = NoTime /\ \A s \in w.starts : s <= t - w.dur
      \/ c \in w.starts /\ c > t - w.dur /\ \A s \in w.starts : s > t - w.dur => c <= s
  BY <1>1, NextStartSound
<1> HIDE DEF c
<1>4. \A u : Covers(w, u) <=> \E s \in w.starts : s <= u /\ u < s + w.dur
  BY DEF Covers
<1>5. CASE c = NoTime
  <2>1. \A s \in w.starts : s <= t - w.dur
    BY <1>1, <1>3, <1>5 DEF NoTime
  <2>2. evalWindow(w, t) = Active(FALSE, NoTime)
    BY <1>2, <1>5
  <2>3. ASSUME NEW u \in Nat, t <= u, Covers(w, u) PROVE FALSE
    BY <1>1, <1>4, <2>1, <2>3
  <2> QED
    BY <2>2, <2>3 DEF EvalSound, Active, NoTime
<1>6. CASE c # NoTime /\ c > t
  <2>1. c \in w.starts /\ \A s \in w.starts : s > t - w.dur => c <= s
    BY <1>3, <1>6
  <2>2. evalWindow(w, t) = Active(FALSE, c)
    BY <1>2, <1>6
  <2>3. ASSUME NEW u \in Nat, t <= u, u < c, Covers(w, u) PROVE FALSE
    <3>1. PICK s \in w.starts : s <= u /\ u < s + w.dur
      BY <1>4, <2>3
    <3>2. s > t - w.dur
      BY <1>1, <2>3, <3>1
    <3> QED
      BY <1>1, <2>1, <2>3, <3>1, <3>2
  <2>4. c \in Nat
    BY <1>1, <2>1
  <2>5. ~Covers(w, t) /\ \A u \in Nat : t <= u /\ u < c => ~Covers(w, u)
    BY <1>6, <2>3, <2>4
  <2> QED
    BY <1>6, <2>2, <2>4, <2>5 DEF EvalSound, Active
<1>7. CASE c # NoTime /\ ~(c > t)
  <2>1. c \in w.starts /\ c > t - w.dur /\ c \in Nat /\ c <= t
    BY <1>1, <1>3, <1>7
  <2>2. Max(recent) \in recent /\ \A s \in recent : s <= Max(recent)
    <3>1. recent \subseteq Nat /\ c \in recent /\ \A s \in recent : s <= t
      BY <1>1, <2>1
    <3> HIDE DEF recent
    <3> QED
      BY <3>1, MaxIsLargest
  <2> DEFINE m == Max(recent)
  <2>3. evalWindow(w, t) = Active(TRUE, m + w.dur)
    BY <1>2, <1>7
  <2>4. m \in w.starts /\ m \in Nat /\ c <= m /\ m <= t
    BY <1>1, <2>2
  <2> HIDE DEF m
  <2>5. ASSUME NEW u \in Nat, t <= u, u < m + w.dur PROVE Covers(w, u)
    BY <1>1, <1>4, <2>4, <2>5
  <2>6. t < m + w.dur /\ m + w.dur \in Nat
    BY <1>1, <2>1, <2>4
  <2>7. Covers(w, t) /\ \A u \in Nat : t <= u /\ u < m + w.dur => Covers(w, u)
    BY <2>5, <2>6
  <2> QED
    BY <2>3, <2>6, <2>7 DEF EvalSound, Active, NoTime
<1> QED
  BY <1>5, <1>6, <1>7

LEMMA WindowSound == ASSUME NEW w, WindowForm(w), ~WindowInvalid(w), NEW t \in Nat PROVE EvalSound(w, t)
<1>1. w.form \in {"absolute", "recurring"}
  BY DEF WindowInvalid
<1> QED
  BY <1>1, AbsoluteSound, RecurringSound

-----------------------------------------------------------------------------
(* The windows together.                                                   *)

\* A list of windows that make sense.
GoodWindows(ws) ==
    /\ Len(ws) \in Nat /\ DOMAIN ws = 1 .. Len(ws)
    /\ \A i \in DOMAIN ws : WindowForm(ws[i]) /\ ~WindowInvalid(ws[i])

\* The decision taken at t stays the same from t up to a boundary, for ever when it is NoTime.
SameUntil(ws, t, boundary) ==
    \A u \in Nat : t <= u /\ (boundary = NoTime \/ u < boundary) => (Allowed(ws, u) <=> Allowed(ws, t))

\* The decision is the one the windows mean, and lasts up to the first boundary.
LEMMA DecisionAtSound == ASSUME NEW ws, GoodWindows(ws), NEW t \in Nat
    PROVE  LET d == decisionAt(ws, t) IN
           /\ d.allowed <=> Allowed(ws, t)
           /\ d.next \in Nat \cup {NoTime} /\ (d.next # NoTime => d.next > t)
           /\ SameUntil(ws, t, d.next)
<1> DEFINE e(i) == evalWindow(ws[i], t)
           ahead == {e(i).boundary : i \in DOMAIN ws} \ {NoTime}
           d == decisionAt(ws, t)
<1>1. \A i \in DOMAIN ws : EvalSound(ws[i], t)
  BY WindowSound DEF GoodWindows
<1>2. d.allowed <=> /\ ~\E i \in DOMAIN ws : ws[i].type = "Deny" /\ e(i).active
                    /\ (\E i \in DOMAIN ws : ws[i].type = "Allow") =>
                            \E i \in DOMAIN ws : ws[i].type = "Allow" /\ e(i).active
  BY DEF decisionAt
<1>3. d.next = IF ahead = {} THEN NoTime ELSE Min(ahead)
  <2>1. {[j \in DOMAIN ws |-> evalWindow(ws[j], t)][i].boundary : i \in DOMAIN ws}
            = {evalWindow(ws[i], t).boundary : i \in DOMAIN ws}
    OBVIOUS
  <2> QED
    BY <2>1 DEF decisionAt
<1>4. \A i \in DOMAIN ws : e(i).active <=> Covers(ws[i], t)
  BY <1>1 DEF EvalSound
<1>5. d.allowed <=> Allowed(ws, t)
  BY <1>2, <1>4 DEF Allowed
<1>6. ahead \subseteq Nat /\ \A b \in ahead : b > t
  BY <1>1 DEF EvalSound
<1>7. \A i \in DOMAIN ws : e(i).boundary = NoTime \/ e(i).boundary \in ahead
  OBVIOUS
<1> HIDE DEF d, ahead
<1>8. /\ d.next \in Nat \cup {NoTime} /\ (d.next # NoTime => d.next > t)
      /\ \A b \in ahead : d.next # NoTime /\ d.next <= b
  <2>1. CASE ahead = {}
    BY <1>3, <2>1
  <2>2. CASE ahead # {}
    <3>1. d.next \in ahead /\ \A b \in ahead : d.next <= b
      BY <1>3, <1>6, <2>2, MinIsLeast
    <3> QED
      <4>1. d.next \in Nat /\ d.next > t
        BY <1>6, <3>1
      <4>2. d.next # NoTime
        BY <4>1 DEF NoTime
      <4> QED
        BY <3>1, <4>1, <4>2
  <2> QED
    BY <2>1, <2>2
<1>9. ASSUME NEW u \in Nat, t <= u, d.next = NoTime \/ u < d.next PROVE Allowed(ws, u) <=> Allowed(ws, t)
  <2>1. ASSUME NEW i \in DOMAIN ws PROVE Covers(ws[i], u) <=> Covers(ws[i], t)
    <3>1. e(i).boundary = NoTime \/ u < e(i).boundary
      <4>1. CASE e(i).boundary \in ahead
        <5> DEFINE b == e(i).boundary
        <5>1. b \in Nat /\ d.next \in Nat /\ d.next # NoTime /\ d.next <= b
          BY <1>6, <1>8, <4>1
        <5> HIDE DEF b
        <5>2. u < b
          BY <1>9, <5>1
        <5> QED
          BY <5>2 DEF b
      <4> QED
        BY <1>7, <4>1
    <3> QED
      BY <1>1, <1>9, <3>1 DEF EvalSound
  <2> QED
    BY <2>1 DEF Allowed
<1>10. SameUntil(ws, t, d.next)
  BY <1>9 DEF SameUntil
<1> QED
  BY <1>5, <1>8, <1>10 DEF d

\* The boundaries of a list of windows, one after the other, are what their recursion says.
WalkTo(ws, now, k, f) ==
    /\ f \in [0 .. k -> Nat \cup {NoTime}]
    /\ \A n \in 0 .. k : f[n] = IF n = 0 THEN now ELSE Onward(ws, f[n - 1])

LEMMA OnwardType == ASSUME NEW ws, GoodWindows(ws), NEW t \in Nat \cup {NoTime}
    PROVE  Onward(ws, t) \in Nat \cup {NoTime}
BY DecisionAtSound DEF Onward

LEMMA WalkExists == ASSUME NEW ws, GoodWindows(ws), NEW now \in Nat
    PROVE  \A k \in Nat : \E f : WalkTo(ws, now, k, f)
<1> DEFINE Without == {k \in Nat : ~\E f : WalkTo(ws, now, k, f)}
<1>1. SUFFICES ASSUME Without # {} PROVE FALSE
  OBVIOUS
<1>2. PICK k \in Without : \A y \in Without : k <= y
  <2>1. Without \subseteq Nat
    OBVIOUS
  <2> HIDE DEF Without
  <2> QED
    BY <1>1, <2>1, LeastNatural
<1>3. k # 0
  <2>1. WalkTo(ws, now, 0, [n \in 0 .. 0 |-> now])
    BY DEF WalkTo
  <2> QED
    BY <2>1
<1>4. k - 1 \in Nat /\ k - 1 \notin Without
  BY <1>2, <1>3
<1>5. PICK f : WalkTo(ws, now, k - 1, f)
  BY <1>4
<1> DEFINE g == [n \in 0 .. k |-> IF n = k THEN Onward(ws, f[k - 1]) ELSE f[n]]
<1>6. WalkTo(ws, now, k, g)
  <2>1. k \in Nat /\ k # 0 /\ f \in [0 .. k - 1 -> Nat \cup {NoTime}] /\ f[k - 1] \in Nat \cup {NoTime}
    BY <1>3, <1>4, <1>5 DEF WalkTo
  <2>2. g \in [0 .. k -> Nat \cup {NoTime}]
    <3>1. Onward(ws, f[k - 1]) \in Nat \cup {NoTime}
      BY <2>1, OnwardType
    <3>2. \A n \in 0 .. k : n # k => f[n] \in Nat \cup {NoTime}
      BY <2>1
    <3> QED
      BY <3>1, <3>2
  <2>3. ASSUME NEW n \in 0 .. k PROVE g[n] = IF n = 0 THEN now ELSE Onward(ws, g[n - 1])
    <3>1. CASE n = k
      BY <3>1, <2>1
    <3>2. CASE n # k
      <4>1. n \in 0 .. k - 1
        BY <3>2, <2>1
      <4>2. f[n] = IF n = 0 THEN now ELSE Onward(ws, f[n - 1])
        BY <4>1, <1>5 DEF WalkTo
      <4> QED
        BY <4>1, <4>2, <2>1
    <3> QED
      BY <3>1, <3>2
  <2> HIDE DEF g
  <2> QED
    BY <2>2, <2>3 DEF WalkTo
<1> QED
  BY <1>2, <1>6

LEMMA WalkRecursion == ASSUME NEW ws, GoodWindows(ws), NEW now \in Nat
    PROVE  \A n \in 0 .. Steps(ws) : Walk(ws, now)[n] = IF n = 0 THEN now ELSE Onward(ws, Walk(ws, now)[n - 1])
<1> DEFINE Def(f) == [n \in 0 .. Steps(ws) |-> IF n = 0 THEN now ELSE Onward(ws, f[n - 1])]
<1>1. PICK f : WalkTo(ws, now, Steps(ws), f)
  BY WalkExists DEF Steps, GoodWindows
<1>2. f = Def(f)
  BY <1>1 DEF WalkTo
<1>3. Walk(ws, now) = CHOOSE h : h = Def(h)
  BY DEF Walk
<1>4. Walk(ws, now) = Def(Walk(ws, now))
  <2> HIDE DEF Def
  <2> QED
    BY <1>2, <1>3
<1> DEFINE h == Walk(ws, now)
<1> HIDE DEF h
<1> QED
  BY <1>4 DEF h

LEMMA WalkType == ASSUME NEW ws, GoodWindows(ws), NEW now \in Nat, NEW n \in 0 .. Steps(ws)
    PROVE  Walk(ws, now)[n] \in Nat \cup {NoTime}
<1> DEFINE w == Walk(ws, now)
           Odd == {k \in 0 .. Steps(ws) : w[k] \notin Nat \cup {NoTime}}
<1>1. Steps(ws) \in Nat
  BY DEF Steps, GoodWindows
<1>2. SUFFICES ASSUME Odd # {} PROVE FALSE
  OBVIOUS
<1>3. PICK k \in Odd : \A y \in Odd : k <= y
  <2>1. Odd \subseteq Nat
    BY <1>1
  <2> HIDE DEF Odd
  <2> QED
    BY <1>2, <2>1, LeastNatural
<1>4. \A i \in 0 .. Steps(ws) : w[i] = IF i = 0 THEN now ELSE Onward(ws, w[i - 1])
  BY WalkRecursion
<1>5. k # 0
  BY <1>1, <1>3, <1>4
<1>6. k - 1 \in 0 .. Steps(ws) /\ ~(k <= k - 1)
  BY <1>1, <1>3, <1>5
<1>7. w[k - 1] \in Nat \cup {NoTime}
  BY <1>3, <1>6
<1> HIDE DEF w
<1> QED
  BY <1>3, <1>4, <1>5, <1>7, OnwardType

\* As long as no boundary flips the decision, it has not changed since now.
LEMMA WalkSound == ASSUME NEW ws, GoodWindows(ws), NEW now \in Nat
    PROVE  \A n \in 0 .. Steps(ws) :
             LET w == Walk(ws, now) IN
             /\ w[n] # NoTime
             /\ \A j \in 1 .. n - 1 : w[j] # NoTime => (Allowed(ws, w[j]) <=> Allowed(ws, now))
             => w[n] \in Nat /\ w[n] >= now /\ (n > 0 => w[n] > now) /\ SameUntil(ws, now, w[n])
<1> DEFINE w == Walk(ws, now)
           Quiet(n) == \A j \in 1 .. n - 1 : w[j] # NoTime => (Allowed(ws, w[j]) <=> Allowed(ws, now))
           Sound(n) == w[n] \in Nat /\ w[n] >= now /\ (n > 0 => w[n] > now) /\ SameUntil(ws, now, w[n])
           Odd == {n \in 0 .. Steps(ws) : w[n] # NoTime /\ Quiet(n) /\ ~Sound(n)}
<1>1. Steps(ws) \in Nat
  BY DEF Steps, GoodWindows
<1>2. SUFFICES ASSUME Odd # {} PROVE FALSE
  OBVIOUS
<1>3. PICK k \in Odd : \A y \in Odd : k <= y
  <2>1. Odd \subseteq Nat
    BY <1>1
  <2> HIDE DEF Odd
  <2> QED
    BY <1>2, <2>1, LeastNatural
<1>4. k \in 0 .. Steps(ws) /\ w[k] # NoTime /\ Quiet(k) /\ ~Sound(k)
  BY <1>3
<1>5. \A n \in 0 .. Steps(ws) : w[n] = IF n = 0 THEN now ELSE Onward(ws, w[n - 1])
  BY WalkRecursion
<1>6. k # 0
  <2>1. ASSUME k = 0 PROVE w[k] = now
    BY <1>1, <1>5, <2>1
  <2>2. ASSUME k = 0 PROVE SameUntil(ws, now, now)
    BY DEF SameUntil, NoTime
  <2> QED
    BY <1>4, <2>1, <2>2
<1> DEFINE p == w[k - 1]
<1>7. k - 1 \in 0 .. Steps(ws) /\ k \in Nat /\ k - 1 < k /\ ~(k <= k - 1)
  BY <1>1, <1>4, <1>6
<1>8. p # NoTime /\ w[k] = decisionAt(ws, p).next
  BY <1>4, <1>5, <1>6 DEF Onward
<1>9. Quiet(k - 1)
  <2>1. 1 .. (k - 1) - 1 \subseteq 1 .. k - 1
    BY <1>7
  <2> QED
    BY <1>4, <2>1
<1>10. Sound(k - 1)
  BY <1>3, <1>7, <1>8, <1>9
<1>11. Allowed(ws, p) <=> Allowed(ws, now)
  <2>1. CASE k - 1 = 0
    BY <1>1, <1>5, <2>1
  <2>2. CASE k - 1 # 0
    <3>1. k - 1 \in 1 .. k - 1
      BY <1>7, <2>2
    <3> QED
      BY <1>4, <1>8, <3>1
  <2> QED
    BY <2>1, <2>2
<1> DEFINE q == w[k]
<1>12. p \in Nat /\ p >= now /\ SameUntil(ws, now, p)
  BY <1>10
<1> HIDE DEF w, p, q
<1>13. q \in Nat \cup {NoTime} /\ (q # NoTime => q > p) /\ SameUntil(ws, p, q)
  BY <1>8, <1>12, DecisionAtSound DEF p, q
<1>14. q \in Nat /\ q > p /\ q > now
  BY <1>4, <1>12, <1>13 DEF q
<1>15. SameUntil(ws, now, q)
  BY <1>8, <1>11, <1>12, <1>13, <1>14 DEF SameUntil
<1> QED
  BY <1>4, <1>14, <1>15 DEF q

\* What Decision answers: the decision now, and how long it lasts at least.
LEMMA DecisionSound == ASSUME NEW ws, GoodWindows(ws), NEW now \in Nat
    PROVE  LET d == Decision(ws, now) IN
           /\ d.allowed <=> Allowed(ws, now)
           /\ d.next # NoTime => d.next \in Nat /\ d.next > now /\ SameUntil(ws, now, d.next)
<1> DEFINE first == decisionAt(ws, now)
           w == Walk(ws, now)
           flips == {i \in 1 .. Steps(ws) : w[i] # NoTime /\ decisionAt(ws, w[i]).allowed # first.allowed}
           ends == {i \in 1 .. Steps(ws) : w[i] = NoTime}
           d == Decision(ws, now)
<1>1. /\ d.allowed = first.allowed
      /\ d.next = CASE flips # {} -> w[Min(flips)]
                    [] flips = {} /\ ends # {} -> NoTime
                    [] OTHER -> first.next
  BY DEF Decision
<1>2. /\ first.allowed <=> Allowed(ws, now)
      /\ first.next \in Nat \cup {NoTime} /\ (first.next # NoTime => first.next > now)
      /\ SameUntil(ws, now, first.next)
  BY DecisionAtSound
<1>3. CASE flips # {}
  <2>1. flips \subseteq Nat
    BY DEF Steps
  <2> DEFINE m == Min(flips)
  <2>2. m \in flips /\ \A y \in flips : m <= y
    <3> HIDE DEF flips
    <3> QED
      BY <1>3, <2>1, MinIsLeast
  <2>3. d.next = w[m] /\ m \in 1 .. Steps(ws) /\ w[m] # NoTime /\ Steps(ws) \in Nat
    BY <1>1, <1>3, <2>2 DEF Steps, GoodWindows
  <2> HIDE DEF m
  <2>4. ASSUME NEW j \in 1 .. m - 1, w[j] # NoTime PROVE Allowed(ws, w[j]) <=> Allowed(ws, now)
    <3>1. j \in 1 .. Steps(ws) /\ j \notin flips
      BY <2>2, <2>3
    <3>2. decisionAt(ws, w[j]).allowed = first.allowed
      BY <2>4, <3>1
    <3>3. w[j] \in Nat
      <4>1. Steps(ws) \in Nat /\ j \in 0 .. Steps(ws)
        BY <2>3, <3>1
      <4> QED
        BY <2>4, <4>1, WalkType
    <3> QED
      BY <1>2, <3>2, <3>3, DecisionAtSound
  <2>5. m \in 0 .. Steps(ws) /\ m > 0
    BY <2>3
  <2>6. w[m] \in Nat /\ w[m] > now /\ SameUntil(ws, now, w[m])
    BY <2>3, <2>4, <2>5, WalkSound
  <2> QED
    BY <1>1, <1>2, <2>3, <2>6
<1>4. CASE flips = {} /\ ends # {}
  BY <1>1, <1>2, <1>4
<1>5. CASE flips = {} /\ ends = {}
  BY <1>1, <1>2, <1>5
<1> QED
  BY <1>3, <1>4, <1>5

-----------------------------------------------------------------------------
(* The invariant.                                                          *)

\* A handled token was set, a pass carries tokens at least as new as the handled
\* ones, what it used is newer, and what was ever spent is handled.
TokensOf(s) ==
    /\ handledUpdate[s] <= updateNow[s] /\ handledBudget[s] <= budgetOverride[s]
    /\ pass[s].at # "idle" =>
        /\ handledUpdate[s] <= pass[s].upd /\ pass[s].upd <= updateNow[s]
        /\ handledBudget[s] <= pass[s].bud /\ pass[s].bud <= budgetOverride[s]
    /\ \A u \in pass[s].used :
        /\ pass[s].at # "idle" /\ u[1] = s
        /\ u[2] = "update-now" => u[3] = pass[s].upd /\ handledUpdate[s] < u[3]
        /\ u[2] = "budget-override" => u[3] = pass[s].bud /\ handledBudget[s] < u[3]
Handled(u) == /\ u[2] = "update-now" => u[3] <= handledUpdate[u[1]]
              /\ u[2] = "budget-override" => u[3] <= handledBudget[u[1]]
TokensInv == (\A s \in StageSets : TokensOf(s)) /\ \A u \in spent : Handled(u)

\* A budget that is readable and too low since a freeze was saved still has its
\* freeze, and no pass of that StageSet is past the gate.
StarvedInv ==
    \A s \in StageSets : starved[s] =>
        /\ Budget[s] # NoBudget /\ ~BudgetInvalid(Budget[s]) /\ ~Budget[s].dryRun
        /\ freeze[s] /\ ~Lifts(s, answer[s]) /\ pass[s].at # "stage"

\* What is ready has delivered once, and so have the dependencies of a pass past their gate.
DepsInv ==
    \A s \in StageSets :
        /\ ready[s] => applied[s] # 0
        /\ pass[s].at \in {"window", "budget", "stage"} =>
            pass[s].rev \in Revisions /\ \A d \in pass[s].deps : applied[d] # 0

\* A pass past the windows was allowed by them, or used an override.
WindowInv ==
    \A s \in StageSets : pass[s].at \in {"budget", "stage"} /\ NewRevision(s) =>
        Allowed(Windows[s], pass[s].gateAt) \/ \E u \in pass[s].used : u[2] = "update-now"

\* A revision held by the windows is held by windows that make sense, and wakes in time.
WakeInv == WakesWhenWindowOpens /\ \A s \in StageSets : pending[s] # 0 => ~InvalidWindows(s)

GatesInv == TypeOK /\ TokensInv /\ StarvedInv /\ DepsInv /\ WindowInv /\ WakeInv

-----------------------------------------------------------------------------
(* Types.                                                                  *)

LEMMA MinOfTwo == ASSUME NEW a \in Nat, NEW b \in Nat PROVE Min({a, b}) \in {a, b} /\ Min({a, b}) <= a /\ Min({a, b}) <= b
BY MinIsLeast

LEMMA MaxOfTwo == ASSUME NEW a \in Nat, NEW b \in Nat PROVE Max({a, b}) = IF a <= b THEN b ELSE a
<1>1. PICK c \in Nat : c = IF a <= b THEN b ELSE a
  OBVIOUS
<1>2. Max({a, b}) \in {a, b} /\ \A y \in {a, b} : y <= Max({a, b})
  BY <1>1, MaxIsLargest
<1> QED
  BY <1>2

LEMMA QueryType == ASSUME NEW r \in Responses PROVE Query(r) \in Nat \cup {Unavailable}
<1>1. r.value \in Nat \cup {NotANumber}
  BY ConfigsAssumption
<1>2. sampleValue(r) \in Nat \cup {Unavailable}
  BY <1>1 DEF sampleValue
<1>3. scalarFromResult(r) \in Nat \cup {Unavailable} /\ scalarFromJSONPath(r) \in Nat \cup {Unavailable}
  BY <1>2 DEF scalarFromResult, scalarFromJSONPath
<1>4. queryPrometheus(r) \in Nat \cup {Unavailable} /\ queryWebhook(r) \in Nat \cup {Unavailable}
  BY <1>3 DEF queryPrometheus, queryWebhook
<1>5. CASE r.provider = "prometheus"
  BY <1>4, <1>5 DEF Query
<1>6. CASE r.provider = "webhook"
  BY <1>4, <1>6 DEF Query
<1>7. CASE r.provider \notin {"prometheus", "webhook"}
  <2>1. r.provider # "prometheus" /\ r.provider # "webhook"
    BY <1>7
  <2>2. Query(r) = Unavailable
    BY <2>1 DEF Query
  <2> QED
    BY <2>2
<1> QED
  BY <1>5, <1>6, <1>7

Reasons == {"InvalidSpec", "BudgetSourceUnavailable", "BudgetExhausted"}

LEMMA BudgetGateType ==
    ASSUME NEW eb, BudgetForm(eb), NEW was \in BOOLEAN, NEW r, NEW keep \in BOOLEAN
    PROVE  LET g == BudgetGate(eb, was, r, keep) IN
           /\ g.hold \in BOOLEAN /\ g.freeze \in BOOLEAN /\ (g.hold => g.reason \in Reasons)
<1> DEFINE v == evaluateBudget(eb, was, r)
           wet == ~eb.dryRun
           g == BudgetGate(eb, was, r, keep)
<1>1. g = CASE v = "specErr" -> [hold |-> TRUE, reason |-> "InvalidSpec", freeze |-> was]
            [] v = "sourceErr" /\ eb.onSourceError = "Hold" ->
                 [hold |-> TRUE, reason |-> "BudgetSourceUnavailable", freeze |-> was /\ keep]
            [] v = "sourceErr" /\ eb.onSourceError # "Hold" -> [hold |-> FALSE, reason |-> "", freeze |-> FALSE]
            [] v = "open" -> [hold |-> FALSE, reason |-> "", freeze |-> FALSE]
            [] OTHER -> [hold |-> wet, reason |-> "BudgetExhausted", freeze |-> TRUE]
  BY DEF BudgetGate
<1>2. wet \in BOOLEAN
  BY DEF BudgetForm
<1>3. (was /\ keep) \in BOOLEAN
  OBVIOUS
<1> SUFFICES g.hold \in BOOLEAN /\ g.freeze \in BOOLEAN /\ (g.hold => g.reason \in Reasons)
  OBVIOUS
<1> HIDE DEF v, wet, g
<1>4. CASE v = "specErr"
  <2>1. g = [hold |-> TRUE, reason |-> "InvalidSpec", freeze |-> was]
    BY <1>1, <1>4
  <2> QED
    BY <2>1 DEF Reasons
<1>5. CASE v = "sourceErr" /\ eb.onSourceError = "Hold"
  <2>1. g = [hold |-> TRUE, reason |-> "BudgetSourceUnavailable", freeze |-> was /\ keep]
    BY <1>1, <1>5
  <2> QED
    BY <2>1 DEF Reasons
<1>6. CASE (v = "sourceErr" /\ eb.onSourceError # "Hold") \/ v = "open"
  <2>1. g = [hold |-> FALSE, reason |-> "", freeze |-> FALSE]
    BY <1>1, <1>6
  <2> QED
    BY <2>1
<1>7. CASE v \notin {"specErr", "sourceErr", "open"}
  <2>1. g = [hold |-> wet, reason |-> "BudgetExhausted", freeze |-> TRUE]
    BY <1>1, <1>7
  <2> QED
    BY <1>2, <2>1 DEF Reasons
<1> QED
  BY <1>4, <1>5, <1>6, <1>7

LEMMA BudgetForms == ASSUME TypeOK, NEW s \in StageSets
    PROVE  /\ Budget[s] # NoBudget => BudgetForm(Budget[s])
           /\ StageBudget[s] # NoBudget => BudgetForm(StageBudget[s])
BY ConfigsAssumption DEF TypeOK, Budget, StageBudget

LEMMA GateTypes == ASSUME TypeOK, NEW s \in StageSets, NEW p
    PROVE  /\ LET g == gateErrorBudget(s, p) IN
              g.hold \in BOOLEAN /\ g.freeze \in BOOLEAN /\ (g.hold => g.reason \in Reasons)
           /\ LET g == gateStageBudget(s, p) IN
              g.hold \in BOOLEAN /\ g.freeze \in BOOLEAN /\ (g.hold => g.reason \in Reasons)
<1>1. freeze[s] \in BOOLEAN /\ stageFreeze[s] \in BOOLEAN
  BY DEF TypeOK
<1>2. LET g == gateErrorBudget(s, p) IN
      g.hold \in BOOLEAN /\ g.freeze \in BOOLEAN /\ (g.hold => g.reason \in Reasons)
  <2>1. CASE Budget[s] = NoBudget \/ p.override \/ applied[s] = p.rev
    BY <2>1 DEF gateErrorBudget, Verdict
  <2>2. CASE ~(Budget[s] = NoBudget \/ p.override \/ applied[s] = p.rev)
    <3>1. gateErrorBudget(s, p) = BudgetGate(Budget[s], freeze[s], answer[s], TRUE)
      BY <2>2 DEF gateErrorBudget
    <3>2. BudgetForm(Budget[s])
      BY <2>2, BudgetForms
    <3>3. LET g == BudgetGate(Budget[s], freeze[s], answer[s], TRUE) IN
          g.hold \in BOOLEAN /\ g.freeze \in BOOLEAN /\ (g.hold => g.reason \in Reasons)
      <4> DEFINE keep == TRUE
                 was == freeze[s]
      <4>1. keep \in BOOLEAN /\ was \in BOOLEAN
        BY <1>1
      <4> HIDE DEF keep, was
      <4>2. LET g == BudgetGate(Budget[s], was, answer[s], keep) IN
            g.hold \in BOOLEAN /\ g.freeze \in BOOLEAN /\ (g.hold => g.reason \in Reasons)
        BY <3>2, <4>1, BudgetGateType
      <4> QED
        BY <4>2 DEF keep, was
    <3> QED
      BY <3>1, <3>3
  <2> QED
    BY <2>1, <2>2
<1>3. LET g == gateStageBudget(s, p) IN
      g.hold \in BOOLEAN /\ g.freeze \in BOOLEAN /\ (g.hold => g.reason \in Reasons)
  <2>1. CASE StageBudget[s] = NoBudget \/ p.override \/ entered[s] = p.rev
    BY <2>1 DEF gateStageBudget, Verdict
  <2>2. CASE ~(StageBudget[s] = NoBudget \/ p.override \/ entered[s] = p.rev)
    <3>1. gateStageBudget(s, p) = BudgetGate(StageBudget[s], stageFreeze[s], answer[s], FALSE)
      BY <2>2 DEF gateStageBudget
    <3>2. BudgetForm(StageBudget[s])
      BY <2>2, BudgetForms
    <3>3. LET g == BudgetGate(StageBudget[s], stageFreeze[s], answer[s], FALSE) IN
          g.hold \in BOOLEAN /\ g.freeze \in BOOLEAN /\ (g.hold => g.reason \in Reasons)
      <4> DEFINE keep == FALSE
                 was == stageFreeze[s]
      <4>1. keep \in BOOLEAN /\ was \in BOOLEAN
        BY <1>1
      <4> HIDE DEF keep, was
      <4>2. LET g == BudgetGate(StageBudget[s], was, answer[s], keep) IN
            g.hold \in BOOLEAN /\ g.freeze \in BOOLEAN /\ (g.hold => g.reason \in Reasons)
        BY <3>2, <4>1, BudgetGateType
      <4> QED
        BY <4>2 DEF keep, was
    <3> QED
      BY <3>1, <3>3
  <2> QED
    BY <2>1, <2>2
<1> QED
  BY <1>2, <1>3

\* The windows of a StageSet that are not invalid, and the decision of this tick.
LEMMA WindowsGood == ASSUME TypeOK, NEW s \in StageSets, ~InvalidWindows(s) PROVE GoodWindows(Windows[s])
<1>1. /\ Windows[s] \in Seq(Range(Windows[s]))
      /\ \A i \in DOMAIN Windows[s] : WindowForm(Windows[s][i])
  BY ConfigsAssumption DEF TypeOK, Windows
<1>2. Len(Windows[s]) \in Nat /\ DOMAIN Windows[s] = 1 .. Len(Windows[s])
  <2> DEFINE ws == Windows[s]
             R == Range(ws)
  <2>1. ws \in Seq(R)
    BY <1>1
  <2> HIDE DEF ws, R
  <2>2. Len(ws) \in Nat /\ DOMAIN ws = 1 .. Len(ws)
    BY <2>1
  <2> QED
    BY <2>2 DEF ws
<1> QED
  BY <1>1, <1>2 DEF GoodWindows, InvalidWindows

LEMMA DecidedSound == ASSUME TypeOK, NEW s \in StageSets, ~InvalidWindows(s)
    PROVE  LET d == Decided[Windows[s]][clock] IN
           /\ d.allowed <=> Allowed(Windows[s], clock)
           /\ d.next # NoTime => d.next \in Nat /\ d.next > clock /\ SameUntil(Windows[s], clock, d.next)
<1>1. clock \in 0 .. Horizon /\ clock \in Nat
  BY GatesAssumption DEF TypeOK
<1>2. Windows[s] \in UNION {{c.windows[x] : x \in StageSets} : c \in Configs}
  BY DEF TypeOK, Windows
<1>3. Decided[Windows[s]][clock] = Decision(Windows[s], clock)
  BY <1>1, <1>2 DEF Decided
<1> QED
  BY <1>1, <1>3, WindowsGood, DecisionSound

LEMMA RequeueType ==
    ASSUME TypeOK, NEW s \in StageSets, ~InvalidWindows(s)
    PROVE  LET next == Decided[Windows[s]][clock].next
               wake == requeueForWindow(next, clock)
           IN  wake \in 0 .. clock + MaxRequeue /\ (wake > clock => next # NoTime /\ wake <= next)
<1> DEFINE next == Decided[Windows[s]][clock].next
           wake == requeueForWindow(next, clock)
<1>1. clock \in Nat /\ MaxRequeue \in Nat \ {0}
  BY GatesAssumption DEF TypeOK
<1>2. next # NoTime => next \in Nat /\ next > clock
  BY DecidedSound
<1> HIDE DEF next
<1>3. CASE next = NoTime
  <2>1. wake = clock
    BY <1>3 DEF requeueForWindow
  <2> HIDE DEF wake
  <2>2. wake \in 0 .. clock + MaxRequeue /\ ~(wake > clock)
    BY <1>1, <2>1
  <2> QED
    BY <2>2 DEF wake, next
<1>4. CASE next # NoTime
  <2>1. next - clock \in Nat /\ next - clock > 0
    BY <1>1, <1>2, <1>4
  <2> DEFINE m == Min({next - clock, MaxRequeue})
  <2>2. m \in {next - clock, MaxRequeue} /\ m <= next - clock /\ m <= MaxRequeue
    BY <1>1, <2>1, MinOfTwo
  <2>3. m \in Nat /\ m >= 1
    BY <1>1, <2>1, <2>2
  <2>4. wake = clock + Max({1, m})
    BY <1>4 DEF requeueForWindow
  <2> HIDE DEF m, wake
  <2>5. wake = clock + m
    BY <2>3, <2>4, MaxOfTwo
  <2>6. wake \in 0 .. clock + MaxRequeue /\ wake <= next
    BY <1>1, <1>2, <1>4, <2>2, <2>3, <2>5
  <2> QED
    BY <1>4, <2>6 DEF wake, next
<1> QED
  BY <1>3, <1>4 DEF next

LEMMA IdleType == TypeOK => Idle \in PassType
BY GatesAssumption DEF TypeOK, Idle, PassType

LEMMA Counters == TypeOK => clock \in Nat /\ Horizon \in Nat /\ MaxRequeue \in Nat /\ config.maxEdits \in Nat
                            /\ config.maxFaults \in Nat /\ edits \in Nat /\ faults \in Nat
BY GatesAssumption, ConfigsAssumption DEF TypeOK

\* A pass that ends leaves everything End writes in its type.
EndedInType ==
    /\ held' \in [StageSets -> Revisions \cup {0}] /\ reason' \in [StageSets -> Conditions]
    /\ ready' \in [StageSets -> BOOLEAN] /\ observed' \in [StageSets -> Nat]
    /\ wakeAt' \in [StageSets -> (0 .. clock + MaxRequeue) \cup {Never}] /\ pass' \in [StageSets -> PassType]

LEMMA EndTypes ==
    ASSUME TypeOK, NEW s \in StageSets, NEW why \in Conditions, NEW isReady \in BOOLEAN,
           NEW t \in (0 .. clock + MaxRequeue) \cup {Never}, NEW back \in BOOLEAN,
           End(s, why, isReady, t, back)
    PROVE  EndedInType
<1>1. pass[s] \in PassType /\ pass[s].rev \in Revisions \cup {0} /\ pass[s].gen \in Nat
  BY DEF TypeOK, PassType
<1>2. pass' \in [StageSets -> PassType]
  BY IdleType DEF TypeOK, End
<1>3. held' \in [StageSets -> Revisions \cup {0}]
  BY <1>1 DEF TypeOK, End
<1>4. wakeAt' \in [StageSets -> (0 .. clock + MaxRequeue) \cup {Never}]
  BY DEF TypeOK, End
<1>5. reason' \in [StageSets -> Conditions] /\ ready' \in [StageSets -> BOOLEAN] /\ observed' \in [StageSets -> Nat]
  BY <1>1 DEF TypeOK, End
<1> QED
  BY <1>2, <1>3, <1>4, <1>5 DEF EndedInType

\* A pass ends now, next ticks, or never again.
LEMMA EndTimes == TypeOK => clock \in (0 .. clock + MaxRequeue) \cup {Never}
BY Counters

LEMMA WakeTypes == ASSUME TypeOK, NEW S, Wake(S)
    PROVE  wakeAt' \in [StageSets -> (0 .. clock + MaxRequeue) \cup {Never}] /\ \A s \in StageSets : wakeAt'[s] <= wakeAt[s]
<1>1. clock \in Nat /\ MaxRequeue \in Nat /\ Never \in Nat
  BY Counters DEF Never
<1>2. \A s \in StageSets : wakeAt[s] \in Nat /\ wakeAt[s] \in (0 .. clock + MaxRequeue) \cup {Never}
  BY <1>1 DEF TypeOK
<1>3. \A s \in StageSets : Min({wakeAt[s], clock}) \in {wakeAt[s], clock} /\ Min({wakeAt[s], clock}) <= wakeAt[s]
  BY <1>1, <1>2, MinOfTwo
<1>4. \A s \in StageSets : wakeAt'[s] \in {wakeAt[s], clock} /\ wakeAt'[s] <= wakeAt[s]
  BY <1>1, <1>2, <1>3 DEF Wake
<1>5. clock \in (0 .. clock + MaxRequeue) \cup {Never}
  BY EndTimes
<1>6. wakeAt' = [s \in StageSets |-> wakeAt'[s]]
  BY DEF Wake
<1> QED
  BY <1>2, <1>4, <1>5, <1>6

LEMMA InitType == Init => TypeOK
<1> SUFFICES ASSUME Init PROVE TypeOK
  OBVIOUS
<1>1. Min(Revisions) \in Revisions
  BY GatesAssumption, MinIsLeast
<1>2. clock \in 0 .. Horizon /\ config \in Configs /\ config.maxEdits \in Nat /\ config.maxFaults \in Nat
      /\ config.responses \subseteq Responses
  <2>1. clock = 0 /\ config \in Configs
    BY DEF Init
  <2>2. config.responses \subseteq Responses /\ {config.maxEdits, config.maxFaults} \subseteq Nat
    BY <2>1, ConfigsAssumption
  <2>3. clock \in 0 .. Horizon
    BY <2>1, GatesAssumption
  <2> QED
    BY <2>1, <2>2, <2>3
<1>3. deps \in {g \in Graphs : \A s \in StageSets : g[s] \subseteq Present} /\ gen \in [StageSets -> Nat]
      /\ rev \in [StageSets -> Revisions] /\ answer \in [StageSets -> Responses]
  BY <1>1, <1>2 DEF Init, All, Present
<1>4. {updateNow, budgetOverride, handledUpdate, handledBudget} \subseteq [StageSets -> Tokens \cup {0}]
  BY DEF Init, All
<1>5. {ready, freeze, stageFreeze, starved} \subseteq [StageSets -> BOOLEAN]
  BY DEF Init, All
<1>6. {applied, entered, pending, held} \subseteq [StageSets -> Revisions \cup {0}]
  BY DEF Init, All
<1>7. observed \in [StageSets -> Nat] /\ reason \in [StageSets -> Conditions]
  BY DEF Init, All, Conditions
<1>8. wakeAt \in [StageSets -> (0 .. clock + MaxRequeue) \cup {Never}]
  <2>1. clock = 0 /\ MaxRequeue \in Nat /\ wakeAt = [s \in StageSets |-> 0]
    BY GatesAssumption DEF Init, All
  <2> QED
    BY <2>1
<1>9. pass \in [StageSets -> PassType]
  <2>1. Idle \in PassType
    BY GatesAssumption DEF Idle, PassType
  <2> QED
    BY <2>1 DEF Init, All
<1>10. spent = {} /\ edits \in 0 .. config.maxEdits /\ faults \in 0 .. config.maxFaults
  <2>1. spent = {} /\ edits = 0 /\ faults = 0
    BY DEF Init
  <2> QED
    BY <1>2, <2>1
<1> QED
  BY <1>2, <1>3, <1>4, <1>5, <1>6, <1>7, <1>8, <1>9, <1>10 DEF TypeOK

-----------------------------------------------------------------------------
(* Every step keeps the types.                                             *)

LEMMA EndingTypes == ASSUME TypeOK, NEW s \in StageSets
    PROVE  /\ ReportCycle(s) => TypeOK'
           /\ AwaitDependency(s) => TypeOK'
           /\ RefuseWindows(s) => TypeOK'
           /\ DeferForWindow(s) => TypeOK'
           /\ DeferForBudget(s) => TypeOK'
           /\ HoldAtStage(s) => TypeOK'
           /\ Deliver(s) => TypeOK'
           /\ FailPass(s) => TypeOK'
<1>0. /\ {"Stalled", "DependencyNotReady", "InvalidSpec", "Ready", "UpdateDeferred", "StageFailed"} \subseteq Conditions
      /\ Reasons \subseteq Conditions
  BY DEF Conditions, Reasons
<1>t. clock \in (0 .. clock + MaxRequeue) \cup {Never} /\ Never \in (0 .. clock + MaxRequeue) \cup {Never}
  BY EndTimes
<1>p. /\ pass[s].upd \in Tokens \cup {0} /\ pass[s].bud \in Tokens \cup {0} /\ pass[s].rev \in Revisions \cup {0}
      /\ pass[s].freeze \in BOOLEAN /\ pass[s].used \subseteq StageSets \X {"update-now", "budget-override"} \X Tokens
  BY DEF TypeOK, PassType
<1>1. ASSUME ReportCycle(s) PROVE TypeOK'
  <2>1. End(s, "Stalled", FALSE, clock, FALSE)
    BY <1>1 DEF ReportCycle
  <2>2. EndedInType
    BY <1>0, <1>t, <2>1, EndTypes
  <2> QED
    BY <1>1, <2>2 DEF EndedInType, TypeOK, ReportCycle, userVars, Present
<1>2. ASSUME AwaitDependency(s) PROVE TypeOK'
  <2>1. End(s, "DependencyNotReady", FALSE, clock, FALSE)
    BY <1>2 DEF AwaitDependency
  <2>2. EndedInType
    BY <1>0, <1>t, <2>1, EndTypes
  <2> QED
    BY <1>2, <2>2 DEF EndedInType, TypeOK, AwaitDependency, userVars, Present
<1>3. ASSUME RefuseWindows(s) PROVE TypeOK'
  <2>1. End(s, "InvalidSpec", FALSE, Never, FALSE)
    BY <1>3 DEF RefuseWindows
  <2>2. EndedInType
    BY <1>0, <1>t, <2>1, EndTypes
  <2> QED
    BY <1>3, <2>2 DEF EndedInType, TypeOK, RefuseWindows, userVars, Present
<1>4. ASSUME DeferForWindow(s) PROVE TypeOK'
  <2> DEFINE why == IF applied[s] # 0 THEN "Ready" ELSE "UpdateDeferred"
             good == applied[s] # 0
             t == requeueForWindow(Decided[Windows[s]][clock].next, clock)
  <2>1. End(s, why, good, t, TRUE)
    BY <1>4 DEF DeferForWindow
  <2>2. t \in (0 .. clock + MaxRequeue) \cup {Never}
    <3>1. ~InvalidWindows(s)
      BY <1>4 DEF DeferForWindow
    <3> QED
      BY <3>1, RequeueType
  <2>3. why \in Conditions /\ good \in BOOLEAN
    BY <1>0
  <2>4. pending' \in [StageSets -> Revisions \cup {0}]
    BY <1>4, <1>p DEF DeferForWindow, TypeOK
  <2> HIDE DEF why, good, t
  <2>5. EndedInType
    BY <2>1, <2>2, <2>3, EndTypes
  <2> QED
    BY <1>4, <2>4, <2>5 DEF EndedInType, TypeOK, DeferForWindow, userVars, Present
<1>s. ASSUME SaveGates(s) PROVE /\ pending' \in [StageSets -> Revisions \cup {0}] /\ freeze' \in [StageSets -> BOOLEAN]
                                /\ {handledUpdate', handledBudget'} \subseteq [StageSets -> Tokens \cup {0}]
                                /\ UNCHANGED <<clock, userVars>>
  BY <1>p, <1>s DEF SaveGates, TypeOK
<1>5. ASSUME DeferForBudget(s) PROVE TypeOK'
  <2> DEFINE g == gateErrorBudget(s, Override(s))
             good == g.reason # "InvalidSpec" /\ applied[s] # 0
             why == IF good THEN "Ready" ELSE g.reason
  <2>1. g.hold \in BOOLEAN /\ g.freeze \in BOOLEAN /\ (g.hold => g.reason \in Reasons)
    BY GateTypes
  <2>2. g.hold
    BY <1>5 DEF DeferForBudget
  <2>3. End(s, why, good, clock, TRUE)
    BY <1>5 DEF DeferForBudget
  <2>4. why \in Conditions /\ good \in BOOLEAN
    BY <1>0, <2>1, <2>2
  <2>5. freeze' \in [StageSets -> BOOLEAN]
    BY <1>5, <2>1 DEF DeferForBudget, TypeOK
  <2>6. starved' \in [StageSets -> BOOLEAN] /\ pending' \in [StageSets -> Revisions \cup {0}]
        /\ handledUpdate' \in [StageSets -> Tokens \cup {0}]
    BY <1>5, <1>p DEF DeferForBudget, TypeOK
  <2> HIDE DEF why, good, g
  <2>7. EndedInType
    BY <1>t, <2>3, <2>4, EndTypes
  <2> QED
    BY <1>5, <2>5, <2>6, <2>7 DEF EndedInType, TypeOK, DeferForBudget, userVars, Present
<1>6. ASSUME HoldAtStage(s) PROVE TypeOK'
  <2> DEFINE g == gateStageBudget(s, pass[s])
             good == g.reason # "InvalidSpec" /\ applied[s] # 0
             why == IF good THEN "Ready" ELSE g.reason
  <2>1. g.hold \in BOOLEAN /\ g.freeze \in BOOLEAN /\ (g.hold => g.reason \in Reasons)
    BY GateTypes
  <2>2. g.hold
    BY <1>6 DEF HoldAtStage
  <2>3. End(s, why, good, clock, TRUE)
    BY <1>6 DEF HoldAtStage
  <2>4. why \in Conditions /\ good \in BOOLEAN
    BY <1>0, <2>1, <2>2
  <2>5. stageFreeze' \in [StageSets -> BOOLEAN]
    BY <1>6, <2>1 DEF HoldAtStage, TypeOK
  <2>6. SaveGates(s)
    BY <1>6 DEF HoldAtStage
  <2> HIDE DEF why, good, g
  <2>7. EndedInType
    BY <1>t, <2>3, <2>4, EndTypes
  <2> QED
    BY <1>6, <1>s, <2>5, <2>6, <2>7 DEF EndedInType, TypeOK, HoldAtStage, userVars, Present
<1>7. ASSUME Deliver(s) PROVE TypeOK'
  <2>1. End(s, "Ready", TRUE, clock, FALSE) /\ SaveGates(s)
    BY <1>7 DEF Deliver
  <2>2. stageFreeze' \in [StageSets -> BOOLEAN]
    <3>1. gateStageBudget(s, pass[s]).freeze \in BOOLEAN
      BY GateTypes
    <3> QED
      BY <1>7, <3>1 DEF Deliver, TypeOK
  <2>3. {applied', entered'} \subseteq [StageSets -> Revisions \cup {0}]
        /\ spent' \subseteq StageSets \X {"update-now", "budget-override"} \X Tokens
    BY <1>7, <1>p DEF Deliver, TypeOK
  <2>4. EndedInType
    BY <1>0, <1>t, <2>1, EndTypes
  <2> QED
    BY <1>7, <1>s, <2>1, <2>2, <2>3, <2>4 DEF EndedInType, TypeOK, Deliver, userVars, Present
<1>8. ASSUME FailPass(s) PROVE TypeOK'
  <2>1. End(s, "StageFailed", FALSE, clock, FALSE) /\ SaveGates(s)
    BY <1>8 DEF FailPass
  <2>2. stageFreeze' \in [StageSets -> BOOLEAN] /\ entered' \in [StageSets -> Revisions \cup {0}]
        /\ spent' \subseteq StageSets \X {"update-now", "budget-override"} \X Tokens
    BY <1>8, <1>p DEF FailPass, TypeOK
  <2>3. faults' \in 0 .. config.maxFaults /\ edits' = edits
    BY <1>8, Counters DEF FailPass, Fault
  <2>4. EndedInType
    BY <1>0, <1>t, <2>1, EndTypes
  <2> QED
    BY <1>8, <1>s, <2>1, <2>2, <2>3, <2>4 DEF EndedInType, TypeOK, FailPass, userVars, Present
<1> QED
  BY <1>1, <1>2, <1>3, <1>4, <1>5, <1>6, <1>7, <1>8

LEMMA RunningTypes == ASSUME TypeOK, NEW s \in StageSets
    PROVE  /\ StartPass(s) => TypeOK'
           /\ PassDependencies(s) => TypeOK'
           /\ PassWindow(s) => TypeOK'
           /\ PassBudget(s) => TypeOK'
           /\ LosePass(s) => TypeOK'
<1>1. ASSUME StartPass(s) PROVE TypeOK'
  <2> DEFINE p == [Idle EXCEPT !.at = IF hasDependencyCycle(s) THEN "cycle" ELSE "deps", !.gen = gen[s],
                               !.deps = deps[s], !.upd = updateNow[s], !.bud = budgetOverride[s]]
  <2>1. pass' = [pass EXCEPT ![s] = p]
    BY <1>1 DEF StartPass
  <2>2. p \in PassType
    <3>1. gen[s] \in Nat /\ deps[s] \subseteq StageSets /\ updateNow[s] \in Tokens \cup {0}
          /\ budgetOverride[s] \in Tokens \cup {0}
      BY GatesAssumption DEF TypeOK
    <3> QED
      BY <3>1, IdleType DEF PassType
  <2> HIDE DEF p
  <2>3. pass' \in [StageSets -> PassType]
    BY <2>1, <2>2 DEF TypeOK
  <2> QED
    BY <1>1, <2>3 DEF StartPass, TypeOK, userVars, statusVars, Present
<1>2. ASSUME PassDependencies(s) PROVE TypeOK'
  <2>1. pass' \in [StageSets -> PassType]
    <3>1. pass[s] \in PassType /\ rev[s] \in Revisions
      BY DEF TypeOK
    <3>2. [pass[s] EXCEPT !.at = "window", !.rev = rev[s]] \in PassType
      BY <3>1 DEF PassType
    <3>3. pass' = [pass EXCEPT ![s] = [pass[s] EXCEPT !.at = "window", !.rev = rev[s]]]
      BY <1>2 DEF PassDependencies
    <3> QED
      BY <3>2, <3>3 DEF TypeOK
  <2> QED
    BY <1>2, <2>1 DEF PassDependencies, TypeOK, userVars, statusVars, Present
<1>3. ASSUME PassWindow(s) PROVE TypeOK'
  <2> DEFINE upd == IF FreshUpdateNow(s) THEN pass[s].upd ELSE handledUpdate[s]
             used == IF FreshUpdateNow(s) /\ NewRevision(s) THEN {<<s, "update-now", pass[s].upd>>} ELSE {}
             p == [pass[s] EXCEPT !.at = "budget", !.gateAt = clock, !.upd = upd, !.used = used]
  <2>1. pass' = [pass EXCEPT ![s] = p]
    BY <1>3 DEF PassWindow
  <2>2. upd \in Tokens \cup {0} /\ used \subseteq StageSets \X {"update-now", "budget-override"} \X Tokens
    <3>1. pass[s].upd \in Tokens \cup {0} /\ handledUpdate[s] \in Tokens \cup {0}
      BY DEF TypeOK, PassType
    <3> QED
      BY <3>1 DEF FreshUpdateNow
  <2>3. p \in PassType
    <3> HIDE DEF upd, used
    <3>1. pass[s] \in PassType /\ clock \in 0 .. Horizon
      BY DEF TypeOK
    <3> QED
      BY <2>2, <3>1 DEF PassType
  <2> HIDE DEF p
  <2>4. pass' \in [StageSets -> PassType]
    BY <2>1, <2>3 DEF TypeOK
  <2> QED
    BY <1>3, <2>4 DEF PassWindow, TypeOK, userVars, statusVars, Present
<1>4. ASSUME PassBudget(s) PROVE TypeOK'
  <2> DEFINE g == gateErrorBudget(s, Override(s))
             more == IF FreshBudgetOverride(s) /\ NewRevision(s) THEN {<<s, "budget-override", pass[s].bud>>} ELSE {}
             p == [Override(s) EXCEPT !.at = "stage", !.freeze = g.freeze, !.used = @ \cup more]
  <2>1. pass' = [pass EXCEPT ![s] = p]
    BY <1>4 DEF PassBudget
  <2>2. g.freeze \in BOOLEAN
    BY GateTypes
  <2>3. pass[s] \in PassType /\ pass[s].bud \in Tokens \cup {0} /\ handledBudget[s] \in Tokens \cup {0}
    BY DEF TypeOK, PassType
  <2>4. more \subseteq StageSets \X {"update-now", "budget-override"} \X Tokens
    BY <2>3 DEF FreshBudgetOverride
  <2>5. Override(s) \in PassType
    <3>1. FreshBudgetOverride(s) \in BOOLEAN
      BY DEF FreshBudgetOverride
    <3> QED
      BY <2>3, <3>1 DEF PassType, Override
  <2>6. p \in PassType
    <3> DEFINE o == Override(s)
               f == g.freeze
               u == o.used \cup more
    <3>1. u \subseteq StageSets \X {"update-now", "budget-override"} \X Tokens
      BY <2>4, <2>5 DEF PassType
    <3>2. p = [o EXCEPT !.at = "stage", !.freeze = f, !.used = u]
      OBVIOUS
    <3> HIDE DEF f, u, o, p
    <3>3. o \in PassType /\ f \in BOOLEAN
      BY <2>2, <2>5 DEF f, o
    <3> QED
      BY <3>1, <3>2, <3>3 DEF PassType
  <2>7. starved' \in [StageSets -> BOOLEAN]
    BY <1>4 DEF PassBudget, TypeOK
  <2> HIDE DEF p
  <2>8. pass' \in [StageSets -> PassType]
    BY <2>1, <2>6 DEF TypeOK
  <2> QED
    BY <1>4, <2>7, <2>8 DEF PassBudget, TypeOK, userVars, statusVars, Present
<1>5. ASSUME LosePass(s) PROVE TypeOK'
  <2>1. pass' \in [StageSets -> PassType]
    BY <1>5, IdleType DEF LosePass, TypeOK
  <2>2. wakeAt' \in [StageSets -> (0 .. clock + MaxRequeue) \cup {Never}]
    BY <1>5, EndTimes DEF LosePass, TypeOK
  <2>3. faults' \in 0 .. config.maxFaults /\ edits' = edits
    BY <1>5, Counters DEF LosePass, Fault
  <2> QED
    BY <1>5, <2>1, <2>2, <2>3 DEF LosePass, TypeOK, userVars, statusVars, Present
<1> QED
  BY <1>1, <1>2, <1>3, <1>4, <1>5

LEMMA OutsideTypes == ASSUME TypeOK
    PROVE  /\ \A s \in StageSets : (SourceChanges(s) => TypeOK') /\ (AnswerChanges(s) => TypeOK') /\ (SetOverride(s) => TypeOK')
           /\ EditGraph => TypeOK'
           /\ Tick => TypeOK'
<1>e. ASSUME Edit PROVE edits' \in 0 .. config.maxEdits /\ faults' = faults
  BY <1>e, Counters DEF Edit
<1>1. ASSUME NEW s \in StageSets, SourceChanges(s) PROVE TypeOK'
  <2>1. rev' \in [StageSets -> Revisions] /\ Edit /\ Wake({s})
    BY <1>1 DEF SourceChanges, TypeOK
  <2>2. wakeAt' \in [StageSets -> (0 .. clock + MaxRequeue) \cup {Never}]
    BY <2>1, WakeTypes
  <2> QED
    BY <1>1, <1>e, <2>1, <2>2 DEF SourceChanges, TypeOK, statusVars, Present
<1>2. ASSUME NEW s \in StageSets, AnswerChanges(s) PROVE TypeOK'
  <2>1. PICK r \in config.responses \ {answer[s]} : /\ Edit /\ answer' = [answer EXCEPT ![s] = r]
                                                    /\ starved' = [starved EXCEPT ![s] = @ /\ ~Lifts(s, r)]
    BY <1>2 DEF AnswerChanges
  <2>2. r \in Responses
    BY ConfigsAssumption DEF TypeOK
  <2>3. answer' \in [StageSets -> Responses] /\ starved' \in [StageSets -> BOOLEAN]
    BY <2>1, <2>2 DEF TypeOK
  <2> QED
    BY <1>2, <1>e, <2>1, <2>3 DEF AnswerChanges, TypeOK, statusVars, Present
<1>3. ASSUME NEW s \in StageSets, SetOverride(s) PROVE TypeOK'
  <2>1. {updateNow', budgetOverride'} \subseteq [StageSets -> Tokens \cup {0}] /\ Edit /\ Wake({s})
    BY <1>3 DEF SetOverride, TypeOK
  <2>2. wakeAt' \in [StageSets -> (0 .. clock + MaxRequeue) \cup {Never}]
    BY <2>1, WakeTypes
  <2> QED
    BY <1>3, <1>e, <2>1, <2>2 DEF SetOverride, TypeOK, statusVars, Present
<1>4. ASSUME EditGraph PROVE TypeOK'
  <2>1. PICK g \in Graphs : /\ \A s \in StageSets : g[s] \subseteq Present
                            /\ Edit /\ deps' = g
                            /\ LET edited == {s \in StageSets : g[s] # deps[s]} IN
                               /\ gen' = [s \in StageSets |-> IF s \in edited THEN gen[s] + 1 ELSE gen[s]]
                               /\ Wake(edited)
    BY <1>4 DEF EditGraph
  <2>2. gen' \in [StageSets -> Nat]
    BY <2>1 DEF TypeOK
  <2>3. wakeAt' \in [StageSets -> (0 .. clock + MaxRequeue) \cup {Never}]
    BY <2>1, WakeTypes
  <2>4. UNCHANGED config /\ deps' \in {h \in Graphs : \A s \in StageSets : h[s] \subseteq Present'}
    BY <1>4, <2>1 DEF EditGraph, Present
  <2> QED
    BY <1>4, <1>e, <2>1, <2>2, <2>3, <2>4 DEF EditGraph, TypeOK, statusVars
<1>5. ASSUME Tick PROVE TypeOK'
  <2>1. clock' \in 0 .. Horizon /\ clock' = clock + 1
    <3>1. config.horizon \in 0 .. Horizon
      BY ConfigsAssumption DEF TypeOK
    <3> QED
      BY <1>5, <3>1, Counters DEF Tick
  <2>2. wakeAt' \in [StageSets -> (0 .. clock' + MaxRequeue) \cup {Never}]
    <3>1. 0 .. clock + MaxRequeue \subseteq 0 .. clock' + MaxRequeue
      BY <2>1, Counters
    <3>2. wakeAt' = wakeAt
      BY <1>5 DEF Tick
    <3> QED
      BY <3>1, <3>2 DEF TypeOK
  <2> QED
    BY <1>5, <2>1, <2>2 DEF Tick, TypeOK, userVars, statusVars, Present
<1> QED
  BY <1>1, <1>2, <1>3, <1>4, <1>5

LEMMA StutterTypes == TypeOK /\ UNCHANGED vars => TypeOK'
BY DEF TypeOK, vars, userVars, statusVars, Present

LEMMA TypeStep == TypeOK /\ [Next]_vars => TypeOK'
<1> SUFFICES ASSUME TypeOK, [Next]_vars PROVE TypeOK'
  OBVIOUS
<1>1. ASSUME NEW s \in StageSets, GoodPass(s) \/ FailPass(s) \/ LosePass(s) PROVE TypeOK'
  BY <1>1, EndingTypes, RunningTypes DEF GoodPass
<1>2. ASSUME NEW s \in StageSets, SourceChanges(s) \/ AnswerChanges(s) \/ SetOverride(s) PROVE TypeOK'
  BY <1>2, OutsideTypes
<1>3. CASE EditGraph \/ Tick
  BY <1>3, OutsideTypes
<1>4. CASE UNCHANGED vars
  BY <1>4, StutterTypes
<1> QED
  BY <1>1, <1>2, <1>3, <1>4 DEF Next

-----------------------------------------------------------------------------
(* What one step of one StageSet leaves alone.                             *)

\* The steps by which the pass of s ends.
Ends(s) == \/ ReportCycle(s) \/ AwaitDependency(s) \/ RefuseWindows(s) \/ DeferForWindow(s)
           \/ DeferForBudget(s) \/ HoldAtStage(s) \/ Deliver(s) \/ FailPass(s) \/ LosePass(s)

\* The steps by which it goes on.
Advances(s) == StartPass(s) \/ PassDependencies(s) \/ PassWindow(s) \/ PassBudget(s)

\* What is not a step of a pass.
Elsewhere == \/ \E s \in StageSets : SourceChanges(s) \/ AnswerChanges(s) \/ SetOverride(s)
             \/ EditGraph \/ Tick \/ UNCHANGED vars

LEMMA StepKinds == [Next]_vars <=> (\E s \in StageSets : Ends(s) \/ Advances(s)) \/ Elsewhere
BY DEF Next, GoodPass, Ends, Advances, Elsewhere

LEMMA EndsFrame == ASSUME TypeOK, NEW s \in StageSets, Ends(s)
    PROVE  /\ pass' = [pass EXCEPT ![s] = Idle] /\ pass'[s] = Idle /\ pass[s].at # "idle"
           /\ \A x \in StageSets \ {s} : /\ pass'[x] = pass[x] /\ ready'[x] = ready[x] /\ applied'[x] = applied[x]
                                         /\ pending'[x] = pending[x] /\ wakeAt'[x] = wakeAt[x]
                                         /\ freeze'[x] = freeze[x] /\ starved'[x] = starved[x]
                                         /\ handledUpdate'[x] = handledUpdate[x] /\ handledBudget'[x] = handledBudget[x]
           /\ UNCHANGED <<clock, userVars>>
<1>1. /\ pass' = [pass EXCEPT ![s] = Idle] /\ pass[s].at # "idle"
      /\ UNCHANGED <<clock, userVars>>
  BY DEF Ends, ReportCycle, AwaitDependency, RefuseWindows, DeferForWindow, DeferForBudget, HoldAtStage, Deliver,
         FailPass, LosePass, End, SaveGates, userVars
<1>2. pass'[s] = Idle /\ \A x \in StageSets \ {s} : pass'[x] = pass[x]
  BY <1>1 DEF TypeOK
<1>3. \A x \in StageSets \ {s} : ready'[x] = ready[x] /\ applied'[x] = applied[x] /\ wakeAt'[x] = wakeAt[x]
  BY DEF TypeOK, Ends, ReportCycle, AwaitDependency, RefuseWindows, DeferForWindow, DeferForBudget, HoldAtStage,
         Deliver, FailPass, LosePass, End, statusVars
<1>4. \A x \in StageSets \ {s} : pending'[x] = pending[x] /\ freeze'[x] = freeze[x] /\ starved'[x] = starved[x]
  BY DEF TypeOK, Ends, ReportCycle, AwaitDependency, RefuseWindows, DeferForWindow, DeferForBudget, HoldAtStage,
         Deliver, FailPass, LosePass, SaveGates, statusVars
<1>5. \A x \in StageSets \ {s} : handledUpdate'[x] = handledUpdate[x] /\ handledBudget'[x] = handledBudget[x]
  BY DEF TypeOK, Ends, ReportCycle, AwaitDependency, RefuseWindows, DeferForWindow, DeferForBudget, HoldAtStage,
         Deliver, FailPass, LosePass, SaveGates, statusVars
<1> QED
  BY <1>1, <1>2, <1>3, <1>4, <1>5

LEMMA AdvancesFrame == ASSUME TypeOK, NEW s \in StageSets, Advances(s)
    PROVE  /\ pass'[s].at # "idle" /\ \A x \in StageSets \ {s} : pass'[x] = pass[x] /\ starved'[x] = starved[x]
           /\ UNCHANGED <<clock, userVars, statusVars, wakeAt, spent>>
<1>1. UNCHANGED <<clock, userVars, statusVars, wakeAt, spent>>
  BY DEF Advances, StartPass, PassDependencies, PassWindow, PassBudget
<1>2. \A x \in StageSets \ {s} : pass'[x] = pass[x] /\ starved'[x] = starved[x]
  BY DEF TypeOK, Advances, StartPass, PassDependencies, PassWindow, PassBudget
<1>3. pass[s] \in PassType
  BY DEF TypeOK
<1>4. pass'[s].at \in {"cycle", "deps", "window", "budget", "stage"}
  <2>1. CASE StartPass(s)
    BY <2>1 DEF StartPass, TypeOK, Idle
  <2>2. CASE PassDependencies(s)
    BY <1>3, <2>2 DEF PassDependencies, TypeOK, PassType
  <2>3. CASE PassWindow(s)
    BY <1>3, <2>3 DEF PassWindow, TypeOK, PassType
  <2>4. CASE PassBudget(s)
    BY <1>3, <2>4 DEF PassBudget, TypeOK, PassType, Override
  <2> QED
    BY <2>1, <2>2, <2>3, <2>4 DEF Advances
<1> QED
  BY <1>1, <1>2, <1>4

LEMMA ElsewhereFrame == Elsewhere => UNCHANGED <<config, statusVars, pass, spent>>
BY DEF Elsewhere, SourceChanges, AnswerChanges, SetOverride, EditGraph, Tick, vars, userVars

\* What a running pass looks like after it goes on.
LEMMA AdvancesEffect == ASSUME TypeOK, NEW s \in StageSets
    PROVE  /\ StartPass(s) => /\ pass'[s].at \in {"cycle", "deps"} /\ pass'[s].used = {}
                              /\ pass'[s].upd = updateNow[s] /\ pass'[s].bud = budgetOverride[s]
           /\ PassDependencies(s) => /\ pass[s].at = "deps" /\ pass'[s].at = "window" /\ pass'[s].rev = rev[s]
                                     /\ pass'[s].deps = pass[s].deps /\ pass'[s].used = pass[s].used
                                     /\ pass'[s].upd = pass[s].upd /\ pass'[s].bud = pass[s].bud
           /\ PassWindow(s) =>
                /\ pass[s].at = "window" /\ pass'[s].at = "budget" /\ pass'[s].rev = pass[s].rev
                /\ pass'[s].deps = pass[s].deps /\ pass'[s].gateAt = clock /\ pass'[s].bud = pass[s].bud
                /\ pass'[s].upd = IF FreshUpdateNow(s) THEN pass[s].upd ELSE handledUpdate[s]
                /\ pass'[s].used = IF FreshUpdateNow(s) /\ NewRevision(s) THEN {<<s, "update-now", pass[s].upd>>} ELSE {}
           /\ PassBudget(s) =>
                /\ pass[s].at = "budget" /\ pass'[s].at = "stage" /\ pass'[s].rev = pass[s].rev
                /\ pass'[s].deps = pass[s].deps /\ pass'[s].gateAt = pass[s].gateAt /\ pass'[s].upd = pass[s].upd
                /\ pass'[s].bud = IF FreshBudgetOverride(s) THEN pass[s].bud ELSE handledBudget[s]
                /\ pass'[s].used = pass[s].used \cup IF FreshBudgetOverride(s) /\ NewRevision(s)
                                                     THEN {<<s, "budget-override", pass[s].bud>>} ELSE {}
<1>1. pass[s] \in PassType
  BY DEF TypeOK
<1>2. StartPass(s) => /\ pass'[s].at \in {"cycle", "deps"} /\ pass'[s].used = {}
                      /\ pass'[s].upd = updateNow[s] /\ pass'[s].bud = budgetOverride[s]
  BY DEF StartPass, TypeOK, Idle
<1>3. PassDependencies(s) => /\ pass[s].at = "deps" /\ pass'[s].at = "window" /\ pass'[s].rev = rev[s]
                             /\ pass'[s].deps = pass[s].deps /\ pass'[s].used = pass[s].used
                             /\ pass'[s].upd = pass[s].upd /\ pass'[s].bud = pass[s].bud
  BY <1>1 DEF PassDependencies, TypeOK, PassType
<1>4. PassWindow(s) =>
        /\ pass[s].at = "window" /\ pass'[s].at = "budget" /\ pass'[s].rev = pass[s].rev
        /\ pass'[s].deps = pass[s].deps /\ pass'[s].gateAt = clock /\ pass'[s].bud = pass[s].bud
        /\ pass'[s].upd = IF FreshUpdateNow(s) THEN pass[s].upd ELSE handledUpdate[s]
        /\ pass'[s].used = IF FreshUpdateNow(s) /\ NewRevision(s) THEN {<<s, "update-now", pass[s].upd>>} ELSE {}
  BY <1>1 DEF PassWindow, TypeOK, PassType
<1>5. PassBudget(s) =>
        /\ pass[s].at = "budget" /\ pass'[s].at = "stage" /\ pass'[s].rev = pass[s].rev
        /\ pass'[s].deps = pass[s].deps /\ pass'[s].gateAt = pass[s].gateAt /\ pass'[s].upd = pass[s].upd
        /\ pass'[s].bud = IF FreshBudgetOverride(s) THEN pass[s].bud ELSE handledBudget[s]
        /\ pass'[s].used = pass[s].used \cup IF FreshBudgetOverride(s) /\ NewRevision(s)
                                             THEN {<<s, "budget-override", pass[s].bud>>} ELSE {}
  BY <1>1 DEF PassBudget, TypeOK, PassType, Override
<1> QED
  BY <1>2, <1>3, <1>4, <1>5

-----------------------------------------------------------------------------
(* Dependencies.                                                           *)

LEMMA DepsStep == TypeOK /\ DepsInv /\ [Next]_vars => DepsInv'
<1> SUFFICES ASSUME TypeOK, DepsInv, [Next]_vars PROVE DepsInv'
  OBVIOUS
<1>1. ASSUME NEW s \in StageSets, Ends(s) PROVE DepsInv'
  <2>1. /\ pass'[s].at = "idle"
        /\ \A x \in StageSets \ {s} : pass'[x] = pass[x] /\ ready'[x] = ready[x] /\ applied'[x] = applied[x]
    BY <1>1, EndsFrame DEF Idle
  <2>2. (applied[s] # 0 => applied'[s] # 0) /\ (ready'[s] => applied'[s] # 0)
    <3>1. pass[s].at = "stage" => pass[s].rev \in Revisions /\ pass[s].rev # 0
      BY GatesAssumption DEF DepsInv
    <3>2. CASE Deliver(s)
      BY <3>1, <3>2 DEF Deliver, TypeOK
    <3>3. CASE ReportCycle(s) \/ AwaitDependency(s) \/ RefuseWindows(s) \/ FailPass(s)
      BY <3>3 DEF ReportCycle, AwaitDependency, RefuseWindows, FailPass, End, TypeOK
    <3>4. CASE DeferForWindow(s)
      BY <3>4 DEF DeferForWindow, End, TypeOK
    <3>5. CASE DeferForBudget(s)
      <4>1. applied' = applied /\ (ready'[s] => applied[s] # 0)
        BY <3>5 DEF DeferForBudget, End, TypeOK
      <4> QED
        BY <4>1
    <3>6. CASE HoldAtStage(s)
      <4>1. applied' = applied /\ (ready'[s] => applied[s] # 0)
        BY <3>6 DEF HoldAtStage, End, TypeOK
      <4> QED
        BY <4>1
    <3>7. CASE LosePass(s)
      BY <3>7 DEF LosePass, statusVars, DepsInv
    <3> QED
      BY <1>1, <3>2, <3>3, <3>4, <3>5, <3>6, <3>7 DEF Ends
  <2>3. \A d \in StageSets : applied[d] # 0 => applied'[d] # 0
    BY <2>1, <2>2
  <2>4. \A x \in StageSets : pass[x].deps \subseteq StageSets
    BY DEF TypeOK, PassType
  <2>5. ASSUME NEW x \in StageSets PROVE (ready'[x] => applied'[x] # 0)
    BY <2>1, <2>2 DEF DepsInv
  <2>6. ASSUME NEW x \in StageSets, pass'[x].at \in {"window", "budget", "stage"}
        PROVE  pass'[x].rev \in Revisions /\ \A d \in pass'[x].deps : applied'[d] # 0
    <3>1. x # s /\ pass'[x] = pass[x]
      BY <2>1, <2>6
    <3> QED
      BY <2>3, <2>4, <2>6, <3>1 DEF DepsInv
  <2> QED
    BY <2>5, <2>6 DEF DepsInv
<1>2. ASSUME NEW s \in StageSets, Advances(s) PROVE DepsInv'
  <2>1. /\ \A x \in StageSets \ {s} : pass'[x] = pass[x]
        /\ ready' = ready /\ applied' = applied
    BY <1>2, AdvancesFrame DEF statusVars
  <2>2. pass'[s].at \in {"window", "budget", "stage"} =>
            pass'[s].rev \in Revisions /\ \A d \in pass'[s].deps : applied[d] # 0
    <3>1. CASE StartPass(s)
      BY <3>1, AdvancesEffect
    <3>2. CASE PassDependencies(s)
      <4>1. pass[s].deps \subseteq StageSets /\ rev[s] \in Revisions
        BY DEF TypeOK, PassType
      <4>2. \A d \in pass[s].deps : dependencyReady(d)
        BY <3>2 DEF PassDependencies
      <4>3. \A d \in pass[s].deps : applied[d] # 0
        BY <4>1, <4>2 DEF dependencyReady, DepsInv
      <4> QED
        BY <3>2, <4>1, <4>3, AdvancesEffect
    <3>3. CASE PassWindow(s) \/ PassBudget(s)
      BY <3>3, AdvancesEffect DEF DepsInv
    <3> QED
      BY <1>2, <3>1, <3>2, <3>3 DEF Advances
  <2> QED
    BY <2>1, <2>2 DEF DepsInv
<1>3. CASE Elsewhere
  BY <1>3, ElsewhereFrame DEF statusVars, DepsInv
<1> QED
  BY <1>1, <1>2, <1>3, StepKinds

-----------------------------------------------------------------------------
(* Tokens.                                                                 *)

LEMMA TokenTypes == ASSUME TypeOK, NEW s \in StageSets
    PROVE  /\ {updateNow[s], budgetOverride[s], handledUpdate[s], handledBudget[s]} \subseteq Nat
           /\ {pass[s].upd, pass[s].bud} \subseteq Nat
           /\ \A u \in pass[s].used : u[1] \in StageSets /\ u[2] \in {"update-now", "budget-override"} /\ u[3] \in Nat
           /\ \A u \in spent : u[1] \in StageSets /\ u[2] \in {"update-now", "budget-override"} /\ u[3] \in Nat
<1>1. Tokens \subseteq Nat
  BY GatesAssumption
<1>2. /\ {updateNow[s], budgetOverride[s], handledUpdate[s], handledBudget[s]} \subseteq Tokens \cup {0}
  BY DEF TypeOK
<1>3. {pass[s].upd, pass[s].bud} \subseteq Tokens \cup {0}
      /\ pass[s].used \subseteq StageSets \X {"update-now", "budget-override"} \X Tokens
  BY DEF TypeOK, PassType
<1>4. spent \subseteq StageSets \X {"update-now", "budget-override"} \X Tokens
  BY DEF TypeOK
<1>5. ASSUME NEW u \in StageSets \X {"update-now", "budget-override"} \X Tokens
      PROVE  u[1] \in StageSets /\ u[2] \in {"update-now", "budget-override"} /\ u[3] \in Nat
  BY <1>1
<1>6. {updateNow[s], budgetOverride[s], handledUpdate[s], handledBudget[s]} \subseteq Nat /\ {pass[s].upd, pass[s].bud} \subseteq Nat
  <2>1. Tokens \cup {0} \subseteq Nat
    BY <1>1
  <2> QED
    BY <1>2, <1>3, <2>1, Zenon
<1>7. \A u \in pass[s].used : u[1] \in StageSets /\ u[2] \in {"update-now", "budget-override"} /\ u[3] \in Nat
  BY <1>3, <1>5
<1>8. \A u \in spent : u[1] \in StageSets /\ u[2] \in {"update-now", "budget-override"} /\ u[3] \in Nat
  BY <1>4, <1>5
<1> QED
  BY <1>6, <1>7, <1>8

LEMMA TokensStep == TypeOK /\ TokensInv /\ [Next]_vars => TokensInv'
<1> SUFFICES ASSUME TypeOK, TokensInv, [Next]_vars PROVE TokensInv'
  OBVIOUS
<1>1. ASSUME NEW s \in StageSets, Ends(s) PROVE TokensInv'
  <2>1. /\ pass'[s] = Idle /\ pass[s].at # "idle" /\ UNCHANGED <<updateNow, budgetOverride>>
        /\ \A x \in StageSets \ {s} : /\ pass'[x] = pass[x]
                                      /\ handledUpdate'[x] = handledUpdate[x] /\ handledBudget'[x] = handledBudget[x]
    BY <1>1, EndsFrame DEF userVars
  <2>2. /\ handledUpdate'[s] \in {handledUpdate[s], pass[s].upd}
        /\ handledBudget'[s] \in {handledBudget[s], pass[s].bud}
        /\ spent' = spent \/ (spent' = spent \cup pass[s].used /\ handledUpdate'[s] = pass[s].upd
                                                               /\ handledBudget'[s] = pass[s].bud)
    <3>1. CASE ReportCycle(s) \/ AwaitDependency(s) \/ RefuseWindows(s) \/ DeferForWindow(s) \/ LosePass(s)
      BY <3>1 DEF ReportCycle, AwaitDependency, RefuseWindows, DeferForWindow, LosePass, statusVars
    <3>2. CASE DeferForBudget(s)
      BY <3>2 DEF DeferForBudget, TypeOK
    <3>3. CASE HoldAtStage(s) \/ Deliver(s) \/ FailPass(s)
      BY <3>3 DEF HoldAtStage, Deliver, FailPass, SaveGates, TypeOK
    <3> QED
      BY <1>1, <3>1, <3>2, <3>3 DEF Ends
  <2>3. TokensOf(s)
    BY DEF TokensInv
  <2>4. /\ handledUpdate[s] <= handledUpdate'[s] /\ handledUpdate'[s] <= updateNow[s]
        /\ handledBudget[s] <= handledBudget'[s] /\ handledBudget'[s] <= budgetOverride[s]
    BY <2>1, <2>2, <2>3, TokenTypes DEF TokensOf
  <2>5. ASSUME NEW x \in StageSets PROVE TokensOf(x)'
    <3>1. CASE x = s
      BY <2>1, <2>4, <3>1 DEF TokensOf, Idle
    <3>2. CASE x # s
      <4>1. TokensOf(x)
        BY DEF TokensInv
      <4> QED
        BY <2>1, <3>2, <4>1 DEF TokensOf
    <3> QED
      BY <3>1, <3>2
  <2>6. \A x \in StageSets : /\ handledUpdate'[x] \in Nat /\ handledUpdate[x] <= handledUpdate'[x]
                             /\ handledBudget'[x] \in Nat /\ handledBudget[x] <= handledBudget'[x]
    BY <2>1, <2>2, <2>4, TokenTypes
  <2>7. ASSUME NEW u \in spent' PROVE Handled(u)'
    <3>1. CASE u \in spent
      <4>1. Handled(u) /\ u[1] \in StageSets /\ u[3] \in Nat
        BY <3>1, TokenTypes DEF TokensInv
      <4>2. /\ handledUpdate[u[1]] \in Nat /\ handledUpdate[u[1]] <= handledUpdate'[u[1]] /\ handledUpdate'[u[1]] \in Nat
            /\ handledBudget[u[1]] \in Nat /\ handledBudget[u[1]] <= handledBudget'[u[1]] /\ handledBudget'[u[1]] \in Nat
        BY <2>6, <4>1, TokenTypes
      <4> QED
        BY <4>1, <4>2 DEF Handled
    <3>2. CASE u \in pass[s].used /\ handledUpdate'[s] = pass[s].upd /\ handledBudget'[s] = pass[s].bud
      <4>1. u[1] = s /\ u[3] \in Nat /\ (u[2] = "update-now" => u[3] = pass[s].upd)
            /\ (u[2] = "budget-override" => u[3] = pass[s].bud)
        BY <2>3, <3>2, TokenTypes DEF TokensOf
      <4> QED
        BY <3>2, <4>1 DEF Handled
    <3> QED
      BY <2>2, <2>7, <3>1, <3>2
  <2> QED
    BY <2>5, <2>7 DEF TokensInv
<1>2. ASSUME NEW s \in StageSets, Advances(s) PROVE TokensInv'
  <2>1. /\ UNCHANGED <<updateNow, budgetOverride, handledUpdate, handledBudget, spent>> /\ pass'[s].at # "idle"
        /\ \A x \in StageSets \ {s} : pass'[x] = pass[x]
    BY <1>2, AdvancesFrame DEF userVars, statusVars
  <2>2. TokensOf(s)
    BY DEF TokensInv
  <2>3. TokensOf(s)'
    <3>t. /\ {updateNow[s], budgetOverride[s], handledUpdate[s], handledBudget[s], pass[s].upd, pass[s].bud} \subseteq Nat
      BY TokenTypes
    <3>1. CASE StartPass(s)
      <4>1. pass'[s].used = {} /\ pass'[s].upd = updateNow[s] /\ pass'[s].bud = budgetOverride[s]
        BY <3>1, AdvancesEffect
      <4>2. handledUpdate[s] <= updateNow[s] /\ handledBudget[s] <= budgetOverride[s]
        BY <2>2 DEF TokensOf
      <4>3. updateNow[s] <= updateNow[s] /\ budgetOverride[s] <= budgetOverride[s]
        BY <3>t
      <4> QED
        BY <2>1, <4>1, <4>2, <4>3 DEF TokensOf
    <3>2. CASE PassDependencies(s)
      <4>1. pass[s].at # "idle" /\ pass'[s].used = pass[s].used /\ pass'[s].upd = pass[s].upd /\ pass'[s].bud = pass[s].bud
        BY <3>2, AdvancesEffect
      <4> QED
        BY <2>1, <2>2, <4>1 DEF TokensOf
    <3>3. CASE PassWindow(s)
      <4>1. /\ pass[s].at # "idle" /\ pass'[s].bud = pass[s].bud
            /\ pass'[s].upd = IF FreshUpdateNow(s) THEN pass[s].upd ELSE handledUpdate[s]
            /\ pass'[s].used = IF FreshUpdateNow(s) /\ NewRevision(s) THEN {<<s, "update-now", pass[s].upd>>} ELSE {}
        BY <3>3, AdvancesEffect
      <4>2. handledUpdate[s] <= pass'[s].upd /\ pass'[s].upd <= updateNow[s]
        BY <2>2, <3>t, <4>1 DEF TokensOf
      <4>3. ASSUME NEW u \in pass'[s].used
            PROVE  u[1] = s /\ u[2] = "update-now" /\ u[3] = pass'[s].upd /\ handledUpdate[s] < u[3]
        <5>1. FreshUpdateNow(s) /\ u = <<s, "update-now", pass[s].upd>> /\ pass'[s].upd = pass[s].upd
          BY <4>1, <4>3
        <5>2. pass[s].upd # handledUpdate[s] /\ handledUpdate[s] <= pass[s].upd
          BY <2>2, <4>1, <5>1 DEF FreshUpdateNow, TokensOf
        <5> QED
          BY <3>t, <5>1, <5>2
      <4> QED
        BY <2>1, <2>2, <4>1, <4>2, <4>3 DEF TokensOf
    <3>4. CASE PassBudget(s)
      <4>1. /\ pass[s].at # "idle" /\ pass'[s].upd = pass[s].upd
            /\ pass'[s].bud = IF FreshBudgetOverride(s) THEN pass[s].bud ELSE handledBudget[s]
            /\ pass'[s].used = pass[s].used \cup IF FreshBudgetOverride(s) /\ NewRevision(s)
                                                 THEN {<<s, "budget-override", pass[s].bud>>} ELSE {}
        BY <3>4, AdvancesEffect
      <4>2. handledBudget[s] <= pass'[s].bud /\ pass'[s].bud <= budgetOverride[s]
        BY <2>2, <3>t, <4>1 DEF TokensOf
      <4>3. ASSUME NEW u \in pass'[s].used
            PROVE  /\ u[1] = s
                   /\ u[2] = "update-now" => u[3] = pass[s].upd /\ handledUpdate[s] < u[3]
                   /\ u[2] = "budget-override" => u[3] = pass'[s].bud /\ handledBudget[s] < u[3]
        <5>1. CASE u \in pass[s].used
          <6>1. u[1] = s /\ (u[2] = "update-now" => u[3] = pass[s].upd /\ handledUpdate[s] < u[3])
                /\ (u[2] = "budget-override" => u[3] = pass[s].bud /\ handledBudget[s] < u[3])
            BY <2>2, <5>1 DEF TokensOf
          <6>2. u[2] = "budget-override" => FreshBudgetOverride(s)
            BY <3>t, <6>1 DEF FreshBudgetOverride
          <6> QED
            BY <4>1, <6>1, <6>2
        <5>2. CASE FreshBudgetOverride(s) /\ u = <<s, "budget-override", pass[s].bud>>
          <6>1. pass[s].bud # handledBudget[s] /\ handledBudget[s] <= pass[s].bud /\ pass'[s].bud = pass[s].bud
            BY <2>2, <4>1, <5>2 DEF FreshBudgetOverride, TokensOf
          <6>2. u[1] = s /\ u[2] = "budget-override" /\ u[3] = pass[s].bud
            BY <5>2
          <6> QED
            BY <3>t, <6>1, <6>2
        <5> QED
          BY <4>1, <4>3, <5>1, <5>2
      <4> QED
        BY <2>1, <2>2, <4>1, <4>2, <4>3 DEF TokensOf
    <3> QED
      BY <1>2, <3>1, <3>2, <3>3, <3>4 DEF Advances
  <2>4. ASSUME NEW x \in StageSets, x # s PROVE TokensOf(x)'
    <3>1. TokensOf(x)
      BY DEF TokensInv
    <3> QED
      BY <2>1, <2>4, <3>1 DEF TokensOf
  <2>5. \A u \in spent' : Handled(u)'
    BY <2>1 DEF TokensInv, Handled
  <2> QED
    BY <2>3, <2>4, <2>5 DEF TokensInv
<1>3. CASE Elsewhere
  <2>1. UNCHANGED <<handledUpdate, handledBudget, pass, spent>>
    BY <1>3, ElsewhereFrame DEF statusVars
  <2>2. \A x \in StageSets : updateNow[x] <= updateNow'[x] /\ updateNow'[x] \in Nat
                             /\ budgetOverride[x] <= budgetOverride'[x] /\ budgetOverride'[x] \in Nat
    <3>1. ASSUME NEW s \in StageSets, SetOverride(s), NEW x \in StageSets
          PROVE  updateNow[x] <= updateNow'[x] /\ updateNow'[x] \in Nat
                 /\ budgetOverride[x] <= budgetOverride'[x] /\ budgetOverride'[x] \in Nat
      <4>1. PICK t \in Tokens :
              \/ t > updateNow[s] /\ updateNow' = [updateNow EXCEPT ![s] = t] /\ UNCHANGED budgetOverride
              \/ t > budgetOverride[s] /\ budgetOverride' = [budgetOverride EXCEPT ![s] = t] /\ UNCHANGED updateNow
        BY <3>1 DEF SetOverride
      <4>2. t \in Nat /\ {updateNow[s], updateNow[x], budgetOverride[s], budgetOverride[x]} \subseteq Nat
        BY TokenTypes, GatesAssumption
      <4>3. /\ \A f : f = [updateNow EXCEPT ![s] = t] => f[x] = IF x = s THEN t ELSE updateNow[x]
            /\ \A f : f = [budgetOverride EXCEPT ![s] = t] => f[x] = IF x = s THEN t ELSE budgetOverride[x]
        BY DEF TypeOK
      <4> QED
        BY <4>1, <4>2, <4>3
    <3>2. CASE UNCHANGED <<updateNow, budgetOverride>>
      BY <3>2, TokenTypes
    <3>3. (\E s \in StageSets : SetOverride(s)) \/ UNCHANGED <<updateNow, budgetOverride>>
      BY <1>3 DEF Elsewhere, SourceChanges, AnswerChanges, EditGraph, Tick, vars, userVars
    <3> QED
      BY <3>1, <3>2, <3>3
  <2>3. ASSUME NEW x \in StageSets PROVE TokensOf(x)'
    <3>1. TokensOf(x)
      BY DEF TokensInv
    <3> QED
      BY <2>1, <2>2, <3>1, TokenTypes DEF TokensOf
  <2>4. \A u \in spent' : Handled(u)'
    BY <2>1 DEF TokensInv, Handled
  <2> QED
    BY <2>3, <2>4 DEF TokensInv
<1> QED
  BY <1>1, <1>2, <1>3, StepKinds

-----------------------------------------------------------------------------
(* Budgets.                                                                *)

\* A gate that says the budget is exhausted has read a budget that is too low.
LEMMA ExhaustedIsLow ==
    ASSUME TypeOK, NEW s \in StageSets, Budget[s] # NoBudget, NEW was \in BOOLEAN,
           LET g == BudgetGate(Budget[s], was, answer[s], TRUE) IN g.hold /\ g.reason = "BudgetExhausted"
    PROVE  /\ ~BudgetInvalid(Budget[s]) /\ ~Budget[s].dryRun /\ ~Lifts(s, answer[s])
           /\ BudgetGate(Budget[s], was, answer[s], TRUE).freeze
<1> DEFINE eb == Budget[s]
           q == Query(answer[s])
           v == evaluateBudget(eb, was, answer[s])
           wet == ~eb.dryRun
           g == BudgetGate(eb, was, answer[s], TRUE)
<1>1. BudgetForm(eb) /\ q \in Nat \cup {Unavailable}
  BY BudgetForms, QueryType DEF TypeOK
<1>2. g = CASE v = "specErr" -> [hold |-> TRUE, reason |-> "InvalidSpec", freeze |-> was]
            [] v = "sourceErr" /\ eb.onSourceError = "Hold" ->
                 [hold |-> TRUE, reason |-> "BudgetSourceUnavailable", freeze |-> was /\ TRUE]
            [] v = "sourceErr" /\ eb.onSourceError # "Hold" -> [hold |-> FALSE, reason |-> "", freeze |-> FALSE]
            [] v = "open" -> [hold |-> FALSE, reason |-> "", freeze |-> FALSE]
            [] OTHER -> [hold |-> wet, reason |-> "BudgetExhausted", freeze |-> TRUE]
  BY DEF BudgetGate
<1>3. v = CASE BudgetInvalid(eb) -> "specErr"
            [] ~BudgetInvalid(eb) /\ q = Unavailable -> "sourceErr"
            [] OTHER -> IF q < (IF was THEN effectiveResume(eb) ELSE eb.freezeThreshold) THEN "frozen" ELSE "open"
  BY DEF evaluateBudget
<1>4. g.hold /\ g.reason = "BudgetExhausted"
  OBVIOUS
<1> HIDE DEF g, v, wet, q, eb
<1>5. v \notin {"specErr", "sourceErr", "open"} /\ g = [hold |-> wet, reason |-> "BudgetExhausted", freeze |-> TRUE]
  <2>1. CASE v = "specErr"
    <3>1. g = [hold |-> TRUE, reason |-> "InvalidSpec", freeze |-> was]
      BY <1>2, <2>1
    <3> QED
      BY <1>4, <3>1
  <2>2. CASE v = "sourceErr" /\ eb.onSourceError = "Hold"
    <3>1. g = [hold |-> TRUE, reason |-> "BudgetSourceUnavailable", freeze |-> was /\ TRUE]
      BY <1>2, <2>2
    <3> QED
      BY <1>4, <3>1
  <2>3. CASE (v = "sourceErr" /\ eb.onSourceError # "Hold") \/ v = "open"
    <3>1. g = [hold |-> FALSE, reason |-> "", freeze |-> FALSE]
      BY <1>2, <2>3
    <3> QED
      BY <1>4, <3>1
  <2>4. CASE v \notin {"specErr", "sourceErr", "open"}
    BY <1>2, <2>4
  <2> QED
    BY <2>1, <2>2, <2>3, <2>4
<1>6. ~BudgetInvalid(eb) /\ q # Unavailable
  BY <1>3, <1>5
<1>7. q < (IF was THEN effectiveResume(eb) ELSE eb.freezeThreshold)
  BY <1>3, <1>5, <1>6
<1>8. effectiveResume(eb) \in Nat /\ eb.freezeThreshold <= effectiveResume(eb) /\ eb.freezeThreshold \in Nat
  BY <1>1, <1>6 DEF BudgetForm, effectiveResume, BudgetInvalid
<1>9. ~(q >= effectiveResume(eb))
  <2>1. q \in Nat
    BY <1>1, <1>6
  <2> QED
    BY <1>7, <1>8, <2>1
<1>10. ~Lifts(s, answer[s])
  BY <1>6, <1>9 DEF Lifts, eb, q
<1>11. wet /\ g.freeze
  BY <1>4, <1>5
<1> QED
  BY <1>6, <1>10, <1>11 DEF wet, g, eb

\* A freeze whose budget has not recovered is held and kept.
LEMMA FreezeHolds ==
    ASSUME TypeOK, NEW s \in StageSets, Budget[s] # NoBudget, NEW was \in BOOLEAN, was,
           ~BudgetInvalid(Budget[s]), ~Budget[s].dryRun, ~Lifts(s, answer[s])
    PROVE  LET g == BudgetGate(Budget[s], was, answer[s], TRUE) IN g.hold /\ g.freeze
<1> DEFINE eb == Budget[s]
           q == Query(answer[s])
           v == evaluateBudget(eb, was, answer[s])
           wet == ~eb.dryRun
           g == BudgetGate(eb, was, answer[s], TRUE)
<1>1. BudgetForm(eb) /\ q \in Nat \cup {Unavailable}
  BY BudgetForms, QueryType DEF TypeOK
<1>2. g = CASE v = "specErr" -> [hold |-> TRUE, reason |-> "InvalidSpec", freeze |-> was]
            [] v = "sourceErr" /\ eb.onSourceError = "Hold" ->
                 [hold |-> TRUE, reason |-> "BudgetSourceUnavailable", freeze |-> was /\ TRUE]
            [] v = "sourceErr" /\ eb.onSourceError # "Hold" -> [hold |-> FALSE, reason |-> "", freeze |-> FALSE]
            [] v = "open" -> [hold |-> FALSE, reason |-> "", freeze |-> FALSE]
            [] OTHER -> [hold |-> wet, reason |-> "BudgetExhausted", freeze |-> TRUE]
  BY DEF BudgetGate
<1>3. v = CASE BudgetInvalid(eb) -> "specErr"
            [] ~BudgetInvalid(eb) /\ q = Unavailable -> "sourceErr"
            [] OTHER -> IF q < (IF was THEN effectiveResume(eb) ELSE eb.freezeThreshold) THEN "frozen" ELSE "open"
  BY DEF evaluateBudget
<1>4. IF q = Unavailable THEN eb.onSourceError = "Hold" ELSE ~(q >= effectiveResume(eb))
  BY DEF Lifts
<1>5. ~BudgetInvalid(eb) /\ wet
  OBVIOUS
<1>6. effectiveResume(eb) \in Nat
  BY <1>1 DEF BudgetForm, effectiveResume
<1> HIDE DEF g, v, wet, q, eb
<1>7. CASE q = Unavailable
  <2>1. v = "sourceErr" /\ eb.onSourceError = "Hold"
    BY <1>3, <1>4, <1>5, <1>7
  <2>2. g = [hold |-> TRUE, reason |-> "BudgetSourceUnavailable", freeze |-> was /\ TRUE]
    BY <1>2, <2>1
  <2>3. g.hold /\ g.freeze
    BY <2>2
  <2> QED
    BY <2>3 DEF g, eb
<1>8. CASE q # Unavailable
  <2>1. q < effectiveResume(eb)
    BY <1>1, <1>4, <1>6, <1>8
  <2>2. v = "frozen"
    BY <1>3, <1>5, <1>8, <2>1
  <2>3. g = [hold |-> wet, reason |-> "BudgetExhausted", freeze |-> TRUE]
    BY <1>2, <2>2
  <2>4. g.hold /\ g.freeze
    BY <1>5, <2>3
  <2> QED
    BY <2>4 DEF g, eb
<1> QED
  BY <1>7, <1>8

LEMMA StarvedStep == TypeOK /\ StarvedInv /\ [Next]_vars => StarvedInv'
<1> SUFFICES ASSUME TypeOK, StarvedInv, [Next]_vars PROVE StarvedInv'
  OBVIOUS
<1> DEFINE Starving(x) ==
        /\ Budget[x] # NoBudget /\ ~BudgetInvalid(Budget[x]) /\ ~Budget[x].dryRun
        /\ freeze[x] /\ ~Lifts(x, answer[x]) /\ pass[x].at # "stage"
<1>0. StarvedInv <=> \A x \in StageSets : starved[x] => Starving(x)
  BY DEF StarvedInv
<1>1. ASSUME NEW s \in StageSets, Ends(s) PROVE StarvedInv'
  <2>1. /\ pass'[s].at # "stage" /\ config' = config /\ answer' = answer
        /\ \A x \in StageSets \ {s} : pass'[x] = pass[x] /\ freeze'[x] = freeze[x] /\ starved'[x] = starved[x]
    BY <1>1, EndsFrame DEF userVars, Idle
  <2>2. \A x \in StageSets : Budget'[x] = Budget[x] /\ (Lifts(x, answer[x])' <=> Lifts(x, answer[x]))
    BY <2>1 DEF Budget, Lifts
  <2>3. starved'[s] => Budget[s] # NoBudget /\ ~BudgetInvalid(Budget[s]) /\ ~Budget[s].dryRun
                       /\ freeze'[s] /\ ~Lifts(s, answer[s])
    <3>1. CASE DeferForBudget(s)
      <4> DEFINE p == Override(s)
                 g == gateErrorBudget(s, p)
                 was == freeze[s]
                 b == BudgetGate(Budget[s], was, answer[s], TRUE)
      <4>1. g.hold /\ freeze'[s] = g.freeze /\ (starved'[s] <=> starved[s] \/ g.reason = "BudgetExhausted")
        BY <3>1 DEF DeferForBudget, TypeOK
      <4>2. Budget[s] # NoBudget /\ g = b
        BY <4>1 DEF gateErrorBudget, Verdict
      <4>3. was \in BOOLEAN
        BY DEF TypeOK
      <4>4. CASE g.reason = "BudgetExhausted"
        <5> HIDE DEF g, was
        <5>1. b.hold /\ b.reason = "BudgetExhausted"
          BY <4>1, <4>2, <4>4
        <5>2. ~BudgetInvalid(Budget[s]) /\ ~Budget[s].dryRun /\ ~Lifts(s, answer[s]) /\ b.freeze
          BY <4>2, <4>3, <5>1, ExhaustedIsLow
        <5> QED
          BY <4>1, <4>2, <5>2
      <4>5. CASE starved[s]
        <5>1. was /\ ~BudgetInvalid(Budget[s]) /\ ~Budget[s].dryRun /\ ~Lifts(s, answer[s])
          BY <4>5 DEF StarvedInv
        <5> HIDE DEF g, was
        <5>2. b.freeze
          BY <4>2, <4>3, <5>1, FreezeHolds
        <5> QED
          BY <4>1, <4>2, <5>1, <5>2
      <4> QED
        BY <4>1, <4>4, <4>5
    <3>2. CASE HoldAtStage(s) \/ Deliver(s) \/ FailPass(s)
      BY <3>2 DEF HoldAtStage, Deliver, FailPass, StarvedInv
    <3>3. CASE ReportCycle(s) \/ AwaitDependency(s) \/ RefuseWindows(s) \/ DeferForWindow(s) \/ LosePass(s)
      <4>1. starved' = starved /\ freeze' = freeze
        BY <3>3 DEF ReportCycle, AwaitDependency, RefuseWindows, DeferForWindow, LosePass, statusVars
      <4> QED
        BY <4>1 DEF StarvedInv
    <3> QED
      BY <1>1, <3>1, <3>2, <3>3 DEF Ends
  <2>4. ASSUME NEW x \in StageSets, starved'[x] PROVE Starving(x)'
    <3>1. CASE x = s
      BY <2>1, <2>2, <2>3, <2>4, <3>1
    <3>2. CASE x # s
      BY <2>1, <2>2, <2>4, <3>2 DEF StarvedInv
    <3> QED
      BY <3>1, <3>2
  <2> QED
    BY <2>4 DEF StarvedInv
<1>2. ASSUME NEW s \in StageSets, Advances(s) PROVE StarvedInv'
  <2>1. /\ config' = config /\ answer' = answer /\ freeze' = freeze
        /\ \A x \in StageSets \ {s} : pass'[x] = pass[x] /\ starved'[x] = starved[x]
    BY <1>2, AdvancesFrame DEF userVars, statusVars
  <2>2. \A x \in StageSets : Budget'[x] = Budget[x] /\ (Lifts(x, answer[x])' <=> Lifts(x, answer[x]))
    BY <2>1 DEF Budget, Lifts
  <2>3. starved'[s] => starved[s] /\ pass'[s].at # "stage"
    <3>1. CASE StartPass(s) \/ PassDependencies(s) \/ PassWindow(s)
      <4>1. starved' = starved
        BY <3>1 DEF StartPass, PassDependencies, PassWindow
      <4>2. pass'[s].at \in {"cycle", "deps", "window", "budget"}
        BY <3>1, AdvancesEffect
      <4> QED
        BY <4>1, <4>2
    <3>2. CASE PassBudget(s)
      <4> DEFINE p == Override(s)
                 g == gateErrorBudget(s, p)
                 was == freeze[s]
                 b == BudgetGate(Budget[s], was, answer[s], TRUE)
      <4>1. ~g.hold /\ (starved'[s] <=> starved[s] /\ ~FreshBudgetOverride(s) /\ NewRevision(s))
        BY <3>2 DEF PassBudget, TypeOK
      <4>2. ASSUME starved[s], ~FreshBudgetOverride(s), NewRevision(s) PROVE FALSE
        <5>1. /\ Budget[s] # NoBudget /\ ~BudgetInvalid(Budget[s]) /\ ~Budget[s].dryRun
              /\ was /\ ~Lifts(s, answer[s]) /\ was \in BOOLEAN
          BY <4>2 DEF StarvedInv, TypeOK
        <5>2. ~p.override /\ p.rev = pass[s].rev
          <6>1. pass[s] \in PassType
            BY DEF TypeOK
          <6> QED
            BY <4>2, <6>1 DEF Override, PassType
        <5>3. g = b
          <6> HIDE DEF p
          <6>1. ~(Budget[s] = NoBudget \/ p.override \/ applied[s] = p.rev)
            BY <4>2, <5>1, <5>2 DEF NewRevision
          <6> QED
            BY <6>1 DEF gateErrorBudget
        <5> HIDE DEF g, was
        <5>4. b.hold
          BY <5>1, FreezeHolds
        <5> QED
          BY <4>1, <5>3, <5>4
      <4> QED
        BY <4>1, <4>2
    <3> QED
      BY <1>2, <3>1, <3>2 DEF Advances
  <2>4. ASSUME NEW x \in StageSets, starved'[x] PROVE Starving(x)'
    <3>1. starved[x] /\ pass'[x].at # "stage"
      <4>1. CASE x = s
        BY <2>3, <2>4, <4>1
      <4>2. CASE x # s
        BY <2>1, <2>4, <4>2 DEF StarvedInv
      <4> QED
        BY <4>1, <4>2
    <3> QED
      BY <2>1, <2>2, <3>1 DEF StarvedInv
  <2> QED
    BY <2>4 DEF StarvedInv
<1>3. CASE Elsewhere
  <2>1. config' = config /\ freeze' = freeze /\ pass' = pass
    BY <1>3, ElsewhereFrame DEF statusVars
  <2>2. \A x \in StageSets : Budget'[x] = Budget[x]
    BY <2>1 DEF Budget
  <2>3. ASSUME NEW x \in StageSets, starved'[x] PROVE starved[x] /\ ~Lifts(x, answer[x])'
    <3>1. ASSUME NEW s \in StageSets, AnswerChanges(s) PROVE starved[x] /\ ~Lifts(x, answer[x])'
      <4>1. PICK r \in config.responses \ {answer[s]} : /\ answer' = [answer EXCEPT ![s] = r]
                                                        /\ starved' = [starved EXCEPT ![s] = @ /\ ~Lifts(s, r)]
        BY <3>1 DEF AnswerChanges
      <4>2. CASE x = s
        <5>1. starved[x] /\ ~Lifts(s, r) /\ answer'[x] = r
          BY <2>3, <4>1, <4>2 DEF TypeOK
        <5> QED
          BY <2>1, <4>2, <5>1 DEF Lifts, Budget
      <4>3. CASE x # s
        <5>1. starved[x] /\ answer'[x] = answer[x]
          BY <2>3, <4>1, <4>3 DEF TypeOK
        <5>2. ~Lifts(x, answer[x])
          BY <5>1 DEF StarvedInv
        <5> QED
          BY <2>1, <5>1, <5>2 DEF Lifts, Budget
      <4> QED
        BY <4>2, <4>3
    <3>2. CASE UNCHANGED <<answer, starved>>
      BY <2>1, <2>3, <3>2 DEF Lifts, Budget, StarvedInv
    <3>3. (\E s \in StageSets : AnswerChanges(s)) \/ UNCHANGED <<answer, starved>>
      BY <1>3 DEF Elsewhere, SourceChanges, SetOverride, EditGraph, Tick, vars, userVars
    <3> QED
      BY <3>1, <3>2, <3>3
  <2> QED
    BY <2>1, <2>2, <2>3 DEF StarvedInv
<1> QED
  BY <1>1, <1>2, <1>3, StepKinds

-----------------------------------------------------------------------------
(* Windows.                                                                *)

LEMMA WindowStep == TypeOK /\ WindowInv /\ [Next]_vars => WindowInv'
<1> SUFFICES ASSUME TypeOK, WindowInv, [Next]_vars PROVE WindowInv'
  OBVIOUS
<1>1. ASSUME NEW s \in StageSets, Ends(s) PROVE WindowInv'
  <2>1. /\ pass'[s].at = "idle" /\ config' = config
        /\ \A x \in StageSets \ {s} : pass'[x] = pass[x] /\ applied'[x] = applied[x]
    BY <1>1, EndsFrame DEF userVars, Idle
  <2> QED
    BY <2>1 DEF WindowInv, NewRevision, Windows, Allowed
<1>2. ASSUME NEW s \in StageSets, Advances(s) PROVE WindowInv'
  <2>1. /\ config' = config /\ applied' = applied
        /\ \A x \in StageSets \ {s} : pass'[x] = pass[x]
    BY <1>2, AdvancesFrame DEF userVars, statusVars
  <2>2. Windows' = Windows
    BY <2>1 DEF Windows
  <2>3. ASSUME pass'[s].at \in {"budget", "stage"}, applied[s] # pass'[s].rev
        PROVE  Allowed(Windows[s], pass'[s].gateAt) \/ \E u \in pass'[s].used : u[2] = "update-now"
    <3>1. CASE StartPass(s) \/ PassDependencies(s)
      BY <2>3, <3>1, AdvancesEffect
    <3>2. CASE PassWindow(s)
      <4>1. /\ pass'[s].rev = pass[s].rev /\ pass'[s].gateAt = clock
            /\ pass'[s].used = IF FreshUpdateNow(s) /\ NewRevision(s) THEN {<<s, "update-now", pass[s].upd>>} ELSE {}
        BY <3>2, AdvancesEffect
      <4>2. NewRevision(s) /\ WindowOpen(s)
        BY <2>3, <3>2, <4>1 DEF NewRevision, PassWindow
      <4>3. CASE FreshUpdateNow(s)
        <5>1. <<s, "update-now", pass[s].upd>> \in pass'[s].used
          BY <4>1, <4>2, <4>3
        <5>2. <<s, "update-now", pass[s].upd>>[2] = "update-now"
          OBVIOUS
        <5> QED
          BY <5>1, <5>2
      <4>4. CASE Windows[s] = <<>>
        BY <4>4 DEF Allowed
      <4>5. CASE ~InvalidWindows(s) /\ Decided[Windows[s]][clock].allowed
        BY <4>1, <4>5, DecidedSound
      <4> QED
        BY <4>2, <4>3, <4>4, <4>5 DEF WindowOpen
    <3>3. CASE PassBudget(s)
      <4>1. /\ pass[s].at = "budget" /\ pass'[s].rev = pass[s].rev /\ pass'[s].gateAt = pass[s].gateAt
            /\ pass[s].used \subseteq pass'[s].used
        BY <3>3, AdvancesEffect
      <4> QED
        BY <2>3, <4>1 DEF WindowInv, NewRevision
    <3> QED
      BY <1>2, <3>1, <3>2, <3>3 DEF Advances
  <2> QED
    BY <2>1, <2>2, <2>3 DEF WindowInv, NewRevision
<1>3. CASE Elsewhere
  <2>1. config' = config /\ pass' = pass /\ applied' = applied
    BY <1>3, ElsewhereFrame DEF statusVars
  <2> QED
    BY <2>1 DEF WindowInv, NewRevision, Windows
<1> QED
  BY <1>1, <1>2, <1>3, StepKinds

\* A StageSet wakes in time when it goes to sleep for a window.
LEMMA SleepsSoundly ==
    ASSUME TypeOK, NEW s \in StageSets, DeferForWindow(s), pending'[s] # 0, wakeAt'[s] > clock
    PROVE  \A t \in clock + 1 .. wakeAt'[s] - 1 : ~Allowed(Windows[s], t)
<1> DEFINE d == Decided[Windows[s]][clock]
           wake == requeueForWindow(d.next, clock)
<1>1. ~InvalidWindows(s) /\ ~WindowOpen(s) /\ wakeAt'[s] = wake
  BY DEF DeferForWindow, End, TypeOK
<1>2. ~d.allowed
  BY <1>1 DEF WindowOpen
<1>3. ~Allowed(Windows[s], clock) /\ (d.next # NoTime => d.next \in Nat /\ SameUntil(Windows[s], clock, d.next))
  BY <1>1, <1>2, DecidedSound
<1>4. wake \in 0 .. clock + MaxRequeue /\ d.next # NoTime /\ wake <= d.next
  BY <1>1, RequeueType
<1> HIDE DEF d, wake
<1>5. ASSUME NEW t \in clock + 1 .. wake - 1 PROVE ~Allowed(Windows[s], t)
  <2>1. clock \in Nat /\ MaxRequeue \in Nat
    BY Counters
  <2>2. t \in Nat /\ clock <= t /\ t < d.next
    BY <1>3, <1>4, <2>1
  <2> QED
    BY <1>3, <1>4, <2>2 DEF SameUntil
<1> QED
  BY <1>1, <1>5

LEMMA WakeStep == TypeOK /\ WakeInv /\ [Next]_vars => WakeInv'
<1> SUFFICES ASSUME TypeOK, WakeInv, [Next]_vars PROVE WakeInv'
  OBVIOUS
<1> DEFINE Wakes(x) == pass[x].at = "idle" /\ pending[x] # 0 /\ wakeAt[x] > clock =>
                          \A t \in clock + 1 .. wakeAt[x] - 1 : ~Allowed(Windows[x], t)
<1>0. /\ WakeInv <=> \A x \in StageSets : Wakes(x) /\ (pending[x] # 0 => ~InvalidWindows(x))
      /\ clock \in Nat /\ MaxRequeue \in Nat /\ \A x \in StageSets : wakeAt[x] \in Nat
  <2>1. clock \in Nat /\ MaxRequeue \in Nat /\ Never \in Nat
    BY Counters DEF Never
  <2>2. \A x \in StageSets : wakeAt[x] \in Nat
    BY <2>1 DEF TypeOK
  <2> QED
    BY <2>1, <2>2 DEF WakeInv, WakesWhenWindowOpens
<1>1. ASSUME NEW s \in StageSets, Ends(s) PROVE WakeInv'
  <2>1. /\ config' = config /\ clock' = clock
        /\ \A x \in StageSets \ {s} : pass'[x] = pass[x] /\ pending'[x] = pending[x] /\ wakeAt'[x] = wakeAt[x]
    BY <1>1, EndsFrame DEF userVars
  <2>2. Windows' = Windows /\ \A x \in StageSets : InvalidWindows(x)' <=> InvalidWindows(x)
    BY <2>1 DEF Windows, InvalidWindows
  <2>3. Wakes(s)' /\ (pending'[s] # 0 => ~InvalidWindows(s))
    <3>1. CASE RefuseWindows(s)
      <4>1. pending' = pending /\ InvalidWindows(s)
        BY <3>1 DEF RefuseWindows
      <4>2. pending'[s] = 0
        BY <4>1 DEF WakeInv
      <4> QED
        BY <4>2
    <3>2. CASE DeferForWindow(s)
      <4>1. ~InvalidWindows(s)
        BY <3>2 DEF DeferForWindow
      <4> QED
        BY <2>1, <2>2, <3>2, <4>1, SleepsSoundly
    <3>3. CASE ReportCycle(s) \/ AwaitDependency(s) \/ DeferForBudget(s) \/ HoldAtStage(s) \/ Deliver(s) \/ FailPass(s) \/ LosePass(s)
      <4>1. wakeAt'[s] = clock
        BY <3>3 DEF ReportCycle, AwaitDependency, DeferForBudget, HoldAtStage, Deliver, FailPass, LosePass, End, TypeOK
      <4>2. pending'[s] \in {0, pending[s]}
        BY <3>3 DEF ReportCycle, AwaitDependency, DeferForBudget, HoldAtStage, Deliver, FailPass, LosePass, SaveGates,
                    statusVars, TypeOK
      <4>3. ~(wakeAt'[s] > clock')
        BY <1>0, <2>1, <4>1
      <4> QED
        BY <4>2, <4>3 DEF WakeInv
    <3> QED
      BY <1>1, <3>1, <3>2, <3>3 DEF Ends
  <2>4. ASSUME NEW x \in StageSets, x # s PROVE Wakes(x)' /\ (pending'[x] # 0 => ~InvalidWindows(x))
    <3>1. Wakes(x) /\ (pending[x] # 0 => ~InvalidWindows(x))
      BY <1>0
    <3> QED
      BY <2>1, <2>2, <2>4, <3>1
  <2> HIDE DEF Wakes
  <2>5. \A x \in StageSets : Wakes(x)' /\ (pending'[x] # 0 => ~InvalidWindows(x)')
    BY <2>2, <2>3, <2>4
  <2> QED
    BY <2>5 DEF WakeInv, WakesWhenWindowOpens, Wakes
<1>2. ASSUME NEW s \in StageSets, Advances(s) PROVE WakeInv'
  <2>1. /\ config' = config /\ clock' = clock /\ pending' = pending /\ wakeAt' = wakeAt /\ pass'[s].at # "idle"
        /\ \A x \in StageSets \ {s} : pass'[x] = pass[x]
    BY <1>2, AdvancesFrame DEF userVars, statusVars
  <2>2. Windows' = Windows /\ \A x \in StageSets : InvalidWindows(x)' <=> InvalidWindows(x)
    BY <2>1 DEF Windows, InvalidWindows
  <2>3. \A x \in StageSets : pass'[x].at = "idle" => pass'[x] = pass[x]
    BY <2>1
  <2> QED
    BY <2>1, <2>2, <2>3 DEF WakeInv, WakesWhenWindowOpens
<1>3. CASE Elsewhere
  <2>1. config' = config /\ pending' = pending /\ pass' = pass
    BY <1>3, ElsewhereFrame DEF statusVars
  <2>2. Windows' = Windows /\ \A x \in StageSets : InvalidWindows(x)' <=> InvalidWindows(x)
    BY <2>1 DEF Windows, InvalidWindows
  <2>3. /\ clock' \in Nat /\ clock <= clock'
        /\ \A x \in StageSets : wakeAt'[x] \in Nat /\ wakeAt'[x] <= wakeAt[x]
    <3>1. CASE Tick
      BY <1>0, <3>1 DEF Tick
    <3>2. ASSUME NEW S, Wake(S), clock' = clock
          PROVE  /\ clock' \in Nat /\ clock <= clock'
                 /\ \A x \in StageSets : wakeAt'[x] \in Nat /\ wakeAt'[x] <= wakeAt[x]
      <4>1. wakeAt' \in [StageSets -> (0 .. clock + MaxRequeue) \cup {Never}] /\ \A x \in StageSets : wakeAt'[x] <= wakeAt[x]
        BY <3>2, WakeTypes
      <4>2. Never \in Nat
        BY Counters DEF Never
      <4> QED
        BY <1>0, <3>2, <4>1, <4>2
    <3>3. CASE UNCHANGED <<clock, wakeAt>>
      BY <1>0, <3>3
    <3>4. Tick \/ (\E S \in SUBSET StageSets : Wake(S) /\ clock' = clock) \/ UNCHANGED <<clock, wakeAt>>
      <4>1. ASSUME NEW s \in StageSets, SourceChanges(s) \/ SetOverride(s) PROVE Wake({s}) /\ clock' = clock
        BY <4>1 DEF SourceChanges, SetOverride
      <4>2. ASSUME NEW s \in StageSets, AnswerChanges(s) PROVE UNCHANGED <<clock, wakeAt>>
        BY <4>2 DEF AnswerChanges
      <4>3. ASSUME EditGraph PROVE \E S \in SUBSET StageSets : Wake(S) /\ clock' = clock
        <5>1. PICK g \in Graphs : Wake({x \in StageSets : g[x] # deps[x]}) /\ clock' = clock
          BY <4>3 DEF EditGraph
        <5> QED
          BY <5>1
      <4> QED
        BY <1>3, <4>1, <4>2, <4>3 DEF Elsewhere, vars
    <3> QED
      BY <3>1, <3>2, <3>3, <3>4
  <2>4. ASSUME NEW x \in StageSets PROVE Wakes(x)' /\ (pending'[x] # 0 => ~InvalidWindows(x))
    <3>1. Wakes(x) /\ (pending[x] # 0 => ~InvalidWindows(x))
      BY <1>0
    <3>2. ASSUME pass'[x].at = "idle", pending'[x] # 0, wakeAt'[x] > clock', NEW t \in clock' + 1 .. wakeAt'[x] - 1
          PROVE  ~Allowed(Windows[x], t)
      <4>1. wakeAt[x] > clock /\ t \in clock + 1 .. wakeAt[x] - 1
        BY <1>0, <2>3, <3>2
      <4> QED
        BY <2>1, <3>1, <3>2, <4>1
    <3> QED
      BY <2>2, <3>1, <3>2, <2>1
  <2> HIDE DEF Wakes
  <2>5. \A x \in StageSets : Wakes(x)' /\ (pending'[x] # 0 => ~InvalidWindows(x)')
    BY <2>2, <2>4
  <2> QED
    BY <2>5 DEF WakeInv, WakesWhenWindowOpens, Wakes
<1> QED
  BY <1>1, <1>2, <1>3, StepKinds

-----------------------------------------------------------------------------
(* The theorems.                                                           *)

LEMMA InitInv == Init => GatesInv
<1> SUFFICES ASSUME Init PROVE GatesInv
  OBVIOUS
<1>1. TypeOK
  BY InitType
<1>2. \A s \in StageSets : /\ handledUpdate[s] = 0 /\ updateNow[s] = 0 /\ handledBudget[s] = 0 /\ budgetOverride[s] = 0
                           /\ pass[s] = Idle /\ ~starved[s] /\ ~ready[s] /\ pending[s] = 0
  BY DEF Init, All
<1>3. Idle.at = "idle" /\ Idle.used = {}
  BY DEF Idle
<1>4. spent = {}
  BY DEF Init
<1>5. TokensInv
  BY <1>2, <1>3, <1>4 DEF TokensInv, TokensOf
<1>6. StarvedInv /\ DepsInv /\ WindowInv /\ WakeInv
  BY <1>2, <1>3 DEF StarvedInv, DepsInv, WindowInv, WakeInv, WakesWhenWindowOpens
<1> QED
  BY <1>1, <1>5, <1>6 DEF GatesInv

LEMMA StepInv == GatesInv /\ [Next]_vars => GatesInv'
BY TypeStep, TokensStep, StarvedStep, DepsStep, WindowStep, WakeStep DEF GatesInv

THEOREM GatesInvariant == Spec => []GatesInv
BY InitInv, StepInv, PTL DEF Spec

(* A held StageSet remembers the right things, whatever its windows, its   *)
(* budgets and the users do: it never sleeps past the tick its windows     *)
(* open, and a token that shipped a rollout never ships another            *)
(* (window.Decision, requeueForWindow, lastHandledUpdateOverride,          *)
(* lastHandledBudgetOverride).                                             *)
THEOREM HeldRightly == Spec => []HoldsRemembered
<1>1. GatesInv => HoldsRemembered
  <2> SUFFICES ASSUME GatesInv PROVE HoldsRemembered
    OBVIOUS
  <2>1. ASSUME NEW s \in StageSets, NEW u \in pass[s].used, u \in spent PROVE FALSE
    <3>1. u[1] = s /\ u[2] \in {"update-now", "budget-override"} /\ u[3] \in Nat
          /\ handledUpdate[s] \in Nat /\ handledBudget[s] \in Nat
      BY <2>1, TokenTypes DEF GatesInv, TokensInv, TokensOf
    <3>2. /\ u[2] = "update-now" => handledUpdate[s] < u[3] /\ u[3] <= handledUpdate[s]
          /\ u[2] = "budget-override" => handledBudget[s] < u[3] /\ u[3] <= handledBudget[s]
      BY <2>1, <3>1 DEF GatesInv, TokensInv, TokensOf, Handled
    <3> QED
      BY <3>1, <3>2
  <2>2. TokenShipsOnce
    BY <2>1 DEF TokenShipsOnce
  <2> QED
    BY <2>2 DEF GatesInv, WakeInv, HoldsRemembered
<1> QED
  BY <1>1, GatesInvariant, PTL

(* A new revision is delivered only past every gate: its windows, as the   *)
(* user wrote them, allowed it at the tick the pass was gated or an        *)
(* override was used; the budget is not one that has been too low ever     *)
(* since a freeze was saved; and its dependencies have delivered.          *)
THEOREM EveryGateHolds == Spec => GatesHold
<1> DEFINE Passed == \A s \in StageSets : applied'[s] # applied[s] =>
                        /\ Allowed(Windows[s], pass[s].gateAt) \/ \E u \in pass[s].used : u[2] = "update-now"
                        /\ ~starved[s]
                        /\ \A d \in pass[s].deps : applied[d] # 0
<1>1. GatesInv /\ [Next]_vars => [Passed]_vars
  <2> SUFFICES ASSUME GatesInv, [Next]_vars, NEW s \in StageSets, applied'[s] # applied[s]
               PROVE  /\ Allowed(Windows[s], pass[s].gateAt) \/ \E u \in pass[s].used : u[2] = "update-now"
                      /\ ~starved[s]
                      /\ \A d \in pass[s].deps : applied[d] # 0
    OBVIOUS
  <2>1. TypeOK
    BY DEF GatesInv
  <2>2. PICK x \in StageSets : Ends(x)
    <3>1. ~Elsewhere
      BY ElsewhereFrame DEF statusVars
    <3>2. \A x \in StageSets : ~Advances(x)
      BY <2>1, AdvancesFrame DEF statusVars
    <3> QED
      BY <3>1, <3>2, StepKinds
  <2>3. x = s
    BY <2>1, <2>2, EndsFrame
  <2>4. Deliver(s)
    BY <2>2, <2>3 DEF Ends, ReportCycle, AwaitDependency, RefuseWindows, DeferForWindow, DeferForBudget, HoldAtStage,
                      FailPass, LosePass, statusVars
  <2>5. pass[s].at = "stage" /\ NewRevision(s)
    BY <2>1, <2>4 DEF Deliver, TypeOK, NewRevision
  <2> QED
    BY <2>5 DEF GatesInv, StarvedInv, DepsInv, WindowInv
<1> QED
  BY <1>1, GatesInvariant, PTL DEF Spec, GatesHold
=============================================================================
