----------------------------- MODULE StepProofs -----------------------------
(* What the effects of a step do to the fields that depend on something,   *)
(* for every variant of the step: the lemmas SolverProofs rests on.        *)
EXTENDS DfsStep, ModularStep, SolverOutput, Integers, FiniteSetTheorems, TLAPS

(* A set of steps that holds the first and with each its successor holds   *)
(* all: the successor maps it into itself, so were it finite and short of  *)
(* the last it would have as many elements without the first.              *)
LEMMA StepInduction ==
    ASSUME NEW n \in Nat, NEW P, 0 \in P, \A i \in 0..n : i < n /\ i \in P => i + 1 \in P
    PROVE  \A i \in 0..n : i \in P
<1> SUFFICES ASSUME NEW m \in 0..n, m \notin P PROVE FALSE
  OBVIOUS
<1> DEFINE T == {i \in 0..m : i \in P}
           f == [i \in T |-> i + 1]
<1>1. IsFiniteSet(T)
  BY FS_Interval, FS_Subset, 0 \in Int, m \in Int
<1>2. \A i \in T : i + 1 \in T
  <2> TAKE i \in T
  <2>1. i # m /\ i \in 0..n /\ i < n /\ i + 1 \in P
    OBVIOUS
  <2> QED BY <2>1
<1>3. f \in Injection(T, T)
  BY <1>2 DEF Injection, IsInjective
<1>4. f \in Surjection(T, T)
  BY <1>1, <1>3, FS_Injection
<1>5. 0 \in T
  OBVIOUS
<1>6. PICK i \in T : f[i] = 0
  <2> HIDE DEF f, T
  <2> QED BY <1>4, <1>5 DEF Surjection
<1> QED BY <1>6

(* A recursion over the steps of a sequence has a solution, and one only:  *)
(* step[i] is what the i-th step makes of the value before it.             *)
Solves(f, n, X, start, step) ==
    /\ f \in [0..n -> X] /\ f[0] = start
    /\ \A i \in 1..n : f[i] = step[i][f[i - 1]]

\* Every recursion over n steps has a solution.
LEMMA SolutionExists ==
    ASSUME NEW n \in Nat, NEW X, NEW start \in X, NEW step \in [1..n -> [X -> X]]
    PROVE  \E f : Solves(f, n, X, start, step)
<1> DEFINE P == {m \in 0..n : \E f : Solves(f, m, X, start, step)}
<1>1. 0 \in P
  <2> DEFINE f == [i \in 0..0 |-> start]
  <2>1. Solves(f, 0, X, start, step)
    BY DEF Solves
  <2> HIDE DEF f
  <2> QED BY <2>1
<1>2. ASSUME NEW m \in 0..n, m < n, m \in P PROVE m + 1 \in P
  <2>1. PICK f : Solves(f, m, X, start, step)
    BY <1>2
  <2> DEFINE g == [i \in 0..m + 1 |-> IF i = m + 1 THEN step[m + 1][f[m]] ELSE f[i]]
  <2>2. f[m] \in X /\ step[m + 1] \in [X -> X]
    BY <2>1, <1>2 DEF Solves
  <2>3. g \in [0..m + 1 -> X]
    BY <2>1, <2>2 DEF Solves
  <2>4. g[0] = start
    BY <2>1 DEF Solves
  <2>5. \A i \in 1..m + 1 : g[i] = step[i][g[i - 1]]
    BY <2>1 DEF Solves
  <2>6. Solves(g, m + 1, X, start, step)
    BY <2>3, <2>4, <2>5 DEF Solves
  <2> HIDE DEF g
  <2> QED BY <2>6, <1>2
<1>3. \A m \in 0..n : m < n /\ m \in P => m + 1 \in P
  BY <1>2
<1>4. n \in P
  <2> HIDE DEF P
  <2>1. \A m \in 0..n : m \in P
    BY <1>1, <1>3, StepInduction
  <2> QED BY <2>1
<1> QED BY <1>4

-----------------------------------------------------------------------------
(* Influence is what the recursion over the effects says it is.            *)

Sequence(s) == \E S : s \in Seq(S)

\* g has the fields before the first effect and after each of them.
Follows(g, effects, fields) ==
    /\ g = [i \in 0..Len(effects) |-> g[i]] /\ g[0] = fields
    /\ \A i \in 1..Len(effects) : g[i] = Through(effects[i], g[i - 1])

Written(effects, fields) == fields \cup UNION {effects[i].writes : i \in 1..Len(effects)}
Steps(effects, fields) ==
    [i \in 1..Len(effects) |-> [seen \in SUBSET Written(effects, fields) |-> Through(effects[i], seen)]]

\* Following the fields through effects is solving such a recursion.
LEMMA FollowsSolves ==
    ASSUME NEW effects, Len(effects) \in Nat, NEW fields, NEW g
    PROVE  Follows(g, effects, fields) <=>
             Solves(g, Len(effects), SUBSET Written(effects, fields), fields, Steps(effects, fields))
<1> DEFINE n == Len(effects)
           W == Written(effects, fields)
           S == Steps(effects, fields)
<1>1. \A i \in 1..n : \A seen \in SUBSET W : Through(effects[i], seen) \in SUBSET W
  BY DEF Through, Written
<1>2. fields \in SUBSET W
  BY DEF Written
<1>3. \A i \in 1..n : \A seen \in SUBSET W : S[i][seen] = Through(effects[i], seen)
  BY DEF Steps
<1> HIDE DEF W, S
<1>4. ASSUME Follows(g, effects, fields) PROVE Solves(g, n, SUBSET W, fields, S)
  <2> DEFINE P == {i \in 0..n : g[i] \in SUBSET W}
  <2>1. 0 \in P
    BY <1>2, <1>4 DEF Follows
  <2>2. \A i \in 0..n : i < n /\ i \in P => i + 1 \in P
    <3>1. \A i \in 1..n : g[i] = Through(effects[i], g[i - 1])
      BY <1>4 DEF Follows
    <3> TAKE i \in 0..n
    <3> HAVE i < n /\ i \in P
    <3>2. g[i + 1] = Through(effects[i + 1], g[i])
      BY <3>1, i + 1 \in 1..n
    <3>3. g[i] \in SUBSET W
      OBVIOUS
    <3>4. Through(effects[i + 1], g[i]) \in SUBSET W
      BY <1>1, <3>3, i + 1 \in 1..n
    <3> QED BY <3>2, <3>4, i + 1 \in 0..n
  <2> HIDE DEF P
  <2>3. \A i \in 0..n : i \in P
    BY <2>1, <2>2, StepInduction
  <2>4. \A i \in 0..n : g[i] \in SUBSET W
    BY <2>3 DEF P
  <2>5. g \in [0..n -> SUBSET W]
    BY <1>4, <2>4 DEF Follows
  <2>6. \A i \in 1..n : g[i] = S[i][g[i - 1]]
    <3>1. \A i \in 1..n : g[i] = Through(effects[i], g[i - 1])
      BY <1>4 DEF Follows
    <3> QED BY <1>3, <2>4, <3>1
  <2> QED BY <1>4, <2>5, <2>6 DEF Follows, Solves
<1>5. ASSUME Solves(g, n, SUBSET W, fields, S) PROVE Follows(g, effects, fields)
  <2>1. \A i \in 1..n : g[i - 1] \in SUBSET W
    BY <1>5 DEF Solves
  <2> QED BY <1>3, <1>5, <2>1 DEF Follows, Solves
<1> QED BY <1>4, <1>5 DEF W, S

\* Influence ends where following the fields through all effects ends.
LEMMA InfluenceFollows ==
    ASSUME NEW effects, Len(effects) \in Nat, NEW fields
    PROVE  \E g : Follows(g, effects, fields) /\ Influence(effects, fields) = g[Len(effects)]
<1> DEFINE n == Len(effects)
           W == Written(effects, fields)
           Is(from) == from = [at \in (1..Len(effects) + 1) \X SUBSET W |->
                                 IF at[1] > Len(effects) THEN at[2]
                                 ELSE from[<<at[1] + 1, Through(effects[at[1]], at[2])>>]]
           from == CHOOSE f : Is(f)
<1>1. \A i \in 1..n : \A seen \in SUBSET W : Through(effects[i], seen) \in SUBSET W
  BY DEF Through, Written
<1>2. fields \in SUBSET W
  BY DEF Written
<1>3. Influence(effects, fields) = from[<<1, fields>>]
  BY DEF Influence, Written
<1> HIDE DEF W
<1>4. \E f : Is(f)
  <2> DEFINE F == [SUBSET W -> SUBSET W]
             id == [seen \in SUBSET W |-> seen]
             step == [k \in 1..n |-> [f \in F |-> [seen \in SUBSET W |->
                                                    f[Through(effects[n + 1 - k], seen)]]]]
  <2>1. id \in F
    OBVIOUS
  <2>2. step \in [1..n -> [F -> F]]
    <3> SUFFICES ASSUME NEW k \in 1..n, NEW f \in F, NEW seen \in SUBSET W
                 PROVE  f[Through(effects[n + 1 - k], seen)] \in SUBSET W
      OBVIOUS
    <3>1. n + 1 - k \in 1..n
      OBVIOUS
    <3>2. Through(effects[n + 1 - k], seen) \in SUBSET W
      BY <1>1, <3>1
    <3> QED BY <3>2
  <2>3. \A k \in 1..n : \A f \in F : \A seen \in SUBSET W :
           step[k][f][seen] = f[Through(effects[n + 1 - k], seen)]
    OBVIOUS
  <2>4. \A seen \in SUBSET W : id[seen] = seen
    OBVIOUS
  <2> HIDE DEF F, id, step
  <2>5. PICK h : Solves(h, n, F, id, step)
    BY <2>1, <2>2, SolutionExists
  <2>6. /\ h[0] = id
        /\ \A k \in 1..n : h[k - 1] \in F /\ h[k] = step[k][h[k - 1]]
    BY <2>5 DEF Solves
  <2>7. \A k \in 1..n : \A seen \in SUBSET W :
           h[k][seen] = h[k - 1][Through(effects[n + 1 - k], seen)]
    BY <2>3, <2>6
  <2> DEFINE f == [at \in (1..n + 1) \X SUBSET W |-> h[n + 1 - at[1]][at[2]]]
             body(at) == IF at[1] > n THEN at[2]
                         ELSE f[<<at[1] + 1, Through(effects[at[1]], at[2])>>]
  <2>8. ASSUME NEW at \in (1..n + 1) \X SUBSET W
        PROVE  h[n + 1 - at[1]][at[2]] = body(at)
    <3> DEFINE i == at[1]
               seen == at[2]
               next == Through(effects[i], seen)
    <3>1. i \in 1..n + 1 /\ seen \in SUBSET W
      OBVIOUS
    <3>2. CASE i > n
      <4>1. i = n + 1 /\ n + 1 - i = 0
        BY <3>1, <3>2
      <4> QED BY <2>4, <2>6, <3>1, <3>2, <4>1
    <3>3. CASE ~(i > n)
      <4>1. /\ n + 1 - i \in 1..n /\ n + 1 - (n + 1 - i) = i /\ n + 1 - i - 1 = n + 1 - (i + 1)
            /\ i \in 1..n /\ i + 1 \in 1..n + 1
        BY <3>1, <3>3
      <4>2. next \in SUBSET W
        BY <1>1, <3>1, <4>1
      <4>3. h[n + 1 - i][seen] = h[n + 1 - (i + 1)][next]
        <5> DEFINE k == n + 1 - i
        <5>1. k \in 1..n /\ n + 1 - k = i /\ k - 1 = n + 1 - (i + 1)
          BY <4>1
        <5> HIDE DEF k, i, seen
        <5>2. h[k][seen] = h[k - 1][Through(effects[n + 1 - k], seen)]
          BY <2>7, <3>1, <5>1
        <5> QED BY <5>1, <5>2 DEF k
      <4> HIDE DEF next, i, seen
      <4>4. f[<<i + 1, next>>] = h[n + 1 - (i + 1)][next]
        BY <4>1, <4>2
      <4>5. body(at) = f[<<i + 1, next>>]
        BY <3>3 DEF i, next, seen
      <4>6. h[n + 1 - at[1]][at[2]] = h[n + 1 - i][seen]
        BY DEF i, seen
      <4> QED BY <4>3, <4>4, <4>5, <4>6
    <3> QED BY <3>2, <3>3
  <2>9. f = [at \in (1..n + 1) \X SUBSET W |-> body(at)]
    <3> HIDE DEF body
    <3> QED BY <2>8
  <2> HIDE DEF f
  <2> QED BY <2>9
<1>5. Is(from)
  <2> HIDE DEF Is
  <2> QED BY <1>4
<1> HIDE DEF from
<1>6. \A i \in 1..n + 1 : \A seen \in SUBSET W :
         from[<<i, seen>>] = IF i > n THEN seen ELSE from[<<i + 1, Through(effects[i], seen)>>]
  <2> DEFINE body(at) == IF at[1] > n THEN at[2]
                         ELSE from[<<at[1] + 1, Through(effects[at[1]], at[2])>>]
  <2>1. from = [at \in (1..n + 1) \X SUBSET W |-> body(at)]
    BY <1>5
  <2> HIDE DEF body
  <2>2. \A i \in 1..n + 1 : \A seen \in SUBSET W : from[<<i, seen>>] = body(<<i, seen>>)
    BY <2>1
  <2> QED BY <2>2 DEF body
<1> HIDE DEF Is
<1>7. PICK g : Follows(g, effects, fields) /\ Solves(g, n, SUBSET W, fields, Steps(effects, fields))
  <2>1. Steps(effects, fields) \in [1..n -> [SUBSET W -> SUBSET W]]
    BY <1>1 DEF Steps, W
  <2>2. \E g : Solves(g, n, SUBSET W, fields, Steps(effects, fields))
    BY <1>2, <2>1, SolutionExists
  <2> QED BY <2>2, FollowsSolves DEF W
<1>8. /\ g[0] = fields /\ \A i \in 0..n : g[i] \in SUBSET W
      /\ \A i \in 1..n : g[i] = Through(effects[i], g[i - 1])
  BY <1>7 DEF Follows, Solves
<1> DEFINE P == {i \in 0..n : from[<<i + 1, g[i]>>] = from[<<1, fields>>]}
<1>9. 0 \in P
  BY <1>8
<1>10. \A i \in 0..n : i < n /\ i \in P => i + 1 \in P
  <2> TAKE i \in 0..n
  <2> HAVE i < n /\ i \in P
  <2>1. i + 1 \in 1..n /\ i + 1 \in 1..n + 1 /\ ~(i + 1 > n) /\ i + 1 - 1 = i
    OBVIOUS
  <2>2. from[<<i + 1, g[i]>>] = from[<<i + 1 + 1, Through(effects[i + 1], g[i])>>]
    BY <1>6, <1>8, <2>1
  <2>3. g[i + 1] = Through(effects[i + 1], g[i])
    BY <1>8, <2>1
  <2> QED BY <2>1, <2>2, <2>3
<1>11. \A i \in 0..n : i \in P
  <2> HIDE DEF P
  <2> QED BY <1>9, <1>10, StepInduction
<1>12. from[<<n + 1, g[n]>>] = from[<<1, fields>>]
  BY <1>11
<1>13. from[<<n + 1, g[n]>>] = g[n]
  <2>1. n + 1 \in 1..n + 1 /\ n + 1 > n /\ g[n] \in SUBSET W
    BY <1>8
  <2> QED BY <1>6, <2>1
<1> QED BY <1>3, <1>7, <1>12, <1>13

\* There is one way to follow them.
LEMMA FollowsIsUnique ==
    ASSUME NEW effects, Len(effects) \in Nat, NEW fields,
           NEW g, NEW h, Follows(g, effects, fields), Follows(h, effects, fields)
    PROVE  \A i \in 0..Len(effects) : g[i] = h[i]
<1> DEFINE n == Len(effects)
           P == {i \in 0..n : g[i] = h[i]}
<1>1. 0 \in P
  BY DEF Follows
<1>2. \A i \in 0..n : i < n /\ i \in P => i + 1 \in P
  <2>1. \A i \in 1..n : /\ g[i] = Through(effects[i], g[i - 1])
                       /\ h[i] = Through(effects[i], h[i - 1])
    BY DEF Follows
  <2> TAKE i \in 0..n
  <2> HAVE i < n /\ i \in P
  <2>2. g[i + 1] = Through(effects[i + 1], g[i]) /\ h[i + 1] = Through(effects[i + 1], h[i])
    BY <2>1, i + 1 \in 1..n
  <2> QED BY <2>2
<1> HIDE DEF P
<1>3. \A i \in 0..n : i \in P
  BY <1>1, <1>2, StepInduction
<1> QED BY <1>3 DEF P

(* The laws of Influence: nothing, one effect, and one part after another. *)

LEMMA InfluenceNothing == \A fields : Influence(Nothing, fields) = fields
<1> TAKE fields
<1>1. Len(Nothing) = 0
  BY DEF Nothing
<1>2. PICK g : Follows(g, Nothing, fields) /\ Influence(Nothing, fields) = g[0]
  BY <1>1, InfluenceFollows
<1> QED BY <1>2 DEF Follows

\* One effect: the rule Through, once.
LEMMA InfluenceOne ==
    ASSUME NEW effect, NEW fields
    PROVE  Influence(<<effect>>, fields) = Through(effect, fields)
<1>1. Len(<<effect>>) = 1 /\ <<effect>>[1] = effect
  OBVIOUS
<1>2. PICK g : Follows(g, <<effect>>, fields) /\ Influence(<<effect>>, fields) = g[1]
  BY <1>1, InfluenceFollows
<1>3. g[0] = fields /\ g[1] = Through(effect, g[0])
  BY <1>1, <1>2 DEF Follows
<1> QED BY <1>2, <1>3

\* Whether fields are followed together or apart makes no difference.
LEMMA InfluenceUnion ==
    ASSUME NEW effects, Len(effects) \in Nat, NEW some, NEW others
    PROVE  Influence(effects, some \cup others)
             = Influence(effects, some) \cup Influence(effects, others)
<1> DEFINE n == Len(effects)
<1>1. PICK g : Follows(g, effects, some) /\ Influence(effects, some) = g[n]
  BY InfluenceFollows
<1>2. PICK h : Follows(h, effects, others) /\ Influence(effects, others) = h[n]
  BY InfluenceFollows
<1>3. PICK all : /\ Follows(all, effects, some \cup others)
                 /\ Influence(effects, some \cup others) = all[n]
  BY InfluenceFollows
<1> DEFINE both == [i \in 0..n |-> g[i] \cup h[i]]
<1>4. \A e, a, b : Through(e, a \cup b) = Through(e, a) \cup Through(e, b)
  BY DEF Through
<1>5. Follows(both, effects, some \cup others)
  <2>1. both = [i \in 0..Len(effects) |-> both[i]]
    OBVIOUS
  <2>2. both[0] = some \cup others
    BY <1>1, <1>2 DEF Follows
  <2>3. ASSUME NEW i \in 1..Len(effects) PROVE both[i] = Through(effects[i], both[i - 1])
    <3>1. i \in 0..n /\ i - 1 \in 0..n
      OBVIOUS
    <3>2. both[i] = g[i] \cup h[i] /\ both[i - 1] = g[i - 1] \cup h[i - 1]
      BY <3>1
    <3>3. g[i] = Through(effects[i], g[i - 1]) /\ h[i] = Through(effects[i], h[i - 1])
      BY <1>1, <1>2 DEF Follows
    <3> HIDE DEF both
    <3> QED BY <1>4, <3>2, <3>3
  <2> HIDE DEF both
  <2> QED BY <2>1, <2>2, <2>3 DEF Follows
<1>6. both[n] = g[n] \cup h[n]
  OBVIOUS
<1> HIDE DEF both
<1>7. all[n] = both[n]
  BY <1>3, <1>5, FollowsIsUnique
<1> QED BY <1>1, <1>2, <1>3, <1>6, <1>7

\* What two sequences in a row are, element by element.
LEMMA ConcatSequence ==
    ASSUME NEW first, NEW second, Sequence(first), Sequence(second)
    PROVE  /\ Sequence(first \o second) /\ Len(first \o second) = Len(first) + Len(second)
           /\ Len(first) \in Nat /\ Len(second) \in Nat
           /\ \A i \in 1..Len(first) : (first \o second)[i] = first[i]
           /\ \A i \in 1..Len(second) : (first \o second)[Len(first) + i] = second[i]
<1>1. PICK S : first \in Seq(S)
  BY DEF Sequence
<1>2. PICK T : second \in Seq(T)
  BY DEF Sequence
<1>3. first \in Seq(S \cup T) /\ second \in Seq(S \cup T)
  BY <1>1, <1>2
<1>4. first \o second \in Seq(S \cup T)
  BY <1>3
<1> QED BY <1>3, <1>4 DEF Sequence

\* Two effects.
LEMMA InfluenceTwo ==
    ASSUME NEW e1, NEW e2, NEW fields
    PROVE  Influence(<<e1, e2>>, fields) = Through(e2, Through(e1, fields))
<1>1. Len(<<e1, e2>>) = 2 /\ <<e1, e2>>[1] = e1 /\ <<e1, e2>>[2] = e2
  OBVIOUS
<1>2. PICK g : Follows(g, <<e1, e2>>, fields) /\ Influence(<<e1, e2>>, fields) = g[2]
  BY <1>1, InfluenceFollows
<1>3. /\ g[0] = fields
      /\ \A i \in 1..2 : g[i] = Through(<<e1, e2>>[i], g[i - 1])
  BY <1>1, <1>2 DEF Follows
<1>4. g[1] = Through(e1, g[0]) /\ g[2] = Through(e2, g[1])
  BY <1>1, <1>3, 1 \in 1..2, 2 \in 1..2
<1> QED BY <1>2, <1>3, <1>4

\* Through one part and then the next is through both in a row.
LEMMA InfluenceConcat ==
    ASSUME NEW first, NEW second, Sequence(first), Sequence(second), NEW fields
    PROVE  Influence(first \o second, fields) = Influence(second, Influence(first, fields))
<1> DEFINE n == Len(first)
           k == Len(second)
           both == first \o second
           middle == Influence(first, fields)
<1>1. /\ n \in Nat /\ k \in Nat /\ Len(both) = n + k
      /\ \A i \in 1..n : both[i] = first[i]
      /\ \A i \in 1..k : both[n + i] = second[i]
  BY ConcatSequence
<1>2. PICK f : Follows(f, first, fields) /\ middle = f[n]
  BY <1>1, InfluenceFollows
<1>3. PICK s : Follows(s, second, middle) /\ Influence(second, middle) = s[k]
  BY <1>1, InfluenceFollows
<1> HIDE DEF both, middle
<1>4. PICK b : Follows(b, both, fields) /\ Influence(both, fields) = b[n + k]
  BY <1>1, Len(both) \in Nat, InfluenceFollows
<1>5. /\ f[0] = fields /\ b[0] = fields /\ s[0] = middle
      /\ \A i \in 1..n : f[i] = Through(first[i], f[i - 1])
      /\ \A i \in 1..k : s[i] = Through(second[i], s[i - 1])
      /\ \A i \in 1..n + k : b[i] = Through(both[i], b[i - 1])
  BY <1>1, <1>2, <1>3, <1>4 DEF Follows
<1>6. \A i \in 0..n : b[i] = f[i]
  <2> DEFINE P == {i \in 0..n : b[i] = f[i]}
  <2>1. 0 \in P
    BY <1>1, <1>5
  <2>2. \A i \in 0..n : i < n /\ i \in P => i + 1 \in P
    <3> TAKE i \in 0..n
    <3> HAVE i < n /\ i \in P
    <3>1. i + 1 \in 1..n /\ i + 1 \in 1..n + k /\ i + 1 - 1 = i
      BY <1>1
    <3>2. b[i + 1] = Through(first[i + 1], b[i]) /\ f[i + 1] = Through(first[i + 1], f[i])
      BY <1>1, <1>5, <3>1
    <3> QED BY <3>1, <3>2
  <2> HIDE DEF P
  <2>3. \A i \in 0..n : i \in P
    BY <1>1, <2>1, <2>2, StepInduction
  <2> QED BY <2>3 DEF P
<1>7. \A i \in 0..k : b[n + i] = s[i]
  <2> DEFINE P == {i \in 0..k : b[n + i] = s[i]}
  <2>1. 0 \in P
    BY <1>1, <1>2, <1>5, <1>6
  <2>2. \A i \in 0..k : i < k /\ i \in P => i + 1 \in P
    <3> TAKE i \in 0..k
    <3> HAVE i < k /\ i \in P
    <3>1. i + 1 \in 1..k /\ n + i + 1 \in 1..n + k /\ n + i + 1 - 1 = n + i /\ n + (i + 1) = n + i + 1
      BY <1>1
    <3>2. both[n + i + 1] = second[i + 1]
      BY <1>1, <3>1
    <3>3. b[n + i + 1] = Through(second[i + 1], b[n + i]) /\ s[i + 1] = Through(second[i + 1], s[i])
      BY <1>5, <3>1, <3>2
    <3> QED BY <3>1, <3>3
  <2> HIDE DEF P
  <2>3. \A i \in 0..k : i \in P
    BY <1>1, <2>1, <2>2, StepInduction
  <2> QED BY <2>3 DEF P
<1> QED BY <1>1, <1>3, <1>4, <1>7 DEF both, middle

-----------------------------------------------------------------------------
(* What a part of a step does with fields that depend on something: where  *)
(* none of the fields in "from" depends on it, the part leaves no field of *)
(* "to" that does, and adds none.                                          *)
Cleans(effects, from, to) ==
    /\ Sequence(effects)
    /\ \A fields : fields \cap from = {} => Influence(effects, fields) \subseteq fields \ to

\* No effects clean no fields, and dirty none.
LEMMA CleansNothing == \A from : Cleans(Nothing, from, {})
<1>1. Nothing \in Seq({})
  BY DEF Nothing
<1> QED BY <1>1, InfluenceNothing DEF Cleans, Sequence

\* A part may need more and clean less than it does.
LEMMA CleansWeaken ==
    ASSUME NEW effects, NEW from, NEW to, Cleans(effects, from, to),
           NEW wider, from \subseteq wider, NEW fewer, fewer \subseteq to
    PROVE  Cleans(effects, wider, fewer)
BY DEF Cleans

\* One part after another.
LEMMA CleansConcat ==
    ASSUME NEW first, NEW second, NEW from, NEW to, NEW more,
           Cleans(first, from, to), Cleans(second, from \cup to, more)
    PROVE  Cleans(first \o second, from, to \cup more)
<1>1. Sequence(first \o second)
  BY ConcatSequence DEF Cleans
<1> SUFFICES ASSUME NEW fields, fields \cap from = {}
             PROVE  Influence(first \o second, fields) \subseteq fields \ (to \cup more)
  BY <1>1 DEF Cleans
<1>2. Influence(first, fields) \subseteq fields \ to
  BY DEF Cleans
<1>3. Influence(first, fields) \cap (from \cup to) = {}
  BY <1>2
<1>4. Influence(second, Influence(first, fields)) \subseteq Influence(first, fields) \ more
  BY <1>3 DEF Cleans
<1> QED BY <1>2, <1>4, InfluenceConcat DEF Cleans

\* The same with room for more than is needed and less than is known.
LEMMA CleansThen ==
    ASSUME NEW first, NEW second, NEW from, NEW to, NEW middle, NEW more, NEW all,
           Cleans(first, from, to), Cleans(second, middle, more),
           middle \subseteq from \cup to, all \subseteq to \cup more
    PROVE  Cleans(first \o second, from, all)
<1>1. Cleans(second, from \cup to, more)
  BY CleansWeaken
<1>2. Cleans(first \o second, from, to \cup more)
  BY <1>1, CleansConcat
<1> QED BY <1>2, CleansWeaken

(* A part whose effects all read nothing but "from".                       *)
LEMMA CleansEach ==
    ASSUME NEW effects, Sequence(effects), NEW from,
           \A i \in 1..Len(effects) : effects[i].reads \subseteq from
    PROVE  Cleans(effects, from, UNION {effects[i].writes : i \in 1..Len(effects)})
<1> DEFINE n == Len(effects)
<1>1. n \in Nat
  BY DEF Sequence
<1> SUFFICES ASSUME NEW fields, fields \cap from = {}
             PROVE  /\ Influence(effects, fields) \subseteq fields
                    /\ \A j \in 1..n : Influence(effects, fields) \cap effects[j].writes = {}
  BY DEF Cleans
<1>2. PICK g : Follows(g, effects, fields) /\ Influence(effects, fields) = g[n]
  BY <1>1, InfluenceFollows
<1>3. g[0] = fields /\ \A i \in 1..n : g[i] = Through(effects[i], g[i - 1])
  BY <1>2 DEF Follows
<1> DEFINE Held(i) == g[i] \subseteq fields /\ \A j \in 1..i : g[i] \cap effects[j].writes = {}
           P == {i \in 0..n : Held(i)}
<1>4. 0 \in P
  BY <1>1, <1>3
<1>5. \A i \in 0..n : i < n /\ i \in P => i + 1 \in P
  <2> SUFFICES ASSUME NEW i \in 0..n, i < n, Held(i) PROVE Held(i + 1)
    OBVIOUS
  <2>1. i + 1 \in 1..n /\ i + 1 - 1 = i
    BY <1>1
  <2>2. effects[i + 1].reads \cap g[i] = {}
    BY <2>1
  <2>3. g[i + 1] = Through(effects[i + 1], g[i])
    BY <1>3, <2>1
  <2>5. g[i + 1] = g[i] \ effects[i + 1].writes
    BY <2>2, <2>3 DEF Through
  <2>4. \A j \in 1..i + 1 : j \in 1..i \/ j = i + 1
    OBVIOUS
  <2> QED BY <2>4, <2>5
<1>6. \A i \in 0..n : i \in P
  <2> HIDE DEF P
  <2> QED BY <1>1, <1>4, <1>5, StepInduction
<1>7. Held(n)
  BY <1>1, <1>6
<1> QED BY <1>2, <1>7

\* One effect.
LEMMA CleansOne ==
    ASSUME NEW reads, NEW writes, NEW from, reads \subseteq from, NEW to, to \subseteq writes
    PROVE  Cleans(<< Kernel(reads, writes) >>, from, to)
<1>1. Sequence(<< Kernel(reads, writes) >>)
  <2> DEFINE k == Kernel(reads, writes)
  <2>1. <<k>> \in Seq({k})
    OBVIOUS
  <2> QED BY <2>1 DEF Sequence
<1>2. \A fields : fields \cap reads = {} => Through(Kernel(reads, writes), fields) = fields \ writes
  BY DEF Through, Kernel
<1> QED BY <1>1, <1>2, InfluenceOne DEF Cleans

\* Two effects, the second on what the first has written.
LEMMA CleansTwo ==
    ASSUME NEW reads, NEW writes, NEW reads2, NEW writes2,
           NEW from, reads \subseteq from, reads2 \subseteq from \cup writes,
           NEW to, to \subseteq writes \cup writes2
    PROVE  Cleans(<< Kernel(reads, writes), Kernel(reads2, writes2) >>, from, to)
<1> DEFINE e1 == Kernel(reads, writes)
           e2 == Kernel(reads2, writes2)
<1>1. Sequence(<<e1, e2>>)
  <2> HIDE DEF e1, e2
  <2>1. <<e1, e2>> \in Seq({e1, e2})
    OBVIOUS
  <2> QED BY <2>1 DEF Sequence
<1> SUFFICES ASSUME NEW fields, fields \cap from = {}
             PROVE  Influence(<<e1, e2>>, fields) \subseteq fields \ to
  BY <1>1 DEF Cleans
<1>2. Through(e1, fields) = fields \ writes
  BY DEF Through, Kernel
<1>3. Through(e2, fields \ writes) = (fields \ writes) \ writes2
  BY DEF Through, Kernel
<1>4. Influence(<<e1, e2>>, fields) = (fields \ writes) \ writes2
  <2> HIDE DEF e1, e2
  <2> QED BY <1>2, <1>3, InfluenceTwo
<1> QED BY <1>4
-----------------------------------------------------------------------------
(* An attempt without the parity carry.                                    *)

\* What an attempt needs: what is committed, and its own dt.  The heads of the failed cells
\* stand apart: nothing but their pore pressure and their restoration reads them.
Given ==
    (Committed \ {"legacy_previous_face_cvbar", "kkt_failed"}) \cup {"fire_mask", "attempt"}
WithHeads == Given \cup {"kkt_failed"}

Prepared == Workspace \cup {"rainfall", "temp_erodible", "temp_depo", "tanslo", "cvlimit"}

\* The rainfall is computed from the inputs of the period.
LEMMA RainfallCleans == Cleans(apply_rainfall, Given, {"rainfall"})
BY CleansOne DEF apply_rainfall, Given

\* The slope limiter, with and without the carried slopes.
LEMMA LimiterCleans ==
    ASSUME NEW v PROVE Cleans(limiter(v), Given, Prepared \ {"rainfall"})
<1> DEFINE Slopes == {"tanslo", "cvlimit"}
<1>1. Cleans(zero_tanslodir_carry, Given, {})
  BY CleansOne DEF zero_tanslodir_carry, Given, Committed, Limiter
<1>2. Cleans(seed_initial_rholimit, Given, {})
  BY CleansTwo DEF seed_initial_rholimit, Fresh, Given, Committed, Limiter
<1>3. Cleans(reset_step_workspace, Given, Workspace \cup {"temp_erodible", "temp_depo"})
  <2>1. Cleans(<< Fresh(Workspace) >>, Given, Workspace)
    BY CleansOne DEF Fresh, Workspace
  <2>2. Cleans(<< Kernel({"erodible_thickness"}, {"temp_erodible"}),
                  Kernel({"depo_thickness"}, {"temp_depo"}) >>, Given \cup Workspace,
               {"temp_erodible", "temp_depo"})
    BY CleansTwo DEF Given, Committed, Bed
  <2>3. reset_step_workspace =
          << Fresh(Workspace) >> \o
          << Kernel({"erodible_thickness"}, {"temp_erodible"}),
             Kernel({"depo_thickness"}, {"temp_depo"}) >>
    BY DEF reset_step_workspace
  <2> QED BY <2>1, <2>2, <2>3, CleansConcat
<1>4. Cleans(bed_slope_limiter, Given, Slopes)
  BY CleansTwo DEF bed_slope_limiter, Given, Committed, Transported, Limiter
<1>5. Cleans(bed_slope_limiter_with_carry, Given, Slopes)
  BY CleansTwo
     DEF bed_slope_limiter_with_carry, Given, Committed, Transported, Limiter
<1>6. Cleans(IF v.carry THEN bed_slope_limiter_with_carry ELSE bed_slope_limiter,
             Given \cup (Workspace \cup {"temp_erodible", "temp_depo"}), Slopes)
  BY <1>4, <1>5, CleansWeaken
<1> HIDE DEF Slopes
<1>7. Cleans(zero_tanslodir_carry \o seed_initial_rholimit, Given, {} \cup {})
  BY <1>1, <1>2, CleansConcat, CleansWeaken
<1>8. Cleans(zero_tanslodir_carry \o seed_initial_rholimit \o reset_step_workspace, Given,
             {} \cup (Workspace \cup {"temp_erodible", "temp_depo"}))
  BY <1>3, <1>7, CleansConcat, CleansWeaken
<1>9. Cleans(limiter(v), Given, Workspace \cup {"temp_erodible", "temp_depo"} \cup Slopes)
  BY <1>6, <1>8, CleansConcat, CleansWeaken DEF limiter
<1> QED BY <1>9, CleansWeaken DEF Prepared, Slopes

\* The inflow, with and without a velocity.
LEMMA InflowCleans ==
    ASSUME NEW v, NEW from, Given \subseteq from PROVE Cleans(stage_inflow_forcing(v), from, {})
<1>1. Cleans(build_inflow_stage_arrays, from, {"tempinflow"})
  BY CleansTwo DEF build_inflow_stage_arrays, inflow_denominator, Fresh, Given
<1>2. Cleans(<< Kernel({"attempt", "tempinflow", "fv"}, {"fv"}) >>, from \cup {"tempinflow"}, {})
  BY CleansOne DEF Given, Committed, Transported
<1>3. Cleans(IF v.inject THEN << Kernel({"attempt", "tempinflow", "fv"}, {"fv"}) >> ELSE Nothing,
             from \cup {"tempinflow"}, {})
  BY <1>2, CleansNothing
<1>4. Cleans(stage_inflow_forcing(v), from, {"tempinflow"} \cup {})
  BY <1>1, <1>3, CleansConcat DEF stage_inflow_forcing
<1> QED BY <1>4, CleansWeaken

(* What the staging of the surface leaves, with runoff before or after.    *)
Routed(v) == IF rnoff_precomputes(v) THEN {"rnoff_ir"} ELSE {}
Candidate(v) == IF v.infiltration = "green_ampt" THEN {"ci_candidate"} ELSE {}

\* The runoff of the period, where it is precomputed, comes from what is prepared.
LEMMA RunoffCleans ==
    ASSUME NEW v, NEW from, Given \cup Prepared \subseteq from
    PROVE  Cleans(rnoff_period_precompute(v), from, Routed(v))
<1>1. Cleans(rnoff_route_on_host, from, {"rnoff_ir"})
  BY CleansOne DEF rnoff_route_on_host, Prepared
<1>2. Cleans(rnoff_route_on_device, from, {"rnoff_ir"})
  <2>1. Cleans(rnoff_prepare_inputs, from, {"rnoff_rideb", "rnoff_ir_cell", "rnoff_ro"})
    BY CleansTwo DEF rnoff_prepare_inputs, Fresh, Prepared
  <2>2. Cleans(rnoff_route, from \cup {"rnoff_rideb", "rnoff_ir_cell", "rnoff_ro"}, {})
    BY CleansOne DEF rnoff_route
  <2>3. Cleans(rnoff_prepare_inputs \o rnoff_route, from,
               {"rnoff_rideb", "rnoff_ir_cell", "rnoff_ro"} \cup {})
    BY <2>1, <2>2, CleansConcat
  <2>4. Cleans(rnoff_write_ir_grid, from \cup ({"rnoff_rideb", "rnoff_ir_cell", "rnoff_ro"} \cup {}),
               {"rnoff_ir"})
    BY CleansOne DEF rnoff_write_ir_grid
  <2>5. Cleans(rnoff_route_on_device, from,
               ({"rnoff_rideb", "rnoff_ir_cell", "rnoff_ro"} \cup {}) \cup {"rnoff_ir"})
    BY <2>3, <2>4, CleansConcat DEF rnoff_route_on_device
  <2> QED BY <2>5, CleansWeaken
<1> QED BY <1>1, <1>2, CleansNothing DEF rnoff_period_precompute, Routed

\* The forcing of the surface is rebuilt in full, with the Green-Ampt candidate.
LEMMA ForcingCleans ==
    ASSUME NEW v, NEW from, Given \cup Prepared \subseteq from
    PROVE  Cleans(surface_forcing(v), from, Forcing \cup Candidate(v))
<1>1. Cleans(stage_surface_forcing, from, Forcing)
  BY CleansOne DEF stage_surface_forcing, Given, Committed, Transported, Prepared, Workspace
<1>2. Cleans(stage_surface_forcing_direct_rain_plus_storage, from, Forcing)
  BY CleansOne
     DEF stage_surface_forcing_direct_rain_plus_storage, Given, Committed, Transported,
         Prepared, Workspace
<1>3. Cleans(stage_surface_forcing_green_ampt, from, Forcing \cup {"ci_candidate"})
  <2> DEFINE reads == {"h", "rho", "Cv", "rainfall", "tempinflow", "F_cumulative", "attempt"}
  <2>1. Cleans(build_inflow_stage_arrays, from, {})
    BY CleansTwo DEF build_inflow_stage_arrays, inflow_denominator, Fresh, Given
  <2>2. reads \subseteq from
    BY DEF Given, Committed, Transported, Soil, Prepared, Workspace
  <2>3. Cleans(<< Kernel(reads, Forcing \cup {"ci_candidate"}) >>, from \cup {},
               Forcing \cup {"ci_candidate"})
    BY <2>2, CleansOne
  <2>4. Cleans(stage_surface_forcing_green_ampt, from, {} \cup (Forcing \cup {"ci_candidate"}))
    BY <2>1, <2>3, CleansConcat DEF stage_surface_forcing_green_ampt
  <2> QED BY <2>4, CleansWeaken
<1>4. CASE v.infiltration = "direct"
  BY <1>2, <1>4 DEF surface_forcing, Candidate
<1>5. CASE v.infiltration = "green_ampt"
  BY <1>3, <1>5 DEF surface_forcing, Candidate
<1>6. CASE v.infiltration \notin {"direct", "green_ampt"}
  BY <1>1, <1>6 DEF surface_forcing, Candidate
<1> QED BY <1>4, <1>5, <1>6

\* Staging the late runoff adds no field.
LEMMA RunoffStagingCleans ==
    ASSUME NEW v, NEW from, Given \cup Prepared \cup Forcing \cup Routed(v) \subseteq from
    PROVE  Cleans(rnoff_after_staging(v), from, {})
<1>1. CASE rnoff_precomputes(v)
  <2>1. {"h", "rho", "tempri", "rnoff_ir", "tempinflow", "attempt"} \subseteq from
    BY <1>1 DEF Given, Committed, Transported, Prepared, Workspace, Routed
  <2>2. Cleans(rnoff_surface_staging, from, {})
    BY <2>1, CleansOne DEF rnoff_surface_staging
  <2>3. v.rnoff # "late"
    BY <1>1 DEF rnoff_precomputes
  <2>4. rnoff_after_staging(v) = rnoff_surface_staging
    BY <1>1, <2>3 DEF rnoff_after_staging
  <2> QED BY <2>2, <2>4
<1>2. CASE ~rnoff_precomputes(v)
  <2>1. Cleans(rnoff_late_hook, from, {})
    BY CleansOne DEF rnoff_late_hook, Forcing
  <2>2. rnoff_after_staging(v) \in {rnoff_late_hook, Nothing}
    BY <1>2 DEF rnoff_after_staging
  <2> QED BY <2>1, <2>2, CleansNothing
<1> QED BY <1>1, <1>2

(* The sources; the probes and copies in between change nothing else.      *)
Probed(v) == IF v.probe = "off" THEN {} ELSE {"momentum_probe"}

SourceRates == {"erosion_rate", "deposition_rate"} \cup SourceDiagnostics

FailureState(v) ==
    IF v.failure = "schedule" THEN {"candidate_fired"}
    ELSE {"kkt1", "desat", "FS", "fdepth", "desat_failed"}

\* The probes at the entry of the sources fill their buffer from what is prepared.
LEMMA EntryProbeCleans ==
    ASSUME NEW v \in Variants, NEW from, Given \cup Prepared \cup Forcing \subseteq from
    PROVE  Cleans(IfProbed(v, stage_trace \o capture_depo_velocity("depo_velocity_source_entry")
                             \o Probe(v, source_entry_probe_light, source_entry_probe)),
                  from, Probed(v))
<1> DEFINE velocity == capture_depo_velocity("depo_velocity_source_entry")
           probe == Probe(v, source_entry_probe_light, source_entry_probe)
<1>1. Cleans(stage_trace, from, {})
  BY CleansOne DEF stage_trace, Given, Committed, Transported, Prepared, Workspace
<1>2. Cleans(velocity, from, {})
  BY CleansOne DEF capture_depo_velocity, Given, Committed, Transported
<1>3. Cleans(source_entry_probe_light, from, {"momentum_probe"})
  BY CleansOne DEF source_entry_probe_light, Given, Committed, Transported, Forcing
<1>4. Cleans(source_entry_probe, from, {"momentum_probe"})
  BY CleansOne DEF source_entry_probe, Given, Committed, Transported, Forcing
<1> HIDE DEF velocity
<1>5. Cleans(stage_trace \o velocity, from, {} \cup {})
  BY <1>1, <1>2, CleansConcat, CleansWeaken
<1>6. ASSUME v.probe # "off" PROVE Cleans(probe, from, {"momentum_probe"})
  <2>1. v.probe = "light" \/ v.probe = "full"
    BY <1>6 DEF Variants
  <2>2. v.probe = "light" => v.probe # "full"
    OBVIOUS
  <2>3. probe = source_entry_probe_light \/ probe = source_entry_probe
    BY <2>1, <2>2 DEF Probe
  <2> QED BY <1>3, <1>4, <2>3
<1> HIDE DEF probe
<1>7. ASSUME v.probe # "off"
      PROVE  Cleans(stage_trace \o velocity \o probe, from, ({} \cup {}) \cup {"momentum_probe"})
  BY <1>5, <1>6, <1>7, CleansConcat, CleansWeaken
<1>8. CASE v.probe = "off"
  BY <1>8, CleansNothing DEF IfProbed, Probed
<1>9. CASE v.probe # "off"
  BY <1>7, <1>9, CleansWeaken DEF IfProbed, Probed, velocity, probe
<1> QED BY <1>8, <1>9

\* The rates of erosion and deposition are computed anew from the forcing.
LEMMA RatesClean ==
    ASSUME NEW v, ~v.parity, NEW from, Given \cup Prepared \cup Forcing \subseteq from
    PROVE  Cleans(compute_source_rates(v), from, SourceRates)
<1> DEFINE reads == {"fhpredi1", "frhopredi1", "fv", "h", "tanslo", "rholimit", "cvlimit",
                     "erodible_thickness", "depo_thickness", "attempt"} \cup {}
           writes == {"erosion_rate", "deposition_rate", "rhodepo", "temp_erodible", "temp_depo"}
                       \cup SourceDiagnostics
<1>1. reads \subseteq from
  BY DEF Given, Committed, Transported, Bed, Limiter, Prepared, Forcing
<1>2. SourceRates \subseteq writes
  BY DEF SourceRates
<1>3. compute_source_rates(v) = << Kernel(reads, writes) >>
  BY DEF compute_source_rates
<1> HIDE DEF reads, writes
<1> QED BY <1>1, <1>2, <1>3, CleansOne

\* Marking the cells that fail reads the soil they have and adds no dependence.
LEMMA FailCellsClean ==
    ASSUME NEW from,
           {"FS", "fdepth", "is_failed", "attempt", "kkt", "kkt_failed", "kkt1", "kkt1_failed",
            "pt", "desat", "pt_failed", "desat_failed", "FS_failed", "fdepth_failed"} \subseteq from
    PROVE  Cleans(fail_cells, from, {})
<1>1. Sequence(fail_cells)
  <2> DEFINE S == {fail_cells[i] : i \in 1..5}
  <2>1. fail_cells \in Seq(S)
    BY DEF fail_cells
  <2> QED BY <2>1 DEF Sequence
<1>2. \A i \in 1..Len(fail_cells) : fail_cells[i].reads \subseteq from
  BY DEF fail_cells, Kernel
<1>3. Cleans(fail_cells, from, UNION {fail_cells[i].writes : i \in 1..Len(fail_cells)})
  BY <1>1, <1>2, CleansEach
<1> QED BY <1>3, CleansWeaken

\* The double-layer failure computes the soil of the candidate.
LEMMA DoubleLayerCleans ==
    ASSUME NEW released, NEW from, WithHeads \cup Prepared \cup Forcing \subseteq from
    PROVE  Cleans(double_layer_failure(released), from,
                  {"kkt1", "desat", "FS", "fdepth", "desat_failed"})
<1>0. {"kkt", "kkt_failed", "kkt1_failed", "is_failed", "FS_failed", "fdepth_failed", "infiltration",
       "attempt"} \subseteq from
  BY DEF WithHeads, Given, Committed, Soil, Forcing
<1> DEFINE pore == {"pt", "desat", "pt_failed", "desat_failed"}
<1>1. Cleans(solve_richards, from, {"kkt1"})
  BY <1>0, CleansTwo DEF solve_richards
<1>2. Cleans(compute_pore_pressure, from \cup {"kkt1"}, pore)
  BY <1>0, CleansTwo DEF compute_pore_pressure
<1>3. Cleans(solve_richards \o compute_pore_pressure, from, {"kkt1"} \cup pore)
  BY <1>1, <1>2, CleansConcat
<1>4. Cleans(find_minimum_fs, from \cup ({"kkt1"} \cup pore), {"FS", "fdepth"})
  BY <1>0, CleansOne DEF find_minimum_fs
<1>5. Cleans(solve_richards \o compute_pore_pressure \o find_minimum_fs, from,
             ({"kkt1"} \cup pore) \cup {"FS", "fdepth"})
  BY <1>3, <1>4, CleansConcat
<1> DEFINE all == ({"kkt1"} \cup pore) \cup {"FS", "fdepth"}
           reads == {"FS", "fdepth", "is_failed", "attempt"}
<1>6. Cleans(populate_failure_source_terms(released), from \cup all, {})
  <2>1. reads \subseteq from \cup all
    BY <1>0
  <2>2. Cleans(fail_cells, from \cup all, {})
    BY <1>0, FailCellsClean
  <2> HIDE DEF reads, all
  <2>3. Cleans(<< Kernel(reads, {"tempfsh", "tempfsrho"}) >>, from \cup all, {})
    BY <2>1, CleansOne
  <2>4. Cleans(IF released THEN fail_cells ELSE Nothing, (from \cup all) \cup {}, {})
    BY <2>2, CleansNothing
  <2>5. Cleans(populate_failure_source_terms(released), from \cup all, {} \cup {})
    BY <2>3, <2>4, CleansConcat DEF populate_failure_source_terms, reads
  <2> QED BY <2>5, CleansWeaken
<1>7. Cleans(double_layer_failure(released), from, all \cup {})
  BY <1>5, <1>6, CleansConcat DEF double_layer_failure
<1> QED BY <1>7, CleansWeaken

\* Either failure model leaves no dependence in what it computes.
LEMMA FailureCleans ==
    ASSUME NEW v, NEW released, NEW from, WithHeads \cup Prepared \cup Forcing \subseteq from
    PROVE  Cleans(failure_sources(v, released), from, FailureState(v))
<1>1. Cleans(stage_failure_schedule, from, {"candidate_fired"})
  BY CleansOne DEF stage_failure_schedule, WithHeads, Given, Committed, Soil, Bed
<1> QED BY <1>1, DoubleLayerCleans DEF failure_sources, FailureState

\* Merging the sources adds none.
LEMMA MergeCleans ==
    ASSUME NEW from, Given \cup Prepared \cup Forcing \cup SourceRates \subseteq from
    PROVE  Cleans(merge_source_terms, from, {})
BY CleansTwo
   DEF merge_source_terms, Given, Committed, Transported, Prepared, Workspace, Forcing, SourceRates

\* Neither do the copies of the sources that the mutation gates switch on.
LEMMA SourceCopiesClean ==
    ASSUME NEW v, NEW from, Given \cup Prepared \cup Forcing \cup SourceRates \subseteq from
    PROVE  Cleans(IfMutated(v, erosion_deposition_diagnostic \o erosion_deposition_writeback),
                  from, {})
<1> DEFINE copies == {"erorate_diag", "deporate_diag", "deep_state_diag"}
           reads == {"erorate_diag", "deporate_diag", "deep_state_diag", "erosion_rate",
                     "deposition_rate", "tempfsh", "tempele", "erosion_depth", "attempt"}
           back == {"erosion_deposition_matched", "erorate_diag", "deporate_diag",
                    "erosion_rate", "deposition_rate"}
           matched == << Kernel(reads, {"erosion_deposition_matched"}) >>
<1>1. Cleans(diagnostic_bookkeeping, from, copies)
  BY CleansOne DEF diagnostic_bookkeeping, Given, Committed, Bed, Prepared, Workspace, SourceRates
<1>2. Cleans(matched, from \cup copies, {"erosion_deposition_matched"})
  <2>1. reads \subseteq from \cup copies
    BY DEF Given, Committed, Bed, Prepared, Workspace, SourceRates
  <2> QED BY <2>1, CleansOne
<1>3. Cleans(erosion_deposition_diagnostic, from, copies \cup {"erosion_deposition_matched"})
  BY <1>1, <1>2, CleansConcat DEF erosion_deposition_diagnostic
<1>4. Cleans(erosion_deposition_writeback,
             from \cup (copies \cup {"erosion_deposition_matched"}), {})
  <2>1. back \subseteq from \cup (copies \cup {"erosion_deposition_matched"})
    BY DEF SourceRates
  <2> QED BY <2>1, CleansOne DEF erosion_deposition_writeback
<1>5. Cleans(erosion_deposition_diagnostic \o erosion_deposition_writeback, from,
             (copies \cup {"erosion_deposition_matched"}) \cup {})
  BY <1>3, <1>4, CleansConcat
<1>6. Cleans(erosion_deposition_diagnostic \o erosion_deposition_writeback, from, {})
  BY <1>5, CleansWeaken
<1> QED BY <1>6, CleansNothing DEF IfMutated

(* The face fluxes, their probes and copies.                               *)

\* What the attempt has computed when the face fluxes begin.
Flags == {"first_reject", "reject_flag", "suggested_dt"}
Sourced(v) == Prepared \cup Forcing \cup Flags \cup SourceRates \cup Probed(v)

\* The face fluxes read nothing but what the attempt has computed.
LEMMA FluxesClean ==
    ASSUME NEW from, Given \cup Prepared \cup Forcing \cup Flags \cup SourceRates \subseteq from
    PROVE  Cleans(compute_edge_fluxes, from, {})
<1>1. Cleans(reset_edge_fluxes, from, {})
  BY CleansOne DEF reset_edge_fluxes, Fresh
<1>2. Cleans(face_depth, from, {"face_grad"})
  BY CleansOne DEF face_depth, Prepared, Workspace
<1>3. Cleans(face_velocity, from \cup {"face_grad"}, {"face_dt0"})
  BY CleansOne
     DEF face_velocity, Given, Committed, Transported, Prepared, Workspace, SourceRates
<1>4. Cleans(face_courant, from, {})
  <2> DEFINE reads == {"fv_pred", "fybar", "attempt"}
  <2>1. reads \subseteq from /\ reads \cup {"reject_flag", "first_reject"} \subseteq from
    BY DEF Given, Prepared, Workspace, Flags
  <2>2. face_courant = << Kernel(reads, {"max_wave_speed"}),
                          Kernel(reads \cup {"reject_flag", "first_reject"},
                                 {"reject_flag", "first_reject"}) >>
    BY DEF face_courant, record_first_reject
  <2> HIDE DEF reads
  <2> QED BY <2>1, <2>2, CleansTwo
<1>5. Cleans(face_discharge, from \cup {"face_dt0"}, {})
  BY CleansOne DEF face_discharge, Given, Prepared, Workspace
<1>6. Cleans(reset_edge_fluxes \o face_depth, from, {"face_grad"})
  BY <1>1, <1>2, CleansConcat, CleansWeaken
<1>7. Cleans(reset_edge_fluxes \o face_depth \o face_velocity, from, {"face_grad"} \cup {"face_dt0"})
  BY <1>3, <1>6, CleansConcat
<1>8. Cleans(reset_edge_fluxes \o face_depth \o face_velocity \o face_courant, from,
             {"face_dt0"})
  BY <1>4, <1>7, CleansThen
<1> QED BY <1>5, <1>8, CleansThen DEF compute_edge_fluxes

\* Nor do the probes of the fluxes.
LEMMA FluxProbesClean ==
    ASSUME NEW v \in Variants, NEW from, Given \cup Sourced(v) \subseteq from
    PROVE  Cleans(IfProbed(v, Probe(v, face_flux_probe_light, face_flux_probe)
                                \o face_flux_diagnostic), from, {})
<1> DEFINE probe == Probe(v, face_flux_probe_light, face_flux_probe)
<1>1. Cleans(face_flux_diagnostic, from, {})
  BY CleansOne DEF face_flux_diagnostic, Sourced, Prepared, Workspace
<1>2. Cleans(face_flux_probe, from, {})
  BY CleansOne DEF face_flux_probe, Given, Committed, Transported, Sourced, Prepared, Workspace
<1>3. ASSUME v.probe # "off" PROVE Cleans(probe, from, {})
  <2>1. {"fv", "fv_pred", "fhpredi", "frhopredi", "qq", "momentum_probe", "attempt"}
          \subseteq from
    BY <1>3 DEF Given, Committed, Transported, Sourced, Prepared, Workspace, Probed
  <2>2. Cleans(face_flux_probe_light, from, {})
    BY <2>1, CleansOne DEF face_flux_probe_light
  <2>3. v.probe = "light" \/ v.probe = "full"
    BY <1>3 DEF Variants
  <2>4. v.probe = "light" => v.probe # "full"
    OBVIOUS
  <2>5. probe = face_flux_probe_light \/ probe = face_flux_probe
    BY <2>3, <2>4 DEF Probe
  <2> QED BY <1>2, <2>2, <2>5
<1> HIDE DEF probe
<1>4. ASSUME v.probe # "off" PROVE Cleans(probe \o face_flux_diagnostic, from, {})
  BY <1>1, <1>3, <1>4, CleansConcat, CleansWeaken
<1>5. CASE v.probe = "off"
  BY <1>5, CleansNothing DEF IfProbed
<1>6. CASE v.probe # "off"
  BY <1>4, <1>6 DEF IfProbed, probe
<1> QED BY <1>5, <1>6

(* The first half of an attempt, up to the failure and from there on.      *)
AtHalf(v) == Sourced(v) \cup Candidate(v) \cup FailureState(v)

BeforeFailure(v) ==
    apply_rainfall \o limiter(v) \o reset_first_reject \o stage_inflow_forcing(v)
      \o rnoff_period_precompute(v) \o surface_forcing(v) \o rnoff_after_staging(v)
      \o IfProbed(v, stage_trace \o capture_depo_velocity("depo_velocity_source_entry")
                       \o Probe(v, source_entry_probe_light, source_entry_probe))
      \o compute_source_rates(v)

\* The part before the failure, without parity, computes what comes after from what is given.
LEMMA BeforeFailureCleans ==
    ASSUME NEW v \in Variants, ~v.parity
    PROVE  Cleans(BeforeFailure(v), Given, Sourced(v) \cup Candidate(v))
<1> DEFINE p1 == apply_rainfall \o limiter(v)
           p2 == p1 \o reset_first_reject
           p3 == p2 \o stage_inflow_forcing(v)
           p4 == p3 \o rnoff_period_precompute(v)
           p5 == p4 \o surface_forcing(v)
           p6 == p5 \o rnoff_after_staging(v)
           p7 == p6 \o IfProbed(v, stage_trace \o capture_depo_velocity("depo_velocity_source_entry")
                                     \o Probe(v, source_entry_probe_light, source_entry_probe))
           p8 == p7 \o compute_source_rates(v)
           d4 == Prepared \cup Flags \cup Routed(v)
           d5 == d4 \cup (Forcing \cup Candidate(v))
           d7 == d5 \cup Probed(v)
           d8 == d7 \cup SourceRates
<1>1. Cleans(p1, Given, Prepared)
  <2>1. Given \subseteq Given \cup {"rainfall"}
    OBVIOUS
  <2>2. Prepared \subseteq {"rainfall"} \cup (Prepared \ {"rainfall"})
    OBVIOUS
  <2> HIDE DEF Prepared
  <2>3. Cleans(apply_rainfall, Given, {"rainfall"})
    BY RainfallCleans
  <2>4. Cleans(limiter(v), Given, Prepared \ {"rainfall"})
    BY LimiterCleans
  <2> QED BY <2>1, <2>2, <2>3, <2>4, CleansThen
<1>2. Cleans(p2, Given, Prepared \cup Flags)
  <2>1. Cleans(reset_first_reject, Given \cup Prepared, Flags)
    BY CleansOne DEF reset_first_reject, Given, Flags
  <2> HIDE DEF p1
  <2> QED BY <1>1, <2>1, CleansConcat
<1> HIDE DEF p1
<1>3. Cleans(p3, Given, Prepared \cup Flags)
  <2> HIDE DEF p2
  <2>1. Cleans(stage_inflow_forcing(v), Given \cup (Prepared \cup Flags), {})
    BY InflowCleans
  <2> QED BY <1>2, <2>1, CleansConcat, CleansWeaken
<1> HIDE DEF p2
<1>4. Cleans(p4, Given, d4)
  <2> HIDE DEF p3
  <2>1. Cleans(rnoff_period_precompute(v), Given \cup (Prepared \cup Flags), Routed(v))
    BY RunoffCleans
  <2> QED BY <1>3, <2>1, CleansConcat
<1> HIDE DEF p3
<1>5. Cleans(p5, Given, d5)
  <2> HIDE DEF p4
  <2>1. Cleans(surface_forcing(v), Given \cup d4, Forcing \cup Candidate(v))
    BY ForcingCleans
  <2> HIDE DEF d4
  <2> QED BY <1>4, <2>1, CleansConcat
<1> HIDE DEF p4
<1>6. Cleans(p6, Given, d5)
  <2> HIDE DEF p5
  <2>1. Cleans(rnoff_after_staging(v), Given \cup d5, {})
    BY RunoffStagingCleans
  <2> HIDE DEF d5
  <2> QED BY <1>5, <2>1, CleansConcat, CleansWeaken
<1> HIDE DEF p5
<1>7. Cleans(p7, Given, d7)
  <2> HIDE DEF p6
  <2>1. Cleans(IfProbed(v, stage_trace \o capture_depo_velocity("depo_velocity_source_entry")
                             \o Probe(v, source_entry_probe_light, source_entry_probe)),
               Given \cup d5, Probed(v))
    BY EntryProbeCleans
  <2> HIDE DEF d5
  <2> QED BY <1>6, <2>1, CleansConcat
<1> HIDE DEF p6
<1>8. Cleans(p8, Given, d8)
  <2> HIDE DEF p7
  <2>1. Cleans(compute_source_rates(v), Given \cup d7, SourceRates)
    BY RatesClean
  <2> HIDE DEF d7
  <2> QED BY <1>7, <2>1, CleansConcat
<1>9. BeforeFailure(v) = p8
  BY DEF BeforeFailure, p1, p2, p3, p4, p5, p6, p7
<1> HIDE DEF p8
<1> QED BY <1>8, <1>9, CleansWeaken DEF Sourced

\* The first half of an attempt, without parity, computes all of AtHalf from what is given.
LEMMA FirstHalfCleans ==
    ASSUME NEW v \in Variants, ~v.parity, NEW released
    PROVE  Cleans(FirstHalf(v, released), WithHeads, AtHalf(v))
<1> DEFINE p9 == BeforeFailure(v) \o failure_sources(v, released)
           p10 == p9 \o merge_source_terms
           p11 == p10 \o IfMutated(v, erosion_deposition_diagnostic \o erosion_deposition_writeback)
           p12 == p11 \o compute_edge_fluxes
           p13 == p12 \o IfProbed(v, Probe(v, face_flux_probe_light, face_flux_probe)
                                       \o face_flux_diagnostic)
           A == AtHalf(v)
<1>0. /\ WithHeads \cup Prepared \cup Forcing \subseteq WithHeads \cup (Sourced(v) \cup Candidate(v))
      /\ Given \cup Sourced(v) \subseteq WithHeads \cup A
      /\ Given \cup Prepared \cup Forcing \cup SourceRates \subseteq WithHeads \cup A
      /\ Given \cup Prepared \cup Forcing \cup Flags \cup SourceRates \subseteq WithHeads \cup A
  BY DEF WithHeads, Sourced, AtHalf
<1>9. Cleans(p9, WithHeads, A)
  <2>1. Cleans(BeforeFailure(v), WithHeads, Sourced(v) \cup Candidate(v))
    BY BeforeFailureCleans, CleansWeaken DEF WithHeads
  <2>2. Cleans(failure_sources(v, released), WithHeads \cup (Sourced(v) \cup Candidate(v)),
               FailureState(v))
    BY <1>0, FailureCleans
  <2>3. A = (Sourced(v) \cup Candidate(v)) \cup FailureState(v)
    BY DEF AtHalf
  <2> QED BY <2>1, <2>2, <2>3, CleansConcat
<1> HIDE DEF p9, A
<1>10. Cleans(p10, WithHeads, A)
  <2>1. Cleans(merge_source_terms, WithHeads \cup A, {})
    BY <1>0, MergeCleans
  <2> QED BY <1>9, <2>1, CleansConcat, CleansWeaken
<1> HIDE DEF p10
<1>11. Cleans(p11, WithHeads, A)
  <2>1. Cleans(IfMutated(v, erosion_deposition_diagnostic \o erosion_deposition_writeback), WithHeads \cup A, {})
    BY <1>0, SourceCopiesClean
  <2> QED BY <1>10, <2>1, CleansConcat, CleansWeaken
<1> HIDE DEF p11
<1>12. Cleans(p12, WithHeads, A)
  <2>1. Cleans(compute_edge_fluxes, WithHeads \cup A, {})
    BY <1>0, FluxesClean
  <2> QED BY <1>11, <2>1, CleansConcat, CleansWeaken
<1> HIDE DEF p12
<1>13. Cleans(p13, WithHeads, A)
  <2>1. Cleans(IfProbed(v, Probe(v, face_flux_probe_light, face_flux_probe)
                              \o face_flux_diagnostic), WithHeads \cup A, {})
    BY <1>0, FluxProbesClean
  <2> QED BY <1>12, <2>1, CleansConcat, CleansWeaken
<1>14. FirstHalf(v, released) = p13 \o Nothing
  BY DEF FirstHalf, BeforeFailure, p9, p10, p11, p12
<1> HIDE DEF p13
<1>15. Cleans(Nothing, WithHeads \cup A, {})
  BY CleansNothing
<1> QED BY <1>13, <1>14, <1>15, CleansThen DEF A

(* The second half: the sums, their copies and the volume balance.         *)

LEMMA AccumulateCleans ==
    ASSUME NEW from, Prepared \cup Flags \subseteq from
    PROVE  Cleans(accumulate_and_check, from, {"qnet"})
<1> DEFINE sums == {"qnet", "qtnet", "qmassnet"}
           depths == {"fhpredi2", "frhopredi2"}
           flags == {"fhpredi2", "fhpredi"} \cup {"reject_flag", "first_reject"}
           first == << Kernel({"qq", "qqt", "qqmass"}, sums),
                       Kernel({"qnet", "qmassnet", "fhpredi", "frhopredi"}, depths) >>
           second == << Kernel(flags, {"reject_flag", "first_reject"}) >>
<1>1. Cleans(first, from, {"qnet"})
  BY CleansTwo DEF Prepared, Workspace
<1>2. flags \subseteq from
  BY DEF Prepared, Workspace, Flags
<1>3. Cleans(second, from, {})
  <2> HIDE DEF flags
  <2> QED BY <1>2, CleansOne
<1>4. accumulate_and_check = first \o second
  BY DEF accumulate_and_check, record_first_reject
<1> HIDE DEF first, second
<1> QED BY <1>1, <1>3, <1>4, CleansThen

\* The copies of the sums and of the predictor add no dependence.
LEMMA SumCopiesClean ==
    ASSUME NEW v, NEW from, Prepared \cup {"qnet"} \subseteq from
    PROVE  Cleans(IfMutated(v, qnet_diagnostic \o qnet_writeback
                                 \o predictor_diagnostic \o predictor_writeback), from, {})
<1>0. {"qq", "qqmass", "qmassnet", "fhpredi", "frhopredi", "fhpredi2", "frhopredi2"}
        \subseteq Prepared
  BY DEF Prepared, Workspace
<1>1. Cleans(qnet_diagnostic, from, {"qnet_diag", "qmassnet_diag"})
  BY <1>0, CleansOne DEF qnet_diagnostic
<1>2. Cleans(qnet_writeback, from \cup {"qnet_diag", "qmassnet_diag"}, {})
  BY <1>0, CleansOne DEF qnet_writeback
<1>3. Cleans(qnet_diagnostic \o qnet_writeback, from, {})
  BY <1>1, <1>2, CleansThen
<1>4. Cleans(predictor_diagnostic, from, {"fhpredi2_diag", "frhopredi2_diag"})
  BY <1>0, CleansOne DEF predictor_diagnostic
<1>5. Cleans(predictor_writeback, from \cup {"fhpredi2_diag", "frhopredi2_diag"}, {})
  BY <1>0, CleansOne DEF predictor_writeback
<1>6. Cleans(qnet_diagnostic \o qnet_writeback \o predictor_diagnostic, from,
             {"fhpredi2_diag", "frhopredi2_diag"})
  BY <1>3, <1>4, CleansThen
<1>7. Cleans(qnet_diagnostic \o qnet_writeback \o predictor_diagnostic \o predictor_writeback,
             from, {})
  BY <1>5, <1>6, CleansThen
<1> QED BY <1>7, CleansNothing DEF IfMutated

\* The second half computes the net discharge and the candidate volumes.
LEMMA SecondHalfCleans ==
    ASSUME NEW v \in Variants, NEW from, Given \cup Sourced(v) \subseteq from
    PROVE  Cleans(SecondHalf(v), from, {"qnet", "cand_volumes"})
<1> DEFINE p1 == Probe(v, post_edge_probe_light, Nothing)
           p2 == p1 \o accumulate_and_check
           p3 == p2 \o IfMutated(v, qnet_diagnostic \o qnet_writeback
                                      \o predictor_diagnostic \o predictor_writeback)
           p4 == p3 \o IfProbed(v, accumulate_probe)
           p5 == p4 \o (IF v.stormdrain THEN stormdrain_exchange ELSE Nothing)
           p6 == p5 \o reset_volume_accumulators
           p7 == p6 \o accumulate_volume_balance
           p8 == p7 \o finalize_volume_balance
<1>1. Cleans(p1, from, {})
  <2>1. ASSUME v.probe = "light" PROVE Cleans(post_edge_probe_light, from, {})
    <3>1. {"fhpredi", "tempele", "fybar", "fv", "fv_pred", "qqt", "momentum_probe", "attempt"}
            \subseteq from
      BY <2>1 DEF Given, Committed, Transported, Sourced, Prepared, Workspace, Probed
    <3> QED BY <3>1, CleansOne DEF post_edge_probe_light
  <2>2. v.probe = "light" => p1 = post_edge_probe_light
    <3>1. v.probe = "light" => v.probe # "full"
      OBVIOUS
    <3> QED BY <3>1 DEF Probe
  <2>3. v.probe # "light" => p1 = Nothing
    BY DEF Probe
  <2> HIDE DEF p1
  <2> QED BY <2>1, <2>2, <2>3, CleansNothing
<1>2. Cleans(p2, from, {"qnet"})
  <2> HIDE DEF p1
  <2>1. Cleans(accumulate_and_check, from, {"qnet"})
    BY AccumulateCleans DEF Sourced
  <2> QED BY <1>1, <2>1, CleansThen
<1>3. Cleans(p3, from, {"qnet"})
  <2> HIDE DEF p2
  <2>1. Cleans(IfMutated(v, qnet_diagnostic \o qnet_writeback
                              \o predictor_diagnostic \o predictor_writeback),
               from \cup {"qnet"}, {})
    BY SumCopiesClean DEF Sourced
  <2> QED BY <1>2, <2>1, CleansThen
<1>4. Cleans(p4, from, {"qnet"})
  <2> HIDE DEF p3
  <2>1. Cleans(IfProbed(v, accumulate_probe), from \cup {"qnet"}, {})
    <3>1. ASSUME v.probe # "off" PROVE Cleans(accumulate_probe, from \cup {"qnet"}, {})
      <4>1. "fhpredi2" \in Prepared
        BY DEF Prepared, Workspace
      <4>3. Prepared \subseteq from
        BY DEF Sourced
      <4>2. "momentum_probe" \in from
        BY <3>1 DEF Sourced, Probed
      <4> QED BY <4>1, <4>2, <4>3, CleansOne DEF accumulate_probe
    <3> QED BY <3>1, CleansNothing DEF IfProbed
  <2> QED BY <1>3, <2>1, CleansThen
<1>5. Cleans(p5, from, {"qnet"})
  <2> HIDE DEF p4
  <2>1. Cleans(stormdrain_exchange, from, {})
    BY CleansOne DEF stormdrain_exchange, Given, Sourced, Prepared, Workspace
  <2> QED BY <1>4, <2>1, CleansNothing, CleansThen
<1>6. Cleans(p6, from, {"qnet", "acc_volumes"})
  <2> HIDE DEF p5
  <2>1. Cleans(reset_volume_accumulators, from, {"acc_volumes"})
    BY CleansOne DEF reset_volume_accumulators, Fresh
  <2> QED BY <1>5, <2>1, CleansThen
<1>7. Cleans(p7, from, {"qnet", "acc_volumes"})
  <2> HIDE DEF p6
  <2> DEFINE reads == {"acc_volumes", "fhpredi2", "infiltration", "tempinflow", "tempri",
                       "erosion_rate", "tempfsh", "deposition_rate", "temp_depo", "attempt"}
  <2>1. reads \subseteq from \cup {"acc_volumes"}
    BY DEF Given, Sourced, Prepared, Workspace, Forcing, SourceRates
  <2>2. Cleans(accumulate_volume_balance, from \cup {"acc_volumes"}, {"acc_volumes"})
    BY <2>1, CleansOne DEF accumulate_volume_balance
  <2> QED BY <1>6, <2>2, CleansThen
<1>8. Cleans(p8, from, {"qnet", "cand_volumes"})
  <2> HIDE DEF p7
  <2>1. {"total_volumes", "reject_flag", "first_reject", "suggested_dt", "attempt"} \subseteq from
    BY DEF Given, Committed, Totals, Sourced, Flags
  <2>2. Cleans(finalize_volume_balance, from \cup {"acc_volumes"}, {"cand_volumes"})
    BY <2>1, CleansTwo DEF finalize_volume_balance
  <2> QED BY <1>7, <2>2, CleansThen
<1>9. SecondHalf(v) = p8 \o post_balance_outflow
  BY DEF SecondHalf
<1> HIDE DEF p8
<1>10. Cleans(post_balance_outflow, from, {})
  <2>1. {"fhpredi2", "frhopredi2"} \subseteq from
    BY DEF Sourced, Prepared, Workspace
  <2> QED BY <2>1, CleansOne DEF post_balance_outflow
<1> QED BY <1>8, <1>9, <1>10, CleansThen

\* Both halves in a row: what an attempt has computed depends on what is given alone.
LEMMA AttemptCleans ==
    ASSUME NEW v \in Variants, ~v.parity, NEW released
    PROVE  Cleans(FirstHalf(v, released) \o SecondHalf(v), WithHeads,
                  AtHalf(v) \cup {"qnet", "cand_volumes"})
<1>1. Cleans(FirstHalf(v, released), WithHeads, AtHalf(v))
  BY FirstHalfCleans
<1>2. Cleans(SecondHalf(v), WithHeads \cup AtHalf(v), {"qnet", "cand_volumes"})
  BY SecondHalfCleans DEF AtHalf, WithHeads
<1> QED BY <1>1, <1>2, CleansConcat

(* A rejection, where nothing it reads depends on what is followed.        *)
LEMMA RejectCleans ==
    ASSUME NEW v, NEW behind \in BOOLEAN, NEW from, WithHeads \cup FailureState(v) \subseteq from
    PROVE  Cleans(Reject(v, behind), from, {})
<1>1. Cleans(restore_richards(v, behind), from, {})
  <2>1. CASE v.failure = "double_layer"
    <3> DEFINE reads == {"kkt_failed", "kkt1_failed"} \cup (IF behind THEN {"attempt"} ELSE {})
    <3>1. {"kkt1", "kkt_failed", "kkt1_failed", "attempt"} \subseteq from
      BY <2>1 DEF FailureState, WithHeads, Given, Committed, Soil
    <3>2. reads \subseteq from
      BY <3>1
    <3>3. restore_richards(v, behind) = << Kernel({"kkt1"}, {"kkt"}), Kernel(reads, {"kkt_failed"}) >>
      BY <2>1 DEF restore_richards
    <3> HIDE DEF reads
    <3>4. {"kkt1"} \subseteq from /\ reads \subseteq from \cup {"kkt"}
      BY <3>1, <3>2
    <3>5. Cleans(<< Kernel({"kkt1"}, {"kkt"}), Kernel(reads, {"kkt_failed"}) >>, from, {})
      BY <3>4, CleansTwo
    <3> QED BY <3>3, <3>5
  <2>2. CASE v.failure # "double_layer"
    BY <2>2, CleansNothing DEF restore_richards
  <2> QED BY <2>1, <2>2
<1>2. Cleans(discard_candidates, from, {})
  BY CleansOne DEF discard_candidates, Fresh
<1> QED BY <1>1, <1>2, CleansThen DEF Reject

\* A rejected attempt, at either place, makes no field depend on it.
LEMMA RejectedCleans ==
    ASSUME NEW v \in Variants, ~v.parity, NEW released, NEW behind \in BOOLEAN
    PROVE  /\ Cleans(RejectedAtCourant(v, released, behind), WithHeads, {})
           /\ Cleans(RejectedAtEnd(v, released, behind), WithHeads, {})
<1>1. Cleans(FirstHalf(v, released), WithHeads, AtHalf(v))
  BY FirstHalfCleans
<1>2. Cleans(FirstHalf(v, released) \o SecondHalf(v), WithHeads,
             AtHalf(v) \cup {"qnet", "cand_volumes"})
  BY AttemptCleans
<1>3. Cleans(Reject(v, behind), WithHeads \cup AtHalf(v), {})
  BY RejectCleans DEF AtHalf
<1>4. Cleans(RejectedAtCourant(v, released, behind), WithHeads, {})
  BY <1>1, <1>3, CleansThen DEF RejectedAtCourant
<1>5. Cleans(RejectedAtEnd(v, released, behind), WithHeads, {})
  BY <1>2, <1>3, CleansThen DEF RejectedAtEnd
<1> QED BY <1>4, <1>5

-----------------------------------------------------------------------------
(* A part that also adds to the record of erosion, which only grows.       *)
Records(effects, from, to) ==
    /\ Sequence(effects)
    /\ \A fields : fields \cap from = {} =>
          Influence(effects, fields) \subseteq (fields \cup {"erosion_record"}) \ to

\* A part that only cleans, after one that records.
LEMMA RecordsThen ==
    ASSUME NEW first, NEW second, NEW from, NEW to, NEW middle, NEW more, NEW all,
           Records(first, from, to), Cleans(second, middle, more),
           middle \subseteq from \cup to, "erosion_record" \notin from \cup to,
           all \subseteq to \cup more
    PROVE  Records(first \o second, from, all)
<1>1. Sequence(first \o second)
  BY ConcatSequence DEF Cleans, Records
<1> SUFFICES ASSUME NEW fields, fields \cap from = {}
             PROVE  Influence(first \o second, fields)
                      \subseteq (fields \cup {"erosion_record"}) \ all
  BY <1>1 DEF Records
<1>2. Influence(first, fields) \subseteq (fields \cup {"erosion_record"}) \ to
  BY DEF Records
<1>3. Influence(first, fields) \cap middle = {}
  BY <1>2
<1>4. Influence(second, Influence(first, fields)) \subseteq Influence(first, fields) \ more
  BY <1>3 DEF Cleans
<1> QED BY <1>2, <1>4, InfluenceConcat DEF Cleans, Records

\* The record of a probed step, after the attempt.
LEMMA RecordRecords ==
    ASSUME NEW v, NEW effects, NEW from, NEW to, Cleans(effects, from, to)
    PROVE  Records(effects \o IfProbed(v, erosion_step_record), from, to \ {"erosion_record"})
<1> DEFINE reads == SourceDiagnostics \cup {"fhpredi1", "frhopredi1", "h", "Cv", "cvlimit", "fv",
               "fv_pred", "tanslo", "tempfsh", "tempfsrho", "tempele", "erosion_depth",
               "deposition_depth", "erosion_rate", "deposition_rate", "fhpredi2", "qnet",
               "erosion_record", "attempt"}
           record == Kernel(reads, {"erosion_record"})
           part == IfProbed(v, erosion_step_record)
<1>1. part = << record >> \/ part = Nothing
  BY DEF IfProbed, erosion_step_record
<1>2. Sequence(<< record >>) /\ Sequence(Nothing)
  <2> HIDE DEF record
  <2>1. << record >> \in Seq({record}) /\ Nothing \in Seq({})
    BY DEF Nothing
  <2> QED BY <2>1 DEF Sequence
<1>3. \A fields : Through(record, fields) \subseteq fields \cup {"erosion_record"}
  <2> HIDE DEF reads
  <2> QED BY DEF Through, Kernel
<1>4. \A fields : Influence(part, fields) \subseteq fields \cup {"erosion_record"}
  <2> HIDE DEF record, part
  <2> QED BY <1>1, <1>3, InfluenceOne, InfluenceNothing
<1>5. Sequence(part)
  <2> HIDE DEF record, part
  <2> QED BY <1>1, <1>2
<1> HIDE DEF part
<1>6. Sequence(effects \o part)
  BY <1>5, ConcatSequence DEF Cleans
<1>7. ASSUME NEW fields, fields \cap from = {}
      PROVE  Influence(effects \o part, fields)
               \subseteq (fields \cup {"erosion_record"}) \ (to \ {"erosion_record"})
  <2>1. Influence(effects, fields) \subseteq fields \ to
    BY <1>7 DEF Cleans
  <2>2. Influence(effects \o part, fields) = Influence(part, Influence(effects, fields))
    BY <1>5, InfluenceConcat DEF Cleans
  <2> QED BY <1>4, <2>1, <2>2
<1> QED BY <1>6, <1>7 DEF Records, part

\* The fields an accepted attempt has computed when it is committed.
Computed(v) == AtHalf(v) \cup {"qnet", "cand_volumes"}

\* The commit of the step reads what the attempt was given or has computed of the flow.
LEMMA CommitCleans ==
    ASSUME NEW v, NEW from, Given \cup Sourced(v) \subseteq from
    PROVE  Cleans(commit_step, from, {})
<1>1. Sequence(commit_step)
  <2> DEFINE S == {commit_step[i] : i \in 1..10}
  <2>1. commit_step \in Seq(S)
    BY DEF commit_step
  <2> QED BY <2>1 DEF Sequence
<1>2. {"fhpredi2", "frhopredi2", "tempele", "fv_pred"} \subseteq from
  BY DEF Sourced, Prepared, Workspace
<1>3. {"erosion_rate", "deposition_rate", "temp_erodible", "temp_depo"} \subseteq from
  BY DEF Sourced, Prepared, SourceRates
<1>4. {"erosion_depth", "deposition_depth", "fv", "h", "max_flow_velocity", "max_flow_depth",
       "depo_thickness", "attempt"} \subseteq from
  BY DEF Given, Committed, Bed, Transported, Maxima
<1>5. \A i \in 1..Len(commit_step) : commit_step[i].reads \subseteq from
  BY <1>2, <1>3, <1>4 DEF commit_step, Kernel
<1>6. Cleans(commit_step, from, UNION {commit_step[i].writes : i \in 1..Len(commit_step)})
  BY <1>1, <1>5, CleansEach
<1> QED BY <1>6, CleansWeaken

\* The step is accepted: nothing that is shown or committed depends on anything else.
LEMMA AcceptedCleans ==
    ASSUME NEW v \in Variants, ~v.parity, NEW released
    PROVE  Records(Accepted(v, released), WithHeads, AtHalf(v) \cup {"qnet"})
<1> DEFINE C == Computed(v)
           p1 == FirstHalf(v, released) \o SecondHalf(v) \o IfProbed(v, erosion_step_record)
           p2 == p1 \o IfMutated(v, h_cv_rho_diagnostic)
           p3 == p2 \o commit_volume_counters
           p4 == p3 \o commit_step
           p5 == p4 \o IfMutated(v, h_cv_rho_writeback)
           p6 == p5 \o commit_failure_schedule(v)
           p7 == p6 \o commit_cumulative_infiltration(v)
           p8 == p7 \o sync_uv
           p9 == p8 \o sync_directional_velocity
           D == IF v.mutate THEN {"h_diag", "Cv_diag", "rho_diag"} ELSE {}
<1>0. "erosion_record" \notin WithHeads \cup C
  <2>1. "erosion_record" \notin WithHeads
    BY DEF WithHeads, Given, Committed, Transported, Bed, Maxima, Soil, Limiter, Totals
  <2>2. "erosion_record" \notin Prepared \cup Forcing \cup Flags
    BY DEF Prepared, Workspace, Forcing, Flags
  <2>3. "erosion_record" \notin SourceRates \cup Probed(v) \cup Candidate(v) \cup FailureState(v)
    BY DEF SourceRates, SourceDiagnostics, Probed, Candidate, FailureState
  <2> QED BY <2>1, <2>2, <2>3 DEF Computed, AtHalf, Sourced
<1>00. "erosion_record" \notin D
  OBVIOUS
<1>01. Given \cup Sourced(v) \subseteq WithHeads \cup C
  BY DEF WithHeads, Computed, AtHalf
<1>1. Records(p1, WithHeads, C)
  <2>1. Cleans(FirstHalf(v, released) \o SecondHalf(v), WithHeads, C)
    BY AttemptCleans DEF Computed
  <2>2. C \ {"erosion_record"} = C
    BY <1>0
  <2> HIDE DEF C
  <2> QED BY <2>1, <2>2, RecordRecords
<1> HIDE DEF p1
<1>2. Records(p2, WithHeads, C \cup D)
  <2>1. Cleans(IfMutated(v, h_cv_rho_diagnostic), WithHeads \cup C, D)
    <3>1. {"fhpredi2", "frhopredi2"} \subseteq WithHeads \cup C
      BY DEF Computed, AtHalf, Sourced, Prepared, Workspace
    <3>2. Cleans(h_cv_rho_diagnostic, WithHeads \cup C, {"h_diag", "Cv_diag", "rho_diag"})
      BY <3>1, CleansOne DEF h_cv_rho_diagnostic
    <3> QED BY <3>2, CleansNothing DEF IfMutated
  <2> HIDE DEF C, D
  <2> QED BY <1>0, <1>1, <2>1, RecordsThen
<1> HIDE DEF p2
<1>3. Records(p3, WithHeads, C \cup D)
  <2>1. Cleans(commit_volume_counters, C, {})
    BY CleansOne DEF commit_volume_counters, Computed
  <2> HIDE DEF C, D
  <2> QED BY <1>0, <1>00, <1>2, <2>1, RecordsThen
<1> HIDE DEF p3
<1>4. Records(p4, WithHeads, C \cup D)
  <2>1. Cleans(commit_step, WithHeads \cup C, {})
    BY <1>01, CommitCleans
  <2> HIDE DEF C, D
  <2> QED BY <1>0, <1>00, <1>3, <2>1, RecordsThen
<1> HIDE DEF p4
<1>5. Records(p5, WithHeads, C)
  <2>1. Cleans(IfMutated(v, h_cv_rho_writeback), WithHeads \cup D, {})
    <3>1. {"h", "Cv", "rho"} \subseteq WithHeads
      BY DEF WithHeads, Given, Committed, Transported
    <3>2. v.mutate => Cleans(h_cv_rho_writeback, WithHeads \cup D, {})
      BY <3>1, CleansOne DEF h_cv_rho_writeback
    <3> QED BY <3>2, CleansNothing DEF IfMutated
  <2> HIDE DEF C, D
  <2> QED BY <1>0, <1>00, <1>4, <2>1, RecordsThen
<1> HIDE DEF p5
<1>6. Records(p6, WithHeads, C)
  <2>1. Cleans(commit_failure_schedule(v), WithHeads \cup C, {})
    <3>1. ASSUME v.failure = "schedule" PROVE Cleans(commit_failure_schedule(v), WithHeads \cup C, {})
      <4>1. {"fired", "candidate_fired"} \subseteq WithHeads \cup C
        BY <3>1 DEF WithHeads, Given, Committed, Soil, Computed, AtHalf, FailureState
      <4>2. Cleans(<< Kernel({"fired", "candidate_fired"}, {"fired", "fire_mask"}),
                      Kernel({}, {"candidate_fired"}) >>, WithHeads \cup C, {})
        BY <4>1, CleansTwo
      <4> QED BY <3>1, <4>2 DEF commit_failure_schedule, Fresh
    <3> QED BY <3>1, CleansNothing DEF commit_failure_schedule
  <2> HIDE DEF C
  <2> QED BY <1>0, <1>5, <2>1, RecordsThen
<1> HIDE DEF p6
<1>7. Records(p7, WithHeads, AtHalf(v) \cup {"qnet"})
  <2>1. Cleans(commit_cumulative_infiltration(v), C, {})
    <3>1. ASSUME v.infiltration = "green_ampt"
          PROVE  Cleans(commit_cumulative_infiltration(v), C, {})
      <4>1. {"ci_candidate"} \subseteq C
        BY <3>1 DEF Computed, AtHalf, Candidate
      <4>2. Cleans(<< Kernel({"ci_candidate"}, {"F_cumulative"}), Kernel({}, {"ci_candidate"}) >>,
                   C, {})
        BY <4>1, CleansTwo
      <4> QED BY <3>1, <4>2 DEF commit_cumulative_infiltration, Fresh
    <3> QED BY <3>1, CleansNothing DEF commit_cumulative_infiltration
  <2>2. AtHalf(v) \cup {"qnet"} \subseteq C
    BY DEF Computed
  <2> HIDE DEF C
  <2> QED BY <1>0, <1>6, <2>1, <2>2, RecordsThen
<1> HIDE DEF p7
<1> DEFINE A == AtHalf(v) \cup {"qnet"}
<1>02. "erosion_record" \notin WithHeads \cup A
  BY <1>0 DEF Computed
<1>03. {"fv", "h", "u", "v", "Cv"} \subseteq WithHeads
  BY DEF WithHeads, Given, Committed, Transported
<1> HIDE DEF A
<1>8. Records(p8, WithHeads, A)
  <2>1. Cleans(sync_uv, WithHeads, {})
    BY <1>03, CleansOne DEF sync_uv
  <2> QED BY <1>02, <1>7, <2>1, RecordsThen DEF A
<1> HIDE DEF p8
<1>9. Records(p9, WithHeads, A)
  <2>1. Cleans(sync_directional_velocity, WithHeads, {})
    BY <1>03, CleansOne DEF sync_directional_velocity
  <2> QED BY <1>02, <1>8, <2>1, RecordsThen
<1>10. Accepted(v, released) = p9 \o outflow_boundaries
  BY DEF Accepted, p9, p8, p7, p6, p5, p4, p3, p2, p1
<1> HIDE DEF p9
<1>11. Cleans(outflow_boundaries, WithHeads, {})
  BY <1>03, CleansOne DEF outflow_boundaries
<1> QED BY <1>02, <1>9, <1>10, <1>11, RecordsThen DEF A

-----------------------------------------------------------------------------
(* The heads of the failed cells, once they were rolled back, reach their  *)
(* pore pressure and nothing else.                                         *)
Heads == {"kkt_failed", "pt_failed", "desat_failed"}

\* A part through which nothing but Heads comes to depend on what Heads alone depend on.
Confined(effects) ==
    /\ Sequence(effects)
    /\ \A fields : fields \subseteq Heads => Influence(effects, fields) \subseteq Heads

\* No effects confine it.
LEMMA ConfinedNothing == Confined(Nothing)
<1>1. Nothing \in Seq({})
  BY DEF Nothing
<1> QED BY <1>1, InfluenceNothing DEF Confined, Sequence

\* A kernel does that reads none of Heads or writes nothing else.
LEMMA ConfinedOne ==
    ASSUME NEW reads, NEW writes, reads \cap Heads = {} \/ writes \subseteq Heads
    PROVE  Confined(<< Kernel(reads, writes) >>)
<1>1. Sequence(<< Kernel(reads, writes) >>)
  <2> DEFINE k == Kernel(reads, writes)
  <2>1. <<k>> \in Seq({k})
    OBVIOUS
  <2> QED BY <2>1 DEF Sequence
<1>2. \A fields : fields \subseteq Heads => Through(Kernel(reads, writes), fields) \subseteq Heads
  <2> HIDE DEF Heads
  <2> QED BY DEF Through, Kernel
<1> QED BY <1>1, <1>2, InfluenceOne DEF Confined

\* So do two parts in a row.
LEMMA ConfinedThen ==
    ASSUME NEW first, NEW second, Confined(first), Confined(second)
    PROVE  Confined(first \o second)
<1> HIDE DEF Heads
<1> QED BY ConcatSequence, InfluenceConcat DEF Confined

\* And a part that cleans without the heads.
LEMMA CleaningConfined ==
    ASSUME NEW effects, NEW from, NEW to, Cleans(effects, from, to), from \cap Heads = {}
    PROVE  Confined(effects)
<1> HIDE DEF Heads
<1> QED BY DEF Cleans, Confined

\* What is given to the flow and computed by it has no heads.
LEMMA FlowApart ==
    ASSUME NEW v PROVE (Given \cup Sourced(v)) \cap Heads = {} /\ {"qnet", "cand_volumes"} \cap Heads = {}
<1>1. Given \cap Heads = {}
  BY DEF Given, Heads, Committed, Transported, Bed, Maxima, Soil, Limiter, Totals
<1>2. (Prepared \cup Forcing \cup Flags) \cap Heads = {}
  BY DEF Prepared, Workspace, Forcing, Flags, Heads
<1>3. (SourceRates \cup Probed(v)) \cap Heads = {}
  BY DEF SourceRates, SourceDiagnostics, Probed, Heads
<1> QED BY <1>1, <1>2, <1>3 DEF Sourced, Heads

\* The failure sources confine it.
LEMMA FailureConfined ==
    ASSUME NEW v, NEW released PROVE Confined(failure_sources(v, released))
<1>1. Confined(stage_failure_schedule)
  BY ConfinedOne DEF stage_failure_schedule, Heads
<1>2. Confined(solve_richards)
  <2>1. Confined(<< Kernel({"kkt", "is_failed"}, {"kkt1"}) >>)
    BY ConfinedOne DEF Heads
  <2>2. Confined(<< Kernel({"kkt1", "infiltration", "is_failed", "attempt"}, {"kkt"}) >>)
    BY ConfinedOne DEF Heads
  <2>3. solve_richards = << Kernel({"kkt", "is_failed"}, {"kkt1"}) >> \o
                         << Kernel({"kkt1", "infiltration", "is_failed", "attempt"}, {"kkt"}) >>
    BY DEF solve_richards
  <2> QED BY <2>1, <2>2, <2>3, ConfinedThen
<1>3. Confined(compute_pore_pressure)
  <2>1. Confined(<< Kernel({"kkt"}, {"pt", "desat"}) >>)
    BY ConfinedOne DEF Heads
  <2>2. Confined(<< Kernel({"kkt_failed"}, {"pt_failed", "desat_failed"}) >>)
    BY ConfinedOne DEF Heads
  <2>3. compute_pore_pressure = << Kernel({"kkt"}, {"pt", "desat"}) >> \o
                                << Kernel({"kkt_failed"}, {"pt_failed", "desat_failed"}) >>
    BY DEF compute_pore_pressure
  <2> QED BY <2>1, <2>2, <2>3, ConfinedThen
<1>4. Confined(find_minimum_fs)
  BY ConfinedOne DEF find_minimum_fs, Heads
<1>5. Confined(fail_cells)
  <2> DEFINE e1 == << Kernel({"FS", "fdepth", "is_failed", "attempt"}, {"is_failed"}) >>
             e2 == << Kernel({"FS", "kkt", "kkt_failed"}, {"kkt_failed"}) >>
             e3 == << Kernel({"FS", "kkt1", "kkt1_failed"}, {"kkt1_failed"}) >>
             e4 == << Kernel({"FS", "pt", "desat", "pt_failed", "desat_failed"},
                             {"pt_failed", "desat_failed"}) >>
             e5 == << Kernel({"FS", "fdepth", "FS_failed", "fdepth_failed"},
                             {"FS_failed", "fdepth_failed"}) >>
  <2>1. Confined(e1) /\ Confined(e3) /\ Confined(e5)
    BY ConfinedOne DEF Heads
  <2>2. Confined(e2) /\ Confined(e4)
    BY ConfinedOne DEF Heads
  <2>3. fail_cells = e1 \o e2 \o e3 \o e4 \o e5
    BY DEF fail_cells
  <2> HIDE DEF e1, e2, e3, e4, e5
  <2> QED BY <2>1, <2>2, <2>3, ConfinedThen
<1>6. Confined(populate_failure_source_terms(released))
  <2>1. Confined(<< Kernel({"FS", "fdepth", "is_failed", "attempt"}, {"tempfsh", "tempfsrho"}) >>)
    BY ConfinedOne DEF Heads
  <2>2. Confined(IF released THEN fail_cells ELSE Nothing)
    BY <1>5, ConfinedNothing
  <2> QED BY <2>1, <2>2, ConfinedThen DEF populate_failure_source_terms
<1>7. Confined(double_layer_failure(released))
  BY <1>2, <1>3, <1>4, <1>6, ConfinedThen DEF double_layer_failure
<1> QED BY <1>1, <1>7 DEF failure_sources

\* The attempt does, up to its middle and to its end.
LEMMA AttemptConfined ==
    ASSUME NEW v \in Variants, ~v.parity, NEW released
    PROVE  Confined(FirstHalf(v, released)) /\ Confined(SecondHalf(v))
<1> DEFINE F == Given \cup Sourced(v)
           p9 == BeforeFailure(v) \o failure_sources(v, released)
           p10 == p9 \o merge_source_terms
           p11 == p10 \o IfMutated(v, erosion_deposition_diagnostic \o erosion_deposition_writeback)
           p12 == p11 \o compute_edge_fluxes
           p13 == p12 \o IfProbed(v, Probe(v, face_flux_probe_light, face_flux_probe)
                                       \o face_flux_diagnostic)
<1>0. /\ F \cap Heads = {} /\ Given \cap Heads = {}
      /\ Given \cup Prepared \cup Forcing \cup SourceRates \subseteq F
      /\ Given \cup Prepared \cup Forcing \cup Flags \cup SourceRates \subseteq F
      /\ Given \cup Sourced(v) \subseteq F
  BY FlowApart DEF Sourced
<1> HIDE DEF F
<1>1. Confined(p9)
  BY <1>0, BeforeFailureCleans, CleaningConfined, FailureConfined, ConfinedThen
<1> HIDE DEF p9
<1>2. Confined(p10)
  BY <1>0, <1>1, MergeCleans, CleaningConfined, ConfinedThen
<1> HIDE DEF p10
<1>3. Confined(p11)
  <2>1. Confined(IfMutated(v, erosion_deposition_diagnostic \o erosion_deposition_writeback))
    BY <1>0, SourceCopiesClean, CleaningConfined
  <2> QED BY <1>2, <2>1, ConfinedThen
<1> HIDE DEF p11
<1>4. Confined(p12)
  BY <1>0, <1>3, FluxesClean, CleaningConfined, ConfinedThen
<1> HIDE DEF p12
<1>5. Confined(p13)
  <2>1. Confined(IfProbed(v, Probe(v, face_flux_probe_light, face_flux_probe)
                               \o face_flux_diagnostic))
    BY <1>0, FluxProbesClean, CleaningConfined
  <2> QED BY <1>4, <2>1, ConfinedThen
<1>6. FirstHalf(v, released) = p13 \o Nothing
  BY DEF FirstHalf, BeforeFailure, p9, p10, p11, p12
<1> HIDE DEF p13
<1>7. Confined(FirstHalf(v, released))
  BY <1>5, <1>6, ConfinedNothing, ConfinedThen
<1>8. Confined(SecondHalf(v))
  BY <1>0, SecondHalfCleans, CleaningConfined
<1> QED BY <1>7, <1>8

\* A rejected attempt does.
LEMMA RejectedConfined ==
    ASSUME NEW v \in Variants, ~v.parity, NEW released, NEW behind
    PROVE  /\ Confined(RejectedAtCourant(v, released, behind))
           /\ Confined(RejectedAtEnd(v, released, behind))
<1>1. Confined(restore_richards(v, behind))
  <2> DEFINE reads == {"kkt_failed", "kkt1_failed"} \cup (IF behind THEN {"attempt"} ELSE {})
             e1 == << Kernel({"kkt1"}, {"kkt"}) >>
             e2 == << Kernel(reads, {"kkt_failed"}) >>
  <2>1. Confined(e1)
    BY ConfinedOne DEF Heads
  <2>2. Confined(e2)
    <3>1. {"kkt_failed"} \subseteq Heads
      BY DEF Heads
    <3> HIDE DEF reads
    <3> QED BY <3>1, ConfinedOne
  <2>3. v.failure = "double_layer" => restore_richards(v, behind) = e1 \o e2
    BY DEF restore_richards
  <2>4. v.failure # "double_layer" => restore_richards(v, behind) = Nothing
    BY DEF restore_richards
  <2> HIDE DEF e1, e2
  <2> QED BY <2>1, <2>2, <2>3, <2>4, ConfinedNothing, ConfinedThen
<1>2. Confined(discard_candidates)
  BY ConfinedOne DEF discard_candidates, Fresh
<1>3. Confined(Reject(v, behind))
  BY <1>1, <1>2, ConfinedThen DEF Reject
<1> QED BY <1>3, AttemptConfined, ConfinedThen DEF RejectedAtCourant, RejectedAtEnd

\* And an accepted one.
LEMMA AcceptedConfined ==
    ASSUME NEW v \in Variants, ~v.parity, NEW released
    PROVE  Confined(Accepted(v, released))
<1>1. Confined(FirstHalf(v, released) \o SecondHalf(v))
  BY AttemptConfined, ConfinedThen
<1>2. Confined(IfProbed(v, erosion_step_record))
  <2> DEFINE reads == SourceDiagnostics \cup {"fhpredi1", "frhopredi1", "h", "Cv", "cvlimit", "fv",
               "fv_pred", "tanslo", "tempfsh", "tempfsrho", "tempele", "erosion_depth",
               "deposition_depth", "erosion_rate", "deposition_rate", "fhpredi2", "qnet",
               "erosion_record", "attempt"}
  <2>1. reads \cap Heads = {}
    BY DEF SourceDiagnostics, Heads
  <2>2. erosion_step_record = << Kernel(reads, {"erosion_record"}) >>
    BY DEF erosion_step_record
  <2> HIDE DEF reads
  <2>3. Confined(erosion_step_record)
    BY <2>1, <2>2, ConfinedOne
  <2> QED BY <2>3, ConfinedNothing DEF IfProbed
<1>3. Confined(IfMutated(v, h_cv_rho_diagnostic))
  <2>1. Confined(h_cv_rho_diagnostic)
    BY ConfinedOne DEF h_cv_rho_diagnostic, Heads
  <2> QED BY <2>1, ConfinedNothing DEF IfMutated
<1>4. Confined(commit_volume_counters)
  BY ConfinedOne DEF commit_volume_counters, Heads
<1>5. Confined(commit_step)
  BY FlowApart, CommitCleans, CleaningConfined
<1>6. Confined(IfMutated(v, h_cv_rho_writeback))
  <2>1. Confined(h_cv_rho_writeback)
    BY ConfinedOne DEF h_cv_rho_writeback, Heads
  <2> QED BY <2>1, ConfinedNothing DEF IfMutated
<1>7. Confined(commit_failure_schedule(v))
  <2>1. Cleans(<< Kernel({"fired", "candidate_fired"}, {"fired", "fire_mask"}),
                  Kernel({}, {"candidate_fired"}) >>, {"fired", "candidate_fired"}, {})
    BY CleansTwo
  <2>2. {"fired", "candidate_fired"} \cap Heads = {}
    BY DEF Heads
  <2> QED BY <2>1, <2>2, CleaningConfined, ConfinedNothing DEF commit_failure_schedule, Fresh
<1>8. Confined(commit_cumulative_infiltration(v))
  <2>1. Cleans(<< Kernel({"ci_candidate"}, {"F_cumulative"}), Kernel({}, {"ci_candidate"}) >>,
               {"ci_candidate"}, {})
    BY CleansTwo
  <2>2. {"ci_candidate"} \cap Heads = {}
    BY DEF Heads
  <2> QED BY <2>1, <2>2, CleaningConfined, ConfinedNothing DEF commit_cumulative_infiltration, Fresh
<1>9. Confined(sync_uv) /\ Confined(sync_directional_velocity) /\ Confined(outflow_boundaries)
  BY ConfinedOne DEF sync_uv, sync_directional_velocity, outflow_boundaries, Heads
<1> DEFINE h1 == FirstHalf(v, released) \o SecondHalf(v) \o IfProbed(v, erosion_step_record)
                   \o IfMutated(v, h_cv_rho_diagnostic) \o commit_volume_counters
           h2 == h1 \o commit_step \o IfMutated(v, h_cv_rho_writeback)
                   \o commit_failure_schedule(v) \o commit_cumulative_infiltration(v)
<1>10. Confined(h1)
  BY <1>1, <1>2, <1>3, <1>4, ConfinedThen
<1>11. Accepted(v, released) = h2 \o sync_uv \o sync_directional_velocity \o outflow_boundaries
  BY DEF Accepted, h1, h2
<1> HIDE DEF h1
<1>12. Confined(h2)
  BY <1>5, <1>6, <1>7, <1>8, <1>10, ConfinedThen
<1> HIDE DEF h2
<1> QED BY <1>9, <1>11, <1>12, ConfinedThen

-----------------------------------------------------------------------------
(* What a rejected attempt leaves alone.                                   *)

\* Where no field of "from" depends on what is followed, no field of "to" does after the part.
Spares(effects, from, to) ==
    /\ Sequence(effects)
    /\ \A fields : fields \cap from = {} => Influence(effects, fields) \cap to = {}

Avoids(effects, fields) ==
    /\ Sequence(effects)
    /\ \A i \in 1..Len(effects) : effects[i].writes \cap fields = {}

\* No effects write no field.
LEMMA AvoidsNothing == \A fields : Avoids(Nothing, fields)
<1>1. Nothing \in Seq({}) /\ Len(Nothing) = 0
  BY DEF Nothing
<1> QED BY <1>1 DEF Avoids, Sequence

\* A kernel avoids the fields it does not write.
LEMMA AvoidsOne ==
    ASSUME NEW reads, NEW writes, NEW fields, writes \cap fields = {}
    PROVE  Avoids(<< Kernel(reads, writes) >>, fields)
<1> DEFINE k == Kernel(reads, writes)
<1>1. k.writes \cap fields = {}
  BY DEF Kernel
<1> HIDE DEF k
<1>2. Sequence(<< k >>)
  <2>1. << k >> \in Seq({k})
    OBVIOUS
  <2> QED BY <2>1 DEF Sequence
<1>3. Avoids(<< k >>, fields)
  BY <1>1, <1>2 DEF Avoids
<1> QED BY <1>3 DEF k

\* So do two in a row.
LEMMA AvoidsTwo ==
    ASSUME NEW reads, NEW writes, NEW reads2, NEW writes2, NEW fields,
           writes \cap fields = {}, writes2 \cap fields = {}
    PROVE  Avoids(<< Kernel(reads, writes), Kernel(reads2, writes2) >>, fields)
<1> DEFINE e1 == Kernel(reads, writes)
           e2 == Kernel(reads2, writes2)
<1>1. e1.writes \cap fields = {} /\ e2.writes \cap fields = {}
  BY DEF Kernel
<1> HIDE DEF e1, e2
<1>2. Sequence(<< e1, e2 >>)
  <2>1. << e1, e2 >> \in Seq({e1, e2})
    OBVIOUS
  <2> QED BY <2>1 DEF Sequence
<1>3. Avoids(<< e1, e2 >>, fields)
  BY <1>1, <1>2 DEF Avoids
<1> QED BY <1>3 DEF e1, e2

\* And two parts in a row.
LEMMA AvoidsConcat ==
    ASSUME NEW first, NEW second, NEW fields, Avoids(first, fields), Avoids(second, fields)
    PROVE  Avoids(first \o second, fields)
<1> DEFINE n == Len(first)
           both == first \o second
<1>1. /\ Sequence(both) /\ Len(both) = n + Len(second)
      /\ n \in Nat /\ Len(second) \in Nat
      /\ \A i \in 1..n : both[i] = first[i]
      /\ \A i \in 1..Len(second) : both[n + i] = second[i]
  BY ConcatSequence DEF Avoids
<1> HIDE DEF both
<1> SUFFICES ASSUME NEW i \in 1..Len(both) PROVE both[i].writes \cap fields = {}
  BY <1>1 DEF Avoids, both
<1>2. CASE i \in 1..n
  BY <1>1, <1>2 DEF Avoids
<1>3. CASE i \notin 1..n
  <2>1. i - n \in 1..Len(second) /\ n + (i - n) = i
    BY <1>1, <1>3
  <2>2. both[n + (i - n)] = second[i - n]
    BY <1>1, <2>1
  <2> QED BY <2>1, <2>2 DEF Avoids
<1> QED BY <1>2, <1>3

\* A part that writes none of the fields spares them.
LEMMA AvoidingSpares ==
    ASSUME NEW effects, NEW apart, Avoids(effects, apart), NEW to, to \subseteq apart
    PROVE  Spares(effects, to, to)
<1> DEFINE n == Len(effects)
<1>1. n \in Nat
  BY DEF Avoids, Sequence
<1> SUFFICES ASSUME NEW fields, fields \cap to = {} PROVE Influence(effects, fields) \cap to = {}
  BY DEF Avoids, Spares
<1>2. PICK g : Follows(g, effects, fields) /\ Influence(effects, fields) = g[n]
  BY <1>1, InfluenceFollows
<1>3. g[0] = fields /\ \A i \in 1..n : g[i] = Through(effects[i], g[i - 1])
  BY <1>2 DEF Follows
<1> DEFINE P == {i \in 0..n : g[i] \cap to = {}}
<1>4. 0 \in P
  BY <1>1, <1>3
<1>5. \A i \in 0..n : i < n /\ i \in P => i + 1 \in P
  <2> SUFFICES ASSUME NEW i \in 0..n, i < n, g[i] \cap to = {} PROVE g[i + 1] \cap to = {}
    OBVIOUS
  <2>1. i + 1 \in 1..n /\ i + 1 - 1 = i
    BY <1>1
  <2>2. g[i + 1] = Through(effects[i + 1], g[i])
    BY <1>3, <2>1
  <2>3. effects[i + 1].writes \cap to = {}
    BY <2>1 DEF Avoids
  <2> QED BY <2>2, <2>3 DEF Through
<1>6. \A i \in 0..n : i \in P
  <2> HIDE DEF P
  <2> QED BY <1>1, <1>4, <1>5, StepInduction
<1> QED BY <1>1, <1>2, <1>6

\* Two parts in a row spare what the second spares given what the first does.
LEMMA SparesThen ==
    ASSUME NEW first, NEW second, NEW from, NEW middle, NEW to,
           Spares(first, from, middle), Spares(second, middle, to)
    PROVE  Spares(first \o second, from, to)
BY ConcatSequence, InfluenceConcat DEF Spares

\* A part that cleans fields spares them and those it needs.
LEMMA CleaningSpares ==
    ASSUME NEW effects, NEW from, NEW more, Cleans(effects, from, more),
           NEW to, to \subseteq from \cup more
    PROVE  Spares(effects, from, to)
BY DEF Cleans, Spares

\* What a part does not write stays spared.
LEMMA SparesAvoiding ==
    ASSUME NEW first, NEW second, NEW from, NEW to, NEW apart,
           Spares(first, from, to), Avoids(second, apart), to \subseteq apart
    PROVE  Spares(first \o second, from, to)
BY AvoidingSpares, SparesThen

(* All that outlives a step, and the soil of the last accepted one.        *)
Apart == Committed \cup {"fire_mask", "kkt1", "desat", "FS", "fdepth", "desat_failed"}

\* What lasts through a rejection.
Lasting(v) ==
    Committed \cup {"fire_mask"}
      \cup (IF v.failure = "schedule" THEN {"desat", "FS", "fdepth", "desat_failed"} ELSE {})

\* It lasts up to the sources; from there kkt1 stands for kkt in a double layer.
InAttempt(v) ==
    IF v.failure = "double_layer" THEN (Lasting(v) \ {"kkt"}) \cup {"kkt1"} ELSE Lasting(v)

\* The lasting fields are none of the workspace of an attempt.
LEMMA ApartFields ==
    ASSUME NEW f \in Apart
    PROVE  /\ f \notin Workspace /\ f \notin Forcing /\ f \notin SourceDiagnostics
           /\ f \notin Flags /\ f \notin HostState \ {"legacy_previous_face_cvbar"}
<1> USE DEF Apart, Committed, Transported, Bed, Maxima, Soil, Limiter, Totals
<1>1. f \notin Workspace
  BY DEF Workspace
<1>2. f \notin Forcing /\ f \notin SourceDiagnostics /\ f \notin Flags
  BY DEF Forcing, SourceDiagnostics, Flags
<1>3. f \notin HostState \ {"legacy_previous_face_cvbar"}
  BY DEF HostState
<1> QED BY <1>1, <1>2, <1>3

\* Building the inflow stages writes none of them.
LEMMA InflowStageAvoids == Avoids(build_inflow_stage_arrays, Apart)
<1>1. {"inflow_denominator"} \cap Apart = {}
  BY DEF Apart, Committed, Transported, Bed, Maxima, Soil, Limiter, Totals
<1>2. {"tempinflow"} \cap Apart = {}
  BY ApartFields DEF Workspace
<1> QED BY <1>1, <1>2, AvoidsTwo DEF build_inflow_stage_arrays, inflow_denominator, Fresh

\* Nor do the rainfall, the reset of the flags and, without injection, the inflow.
LEMMA InputsAvoid ==
    ASSUME NEW v, ~v.inject
    PROVE  /\ Avoids(apply_rainfall, Apart) /\ Avoids(reset_first_reject, Apart)
           /\ Avoids(stage_inflow_forcing(v), Apart)
<1>1. {"rainfall"} \cap Apart = {}
  BY DEF Apart, Committed, Transported, Bed, Maxima, Soil, Limiter, Totals
<1>2. {"first_reject", "reject_flag", "suggested_dt"} \cap Apart = {}
  BY ApartFields DEF Flags
<1>3. Avoids(apply_rainfall, Apart)
  BY <1>1, AvoidsOne DEF apply_rainfall
<1>4. Avoids(reset_first_reject, Apart)
  BY <1>2, AvoidsOne DEF reset_first_reject
<1>5. Avoids(stage_inflow_forcing(v), Apart)
  BY InflowStageAvoids, AvoidsNothing, AvoidsConcat DEF stage_inflow_forcing
<1> QED BY <1>3, <1>4, <1>5

\* Nor does the runoff, precomputed or late.
LEMMA RunoffAvoids ==
    ASSUME NEW v
    PROVE  Avoids(rnoff_period_precompute(v), Apart) /\ Avoids(rnoff_after_staging(v), Apart)
<1>1. \A f \in {"rnoff_ir", "rnoff_ro", "rnoff_rideb", "rnoff_ir_cell"} : f \notin Apart
  BY DEF Apart, Committed, Transported, Bed, Maxima, Soil, Limiter, Totals
<1>2. \A f \in {"infiltration", "fhpredi1", "frhopredi1"} : f \notin Apart
  BY ApartFields DEF Forcing
<1>3. Avoids(rnoff_route_on_host, Apart)
  BY <1>1, AvoidsOne DEF rnoff_route_on_host
<1>4. Avoids(rnoff_prepare_inputs, Apart)
  <2>1. {"rnoff_rideb", "rnoff_ir_cell"} \cap Apart = {} /\ {"rnoff_ro"} \cap Apart = {}
    BY <1>1
  <2> QED BY <2>1, AvoidsTwo DEF rnoff_prepare_inputs, Fresh
<1>5. Avoids(rnoff_route, Apart)
  BY <1>1, AvoidsOne DEF rnoff_route
<1>6. Avoids(rnoff_write_ir_grid, Apart)
  BY <1>1, AvoidsOne DEF rnoff_write_ir_grid
<1>7. Avoids(rnoff_route_on_device, Apart)
  BY <1>4, <1>5, <1>6, AvoidsConcat DEF rnoff_route_on_device
<1>8. Avoids(rnoff_surface_staging, Apart)
  BY <1>2, AvoidsOne DEF rnoff_surface_staging
<1>9. Avoids(rnoff_late_hook, Apart)
  BY <1>1, <1>2, AvoidsOne DEF rnoff_late_hook
<1>10. rnoff_after_staging(v) \in {rnoff_surface_staging, rnoff_late_hook, Nothing}
  <2>1. v.rnoff = "late" => ~rnoff_precomputes(v)
    BY DEF rnoff_precomputes
  <2> QED BY <2>1 DEF rnoff_after_staging
<1>11. Avoids(rnoff_after_staging(v), Apart)
  BY <1>8, <1>9, <1>10, AvoidsNothing
<1>12. Avoids(rnoff_period_precompute(v), Apart)
  BY <1>3, <1>7, AvoidsNothing DEF rnoff_period_precompute
<1> QED BY <1>11, <1>12

\* Nor does the forcing of the surface.
LEMMA ForcingAvoids == ASSUME NEW v PROVE Avoids(surface_forcing(v), Apart)
<1>1. Forcing \cap Apart = {} /\ (Forcing \cup {"ci_candidate"}) \cap Apart = {}
  BY ApartFields DEF HostState
<1>2. Avoids(stage_surface_forcing, Apart)
  BY <1>1, AvoidsOne DEF stage_surface_forcing
<1>3. Avoids(stage_surface_forcing_direct_rain_plus_storage, Apart)
  BY <1>1, AvoidsOne DEF stage_surface_forcing_direct_rain_plus_storage
<1>4. Avoids(stage_surface_forcing_green_ampt, Apart)
  <2>1. Avoids(build_inflow_stage_arrays, Apart)
    BY InflowStageAvoids
  <2> QED BY <1>1, <2>1, AvoidsOne, AvoidsConcat DEF stage_surface_forcing_green_ampt
<1>5. v.infiltration = "direct" => v.infiltration # "green_ampt"
  OBVIOUS
<1>6. surface_forcing(v) \in {stage_surface_forcing, stage_surface_forcing_direct_rain_plus_storage,
                             stage_surface_forcing_green_ampt}
  BY <1>5 DEF surface_forcing
<1> QED BY <1>2, <1>3, <1>4, <1>6

\* Nor do the probes at the entry of the sources.
LEMMA EntryProbeAvoids ==
    ASSUME NEW v
    PROVE  Avoids(IfProbed(v, stage_trace \o capture_depo_velocity("depo_velocity_source_entry")
                                \o Probe(v, source_entry_probe_light, source_entry_probe)), Apart)
<1> DEFINE velocity == capture_depo_velocity("depo_velocity_source_entry")
           probe == Probe(v, source_entry_probe_light, source_entry_probe)
<1>1. {"stage_trace"} \cap Apart = {} /\ {"momentum_probe"} \cap Apart = {}
      /\ {"depo_velocity_source_entry"} \cap Apart = {}
  BY DEF Apart, Committed, Transported, Bed, Maxima, Soil, Limiter, Totals
<1>2. Avoids(stage_trace, Apart)
  BY <1>1, AvoidsOne DEF stage_trace
<1>3. Avoids(velocity, Apart)
  BY <1>1, AvoidsOne DEF capture_depo_velocity
<1>4. Avoids(source_entry_probe_light, Apart) /\ Avoids(source_entry_probe, Apart)
  BY <1>1, AvoidsOne DEF source_entry_probe_light, source_entry_probe
<1>5. v.probe = "light" => v.probe # "full"
  OBVIOUS
<1>6. probe \in {source_entry_probe_light, source_entry_probe, Nothing}
  BY <1>5 DEF Probe
<1>7. Avoids(probe, Apart)
  <2> HIDE DEF probe
  <2> QED BY <1>4, <1>6, AvoidsNothing
<1> HIDE DEF velocity, probe
<1>8. Avoids(stage_trace \o velocity \o probe, Apart)
  BY <1>2, <1>3, <1>7, AvoidsConcat
<1> QED BY <1>8, AvoidsNothing DEF IfProbed, velocity, probe

\* Nor do the source rates, their merge and their copies.
LEMMA SourcesAvoid ==
    ASSUME NEW v
    PROVE  /\ Avoids(compute_source_rates(v), Apart) /\ Avoids(merge_source_terms, Apart)
           /\ Avoids(IfMutated(v, erosion_deposition_diagnostic \o erosion_deposition_writeback), Apart)
<1>1. \A f \in {"erosion_rate", "deposition_rate", "temp_erodible", "temp_depo", "erorate_diag",
                "deporate_diag", "deep_state_diag", "erosion_deposition_matched"} : f \notin Apart
  BY DEF Apart, Committed, Transported, Bed, Maxima, Soil, Limiter, Totals
<1>2. \A f \in {"rhodepo", "tempele", "fhpredi", "frhopredi"} : f \notin Apart
  BY ApartFields DEF Workspace
<1>3. Avoids(compute_source_rates(v), Apart)
  <2> DEFINE writes == {"erosion_rate", "deposition_rate", "rhodepo", "temp_erodible", "temp_depo"}
                       \cup SourceDiagnostics
             reads == {"fhpredi1", "frhopredi1", "fv", "h", "tanslo", "rholimit", "cvlimit",
                       "erodible_thickness", "depo_thickness", "attempt"}
                        \cup (IF v.parity THEN {"legacy_previous_face_cvbar"} ELSE {})
  <2>1. writes \cap Apart = {}
    BY <1>1, <1>2, ApartFields
  <2>2. compute_source_rates(v) = << Kernel(reads, writes) >>
    BY DEF compute_source_rates
  <2> HIDE DEF reads, writes
  <2> QED BY <2>1, <2>2, AvoidsOne
<1>4. Avoids(merge_source_terms, Apart)
  <2>1. {"tempele"} \cap Apart = {} /\ {"fhpredi", "frhopredi"} \cap Apart = {}
    BY <1>2
  <2> QED BY <2>1, AvoidsTwo DEF merge_source_terms
<1>5. Avoids(erosion_deposition_diagnostic, Apart)
  <2>1. Avoids(diagnostic_bookkeeping, Apart)
    BY <1>1, AvoidsOne DEF diagnostic_bookkeeping
  <2> DEFINE reads == {"erorate_diag", "deporate_diag", "deep_state_diag", "erosion_rate",
                       "deposition_rate", "tempfsh", "tempele", "erosion_depth", "attempt"}
  <2>2. Avoids(<< Kernel(reads, {"erosion_deposition_matched"}) >>, Apart)
    BY <1>1, AvoidsOne
  <2>3. erosion_deposition_diagnostic =
          diagnostic_bookkeeping \o << Kernel(reads, {"erosion_deposition_matched"}) >>
    BY DEF erosion_deposition_diagnostic
  <2> HIDE DEF reads
  <2> QED BY <2>1, <2>2, <2>3, AvoidsConcat
<1>6. Avoids(erosion_deposition_writeback, Apart)
  BY <1>1, AvoidsOne DEF erosion_deposition_writeback
<1>7. Avoids(IfMutated(v, erosion_deposition_diagnostic \o erosion_deposition_writeback), Apart)
  BY <1>5, <1>6, AvoidsConcat, AvoidsNothing DEF IfMutated
<1> QED BY <1>3, <1>4, <1>7

\* Nor do the fluxes and their probes.
LEMMA FluxesAvoid ==
    ASSUME NEW v
    PROVE  /\ Avoids(compute_edge_fluxes, Apart)
           /\ Avoids(IfProbed(v, Probe(v, face_flux_probe_light, face_flux_probe)
                                   \o face_flux_diagnostic), Apart)
<1>1. \A f \in {"face_grad", "face_dt0", "max_wave_speed", "momentum_probe", "face_flux_diag"} :
         f \notin Apart
  BY DEF Apart, Committed, Transported, Bed, Maxima, Soil, Limiter, Totals
<1>2. \A f \in {"fybar", "fv_pred", "qq", "qqt", "qqmass", "reject_flag", "first_reject"} : f \notin Apart
  BY ApartFields DEF Workspace, Flags
<1>3. Avoids(reset_edge_fluxes, Apart)
  BY <1>2, AvoidsOne DEF reset_edge_fluxes, Fresh, Face
<1>4. Avoids(face_depth, Apart)
  BY <1>1, <1>2, AvoidsOne DEF face_depth
<1>5. Avoids(face_velocity, Apart)
  BY <1>1, <1>2, AvoidsOne DEF face_velocity
<1>6. Avoids(face_courant, Apart)
  <2>1. {"max_wave_speed"} \cap Apart = {} /\ {"reject_flag", "first_reject"} \cap Apart = {}
    BY <1>1, <1>2
  <2> QED BY <2>1, AvoidsTwo DEF face_courant, record_first_reject
<1>7. Avoids(face_discharge, Apart)
  BY <1>2, AvoidsOne DEF face_discharge
<1>8. Avoids(compute_edge_fluxes, Apart)
  BY <1>3, <1>4, <1>5, <1>6, <1>7, AvoidsConcat DEF compute_edge_fluxes
<1> DEFINE probe == Probe(v, face_flux_probe_light, face_flux_probe)
<1>9. Avoids(face_flux_probe_light, Apart) /\ Avoids(face_flux_probe, Apart)
  BY <1>1, AvoidsOne DEF face_flux_probe_light, face_flux_probe
<1>10. v.probe = "light" => v.probe # "full"
  OBVIOUS
<1>11. probe \in {face_flux_probe_light, face_flux_probe, Nothing}
  BY <1>10 DEF Probe
<1>12. Avoids(probe, Apart)
  <2> HIDE DEF probe
  <2> QED BY <1>9, <1>11, AvoidsNothing
<1>13. Avoids(face_flux_diagnostic, Apart)
  BY <1>1, AvoidsOne DEF face_flux_diagnostic
<1> HIDE DEF probe
<1>14. Avoids(IfProbed(v, probe \o face_flux_diagnostic), Apart)
  BY <1>12, <1>13, AvoidsConcat, AvoidsNothing DEF IfProbed
<1> QED BY <1>8, <1>14 DEF probe

\* Nor does the second half of an attempt.
LEMMA SecondHalfAvoids == ASSUME NEW v PROVE Avoids(SecondHalf(v), Apart)
<1>1. \A f \in {"momentum_probe", "qnet", "qnet_diag", "qmassnet_diag", "fhpredi2_diag",
                "frhopredi2_diag", "acc_volumes", "cand_volumes"} : f \notin Apart
  BY DEF Apart, Committed, Transported, Bed, Maxima, Soil, Limiter, Totals
<1>2. \A f \in {"qtnet", "qmassnet", "fhpredi2", "frhopredi2", "reject_flag", "first_reject",
                "suggested_dt"} : f \notin Apart
  BY ApartFields DEF Workspace, Flags
<1>3. Avoids(Probe(v, post_edge_probe_light, Nothing), Apart)
  <2>1. Avoids(post_edge_probe_light, Apart)
    BY <1>1, AvoidsOne DEF post_edge_probe_light
  <2>2. v.probe = "light" => v.probe # "full"
    OBVIOUS
  <2>3. Probe(v, post_edge_probe_light, Nothing) \in {post_edge_probe_light, Nothing}
    BY <2>2 DEF Probe
  <2> QED BY <2>1, <2>3, AvoidsNothing
<1>4. Avoids(accumulate_and_check, Apart)
  <2> DEFINE e1 == Kernel({"qq", "qqt", "qqmass"}, {"qnet", "qtnet", "qmassnet"})
             e2 == Kernel({"qnet", "qmassnet", "fhpredi", "frhopredi"}, {"fhpredi2", "frhopredi2"})
             e3 == record_first_reject({"fhpredi2", "fhpredi"})
  <2>1. {"qnet", "qtnet", "qmassnet"} \cap Apart = {} /\ {"fhpredi2", "frhopredi2"} \cap Apart = {}
        /\ {"reject_flag", "first_reject"} \cap Apart = {}
    BY <1>1, <1>2
  <2>2. Avoids(<< e1, e2 >>, Apart)
    BY <2>1, AvoidsTwo
  <2>3. Avoids(<< e3 >>, Apart)
    BY <2>1, AvoidsOne DEF record_first_reject
  <2>4. accumulate_and_check = << e1, e2 >> \o << e3 >>
    BY DEF accumulate_and_check
  <2> HIDE DEF e1, e2, e3
  <2> QED BY <2>2, <2>3, <2>4, AvoidsConcat
<1>5. Avoids(qnet_diagnostic, Apart) /\ Avoids(predictor_diagnostic, Apart)
  BY <1>1, AvoidsOne DEF qnet_diagnostic, predictor_diagnostic
<1>6. Avoids(qnet_writeback, Apart) /\ Avoids(predictor_writeback, Apart)
  BY <1>1, <1>2, AvoidsOne DEF qnet_writeback, predictor_writeback
<1>7. Avoids(IfMutated(v, qnet_diagnostic \o qnet_writeback
                            \o predictor_diagnostic \o predictor_writeback), Apart)
  BY <1>5, <1>6, AvoidsConcat, AvoidsNothing DEF IfMutated
<1>8. Avoids(IfProbed(v, accumulate_probe), Apart)
  <2>1. Avoids(accumulate_probe, Apart)
    BY <1>1, AvoidsOne DEF accumulate_probe
  <2> QED BY <2>1, AvoidsNothing DEF IfProbed
<1>9. Avoids(stormdrain_exchange, Apart)
  BY <1>2, AvoidsOne DEF stormdrain_exchange
<1>10. Avoids(reset_volume_accumulators, Apart)
  BY <1>1, AvoidsOne DEF reset_volume_accumulators, Fresh
<1>11. Avoids(accumulate_volume_balance, Apart)
  BY <1>1, AvoidsOne DEF accumulate_volume_balance
<1>12. Avoids(finalize_volume_balance, Apart)
  <2>1. {"cand_volumes"} \cap Apart = {} /\ {"reject_flag", "first_reject", "suggested_dt"} \cap Apart = {}
    BY <1>1, <1>2
  <2> QED BY <2>1, AvoidsTwo DEF finalize_volume_balance
<1>13. Avoids(post_balance_outflow, Apart)
  BY <1>2, AvoidsOne DEF post_balance_outflow
<1>14. Avoids(IF v.stormdrain THEN stormdrain_exchange ELSE Nothing, Apart)
  BY <1>9, AvoidsNothing
<1> QED BY <1>3, <1>4, <1>7, <1>8, <1>10, <1>11, <1>12, <1>13, <1>14, AvoidsConcat DEF SecondHalf

\* The limiter reads nothing but what lasts, unless slopes are carried.
LEMMA LimiterSpares ==
    ASSUME NEW v, ~v.carry, NEW from, Committed \subseteq from PROVE Spares(limiter(v), from, from)
<1>1. Cleans(zero_tanslodir_carry, from, {})
  BY CleansOne DEF zero_tanslodir_carry, Committed, Limiter
<1>2. Cleans(seed_initial_rholimit, from, {})
  BY CleansTwo DEF seed_initial_rholimit, Fresh, Committed, Limiter
<1>3. Cleans(reset_step_workspace, from, {})
  <2>1. Cleans(<< Fresh(Workspace) >>, from, {})
    BY CleansOne DEF Fresh
  <2>2. Cleans(<< Kernel({"erodible_thickness"}, {"temp_erodible"}),
                  Kernel({"depo_thickness"}, {"temp_depo"}) >>, from, {})
    BY CleansTwo DEF Committed, Bed
  <2>3. reset_step_workspace =
          << Fresh(Workspace) >> \o
          << Kernel({"erodible_thickness"}, {"temp_erodible"}),
             Kernel({"depo_thickness"}, {"temp_depo"}) >>
    BY DEF reset_step_workspace
  <2> QED BY <2>1, <2>2, <2>3, CleansThen
<1>4. Cleans(bed_slope_limiter, from, {})
  BY CleansTwo DEF bed_slope_limiter, Committed, Transported, Limiter
<1>5. Cleans(zero_tanslodir_carry \o seed_initial_rholimit, from, {})
  BY <1>1, <1>2, CleansThen
<1>6. Cleans(zero_tanslodir_carry \o seed_initial_rholimit \o reset_step_workspace, from, {})
  BY <1>3, <1>5, CleansThen
<1>7. Cleans(limiter(v), from, {})
  BY <1>4, <1>6, CleansThen DEF limiter
<1> QED BY <1>7, CleaningSpares

\* Without a failing cell only the heads of the soil change, and kkt1 keeps them.
LEMMA FailureSpares ==
    ASSUME NEW v \in Variants PROVE Spares(failure_sources(v, FALSE), Lasting(v), InAttempt(v))
<1>1. {"tempfsh", "tempfsrho"} \cap Apart = {} /\ {"tempfsh", "tempfsrho", "candidate_fired"} \cap Apart = {}
  BY ApartFields DEF Workspace, HostState
<1>2. CASE v.failure = "schedule"
  <2>1. Avoids(stage_failure_schedule, Apart)
    BY <1>1, AvoidsOne DEF stage_failure_schedule
  <2>2. Lasting(v) \subseteq Apart /\ InAttempt(v) = Lasting(v)
    BY <1>2 DEF Lasting, InAttempt, Apart
  <2> QED BY <1>2, <2>1, <2>2, AvoidingSpares DEF failure_sources
<1>3. CASE v.failure # "schedule"
  <2>1. v.failure = "double_layer"
    BY <1>3 DEF Variants
  <2> DEFINE C == InAttempt(v)
             e1 == Kernel({"kkt", "is_failed"}, {"kkt1"})
             e2 == Kernel({"kkt1", "infiltration", "is_failed", "attempt"}, {"kkt"})
  <2>2. C = (Committed \ {"kkt"}) \cup {"fire_mask", "kkt1"}
    BY <1>3, <2>1 DEF Lasting, InAttempt
  <2>3. Spares(<< e1 >>, Lasting(v), C)
    <3>1. {"kkt", "is_failed"} \subseteq Lasting(v)
      BY DEF Lasting, Committed, Soil
    <3>2. Cleans(<< e1 >>, Lasting(v), {"kkt1"})
      BY <3>1, CleansOne
    <3>3. C \subseteq Lasting(v) \cup {"kkt1"}
      BY <2>2 DEF Lasting
    <3> HIDE DEF C, e1
    <3> QED BY <3>2, <3>3, CleaningSpares
  <2>4. /\ {"kkt"} \cap C = {} /\ {"pt", "desat"} \cap C = {} /\ {"FS", "fdepth"} \cap C = {}
        /\ {"pt_failed", "desat_failed"} \cap C = {}
    BY <2>2 DEF Committed, Transported, Bed, Maxima, Soil, Limiter, Totals
  <2>5. {"tempfsh", "tempfsrho"} \cap C = {}
    BY <1>1, <2>2 DEF Apart
  <2> HIDE DEF C
  <2>6. Avoids(<< e2 >>, C)
    BY <2>4, AvoidsOne
  <2>7. Avoids(compute_pore_pressure, C) /\ Avoids(find_minimum_fs, C)
    BY <2>4, AvoidsOne, AvoidsTwo DEF compute_pore_pressure, find_minimum_fs
  <2>8. Avoids(populate_failure_source_terms(FALSE), C)
    <3> DEFINE part == << Kernel({"FS", "fdepth", "is_failed", "attempt"},
                                 {"tempfsh", "tempfsrho"}) >>
    <3>1. Avoids(part, C)
      BY <2>5, AvoidsOne
    <3>2. populate_failure_source_terms(FALSE) = part \o Nothing
      BY DEF populate_failure_source_terms
    <3> HIDE DEF part
    <3>3. Avoids(part \o Nothing, C)
      BY <3>1, AvoidsNothing, AvoidsConcat
    <3> QED BY <3>2, <3>3
  <2>9. solve_richards = << e1 >> \o << e2 >>
    BY DEF solve_richards
  <2> HIDE DEF e1, e2
  <2>10. C \subseteq C
    OBVIOUS
  <2>11. Spares(solve_richards, Lasting(v), C)
    BY <2>3, <2>6, <2>9, <2>10, SparesAvoiding
  <2>12. Spares(double_layer_failure(FALSE), Lasting(v), C)
    BY <2>7, <2>8, <2>10, <2>11, SparesAvoiding DEF double_layer_failure
  <2> QED BY <1>3, <2>12 DEF failure_sources, C
<1> QED BY <1>2, <1>3

\* The first half of a retry-safe attempt in which no cell failed.
LEMMA FirstHalfSpares ==
    ASSUME NEW v \in Variants, ~v.parity, ~v.carry, ~v.inject
    PROVE  Spares(FirstHalf(v, FALSE), Lasting(v), InAttempt(v))
<1> DEFINE p1 == apply_rainfall \o limiter(v)
           p2 == p1 \o reset_first_reject
           p3 == p2 \o stage_inflow_forcing(v)
           p4 == p3 \o rnoff_period_precompute(v)
           p5 == p4 \o surface_forcing(v)
           p6 == p5 \o rnoff_after_staging(v)
           p7 == p6 \o IfProbed(v, stage_trace \o capture_depo_velocity("depo_velocity_source_entry")
                                     \o Probe(v, source_entry_probe_light, source_entry_probe))
           p8 == p7 \o compute_source_rates(v)
           p9 == p8 \o failure_sources(v, FALSE)
           p10 == p9 \o merge_source_terms
           p11 == p10 \o IfMutated(v, erosion_deposition_diagnostic \o erosion_deposition_writeback)
           p12 == p11 \o compute_edge_fluxes
           p13 == p12 \o IfProbed(v, Probe(v, face_flux_probe_light, face_flux_probe)
                                       \o face_flux_diagnostic)
           L == Lasting(v)
           I == InAttempt(v)
<1>1. L \subseteq Apart /\ I \subseteq Apart /\ Committed \subseteq L
  BY DEF Lasting, InAttempt, Apart
<1> HIDE DEF L, I
<1>2. Spares(p1, L, L)
  <2>1. Spares(apply_rainfall, L, L)
    BY <1>1, InputsAvoid, AvoidingSpares
  <2>2. Spares(limiter(v), L, L)
    BY <1>1, LimiterSpares
  <2> QED BY <2>1, <2>2, SparesThen
<1> HIDE DEF p1
<1>3. Spares(p2, L, L)
  BY <1>1, <1>2, InputsAvoid, SparesAvoiding
<1> HIDE DEF p2
<1>4. Spares(p3, L, L)
  BY <1>1, <1>3, InputsAvoid, SparesAvoiding
<1> HIDE DEF p3
<1>5. Spares(p4, L, L)
  BY <1>1, <1>4, RunoffAvoids, SparesAvoiding
<1> HIDE DEF p4
<1>6. Spares(p5, L, L)
  BY <1>1, <1>5, ForcingAvoids, SparesAvoiding
<1> HIDE DEF p5
<1>7. Spares(p6, L, L)
  BY <1>1, <1>6, RunoffAvoids, SparesAvoiding
<1> HIDE DEF p6
<1>8. Spares(p7, L, L)
  BY <1>1, <1>7, EntryProbeAvoids, SparesAvoiding
<1> HIDE DEF p7
<1>9. Spares(p8, L, L)
  BY <1>1, <1>8, SourcesAvoid, SparesAvoiding
<1> HIDE DEF p8
<1>10. Spares(p9, L, I)
  BY <1>9, FailureSpares, SparesThen DEF L, I
<1> HIDE DEF p9
<1>11. Spares(p10, L, I)
  BY <1>1, <1>10, SourcesAvoid, SparesAvoiding
<1> HIDE DEF p10
<1>12. Spares(p11, L, I)
  BY <1>1, <1>11, SourcesAvoid, SparesAvoiding
<1> HIDE DEF p11
<1>13. Spares(p12, L, I)
  BY <1>1, <1>12, FluxesAvoid, SparesAvoiding
<1> HIDE DEF p12
<1>14. Spares(p13, L, I)
  BY <1>1, <1>13, FluxesAvoid, SparesAvoiding
<1>15. FirstHalf(v, FALSE) = p13 \o Nothing
  BY DEF FirstHalf, p1, p2, p3, p4, p5, p6, p7, p8, p9, p10, p11, p12
<1> HIDE DEF p13
<1>16. Spares(p13 \o Nothing, L, I)
  BY <1>1, <1>14, AvoidsNothing, SparesAvoiding
<1> QED BY <1>15, <1>16 DEF L, I

\* What a rejection leaves as it was: all that lasts, but for heads of failed cells behind.
Restored(v, behind) == Lasting(v) \ (IF behind THEN {"kkt_failed"} ELSE {})

\* The rejection puts the heads back; those of failed cells stay if none is behind.
LEMMA RejectSpares ==
    ASSUME NEW v \in Variants, NEW behind \in BOOLEAN
    PROVE  Spares(Reject(v, behind), InAttempt(v), Restored(v, behind))
<1>1. {"ci_candidate", "candidate_fired"} \cap Apart = {}
  BY ApartFields DEF HostState
<1>2. Avoids(discard_candidates, Apart)
  BY <1>1, AvoidsOne DEF discard_candidates, Fresh
<1>3. Lasting(v) \subseteq Apart /\ Restored(v, behind) \subseteq Apart
  BY DEF Lasting, Apart, Restored
<1>4. Spares(restore_richards(v, behind), InAttempt(v), Restored(v, behind))
  <2>1. CASE v.failure = "double_layer"
    <3> DEFINE reads == {"kkt_failed", "kkt1_failed"} \cup (IF behind THEN {"attempt"} ELSE {})
               e1 == << Kernel({"kkt1"}, {"kkt"}) >>
               e2 == << Kernel(reads, {"kkt_failed"}) >>
    <3>1. Spares(e1, InAttempt(v), Lasting(v))
      <4>1. {"kkt1"} \subseteq InAttempt(v)
        BY <2>1 DEF InAttempt
      <4>2. Cleans(e1, InAttempt(v), {"kkt"})
        BY <4>1, CleansOne
      <4>3. Lasting(v) \subseteq InAttempt(v) \cup {"kkt"}
        BY <2>1 DEF InAttempt
      <4> HIDE DEF e1
      <4> QED BY <4>2, <4>3, CleaningSpares
    <3>2. Spares(e2, Lasting(v), Restored(v, behind))
      <4>1. CASE behind
        <5>1. {"kkt_failed"} \cap Restored(v, behind) = {} /\ Restored(v, behind) \subseteq Lasting(v)
          BY <4>1 DEF Restored
        <5>2. Avoids(e2, Restored(v, behind))
          <6> HIDE DEF reads
          <6> QED BY <5>1, AvoidsOne
        <5> HIDE DEF e2
        <5>3. Spares(e2, Restored(v, behind), Restored(v, behind))
          BY <5>2, AvoidingSpares
        <5> QED BY <5>1, <5>3 DEF Spares
      <4>2. CASE ~behind
        <5>1. {"kkt_failed", "kkt1_failed"} \subseteq Lasting(v)
          BY DEF Lasting, Committed, Soil
        <5>2. reads \subseteq Lasting(v) /\ Restored(v, behind) \subseteq Lasting(v) \cup {}
          BY <4>2, <5>1 DEF Restored
        <5>3. Cleans(e2, Lasting(v), {})
          <6> HIDE DEF reads
          <6> QED BY <5>2, CleansOne
        <5> HIDE DEF e2
        <5> QED BY <5>2, <5>3, CleaningSpares
      <4> QED BY <4>1, <4>2
    <3>3. restore_richards(v, behind) = e1 \o e2
      BY <2>1 DEF restore_richards
    <3> HIDE DEF e1, e2
    <3> QED BY <3>1, <3>2, <3>3, SparesThen
  <2>2. CASE v.failure # "double_layer"
    <3>1. Spares(Nothing, Restored(v, behind), Restored(v, behind))
      BY <1>3, AvoidsNothing, AvoidingSpares
    <3>2. Restored(v, behind) \subseteq InAttempt(v) /\ restore_richards(v, behind) = Nothing
      BY <2>2 DEF restore_richards, InAttempt, Restored
    <3> QED BY <3>1, <3>2 DEF Spares
  <2> QED BY <2>1, <2>2
<1> QED BY <1>2, <1>3, <1>4, SparesAvoiding DEF Reject

\* So a rejected attempt with neither parity, carry nor injection, in which no cell is
\* released, leaves what lasts to the retry as it was before.
LEMMA RejectedSpares ==
    ASSUME NEW v \in Variants, ~v.parity, ~v.carry, ~v.inject, NEW behind \in BOOLEAN
    PROVE  /\ Spares(RejectedAtCourant(v, FALSE, behind), Lasting(v), Restored(v, behind))
           /\ Spares(RejectedAtEnd(v, FALSE, behind), Lasting(v), Restored(v, behind))
<1>1. Spares(FirstHalf(v, FALSE), Lasting(v), InAttempt(v))
  BY FirstHalfSpares
<1>2. InAttempt(v) \subseteq Apart
  BY DEF InAttempt, Lasting, Apart
<1>3. Spares(FirstHalf(v, FALSE) \o SecondHalf(v), Lasting(v), InAttempt(v))
  BY <1>1, <1>2, SecondHalfAvoids, SparesAvoiding
<1>4. Spares(RejectedAtCourant(v, FALSE, behind), Lasting(v), Restored(v, behind))
  BY <1>1, RejectSpares, SparesThen DEF RejectedAtCourant
<1>5. Spares(RejectedAtEnd(v, FALSE, behind), Lasting(v), Restored(v, behind))
  BY <1>3, RejectSpares, SparesThen DEF RejectedAtEnd
<1> QED BY <1>4, <1>5

-----------------------------------------------------------------------------
(* The modular step.                                                       *)

\* What is stale follows the calls one by one.
LEMMA StaleFollows ==
    ASSUME NEW calls, Len(calls) \in Nat, NEW stale
    PROVE  /\ StaleAt(calls, stale)[0] = stale
           /\ \A i \in 1..Len(calls) :
                 StaleAt(calls, stale)[i] = Staled(calls[i], StaleAt(calls, stale)[i - 1])
<1> DEFINE n == Len(calls)
           X == SUBSET (stale \cup Derived)
           S == [i \in 1..n |-> [seen \in X |-> Staled(calls[i], seen)]]
           Is(g) == g = [i \in 0..Len(calls) |-> IF i = 0 THEN stale ELSE Staled(calls[i], g[i - 1])]
           after == CHOOSE g : Is(g)
<1>1. \A i \in 1..n : \A seen \in X : Staled(calls[i], seen) \in X
  BY DEF Staled
<1>2. \E g : Solves(g, n, X, stale, S)
  <2>1. S \in [1..n -> [X -> X]]
    BY <1>1
  <2>2. stale \in X
    OBVIOUS
  <2> HIDE DEF S, X
  <2> QED BY <2>1, <2>2, SolutionExists
<1>3. \E g : Is(g)
  <2>1. PICK g : Solves(g, n, X, stale, S)
    BY <1>2
  <2>2. \A i \in 1..n : \A seen \in X : S[i][seen] = Staled(calls[i], seen)
    OBVIOUS
  <2> HIDE DEF S, X
  <2>3. \A i \in 1..n : g[i] = Staled(calls[i], g[i - 1])
    <3>1. \A i \in 1..n : g[i - 1] \in X /\ g[i] = S[i][g[i - 1]]
      BY <2>1 DEF Solves
    <3> QED BY <2>2, <3>1
  <2>4. g = [i \in 0..n |-> g[i]] /\ g[0] = stale
    BY <2>1 DEF Solves
  <2>5. Is(g)
    BY <2>3, <2>4
  <2> QED BY <2>5
<1>4. Is(after)
  <2> HIDE DEF Is
  <2> QED BY <1>3
<1>5. StaleAt(calls, stale) = after
  BY DEF StaleAt
<1> HIDE DEF after
<1>6. after[0] = stale /\ \A i \in 1..n : after[i] = Staled(calls[i], after[i - 1])
  BY <1>4
<1> QED BY <1>5, <1>6

(* A part of a step, begun with "stale", reads nothing stale, and leaves   *)
(* "after" stale.                                                          *)
Serves(calls, stale, after) ==
    /\ Sequence(calls)
    /\ StaleAfter(calls, stale) = after /\ Misread(calls, stale) = {}

\* It is enough to say what is stale before each call.
LEMMA ServesAlong ==
    ASSUME NEW calls, Sequence(calls), NEW t,
           \A i \in 1..Len(calls) : /\ t[i] = Staled(calls[i], t[i - 1])
                                    /\ calls[i].reads \cap t[i - 1] = {}
    PROVE  Serves(calls, t[0], t[Len(calls)])
<1> DEFINE n == Len(calls)
           g == StaleAt(calls, t[0])
           P == {i \in 0..n : g[i] = t[i]}
<1>1. n \in Nat
  BY DEF Sequence
<1>2. g[0] = t[0] /\ \A i \in 1..n : g[i] = Staled(calls[i], g[i - 1])
  BY <1>1, StaleFollows
<1> HIDE DEF g
<1>3. 0 \in P
  BY <1>1, <1>2
<1>4. \A i \in 0..n : i < n /\ i \in P => i + 1 \in P
  <2> TAKE i \in 0..n
  <2> HAVE i < n /\ i \in P
  <2>1. i + 1 \in 1..n /\ i + 1 - 1 = i
    BY <1>1
  <2>2. g[i + 1] = Staled(calls[i + 1], g[i]) /\ t[i + 1] = Staled(calls[i + 1], t[i])
    BY <1>2, <2>1
  <2> QED BY <2>2
<1>5. \A i \in 0..n : i \in P
  <2> HIDE DEF P
  <2> QED BY <1>1, <1>3, <1>4, StepInduction
<1>6. \A i \in 0..n : g[i] = t[i]
  BY <1>5
<1>7. StaleAfter(calls, t[0]) = t[n]
  BY <1>1, <1>6 DEF StaleAfter, g
<1>8. \A i \in 1..n : calls[i].reads \cap g[i - 1] = {}
  BY <1>1, <1>6
<1>9. Misread(calls, t[0]) = {}
  BY <1>8 DEF Misread, g
<1> QED BY <1>7, <1>9 DEF Serves

\* Calls that read nothing stale and change nothing of it.
LEMMA ServesUnchanged ==
    ASSUME NEW calls, Sequence(calls), NEW stale,
           \A i \in 1..Len(calls) : /\ Staled(calls[i], stale) = stale
                                    /\ calls[i].reads \cap stale = {}
    PROVE  Serves(calls, stale, stale)
<1> DEFINE t == [i \in 0..Len(calls) |-> stale]
<1>0. Len(calls) \in Nat
  BY DEF Sequence
<1>1. t[0] = stale /\ t[Len(calls)] = stale /\ \A i \in 1..Len(calls) : t[i] = stale /\ t[i - 1] = stale
  BY <1>0
<1> HIDE DEF t
<1>2. \A i \in 1..Len(calls) : t[i] = Staled(calls[i], t[i - 1]) /\ calls[i].reads \cap t[i - 1] = {}
  BY <1>1
<1> QED BY <1>1, <1>2, ServesAlong

\* One part after another.
LEMMA ServesThen ==
    ASSUME NEW first, NEW second, NEW stale, NEW middle, NEW after,
           Serves(first, stale, middle), Serves(second, middle, after)
    PROVE  Serves(first \o second, stale, after)
<1> DEFINE n == Len(first)
           k == Len(second)
           both == first \o second
           f == StaleAt(first, stale)
           s == StaleAt(second, middle)
           t == [i \in 0..n + k |-> IF i \in 0..n THEN f[i] ELSE s[i - n]]
<1>1. /\ Sequence(both) /\ Len(both) = n + k /\ n \in Nat /\ k \in Nat
      /\ \A i \in 1..n : both[i] = first[i]
      /\ \A i \in 1..k : both[n + i] = second[i]
  BY ConcatSequence DEF Serves
<1>2. f[0] = stale /\ (\A i \in 1..n : f[i] = Staled(first[i], f[i - 1])) /\ f[n] = middle
  BY <1>1, StaleFollows DEF Serves, StaleAfter
<1>3. s[0] = middle /\ (\A i \in 1..k : s[i] = Staled(second[i], s[i - 1])) /\ s[k] = after
  BY <1>1, StaleFollows DEF Serves, StaleAfter
<1>4. \A i \in 1..n : first[i].reads \cap f[i - 1] = {}
  BY DEF Serves, Misread
<1>5. \A i \in 1..k : second[i].reads \cap s[i - 1] = {}
  BY DEF Serves, Misread
<1> HIDE DEF both, f, s
<1>6. /\ \A i \in 0..n : t[i] = f[i]
      /\ \A i \in 0..k : t[n + i] = s[i]
  BY <1>1, <1>2, <1>3
<1> HIDE DEF t
<1>7. ASSUME NEW i \in 1..Len(both)
      PROVE  t[i] = Staled(both[i], t[i - 1]) /\ both[i].reads \cap t[i - 1] = {}
  <2>1. CASE i \in 1..n
    <3>1. i \in 0..n /\ i - 1 \in 0..n
      BY <1>1, <2>1
    <3> QED BY <1>1, <1>2, <1>4, <1>6, <2>1, <3>1
  <2>2. CASE i \notin 1..n
    <3>1. i - n \in 1..k /\ i - n \in 0..k /\ i - n - 1 \in 0..k
          /\ n + (i - n) = i /\ n + (i - n - 1) = i - 1
      BY <1>1, <2>2
    <3>2. t[i] = s[i - n] /\ t[i - 1] = s[i - n - 1] /\ both[i] = second[i - n]
      BY <1>1, <1>6, <3>1
    <3>3. s[i - n] = Staled(second[i - n], s[i - n - 1]) /\ second[i - n].reads \cap s[i - n - 1] = {}
      BY <1>3, <1>5, <3>1
    <3> QED BY <3>2, <3>3
  <2> QED BY <2>1, <2>2
<1>8. Serves(both, t[0], t[Len(both)])
  BY <1>1, <1>7, ServesAlong
<1>9. t[0] = stale /\ t[Len(both)] = after
  BY <1>1, <1>2, <1>3, <1>6
<1> QED BY <1>8, <1>9 DEF both

\* A sequence that is written out.
LEMMA ListedSequences ==
    /\ \A a : Sequence(<< a >>)
    /\ \A a, b : Sequence(<< a, b >>)
    /\ \A a, b, c : Sequence(<< a, b, c >>)
    /\ \A a, b, c, d : Sequence(<< a, b, c, d >>)
    /\ \A a, b, c, d, e : Sequence(<< a, b, c, d, e >>)
    /\ \A a, b, c, d, e, f : Sequence(<< a, b, c, d, e, f >>)
<1>1. ASSUME NEW a PROVE Sequence(<< a >>)
  <2>1. << a >> \in Seq({a})
    OBVIOUS
  <2> QED BY <2>1 DEF Sequence
<1>2. ASSUME NEW a, NEW b PROVE Sequence(<< a, b >>)
  <2>1. << a, b >> \in Seq({a, b})
    OBVIOUS
  <2> QED BY <2>1 DEF Sequence
<1>3. ASSUME NEW a, NEW b, NEW c PROVE Sequence(<< a, b, c >>)
  <2>1. << a, b, c >> \in Seq({a, b, c})
    OBVIOUS
  <2> QED BY <2>1 DEF Sequence
<1>4. ASSUME NEW a, NEW b, NEW c, NEW d PROVE Sequence(<< a, b, c, d >>)
  <2>1. << a, b, c, d >> \in Seq({a, b, c, d})
    OBVIOUS
  <2> QED BY <2>1 DEF Sequence
<1>6. ASSUME NEW a, NEW b, NEW c, NEW d, NEW e PROVE Sequence(<< a, b, c, d, e >>)
  <2>1. << a, b, c, d, e >> \in Seq({a, b, c, d, e})
    OBVIOUS
  <2> QED BY <2>1 DEF Sequence
<1>5. ASSUME NEW a, NEW b, NEW c, NEW d, NEW e, NEW f PROVE Sequence(<< a, b, c, d, e, f >>)
  <2>1. << a, b, c, d, e, f >> \in Seq({a, b, c, d, e, f})
    OBVIOUS
  <2> QED BY <2>1 DEF Sequence
<1> QED BY <1>1, <1>2, <1>3, <1>4, <1>5, <1>6

\* Density and rheology are brought up to date.
LEMMA PropertiesServe == ASSUME NEW stale \in SUBSET Derived PROVE Serves(update_properties, stale, {})
<1> DEFINE t == [i \in 0..2 |-> IF i = 0 THEN stale ELSE IF i = 1 THEN stale \ {"rho"} ELSE {}]
<1>1. Sequence(update_properties) /\ Len(update_properties) = 2
      /\ update_properties[1] = update_mixture_density
      /\ update_properties[2] = update_rheology_parameters
  BY ListedSequences DEF update_properties
<1>2. t[0] = stale /\ t[1] = stale \ {"rho"} /\ t[2] = {}
  OBVIOUS
<1> HIDE DEF t
<1>3. t[1] = Staled(update_mixture_density, t[0]) /\ update_mixture_density.reads \cap t[0] = {}
  BY <1>2 DEF Staled, update_mixture_density, Call, Derived
<1>4. t[2] = Staled(update_rheology_parameters, t[1]) /\ update_rheology_parameters.reads \cap t[1] = {}
  BY <1>2 DEF Staled, update_rheology_parameters, Call, Derived
<1>5. \A i \in 1..2 : /\ t[i] = Staled(update_properties[i], t[i - 1])
                      /\ update_properties[i].reads \cap t[i - 1] = {}
  BY <1>1, <1>3, <1>4, 1 - 1 = 0, 2 - 1 = 1
<1>6. Serves(update_properties, t[0], t[2])
  BY <1>1, <1>5, ServesAlong
<1> QED BY <1>2, <1>6

\* A call that leaves the derived fields and the concentration alone.
LEMMA ServesQuietly ==
    ASSUME NEW calls, Sequence(calls), NEW stale \in SUBSET Derived,
           \A i \in 1..Len(calls) : /\ calls[i].writes \cap (Derived \cup {"Cv"}) = {}
                                    /\ calls[i].reads \cap stale = {}
    PROVE  Serves(calls, stale, stale)
<1>1. \A i \in 1..Len(calls) : Staled(calls[i], stale) = stale
  BY DEF Staled
<1> QED BY <1>1, ServesUnchanged

\* All derived fields are stale, and none of the calls reads or writes one.
LEMMA ServesApart ==
    ASSUME NEW calls, Sequence(calls),
           \A i \in 1..Len(calls) : /\ calls[i].writes \cap Derived = {}
                                    /\ calls[i].reads \cap Derived = {}
    PROVE  Serves(calls, Derived, Derived)
<1>1. \A i \in 1..Len(calls) : Staled(calls[i], Derived) = Derived
  BY DEF Staled
<1> QED BY <1>1, ServesUnchanged

\* Erosion, deposition and failures on fresh density and rheology.
LEMMA BedServes ==
    Serves(<< compute_deposition_rate, apply_erosion, apply_deposition, apply_deposition_dry,
              check_failure_and_mobilize >>, {}, Derived)
<1> DEFINE calls == << compute_deposition_rate, apply_erosion, apply_deposition,
                       apply_deposition_dry, check_failure_and_mobilize >>
           rheology == {"tau_y", "mu"}
           t == [i \in 0..5 |-> IF i < 2 THEN {} ELSE IF i < 4 THEN rheology ELSE Derived]
<1>1. Sequence(calls) /\ Len(calls) = 5
      /\ calls[1] = compute_deposition_rate /\ calls[2] = apply_erosion
      /\ calls[3] = apply_deposition /\ calls[4] = apply_deposition_dry
      /\ calls[5] = check_failure_and_mobilize
  BY ListedSequences
<1>2. t[0] = {} /\ t[1] = {} /\ t[2] = rheology /\ t[3] = rheology /\ t[4] = Derived /\ t[5] = Derived
  OBVIOUS
<1> HIDE DEF t, calls
<1>3. t[1] = Staled(compute_deposition_rate, t[0])
  BY <1>2 DEF Staled, compute_deposition_rate, Call
<1>4. t[2] = Staled(apply_erosion, t[1])
  BY <1>2 DEF Staled, apply_erosion, Call, Derived
<1>5. t[3] = Staled(apply_deposition, t[2]) /\ apply_deposition.reads \cap t[2] = {}
  BY <1>2 DEF Staled, apply_deposition, Call, Derived
<1>6. t[4] = Staled(apply_deposition_dry, t[3]) /\ apply_deposition_dry.reads \cap t[3] = {}
  BY <1>2 DEF Staled, apply_deposition_dry, Call, Derived
<1>7. t[5] = Staled(check_failure_and_mobilize, t[4]) /\ check_failure_and_mobilize.reads \cap t[4] = {}
  BY <1>2 DEF Staled, check_failure_and_mobilize, Call, Derived
<1>8. \A i \in 1..5 : i = 1 \/ i = 2 \/ i = 3 \/ i = 4 \/ i = 5
  OBVIOUS
<1>9. 1 - 1 = 0 /\ 2 - 1 = 1 /\ 3 - 1 = 2 /\ 4 - 1 = 3 /\ 5 - 1 = 4
  OBVIOUS
<1>10. \A i \in 1..5 : /\ t[i] = Staled(calls[i], t[i - 1])
                       /\ calls[i].reads \cap t[i - 1] = {}
  BY <1>1, <1>2, <1>3, <1>4, <1>5, <1>6, <1>7, <1>8, <1>9
<1>11. Serves(calls, t[0], t[5])
  BY <1>1, <1>10, ServesAlong
<1> QED BY <1>2, <1>11 DEF calls

\* A modular step on a fresh state reads nothing stale and leaves a fresh state.
LEMMA ModularServes == Serves(physics_step, {}, {})
<1> DEFINE p1 == << Call({}, {"rainfall"}) >> \o hydrology_step
           p2 == p1 \o stability_step
           p3 == p2 \o update_properties
           p4 == p3 \o erosion_rates
           p5 == p4 \o << compute_deposition_rate, apply_erosion, apply_deposition,
                          apply_deposition_dry, check_failure_and_mobilize >>
           p6 == p5 \o prepare_for_flow
           p7 == p6 \o << outflow_cells_emptied >>
           p8 == p7 \o shallow_water_step
           p9 == p8 \o << outflow_cells_emptied >>
           p10 == p9 \o finalize_after_flow
<1>0. {} \in SUBSET Derived /\ Derived \in SUBSET Derived
  OBVIOUS
<1>1. Serves(p1, {}, {})
  <2>1. Serves(<< Call({}, {"rainfall"}) >>, {}, {})
    <3>1. Sequence(<< Call({}, {"rainfall"}) >>)
      BY ListedSequences
    <3> QED BY <1>0, <3>1, ServesQuietly DEF Call, Derived
  <2>2. Serves(hydrology_step, {}, {})
    <3>1. Sequence(hydrology_step)
      BY ListedSequences DEF hydrology_step
    <3> QED BY <1>0, <3>1, ServesQuietly
            DEF hydrology_step, compute_infiltration, update_pore_pressure, Call, Derived
  <2> QED BY <2>1, <2>2, ServesThen
<1> HIDE DEF p1
<1>2. Serves(p2, {}, {})
  <2>1. Sequence(stability_step)
    BY ListedSequences DEF stability_step
  <2>2. Serves(stability_step, {}, {})
    BY <1>0, <2>1, ServesQuietly DEF stability_step, compute_factor_of_safety, Call, Derived
  <2> QED BY <1>1, <2>2, ServesThen
<1> HIDE DEF p2
<1>3. Serves(p3, {}, {})
  BY <1>0, <1>2, PropertiesServe, ServesThen
<1> HIDE DEF p3
<1>4. Serves(p4, {}, {})
  <2>1. Sequence(erosion_rates)
    BY ListedSequences DEF erosion_rates
  <2>2. Serves(erosion_rates, {}, {})
    BY <1>0, <2>1, ServesQuietly
       DEF erosion_rates, compute_cvlimit, compute_bed_shear_stress, compute_erosion_rate, Call, Derived
  <2> QED BY <1>3, <2>2, ServesThen
<1> HIDE DEF p4
<1>5. Serves(p5, {}, Derived)
  BY <1>4, BedServes, ServesThen
<1> HIDE DEF p5
<1>6. Serves(p6, {}, {})
  <2>1. Sequence(<< adjust_manning_coefficient >>)
    BY ListedSequences
  <2>2. Serves(<< adjust_manning_coefficient >>, Derived, Derived)
    BY <2>1, ServesApart DEF adjust_manning_coefficient, Call, Derived
  <2>3. Serves(prepare_for_flow, Derived, {})
    BY <1>0, <2>2, PropertiesServe, ServesThen DEF prepare_for_flow
  <2> QED BY <1>5, <2>3, ServesThen
<1> HIDE DEF p6
<1>7. Sequence(<< outflow_cells_emptied >>)
  BY ListedSequences
<1>8. Serves(p7, {}, Derived)
  <2> DEFINE calls == << outflow_cells_emptied >>
             t == [i \in 0..1 |-> IF i = 0 THEN {} ELSE Derived]
  <2>1. t[0] = {} /\ t[1] = Derived /\ Len(calls) = 1 /\ calls[1] = outflow_cells_emptied
    OBVIOUS
  <2> HIDE DEF t, calls
  <2>2. t[1] = Staled(outflow_cells_emptied, t[0])
    BY <2>1 DEF Staled, outflow_cells_emptied, Call, Derived
  <2>3. \A i \in 1..Len(calls) : t[i] = Staled(calls[i], t[i - 1]) /\ calls[i].reads \cap t[i - 1] = {}
    BY <2>1, <2>2, 1 - 1 = 0
  <2>4. Serves(calls, t[0], t[Len(calls)])
    BY <1>7, <2>3, ServesAlong DEF calls
  <2>5. Serves(calls, {}, Derived)
    BY <2>1, <2>4
  <2> QED BY <1>6, <2>5, ServesThen DEF calls
<1> HIDE DEF p7
<1>9. Serves(p8, {}, Derived)
  <2>1. Sequence(shallow_water_step)
    BY ListedSequences DEF shallow_water_step
  <2>2. \A i \in 1..6 : i = 1 \/ i = 2 \/ i = 3 \/ i = 4 \/ i = 5 \/ i = 6
    OBVIOUS
  <2>3. \A e \in {compute_fluxes_8dir, compute_sediment_fluxes, update_conservative,
                  apply_updates, solve_velocity_newton_raphson, apply_nr_velocities} :
           e.writes \cap Derived = {} /\ e.reads \cap Derived = {}
    BY DEF compute_fluxes_8dir, compute_sediment_fluxes, update_conservative, apply_updates,
           solve_velocity_newton_raphson, apply_nr_velocities, Call, Derived
  <2>4. \A i \in 1..Len(shallow_water_step) :
           /\ shallow_water_step[i].writes \cap Derived = {}
           /\ shallow_water_step[i].reads \cap Derived = {}
    BY <2>2, <2>3 DEF shallow_water_step
  <2>5. Serves(shallow_water_step, Derived, Derived)
    BY <2>1, <2>4, ServesApart
  <2> QED BY <1>8, <2>5, ServesThen
<1> HIDE DEF p8
<1>10. Serves(p9, {}, Derived)
  <2>1. Serves(<< outflow_cells_emptied >>, Derived, Derived)
    BY <1>7, ServesApart DEF outflow_cells_emptied, Call, Derived
  <2> QED BY <1>9, <2>1, ServesThen
<1> HIDE DEF p9
<1>11. Serves(p10, {}, {})
  <2>1. Sequence(<< limit_froude_number >>)
    BY ListedSequences
  <2>2. Serves(<< limit_froude_number >>, {}, {})
    BY <1>0, <2>1, ServesQuietly DEF limit_froude_number, Call, Derived
  <2>3. Serves(finalize_after_flow, Derived, {})
    BY <1>0, <2>2, PropertiesServe, ServesThen DEF finalize_after_flow
  <2> QED BY <1>10, <2>3, ServesThen
<1>12. Serves(<< outflow_cells_still_empty >>, {}, {})
  <2>1. Sequence(<< outflow_cells_still_empty >>)
    BY ListedSequences
  <2> QED BY <1>0, <2>1, ServesQuietly DEF outflow_cells_still_empty, Call, Derived
<1>13. physics_step = p10 \o << outflow_cells_still_empty >>
  BY DEF physics_step, p1, p2, p3, p4, p5, p6, p7, p8, p9, p10
<1> HIDE DEF p10
<1> QED BY <1>11, <1>12, <1>13, ServesThen

\* The fields the modular step reads.
ModularFields ==
    {"F_cumulative", "h", "rainfall", "psi", "FS", "is_failed", "Cv", "manning_ori", "u", "v",
     "manning", "rho", "tau", "cvlimit", "erosion_rate", "erodible_thickness", "depo_thickness",
     "deposition_rate", "flux_h", "flux_hu", "flux_hv", "flux_hCv", "conserved_new", "z_bed",
     "v_prev", "v_pred", "erosion_depth", "deposition_depth"}

\* A part that reads only clean fields adds none.
LEMMA CleansListed ==
    ASSUME NEW calls, Sequence(calls), NEW from, \A i \in 1..Len(calls) : calls[i].reads \subseteq from
    PROVE  Cleans(calls, from, {})
BY CleansEach, CleansWeaken

\* The modular step is such a part.
LEMMA ModularCleans == Cleans(physics_step, ModularFields, {})
<1> DEFINE p1 == << Call({}, {"rainfall"}) >> \o hydrology_step
           p2 == p1 \o stability_step
           p3 == p2 \o update_properties
           p4 == p3 \o erosion_rates
           bed == << compute_deposition_rate, apply_erosion, apply_deposition,
                     apply_deposition_dry, check_failure_and_mobilize >>
           p5 == p4 \o bed
           p6 == p5 \o prepare_for_flow
           p7 == p6 \o << outflow_cells_emptied >>
           p8 == p7 \o shallow_water_step
           p9 == p8 \o << outflow_cells_emptied >>
           p10 == p9 \o finalize_after_flow
           M == ModularFields
<1>1. Cleans(<< Call({}, {"rainfall"}) >>, M, {}) /\ Cleans(<< outflow_cells_emptied >>, M, {})
      /\ Cleans(<< outflow_cells_still_empty >>, M, {})
  BY ListedSequences, CleansListed
     DEF Call, outflow_cells_emptied, outflow_cells_still_empty, ModularFields
<1>2. Cleans(hydrology_step, M, {})
  <2>1. Sequence(hydrology_step)
    BY ListedSequences DEF hydrology_step
  <2> QED BY <2>1, CleansListed
          DEF hydrology_step, compute_infiltration, update_pore_pressure, Call, ModularFields
<1>3. Cleans(stability_step, M, {})
  BY ListedSequences, CleansListed DEF stability_step, compute_factor_of_safety, Call, ModularFields
<1>4. Cleans(update_properties, M, {})
  <2>1. Sequence(update_properties)
    BY ListedSequences DEF update_properties
  <2> QED BY <2>1, CleansListed
          DEF update_properties, update_mixture_density, update_rheology_parameters, Call, ModularFields
<1>5. Cleans(erosion_rates, M, {})
  <2>1. Sequence(erosion_rates)
    BY ListedSequences DEF erosion_rates
  <2> QED BY <2>1, CleansListed
          DEF erosion_rates, compute_cvlimit, compute_bed_shear_stress, compute_erosion_rate, Call,
              ModularFields
<1>6. Cleans(bed, M, {})
  <2>1. Sequence(bed)
    BY ListedSequences
  <2> QED BY <2>1, CleansListed
          DEF compute_deposition_rate, apply_erosion, apply_deposition, apply_deposition_dry,
              check_failure_and_mobilize, Call, ModularFields
<1>7. Cleans(prepare_for_flow, M, {})
  <2>1. Cleans(<< adjust_manning_coefficient >>, M, {})
    BY ListedSequences, CleansListed DEF adjust_manning_coefficient, Call, ModularFields
  <2> QED BY <1>4, <2>1, CleansThen DEF prepare_for_flow
<1>8. Cleans(finalize_after_flow, M, {})
  <2>1. Cleans(<< limit_froude_number >>, M, {})
    BY ListedSequences, CleansListed DEF limit_froude_number, Call, ModularFields
  <2> QED BY <1>4, <2>1, CleansThen DEF finalize_after_flow
<1>9. Cleans(shallow_water_step, M, {})
  <2>1. Sequence(shallow_water_step)
    BY ListedSequences DEF shallow_water_step
  <2> QED BY <2>1, CleansListed
          DEF shallow_water_step, compute_fluxes_8dir, compute_sediment_fluxes, update_conservative,
              apply_updates, solve_velocity_newton_raphson, apply_nr_velocities, Call, ModularFields
<1> HIDE DEF bed, M
<1>10. Cleans(p1, M, {})
  BY <1>1, <1>2, CleansThen
<1> HIDE DEF p1
<1>11. Cleans(p2, M, {})
  BY <1>3, <1>10, CleansThen
<1> HIDE DEF p2
<1>12. Cleans(p3, M, {})
  BY <1>4, <1>11, CleansThen
<1> HIDE DEF p3
<1>13. Cleans(p4, M, {})
  BY <1>5, <1>12, CleansThen
<1> HIDE DEF p4
<1>14. Cleans(p5, M, {})
  BY <1>6, <1>13, CleansThen
<1> HIDE DEF p5
<1>15. Cleans(p6, M, {})
  BY <1>7, <1>14, CleansThen
<1> HIDE DEF p6
<1>16. Cleans(p7, M, {})
  BY <1>1, <1>15, CleansThen
<1> HIDE DEF p7
<1>17. Cleans(p8, M, {})
  BY <1>9, <1>16, CleansThen
<1> HIDE DEF p8
<1>18. Cleans(p9, M, {})
  BY <1>1, <1>17, CleansThen
<1> HIDE DEF p9
<1>19. Cleans(p10, M, {})
  BY <1>8, <1>18, CleansThen
<1>20. physics_step = p10 \o << outflow_cells_still_empty >>
  BY DEF physics_step, bed, p1, p2, p3, p4, p5, p6, p7, p8, p9, p10
<1> HIDE DEF p10
<1> QED BY <1>1, <1>19, <1>20, CleansThen DEF M
=============================================================================
