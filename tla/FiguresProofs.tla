---------------------------- MODULE FiguresProofs ----------------------------
(***************************************************************************)
(* Theorems about what the pages compute: about Figures for any number of  *)
(* days, any tiers, windows and limit of a streak, and about Progress for  *)
(* days of any length, any offset of the local clock and any number of     *)
(* phase changes.                                                          *)
(*                                                                         *)
(* The loops of Figures are recursive functions; what one has come to      *)
(* after some steps is shown of the least number of steps at which it      *)
(* would not hold.  What Progress computes from the events is related to   *)
(* what happened by an invariant about the events; the rest of it is       *)
(* arithmetic of days.                                                     *)
(***************************************************************************)
EXTENDS Figures, Progress, FiniteSetTheorems, WellFoundedInduction, TLAPS

-----------------------------------------------------------------------------
(* Numbers *)

\* Induction in the form the provers can use: a set of numbers has a least one.
LEMMA LeastNumber ==
  ASSUME NEW S \in SUBSET Nat, S # {}
  PROVE  \E n \in S : \A m \in S : n <= m
<1>1. IsWellFoundedOn(OpToRel(<, Nat), Nat)
  BY NatLessThanWellFounded
<1>2. \E n \in S : \A m \in S : ~(<<m, n>> \in OpToRel(<, Nat))
  BY <1>1, WFMin
<1>3. \A n, m \in S : ~(<<m, n>> \in OpToRel(<, Nat)) => n <= m
  BY DEF OpToRel
<1> QED
  BY <1>2, <1>3

LEMMA MaxIs ==
  ASSUME NEW S \in SUBSET Int, NEW m \in S, \A y \in S : y <= m
  PROVE  Max(S) = m
<1>1. \A x \in S : (\A y \in S : x >= y) => x = m
  OBVIOUS
<1>2. \A y \in S : m >= y
  OBVIOUS
<1> QED
  BY <1>1, <1>2 DEF Max

LEMMA MinIs ==
  ASSUME NEW S \in SUBSET Int, NEW m \in S, \A y \in S : m <= y
  PROVE  Min(S) = m
<1>1. \A x \in S : (\A y \in S : x <= y) => x = m
  OBVIOUS
<1> QED
  BY <1>1 DEF Min

LEMMA MaxOfTwo ==
  ASSUME NEW a \in Int, NEW b \in Int
  PROVE  Max({a, b}) = IF a >= b THEN a ELSE b
<1> DEFINE m == IF a >= b THEN a ELSE b
<1>1. {a, b} \in SUBSET Int /\ m \in {a, b} /\ \A y \in {a, b} : y <= m
  OBVIOUS
<1> HIDE DEF m
<1>2. Max({a, b}) = m
  BY <1>1, MaxIs
<1> QED
  BY <1>2 DEF m

-----------------------------------------------------------------------------
(* Loops *)

\* What a loop comes to after i steps of n: step is given as a function.
IsLoop(f, n, base, step) ==
  \A i \in 0 .. n : f[i] = IF i = 0 THEN base ELSE step[i][f[i - 1]]

LEMMA LoopExists ==
  ASSUME NEW S, NEW base \in S, NEW n \in Nat, NEW step \in [1 .. n -> [S -> S]]
  PROVE  \E f \in [0 .. n -> S] : IsLoop(f, n, base, step)
<1> DEFINE Bad == {m \in Nat : m <= n /\ ~\E f \in [0 .. m -> S] : IsLoop(f, m, base, step)}
<1>1. SUFFICES ASSUME Bad # {} PROVE FALSE
  OBVIOUS
<1>2. PICK m \in Bad : \A k \in Bad : m <= k
  <2>1. Bad \in SUBSET Nat
    OBVIOUS
  <2> QED
    BY <1>1, <2>1, LeastNumber
<1>3. CASE m = 0
  <2> DEFINE f == [i \in 0 .. m |-> base]
  <2>1. f \in [0 .. m -> S] /\ IsLoop(f, m, base, step)
    BY <1>3 DEF IsLoop
  <2> QED
    BY <1>2, <2>1
<1>4. CASE m # 0
  <2>1. m - 1 \in Nat /\ m - 1 <= n /\ m - 1 \notin Bad /\ m \in 1 .. n
    BY <1>2, <1>4
  <2>2. PICK f \in [0 .. m - 1 -> S] : IsLoop(f, m - 1, base, step)
    BY <2>1
  <2> DEFINE g == [i \in 0 .. m |-> IF i = m THEN step[m][f[m - 1]] ELSE f[i]]
  <2>3. g \in [0 .. m -> S]
    <3>1. step[m] \in [S -> S] /\ f[m - 1] \in S
      BY <2>1, <2>2
    <3>2. step[m][f[m - 1]] \in S
      BY <3>1
    <3>3. \A i \in 0 .. m : i # m => f[i] \in S
      BY <2>1, <2>2
    <3> QED
      BY <3>2, <3>3
  <2>4. ASSUME NEW i \in 0 .. m PROVE g[i] = IF i = 0 THEN base ELSE step[i][g[i - 1]]
    <3>1. CASE i = m
      <4>1. m - 1 \in 0 .. m /\ m - 1 # m /\ i # 0
        BY <2>1, <3>1
      <4>2. g[m - 1] = f[m - 1] /\ g[m] = step[m][f[m - 1]]
        BY <4>1
      <4> QED
        BY <3>1, <4>1, <4>2
    <3>2. CASE i # m
      <4>1. i \in 0 .. m - 1 /\ g[i] = f[i] /\ (i # 0 => g[i - 1] = f[i - 1])
        BY <2>1, <3>2
      <4>2. f[i] = IF i = 0 THEN base ELSE step[i][f[i - 1]]
        BY <2>2, <4>1 DEF IsLoop
      <4> QED
        BY <4>1, <4>2
    <3> QED
      BY <3>1, <3>2
  <2>5. IsLoop(g, m, base, step)
    BY <2>4 DEF IsLoop
  <2> QED
    BY <1>2, <2>3, <2>5
<1> QED
  BY <1>3, <1>4

-----------------------------------------------------------------------------
(* Cadence and streaks *)

\* The days of cadence in an interval.
Cadence(a, b) == {d \in a .. b : ~IsFriday(d)}
AllHit(a, b) == \A d \in Cadence(a, b) : HasCredibility(d)

LEMMA CadenceIsFinite ==
  ASSUME NEW a \in Int, NEW b \in Int
  PROVE  /\ IsFiniteSet(Cadence(a, b)) /\ Cardinality(Cadence(a, b)) \in Nat
         /\ Unbroken(a, b) = IF AllHit(a, b) THEN Cardinality(Cadence(a, b)) ELSE 0
         /\ Unbroken(a, b) \in Nat
<1>1. IsFiniteSet(a .. b)
  BY FS_Interval
<1>2. IsFiniteSet(Cadence(a, b))
  BY <1>1, FS_Subset DEF Cadence
<1>3. Cardinality(Cadence(a, b)) \in Nat
  BY <1>2, FS_CardinalityType
<1>4. Unbroken(a, b) = IF AllHit(a, b) THEN Cardinality(Cadence(a, b)) ELSE 0
  BY DEF Unbroken, AllHit, Cadence
<1> QED
  BY <1>2, <1>3, <1>4

\* An interval with one more day, at either end.
LEMMA OneDayMore ==
  ASSUME NEW a \in Int, NEW b \in Int, NEW c \in Int, NEW e \in Int, NEW x \in Int,
         a .. b = (c .. e) \cup {x}, x \notin c .. e
  PROVE  /\ IsFriday(x) => (AllHit(a, b) <=> AllHit(c, e)) /\ Unbroken(a, b) = Unbroken(c, e)
         /\ ~IsFriday(x) /\ ~HasCredibility(x) => ~AllHit(a, b) /\ Unbroken(a, b) = 0
         /\ ~IsFriday(x) /\ HasCredibility(x) =>
              /\ AllHit(a, b) <=> AllHit(c, e)
              /\ Unbroken(a, b) = IF AllHit(c, e) THEN Unbroken(c, e) + 1 ELSE 0
<1>1. Cadence(a, b) = IF IsFriday(x) THEN Cadence(c, e) ELSE Cadence(c, e) \cup {x}
  BY DEF Cadence
<1>2. /\ IsFiniteSet(Cadence(c, e)) /\ Cardinality(Cadence(c, e)) \in Nat
      /\ Unbroken(c, e) = IF AllHit(c, e) THEN Cardinality(Cadence(c, e)) ELSE 0
      /\ Unbroken(a, b) = IF AllHit(a, b) THEN Cardinality(Cadence(a, b)) ELSE 0
  BY CadenceIsFinite
<1>3. x \notin Cadence(c, e)
  BY DEF Cadence
<1>4. Cardinality(Cadence(c, e) \cup {x}) = Cardinality(Cadence(c, e)) + 1
  BY <1>2, <1>3, FS_AddElement
<1>5. CASE IsFriday(x)
  <2>1. AllHit(a, b) <=> AllHit(c, e)
    BY <1>1, <1>5 DEF AllHit
  <2> QED
    BY <1>1, <1>2, <1>5, <2>1
<1>6. CASE ~IsFriday(x) /\ ~HasCredibility(x)
  <2>1. ~AllHit(a, b)
    BY <1>1, <1>6 DEF AllHit
  <2> QED
    BY <1>2, <1>6, <2>1
<1>7. CASE ~IsFriday(x) /\ HasCredibility(x)
  <2>1. AllHit(a, b) <=> AllHit(c, e)
    BY <1>1, <1>7 DEF AllHit
  <2>2. Cardinality(Cadence(a, b)) = Cardinality(Cadence(c, e)) + 1
    BY <1>1, <1>4, <1>7
  <2> QED
    BY <1>2, <1>7, <2>1, <2>2
<1> QED
  BY <1>5, <1>6, <1>7

LEMMA UnbrokenIs ==
  ASSUME NEW a \in Int, NEW b \in Int
  PROVE  /\ Unbroken(a, b) \in Nat
         /\ ~AllHit(a, b) => Unbroken(a, b) = 0
         /\ a > b => Unbroken(a, b) = 0 /\ AllHit(a, b)
<1>1. ASSUME a > b PROVE Unbroken(a, b) = 0 /\ AllHit(a, b)
  <2>1. Cadence(a, b) = {}
    BY <1>1 DEF Cadence
  <2>2. Cardinality(Cadence(a, b)) = 0
    BY <2>1, FS_EmptySet
  <2> QED
    BY <2>1, <2>2, CadenceIsFinite DEF AllHit
<1> QED
  BY <1>1, CadenceIsFinite

ForwardStates == [run : Nat, longest : Nat]
BackwardStates == [current : Nat, broken : BOOLEAN]

LEMMA ForwardType ==
  ASSUME NEW acc \in ForwardStates, NEW d
  PROVE  /\ Forward(acc, d) \in ForwardStates
         /\ ~IsFriday(d) /\ HasCredibility(d) =>
              /\ Forward(acc, d).run = acc.run + 1
              /\ Forward(acc, d).longest = IF acc.longest >= acc.run + 1 THEN acc.longest ELSE acc.run + 1
         /\ ~IsFriday(d) /\ ~HasCredibility(d) =>
              Forward(acc, d).run = 0 /\ Forward(acc, d).longest = acc.longest
         /\ IsFriday(d) => Forward(acc, d) = acc
<1>1. acc.run \in Nat /\ acc.longest \in Nat
  BY DEF ForwardStates
<1> DEFINE m == IF acc.longest >= acc.run + 1 THEN acc.longest ELSE acc.run + 1
<1>2. Max({acc.longest, acc.run + 1}) = m /\ m \in Nat
  <2>1. /\ {acc.longest, acc.run + 1} \in SUBSET Int /\ m \in {acc.longest, acc.run + 1}
        /\ \A y \in {acc.longest, acc.run + 1} : y <= m
    BY <1>1
  <2> QED
    BY <1>1, <2>1, MaxIs
<1> HIDE DEF m
<1>3. CASE IsFriday(d)
  BY <1>3 DEF Forward
<1>4. CASE ~IsFriday(d) /\ HasCredibility(d)
  <2>1. Forward(acc, d) = [run |-> acc.run + 1, longest |-> m]
    BY <1>2, <1>4 DEF Forward
  <2> QED
    BY <1>1, <1>2, <1>4, <2>1 DEF ForwardStates, m
<1>5. CASE ~IsFriday(d) /\ ~HasCredibility(d)
  <2>1. Forward(acc, d) = [acc EXCEPT !.run = 0]
    BY <1>5 DEF Forward
  <2> QED
    BY <1>1, <1>5, <2>1 DEF ForwardStates
<1> QED
  BY <1>3, <1>4, <1>5

LEMMA BackwardType ==
  ASSUME NEW acc \in BackwardStates, NEW d
  PROVE  /\ Backward(acc, d) \in BackwardStates
         /\ ~IsFriday(d) /\ HasCredibility(d) =>
              /\ Backward(acc, d).broken = acc.broken
              /\ Backward(acc, d).current = IF acc.broken THEN acc.current ELSE acc.current + 1
         /\ ~IsFriday(d) /\ ~HasCredibility(d) =>
              Backward(acc, d).broken = TRUE /\ Backward(acc, d).current = acc.current
         /\ IsFriday(d) => Backward(acc, d) = acc
<1>1. acc.current \in Nat /\ acc.broken \in BOOLEAN
  BY DEF BackwardStates
<1>2. CASE IsFriday(d)
  BY <1>2 DEF Backward
<1>3. CASE ~IsFriday(d) /\ HasCredibility(d)
  <2>1. Backward(acc, d) = IF acc.broken THEN acc ELSE [acc EXCEPT !.current = @ + 1]
    BY <1>3 DEF Backward
  <2> QED
    BY <1>1, <1>3, <2>1 DEF BackwardStates
<1>4. CASE ~IsFriday(d) /\ ~HasCredibility(d)
  <2>1. Backward(acc, d) = [acc EXCEPT !.broken = TRUE]
    BY <1>4 DEF Backward
  <2> QED
    BY <1>1, <1>4, <2>1 DEF BackwardStates
<1> QED
  BY <1>2, <1>3, <1>4

\* The walk forward, come from day a to day b.
ForwardTells(acc, a, b) ==
  /\ acc \in ForwardStates
  /\ \A c \in a .. b : Unbroken(c, b) <= acc.run
  /\ acc.run = 0 \/ \E c \in a .. b : Unbroken(c, b) = acc.run
  /\ \A c, e \in a .. b : Unbroken(c, e) <= acc.longest
  /\ acc.longest = 0 \/ \E c, e \in a .. b : Unbroken(c, e) = acc.longest

LEMMA ForwardStep ==
  ASSUME NEW a \in Int, NEW b \in Int, a <= b + 1, NEW acc, ForwardTells(acc, a, b)
  PROVE  ForwardTells(Forward(acc, b + 1), a, b + 1)
<1> DEFINE x == b + 1
           new == Forward(acc, x)
<1>1. acc \in ForwardStates /\ acc.run \in Nat /\ acc.longest \in Nat
  BY DEF ForwardTells, ForwardStates
<1>2. /\ new \in ForwardStates
      /\ ~IsFriday(x) /\ HasCredibility(x) =>
           /\ new.run = acc.run + 1
           /\ new.longest = IF acc.longest >= acc.run + 1 THEN acc.longest ELSE acc.run + 1
      /\ ~IsFriday(x) /\ ~HasCredibility(x) => new.run = 0 /\ new.longest = acc.longest
      /\ IsFriday(x) => new = acc
  BY <1>1, ForwardType
<1>3. new.run \in Nat /\ new.longest \in Nat
  BY <1>2 DEF ForwardStates
<1>4. x \in Int /\ x \in a .. x /\ a .. x = (a .. b) \cup {x}
  OBVIOUS
<1>5. \A c \in a .. x : Unbroken(c, b) \in Nat /\ (~AllHit(c, b) => Unbroken(c, b) = 0)
  <2>1. \A c \in a .. x : c \in Int
    OBVIOUS
  <2> QED
    BY <2>1, UnbrokenIs
<1>6. ASSUME NEW c \in a .. x
      PROVE  /\ IsFriday(x) => Unbroken(c, x) = Unbroken(c, b)
             /\ ~IsFriday(x) /\ ~HasCredibility(x) => Unbroken(c, x) = 0
             /\ ~IsFriday(x) /\ HasCredibility(x) =>
                  Unbroken(c, x) = IF AllHit(c, b) THEN Unbroken(c, b) + 1 ELSE 0
  <2>1. c .. x = (c .. b) \cup {x} /\ x \notin c .. b /\ c \in Int
    BY <1>6
  <2> QED
    BY <1>4, <2>1, OneDayMore
<1> HIDE DEF new
<1>7. \A c \in a .. x : c = x \/ c \in a .. b
  OBVIOUS
<1>8. Unbroken(x, b) = 0 /\ AllHit(x, b)
  <2>1. x > b
    OBVIOUS
  <2> HIDE DEF x
  <2> QED
    BY <1>4, <2>1, UnbrokenIs
<1>9. \A c \in a .. b : Unbroken(c, b) <= acc.run
  BY DEF ForwardTells
<1>10. \A c \in a .. x : Unbroken(c, b) <= acc.run
  BY <1>1, <1>7, <1>8, <1>9
<1>11. ASSUME NEW c \in a .. x PROVE Unbroken(c, x) <= new.run
  <2>1. Unbroken(c, b) \in Nat /\ Unbroken(c, b) <= acc.run
    BY <1>5, <1>10
  <2>2. CASE IsFriday(x)
    BY <1>2, <1>6, <2>1, <2>2
  <2>3. CASE ~IsFriday(x) /\ ~HasCredibility(x)
    BY <1>2, <1>6, <2>3
  <2>4. CASE ~IsFriday(x) /\ HasCredibility(x)
    BY <1>1, <1>2, <1>6, <2>1, <2>4
  <2> QED
    BY <2>2, <2>3, <2>4
<1>12. new.run = 0 \/ \E c \in a .. x : Unbroken(c, x) = new.run
  <2>1. CASE IsFriday(x) \/ ~HasCredibility(x)
    BY <1>2, <1>4, <1>6, <2>1 DEF ForwardTells
  <2>2. CASE ~IsFriday(x) /\ HasCredibility(x) /\ acc.run = 0
    BY <1>2, <1>4, <1>6, <1>8, <2>2
  <2>3. CASE ~IsFriday(x) /\ HasCredibility(x) /\ acc.run # 0
    <3>1. PICK c \in a .. b : Unbroken(c, b) = acc.run
      BY <2>3 DEF ForwardTells
    <3>2. AllHit(c, b) /\ c \in a .. x
      BY <1>1, <1>5, <2>3, <3>1
    <3> QED
      BY <1>2, <1>4, <1>6, <2>3, <3>1, <3>2
  <2> QED
    BY <2>1, <2>2, <2>3
<1>13. \A c, e \in a .. x : Unbroken(c, e) <= new.longest
  <2> SUFFICES ASSUME NEW c \in a .. x, NEW e \in a .. x PROVE Unbroken(c, e) <= new.longest
    OBVIOUS
  <2>1. new.run <= new.longest \/ (new.run = acc.run /\ new.longest = acc.longest) \/ new.run = 0
    BY <1>1, <1>2, <1>3
  <2>2. acc.longest <= new.longest
    BY <1>1, <1>2, <1>3
  <2>3. acc.run <= acc.longest
    <3>1. CASE acc.run = 0
      BY <1>1, <3>1
    <3>2. CASE acc.run # 0
      BY <1>1, <3>2 DEF ForwardTells
    <3> QED
      BY <3>1, <3>2
  <2>4. Unbroken(c, e) \in Nat /\ (c > e => Unbroken(c, e) = 0)
    <3>1. c \in Int /\ e \in Int
      OBVIOUS
    <3> QED
      BY <3>1, UnbrokenIs
  <2>5. CASE e = x
    <3>1. Unbroken(c, e) <= new.run
      BY <1>11, <2>5
    <3>2. new.run <= new.longest
      BY <1>1, <1>3, <2>1, <2>2, <2>3
    <3> QED
      BY <1>3, <2>4, <3>1, <3>2
  <2>6. CASE e # x /\ c = x
    <3>1. c > e
      BY <2>6
    <3> QED
      BY <1>3, <2>4, <3>1
  <2>7. CASE e # x /\ c # x
    <3>1. Unbroken(c, e) <= acc.longest
      BY <1>7, <2>7 DEF ForwardTells
    <3> QED
      BY <1>1, <1>3, <2>2, <2>4, <3>1
  <2> QED
    BY <2>5, <2>6, <2>7
<1>14. new.longest = 0 \/ \E c, e \in a .. x : Unbroken(c, e) = new.longest
  <2>1. new.longest = acc.longest \/ new.longest = new.run
    BY <1>2
  <2> QED
    BY <1>4, <1>12, <2>1 DEF ForwardTells
<1> QED
  BY <1>2, <1>11, <1>12, <1>13, <1>14 DEF ForwardTells, new

\* The walk backward, come from day b down to day a.
BackwardTells(acc, a, b) ==
  /\ acc \in BackwardStates
  /\ acc.broken <=> ~AllHit(a, b)
  /\ ~acc.broken => acc.current = Unbroken(a, b)
  /\ \A c \in a .. b : Unbroken(c, b) <= acc.current
  /\ acc.current = 0 \/ \E c \in a .. b : Unbroken(c, b) = acc.current

LEMMA BackwardStep ==
  ASSUME NEW a \in Int, NEW b \in Int, a <= b + 1, NEW acc, BackwardTells(acc, a, b)
  PROVE  BackwardTells(Backward(acc, a - 1), a - 1, b)
<1> DEFINE x == a - 1
           new == Backward(acc, x)
<1>1. acc \in BackwardStates /\ acc.current \in Nat /\ acc.broken \in BOOLEAN
  BY DEF BackwardTells, BackwardStates
<1>2. /\ new \in BackwardStates
      /\ ~IsFriday(x) /\ HasCredibility(x) =>
           /\ new.broken = acc.broken
           /\ new.current = IF acc.broken THEN acc.current ELSE acc.current + 1
      /\ ~IsFriday(x) /\ ~HasCredibility(x) => new.broken = TRUE /\ new.current = acc.current
      /\ IsFriday(x) => new = acc
  BY <1>1, BackwardType
<1>3. new.current \in Nat /\ new.broken \in BOOLEAN
  BY <1>2 DEF BackwardStates
<1>4. x \in Int /\ x \in x .. b /\ x .. b = (a .. b) \cup {x} /\ x \notin a .. b
  OBVIOUS
<1>5. /\ IsFriday(x) => (AllHit(x, b) <=> AllHit(a, b)) /\ Unbroken(x, b) = Unbroken(a, b)
      /\ ~IsFriday(x) /\ ~HasCredibility(x) => ~AllHit(x, b) /\ Unbroken(x, b) = 0
      /\ ~IsFriday(x) /\ HasCredibility(x) =>
           /\ AllHit(x, b) <=> AllHit(a, b)
           /\ Unbroken(x, b) = IF AllHit(a, b) THEN Unbroken(a, b) + 1 ELSE 0
  <2> HIDE DEF x
  <2> QED
    BY <1>4, OneDayMore
<1>6. \A c \in x .. b : Unbroken(c, b) \in Nat
  <2>1. \A c \in x .. b : c \in Int
    OBVIOUS
  <2> QED
    BY <2>1, UnbrokenIs
<1> HIDE DEF new, x
<1>7. /\ acc.broken <=> ~AllHit(a, b)
      /\ ~acc.broken => acc.current = Unbroken(a, b)
      /\ \A c \in a .. b : Unbroken(c, b) <= acc.current
      /\ acc.current = 0 \/ \E c \in a .. b : Unbroken(c, b) = acc.current
  BY DEF BackwardTells
<1>8. new.broken <=> ~AllHit(x, b)
  BY <1>2, <1>5, <1>7
<1>9. ~new.broken => new.current = Unbroken(x, b)
  BY <1>2, <1>5, <1>7
<1>10. new.broken => new.current = acc.current /\ Unbroken(x, b) = 0
  <2>1. new.broken => Unbroken(x, b) = 0
    BY <1>4, <1>8, UnbrokenIs
  <2> QED
    BY <1>2, <2>1
<1>11. acc.current <= new.current
  BY <1>1, <1>2, <1>3
<1>12. ASSUME NEW c \in x .. b PROVE Unbroken(c, b) <= new.current
  <2>1. c = x \/ c \in a .. b
    BY <1>4
  <2>2. Unbroken(c, b) \in Nat
    BY <1>6
  <2>3. CASE c = x
    BY <1>3, <1>9, <1>10, <2>2, <2>3
  <2>4. CASE c \in a .. b
    BY <1>1, <1>3, <1>7, <1>11, <2>2, <2>4
  <2> QED
    BY <2>1, <2>3, <2>4
<1>13. new.current = 0 \/ \E c \in x .. b : Unbroken(c, b) = new.current
  BY <1>3, <1>4, <1>7, <1>9, <1>10
<1> QED
  BY <1>2, <1>8, <1>9, <1>12, <1>13 DEF BackwardTells, new, x

\* What the definition of Streaks asks of its two functions.
IsForward(f, w) ==
  f = [i \in 0 .. w |-> IF i = 0 THEN [run |-> 0, longest |-> 0] ELSE Forward(f[i - 1], Window(w)[i])]

IsBackward(f, w) ==
  f = [i \in 0 .. w |-> IF i = 0 THEN [current |-> 0, broken |-> FALSE]
                        ELSE Backward(f[i - 1], Window(w)[w + 1 - i])]

LEMMA StreaksAre ==
  ASSUME NEW w \in Nat
  PROVE  \E f, g : /\ IsForward(f, w) /\ IsBackward(g, w)
                   /\ Streaks(w) = [current |-> g[w].current, longest |-> f[w].longest]
<1> DEFINE f == CHOOSE f : f = [i \in 0 .. w |-> IF i = 0 THEN [run |-> 0, longest |-> 0]
                                                   ELSE Forward(f[i - 1], Window(w)[i])]
           g == CHOOSE g : g = [i \in 0 .. w |-> IF i = 0 THEN [current |-> 0, broken |-> FALSE]
                                                   ELSE Backward(g[i - 1], Window(w)[w + 1 - i])]
<1>1. \E h : h = [i \in 0 .. w |-> IF i = 0 THEN [run |-> 0, longest |-> 0]
                                   ELSE Forward(h[i - 1], Window(w)[i])]
  <2> DEFINE base == [run |-> 0, longest |-> 0]
             step == [i \in 1 .. w |-> [acc \in ForwardStates |-> Forward(acc, Window(w)[i])]]
  <2>1. base \in ForwardStates
    BY DEF ForwardStates
  <2>2. step \in [1 .. w -> [ForwardStates -> ForwardStates]]
    BY ForwardType
  <2> HIDE DEF base
  <2>3. PICK h \in [0 .. w -> ForwardStates] : IsLoop(h, w, base, step)
    <3> HIDE DEF step
    <3> QED
      BY <2>1, <2>2, LoopExists
  <2>4. ASSUME NEW i \in 0 .. w PROVE h[i] = IF i = 0 THEN base ELSE Forward(h[i - 1], Window(w)[i])
    <3>1. CASE i = 0
      BY <2>3, <3>1 DEF IsLoop
    <3>2. CASE i # 0
      <4>1. i \in 1 .. w /\ i - 1 \in 0 .. w
        BY <3>2
      <4>2. h[i] = step[i][h[i - 1]] /\ h[i - 1] \in ForwardStates
        BY <2>3, <3>2, <4>1 DEF IsLoop
      <4> QED
        BY <3>2, <4>1, <4>2
    <3> QED
      BY <3>1, <3>2
  <2>5. h = [i \in 0 .. w |-> IF i = 0 THEN base ELSE Forward(h[i - 1], Window(w)[i])]
    BY <2>3, <2>4
  <2> QED
    BY <2>5, Zenon DEF base
<1>2. \E h : h = [i \in 0 .. w |-> IF i = 0 THEN [current |-> 0, broken |-> FALSE]
                                   ELSE Backward(h[i - 1], Window(w)[w + 1 - i])]
  <2> DEFINE base == [current |-> 0, broken |-> FALSE]
             step == [i \in 1 .. w |-> [acc \in BackwardStates |-> Backward(acc, Window(w)[w + 1 - i])]]
  <2>1. base \in BackwardStates
    BY DEF BackwardStates
  <2>2. step \in [1 .. w -> [BackwardStates -> BackwardStates]]
    BY BackwardType
  <2> HIDE DEF base
  <2>3. PICK h \in [0 .. w -> BackwardStates] : IsLoop(h, w, base, step)
    <3> HIDE DEF step
    <3> QED
      BY <2>1, <2>2, LoopExists
  <2>4. ASSUME NEW i \in 0 .. w
        PROVE  h[i] = IF i = 0 THEN base ELSE Backward(h[i - 1], Window(w)[w + 1 - i])
    <3>1. CASE i = 0
      BY <2>3, <3>1 DEF IsLoop
    <3>2. CASE i # 0
      <4>1. i \in 1 .. w /\ i - 1 \in 0 .. w
        BY <3>2
      <4>2. h[i] = step[i][h[i - 1]] /\ h[i - 1] \in BackwardStates
        BY <2>3, <3>2, <4>1 DEF IsLoop
      <4> QED
        BY <3>2, <4>1, <4>2
    <3> QED
      BY <3>1, <3>2
  <2>5. h = [i \in 0 .. w |-> IF i = 0 THEN base ELSE Backward(h[i - 1], Window(w)[w + 1 - i])]
    BY <2>3, <2>4
  <2> QED
    BY <2>5, Zenon DEF base
<1>3. f = [i \in 0 .. w |-> IF i = 0 THEN [run |-> 0, longest |-> 0] ELSE Forward(f[i - 1], Window(w)[i])]
  BY <1>1, Zenon
<1>4. g = [i \in 0 .. w |-> IF i = 0 THEN [current |-> 0, broken |-> FALSE]
                            ELSE Backward(g[i - 1], Window(w)[w + 1 - i])]
  BY <1>2, Zenon
<1>5. Streaks(w) = [current |-> g[w].current, longest |-> f[w].longest]
  BY Zenon DEF Streaks
<1>6. IsForward(f, w) /\ IsBackward(g, w)
  BY <1>3, <1>4, Zenon DEF IsForward, IsBackward
<1> QED
  BY <1>5, <1>6, Zenon

\* What both walks have come to at their ends.
LEMMA ForwardEnds ==
  ASSUME FiguresTypeOK, NEW w \in Nat, NEW f, IsForward(f, w)
  PROVE  ForwardTells(f[w], today - w + 1, today)
<1>1. today \in Int
  BY DEF FiguresTypeOK, Days
<1> DEFINE a == today - w + 1
           Bad == {i \in 0 .. w : ~ForwardTells(f[i], a, today - w + i)}
<1>2. SUFFICES ASSUME Bad # {} PROVE FALSE
  <2>1. w \in 0 .. w /\ today - w + w = today
    BY <1>1
  <2> QED
    BY <1>2, <2>1
<1>3. PICK n \in Bad : \A m \in Bad : n <= m
  <2>1. Bad \in SUBSET Nat
    OBVIOUS
  <2> QED
    BY <1>2, <2>1, LeastNumber
<1>4. CASE n = 0
  <2>1. f[0] = [run |-> 0, longest |-> 0]
    BY DEF IsForward
  <2>2. a .. (today - w + 0) = {}
    BY <1>1
  <2> HIDE DEF a
  <2>3. ForwardTells(f[0], a, today - w + 0)
    BY <2>1, <2>2 DEF ForwardTells, ForwardStates
  <2> QED
    BY <1>3, <1>4, <2>3 DEF a
<1>5. CASE n # 0
  <2> DEFINE b == today - w + (n - 1)
  <2>1. n - 1 \in 0 .. w /\ n - 1 \notin Bad /\ n \in 1 .. w
    BY <1>3, <1>5
  <2>2. f[n] = Forward(f[n - 1], today - w + n)
    BY <1>5, <2>1 DEF IsForward, Window
  <2>3. ForwardTells(f[n - 1], a, b)
    BY <2>1
  <2>4. a \in Int /\ b \in Int /\ a <= b + 1 /\ today - w + n = b + 1
    BY <1>1, <2>1
  <2> HIDE DEF a, b
  <2>5. ForwardTells(f[n], a, today - w + n)
    BY <2>2, <2>3, <2>4, ForwardStep
  <2> QED
    BY <1>3, <2>5 DEF a
<1> QED
  BY <1>4, <1>5

LEMMA BackwardEnds ==
  ASSUME FiguresTypeOK, NEW w \in Nat, NEW g, IsBackward(g, w)
  PROVE  BackwardTells(g[w], today - w + 1, today)
<1>1. today \in Int
  BY DEF FiguresTypeOK, Days
<1> DEFINE Bad == {i \in 0 .. w : ~BackwardTells(g[i], today + 1 - i, today)}
<1>2. SUFFICES ASSUME Bad # {} PROVE FALSE
  <2>1. w \in 0 .. w /\ today + 1 - w = today - w + 1
    BY <1>1
  <2> QED
    BY <1>2, <2>1
<1>3. PICK n \in Bad : \A m \in Bad : n <= m
  <2>1. Bad \in SUBSET Nat
    OBVIOUS
  <2> QED
    BY <1>2, <2>1, LeastNumber
<1>4. CASE n = 0
  <2>1. g[0] = [current |-> 0, broken |-> FALSE]
    BY DEF IsBackward
  <2>2. (today + 1 - 0) .. today = {} /\ today + 1 - 0 > today /\ today + 1 - 0 \in Int
    BY <1>1
  <2>3. Unbroken(today + 1 - 0, today) = 0 /\ AllHit(today + 1 - 0, today)
    BY <1>1, <2>2, UnbrokenIs
  <2>4. BackwardTells(g[0], today + 1 - 0, today)
    BY <2>1, <2>2, <2>3 DEF BackwardTells, BackwardStates
  <2> QED
    BY <1>3, <1>4, <2>4
<1>5. CASE n # 0
  <2> DEFINE a == today + 1 - (n - 1)
  <2>1. n - 1 \in 0 .. w /\ n - 1 \notin Bad /\ n \in 1 .. w
    BY <1>3, <1>5
  <2>2. g[n] = Backward(g[n - 1], today + 1 - n)
    <3>1. w + 1 - n \in 1 .. w /\ today - w + (w + 1 - n) = today + 1 - n
      BY <1>1, <2>1
    <3>2. Window(w)[w + 1 - n] = today + 1 - n
      BY <3>1 DEF Window
    <3> QED
      BY <1>5, <2>1, <3>2 DEF IsBackward
  <2>3. BackwardTells(g[n - 1], a, today)
    BY <2>1
  <2>4. a \in Int /\ a <= today + 1 /\ today + 1 - n = a - 1
    BY <1>1, <2>1
  <2> HIDE DEF a
  <2>5. BackwardTells(g[n], today + 1 - n, today)
    BY <1>1, <2>2, <2>3, <2>4, BackwardStep
  <2> QED
    BY <1>3, <2>5
<1> QED
  BY <1>4, <1>5

LEMMA StreaksTell ==
  ASSUME FiguresTypeOK, NEW w \in Nat \ {0}
  PROVE  LET a == today - w + 1 IN
           /\ Streaks(w).current \in Nat /\ Streaks(w).longest \in Nat
           /\ Streaks(w) = [current |-> Streaks(w).current, longest |-> Streaks(w).longest]
           /\ AllHit(a, today) => Streaks(w).current = Unbroken(a, today)
           /\ \A c \in a .. today : Unbroken(c, today) <= Streaks(w).current
           /\ Streaks(w).current = 0 \/ \E c \in a .. today : Unbroken(c, today) = Streaks(w).current
           /\ \A c, e \in a .. today : Unbroken(c, e) <= Streaks(w).longest
           /\ Streaks(w).longest = 0 \/ \E c, e \in a .. today : Unbroken(c, e) = Streaks(w).longest
<1>1. PICK f, g : /\ IsForward(f, w) /\ IsBackward(g, w)
                  /\ Streaks(w) = [current |-> g[w].current, longest |-> f[w].longest]
  BY StreaksAre
<1>2. ForwardTells(f[w], today - w + 1, today) /\ BackwardTells(g[w], today - w + 1, today)
  BY <1>1, ForwardEnds, BackwardEnds
<1>3. Streaks(w).current = g[w].current /\ Streaks(w).longest = f[w].longest
  BY <1>1
<1> QED
  BY <1>1, <1>2, <1>3 DEF ForwardTells, BackwardTells, ForwardStates, BackwardStates

LEMMA StreaksAreMaxima ==
  ASSUME FiguresTypeOK
  PROVE  StreaksAreRuns
<1> SUFFICES ASSUME NEW w \in Windows
             PROVE  Streaks(w) = [current |-> Max(RunsToToday(w)), longest |-> Max(Runs(w))]
  BY DEF StreaksAreRuns
<1>1. w \in Nat \ {0} /\ today \in Int
  BY LimitsAssumption DEF FiguresTypeOK, Days
<1> DEFINE first == today - w + 1
<1>2. /\ Streaks(w).current \in Nat /\ Streaks(w).longest \in Nat
      /\ Streaks(w) = [current |-> Streaks(w).current, longest |-> Streaks(w).longest]
      /\ \A c \in first .. today : Unbroken(c, today) <= Streaks(w).current
      /\ Streaks(w).current = 0 \/ \E c \in first .. today : Unbroken(c, today) = Streaks(w).current
      /\ \A c, e \in first .. today : Unbroken(c, e) <= Streaks(w).longest
      /\ Streaks(w).longest = 0 \/ \E c, e \in first .. today : Unbroken(c, e) = Streaks(w).longest
  BY <1>1, StreaksTell
<1>3. today \in first .. today /\ first .. today \subseteq Int
  BY <1>1
<1> HIDE DEF first
<1>4. \A c, e \in first .. today : Unbroken(c, e) \in Nat
  BY <1>3, UnbrokenIs
<1>5. RunsToToday(w) \in SUBSET Int /\ Runs(w) \in SUBSET Int
  BY <1>3, <1>4 DEF RunsToToday, Runs, first
<1>6. Streaks(w).current \in RunsToToday(w)
  <2>1. CASE Streaks(w).current = 0
    <3>1. Unbroken(today, today) \in Nat /\ Unbroken(today, today) <= 0
      BY <1>2, <1>3, <1>4, <2>1
    <3>2. Unbroken(today, today) = 0
      BY <3>1
    <3> QED
      BY <1>3, <2>1, <3>2 DEF RunsToToday, Runs, first
  <2> QED
    BY <1>2, <2>1 DEF RunsToToday, Runs, first
<1>7. Streaks(w).longest \in Runs(w)
  <2>1. CASE Streaks(w).longest = 0
    <3>1. Unbroken(today, today) \in Nat /\ Unbroken(today, today) <= 0
      BY <1>2, <1>3, <1>4, <2>1
    <3>2. Unbroken(today, today) = 0
      BY <3>1
    <3> QED
      BY <1>3, <2>1, <3>2 DEF RunsToToday, Runs, first
  <2> QED
    BY <1>2, <2>1 DEF RunsToToday, Runs, first
<1>8. (\A y \in RunsToToday(w) : y <= Streaks(w).current) /\ (\A y \in Runs(w) : y <= Streaks(w).longest)
  BY <1>2 DEF RunsToToday, Runs, first
<1>9. Max(RunsToToday(w)) = Streaks(w).current /\ Max(Runs(w)) = Streaks(w).longest
  BY <1>5, <1>6, <1>7, <1>8, MaxIs
<1> QED
  BY <1>2, <1>9, Zenon

-----------------------------------------------------------------------------
(* The streak of a habit *)

Newer(d) == {e \in entries : e > d}

LEMMA EntriesAreFinite ==
  ASSUME FiguresTypeOK
  PROVE  /\ IsFiniteSet(entries) /\ Cardinality(entries) \in Nat
         /\ \A d : IsFiniteSet(Newer(d)) /\ Cardinality(Newer(d)) \in Nat
<1>1. LastDay \in Int /\ 1 \in Int
  BY LimitsAssumption
<1>2. IsFiniteSet(Days)
  BY <1>1, FS_Interval DEF Days
<1>3. IsFiniteSet(entries) /\ \A d : IsFiniteSet(Newer(d))
  BY <1>2, FS_Subset DEF FiguresTypeOK, Newer
<1> QED
  BY <1>3, FS_CardinalityType

\* As many entries are newer than one day only.
LEMMA RankIsOfOne ==
  ASSUME FiguresTypeOK, NEW c \in entries, NEW d \in entries, Cardinality(Newer(c)) = Cardinality(Newer(d))
  PROVE  c = d
<1>1. c \in Int /\ d \in Int
  BY DEF FiguresTypeOK, Days
<1>2. ASSUME NEW x \in entries, NEW y \in entries, x < y, x \in Int, y \in Int
      PROVE  Cardinality(Newer(y)) < Cardinality(Newer(x))
  <2>1. Newer(y) \cup {y} \subseteq Newer(x) /\ y \notin Newer(y)
    <3>1. \A e \in entries : e \in Int
      BY DEF FiguresTypeOK, Days
    <3>2. y \in Newer(x) /\ y \notin Newer(y)
      BY <1>2 DEF Newer
    <3>3. \A e \in entries : e > y => e > x
      BY <1>2, <3>1
    <3> QED
      BY <3>2, <3>3 DEF Newer
  <2>2. /\ IsFiniteSet(Newer(y)) /\ Cardinality(Newer(y)) \in Nat
        /\ IsFiniteSet(Newer(x)) /\ Cardinality(Newer(x)) \in Nat
    BY EntriesAreFinite
  <2>3. Cardinality(Newer(y) \cup {y}) = Cardinality(Newer(y)) + 1
    BY <2>1, <2>2, FS_AddElement
  <2>4. Cardinality(Newer(y) \cup {y}) <= Cardinality(Newer(x))
    BY <2>1, <2>2, FS_Subset
  <2> QED
    BY <2>2, <2>3, <2>4
<1>3. Cardinality(Newer(c)) \in Nat /\ Cardinality(Newer(d)) \in Nat
  BY EntriesAreFinite
<1>4. ~(c < d) /\ ~(d < c)
  BY <1>1, <1>2, <1>3
<1> QED
  BY <1>1, <1>4

\* There is a newest among days.
LEMMA NewestIs ==
  ASSUME NEW S \in SUBSET Days, S # {}
  PROVE  Max(S) \in S /\ \A d \in S : d <= Max(S)
<1> DEFINE Back == {LastDay - d : d \in S}
<1>1. LastDay \in Nat /\ S \in SUBSET Int /\ \A d \in S : d <= LastDay
  BY LimitsAssumption DEF Days
<1>2. Back \in SUBSET Nat /\ Back # {}
  BY <1>1
<1>3. PICK n \in Back : \A k \in Back : n <= k
  <2> HIDE DEF Back
  <2> QED
    BY <1>2, LeastNumber
<1>4. PICK m \in S : n = LastDay - m
  BY <1>3
<1>5. \A d \in S : d <= m
  <2> SUFFICES ASSUME NEW d \in S PROVE d <= m
    OBVIOUS
  <2>1. LastDay - m <= LastDay - d
    BY <1>3, <1>4
  <2> QED
    BY <1>1, <2>1
<1>6. Max(S) = m
  BY <1>1, <1>5, MaxIs
<1> QED
  BY <1>5, <1>6

\* What the definition of HabitStreak asks of its walk.
IsWalk(f) ==
  f = [k \in 0 .. Len(Dates) |->
         IF k = 0 THEN [streak |-> 0, checkDate |-> Dates[1], stopped |-> FALSE]
         ELSE Walk(f[k - 1], Dates[k])]

\* The walk over a run of r days up to day m, after k rows.
WalkAt(k, m, r) ==
  IF k <= r THEN [streak |-> k, checkDate |-> m - k, stopped |-> FALSE]
  ELSE [streak |-> r, checkDate |-> m - r, stopped |-> TRUE]

LEMMA WalkGoesOn ==
  ASSUME NEW s \in Nat, NEW c \in Int
  PROVE  Walk([streak |-> s, checkDate |-> c, stopped |-> FALSE], c)
           = [streak |-> s + 1, checkDate |-> c - 1, stopped |-> FALSE]
BY DEF Walk

LEMMA WalkStops ==
  ASSUME NEW s \in Nat, NEW c \in Int, NEW d, d # c
  PROVE  Walk([streak |-> s, checkDate |-> c, stopped |-> FALSE], d)
           = [streak |-> s, checkDate |-> c, stopped |-> TRUE]
BY DEF Walk

LEMMA WalkStandsStill ==
  ASSUME NEW s \in Nat, NEW c \in Int, NEW d
  PROVE  Walk([streak |-> s, checkDate |-> c, stopped |-> TRUE], d)
           = [streak |-> s, checkDate |-> c, stopped |-> TRUE]
BY DEF Walk

\* No entry is on the day before the run.
LEMMA WalkIs ==
  ASSUME NEW m \in Int, NEW r \in Nat \ {0}, NEW n \in Nat, n = Len(Dates),
         n > 0 => Dates[1] = m,
         \A k \in 1 .. n : k <= r => Dates[k] = m - k + 1,
         r + 1 \in 1 .. n => Dates[r + 1] # m - r
  PROVE  n > 0 => HabitStreak = IF n <= r THEN n ELSE r
<1> DEFINE h == [k \in 0 .. n |-> WalkAt(k, m, r)]
           w == CHOOSE f : f = [k \in 0 .. Len(Dates) |->
                  IF k = 0 THEN [streak |-> 0, checkDate |-> Dates[1], stopped |-> FALSE]
                  ELSE Walk(f[k - 1], Dates[k])]
<1> SUFFICES ASSUME n > 0 PROVE HabitStreak = IF n <= r THEN n ELSE r
  OBVIOUS
<1>1. WalkAt(0, m, r) = [streak |-> 0, checkDate |-> Dates[1], stopped |-> FALSE]
  <2>1. 0 \in 0 .. n /\ 0 <= r /\ m - 0 = m
    OBVIOUS
  <2> QED
    BY <2>1 DEF WalkAt
<1>2. ASSUME NEW k \in 1 .. n
      PROVE  WalkAt(k, m, r) = Walk(WalkAt(k - 1, m, r), Dates[k])
  <2>1. k - 1 \in 0 .. n /\ k \in 0 .. n /\ k \in Int
    OBVIOUS
  <2>2. CASE k <= r
    <3>1. WalkAt(k - 1, m, r) = [streak |-> k - 1, checkDate |-> m - (k - 1), stopped |-> FALSE]
      BY <2>1, <2>2 DEF WalkAt
    <3>2. WalkAt(k, m, r) = [streak |-> k, checkDate |-> m - k, stopped |-> FALSE]
      BY <2>1, <2>2 DEF WalkAt
    <3>3. Dates[k] = m - (k - 1) /\ Dates[k] - 1 = m - k /\ k - 1 + 1 = k
      BY <2>1, <2>2
    <3> QED
      <4>1. k - 1 \in Nat /\ m - (k - 1) \in Int /\ m - (k - 1) - 1 = m - k
        BY <2>1
      <4> QED
        BY <3>1, <3>2, <3>3, <4>1, WalkGoesOn
  <2>3. CASE k = r + 1
    <3>1. WalkAt(k - 1, m, r) = [streak |-> r, checkDate |-> m - r, stopped |-> FALSE]
      BY <2>1, <2>3 DEF WalkAt
    <3>2. WalkAt(k, m, r) = [streak |-> r, checkDate |-> m - r, stopped |-> TRUE]
      BY <2>1, <2>3 DEF WalkAt
    <3> QED
      <4>1. m - r \in Int /\ Dates[k] # m - r
        BY <2>3
      <4> QED
        BY <3>1, <3>2, <4>1, WalkStops
  <2>4. CASE k > r + 1
    <3>1. WalkAt(k - 1, m, r) = [streak |-> r, checkDate |-> m - r, stopped |-> TRUE]
      BY <2>1, <2>4 DEF WalkAt
    <3>2. WalkAt(k, m, r) = [streak |-> r, checkDate |-> m - r, stopped |-> TRUE]
      BY <2>1, <2>4 DEF WalkAt
    <3> QED
      <4>1. m - r \in Int
        OBVIOUS
      <4> QED
        BY <3>1, <3>2, <4>1, WalkStandsStill
  <2> QED
    BY <2>1, <2>2, <2>3, <2>4
<1>3. IsWalk(h)
  <2>1. ASSUME NEW k \in 0 .. n
        PROVE  h[k] = IF k = 0 THEN [streak |-> 0, checkDate |-> Dates[1], stopped |-> FALSE]
                      ELSE Walk(h[k - 1], Dates[k])
    <3>1. CASE k = 0
      BY <1>1, <3>1
    <3>2. CASE k # 0
      <4>1. k \in 1 .. n /\ k - 1 \in 0 .. n /\ h[k] = WalkAt(k, m, r)
        BY <3>2
      <4>2. h[k - 1] = WalkAt(k - 1, m, r)
        BY <4>1
      <4> QED
        BY <1>2, <3>2, <4>1, <4>2
    <3> QED
      BY <3>1, <3>2
  <2> QED
    BY <2>1 DEF IsWalk
<1> HIDE DEF h
<1>4. IsWalk(w)
  BY <1>3, Zenon DEF IsWalk
<1>5. HabitStreak = w[n].streak
  <2>1. HabitStreak = IF Len(Dates) = 0 THEN 0 ELSE w[Len(Dates)].streak
    BY Zenon DEF HabitStreak
  <2> QED
    BY <2>1
<1> HIDE DEF w
<1>6. \A k \in 0 .. n : w[k] = h[k]
  <2> DEFINE Bad == {k \in 0 .. n : w[k] # h[k]}
  <2>1. SUFFICES ASSUME Bad # {} PROVE FALSE
    OBVIOUS
  <2>2. PICK k \in Bad : \A j \in Bad : k <= j
    <3>1. Bad \in SUBSET Nat
      OBVIOUS
    <3> QED
      BY <2>1, <3>1, LeastNumber
  <2>3. k # 0 => k - 1 \in 0 .. n /\ w[k - 1] = h[k - 1]
    <3>1. k # 0 => k - 1 \in 0 .. n /\ k - 1 \notin Bad
      BY <2>2
    <3> QED
      BY <3>1
  <2>4. k \in 0 .. n
    OBVIOUS
  <2>5. w[k] = h[k]
    <3>1. CASE k = 0
      BY <1>3, <1>4, <2>4, <3>1 DEF IsWalk
    <3>2. CASE k # 0
      <4>1. w[k] = Walk(w[k - 1], Dates[k]) /\ h[k] = Walk(h[k - 1], Dates[k])
        BY <1>3, <1>4, <2>4, <3>2 DEF IsWalk
      <4> QED
        BY <2>3, <3>2, <4>1
    <3> QED
      BY <3>1, <3>2
  <2> QED
    BY <2>2, <2>5
<1>7. w[n].streak = IF n <= r THEN n ELSE r
  <2>1. n \in 0 .. n /\ w[n] = WalkAt(n, m, r)
    BY <1>6 DEF h
  <2> QED
    BY <2>1 DEF WalkAt
<1> QED
  BY <1>5, <1>7

\* The days from which on, up to the newest, all were marked.
RunUp == {a \in Days : a .. Max(entries) # {} /\ a .. Max(entries) \subseteq entries}

LEMMA RunUpIs ==
  ASSUME FiguresTypeOK, entries # {}
  PROVE  \E r \in Nat \ {0} :
           /\ Cardinality(RunUp) = r /\ r <= Cardinality(entries)
           /\ (Max(entries) - r + 1) .. Max(entries) \subseteq entries
           /\ Max(entries) - r \notin entries
<1> DEFINE m == Max(entries)
<1>1. entries \in SUBSET Days /\ Days \subseteq Nat /\ entries \in SUBSET Nat
  BY LimitsAssumption DEF FiguresTypeOK, Days
<1>2. m \in entries /\ m \in Nat /\ \A d \in entries : d <= m
  BY <1>1, NewestIs
<1> HIDE DEF m
<1>3. RunUp = {a \in Days : a .. m # {} /\ a .. m \subseteq entries}
  BY DEF RunUp, m
<1>4. m \in RunUp /\ RunUp \in SUBSET Nat /\ RunUp # {}
  <2>1. m .. m = {m} /\ m \in Days
    BY <1>1, <1>2
  <2>2. m \in RunUp
    BY <1>2, <1>3, <2>1
  <2> QED
    BY <1>1, <1>3, <2>2
<1>5. PICK lo \in RunUp : \A a \in RunUp : lo <= a
  BY <1>4, LeastNumber
<1>6. lo \in Nat /\ lo \in Days /\ lo <= m /\ lo .. m \subseteq entries
  BY <1>1, <1>2, <1>3, <1>5
<1>7. RunUp = lo .. m
  <2>1. \A a \in RunUp : a \in lo .. m
    BY <1>1, <1>2, <1>3, <1>5, <1>6
  <2>2. \A a \in lo .. m : a \in Days /\ a .. m # {} /\ a .. m \subseteq entries
    BY <1>1, <1>2, <1>6
  <2> QED
    BY <1>3, <2>1, <2>2
<1>8. Cardinality(RunUp) = m - lo + 1
  BY <1>2, <1>6, <1>7, FS_Interval
<1>9. Cardinality(RunUp) <= Cardinality(entries)
  BY <1>6, <1>7, EntriesAreFinite, FS_Subset
<1>10. lo - 1 \notin entries
  <2> SUFFICES ASSUME lo - 1 \in entries PROVE FALSE
    OBVIOUS
  <2>1. lo - 1 \in Days /\ lo - 1 \in Nat
    BY <1>1
  <2>2. (lo - 1) .. m \subseteq entries /\ (lo - 1) .. m # {}
    BY <1>2, <1>6, <2>1
  <2>3. lo - 1 \in RunUp
    BY <1>3, <2>1, <2>2
  <2> QED
    BY <1>5, <1>6, <2>3
<1> DEFINE r == m - lo + 1
<1>11. r \in Nat \ {0} /\ m - r + 1 = lo /\ m - r = lo - 1
  BY <1>2, <1>6
<1> QED
  BY <1>6, <1>8, <1>9, <1>10, <1>11 DEF m

\* The rows of the query, as far as the run goes and one further.
LEMMA DatesOfRun ==
  ASSUME FiguresTypeOK, entries # {}, NEW r \in Nat \ {0}, r <= Cardinality(entries),
         (Max(entries) - r + 1) .. Max(entries) \subseteq entries, Max(entries) - r \notin entries
  PROVE  /\ Len(Dates) \in Nat
         /\ Len(Dates) = IF Cardinality(entries) <= StreakLimit THEN Cardinality(entries) ELSE StreakLimit
         /\ \A k \in 1 .. Len(Dates) : k <= r => Dates[k] = Max(entries) - k + 1
         /\ r + 1 \in 1 .. Len(Dates) => Dates[r + 1] # Max(entries) - r
<1> DEFINE m == Max(entries)
           n == Min({Cardinality(entries), StreakLimit})
<1>1. entries \in SUBSET Days /\ entries \in SUBSET Int
  BY DEF FiguresTypeOK, Days
<1>2. m \in entries /\ m \in Int /\ \A d \in entries : d <= m
  BY <1>1, NewestIs
<1>3. IsFiniteSet(entries) /\ Cardinality(entries) \in Nat /\ StreakLimit \in Nat
  BY EntriesAreFinite, LimitsAssumption
<1>4. n \in Nat /\ n = IF Cardinality(entries) <= StreakLimit THEN Cardinality(entries) ELSE StreakLimit
  <2> DEFINE l == IF Cardinality(entries) <= StreakLimit THEN Cardinality(entries) ELSE StreakLimit
  <2>1. /\ {Cardinality(entries), StreakLimit} \in SUBSET Int
        /\ l \in {Cardinality(entries), StreakLimit} /\ l \in Nat
        /\ \A y \in {Cardinality(entries), StreakLimit} : l <= y
    BY <1>3
  <2> HIDE DEF l
  <2>2. n = l
    BY <2>1, MinIs
  <2> QED
    BY <2>1, <2>2 DEF l
<1> HIDE DEF m, n
<1>5. Dates = [k \in 1 .. n |-> CHOOSE d \in entries : Cardinality(Newer(d)) = k - 1]
  BY DEF Dates, Newer, n
<1>6. Len(Dates) = n
  BY <1>4, <1>5
<1>7. ASSUME NEW k \in 1 .. n, k <= r PROVE Dates[k] = m - k + 1
  <2> DEFINE d == m - k + 1
  <2>1. d \in Int /\ d \in entries
    <3>1. d \in (m - r + 1) .. m
      BY <1>2, <1>7
    <3> QED
      BY <3>1 DEF m
  <2>2. Newer(d) = (d + 1) .. m
    <3>1. \A e \in entries : e > d => e \in (d + 1) .. m
      BY <1>1, <1>2, <2>1
    <3>2. \A e \in (d + 1) .. m : e > d /\ e \in (m - r + 1) .. m
      BY <1>2, <1>7
    <3>3. \A e \in (d + 1) .. m : e > d /\ e \in entries
      BY <3>2 DEF m
    <3> QED
      BY <3>1, <3>3 DEF Newer
  <2>3. Cardinality(Newer(d)) = k - 1
    <3>1. d + 1 \in Int /\ (IF d + 1 > m THEN 0 ELSE m - (d + 1) + 1) = k - 1
      BY <1>2, <1>7
    <3> QED
      BY <1>2, <2>2, <3>1, FS_Interval
  <2> HIDE DEF d
  <2>4. \A c \in entries : Cardinality(Newer(c)) = k - 1 => c = d
    BY <2>1, <2>3, RankIsOfOne
  <2>5. (CHOOSE c \in entries : Cardinality(Newer(c)) = k - 1) = d
    BY <2>1, <2>3, <2>4
  <2> QED
    BY <1>5, <2>5 DEF d
<1>8. ASSUME r + 1 \in 1 .. n PROVE Dates[r + 1] # m - r
  <2> DEFINE rest == {d \in entries : d < m - r}
  <2>1. rest # {}
    <3> SUFFICES ASSUME rest = {} PROVE FALSE
      OBVIOUS
    <3>1. \A d \in entries : d \in (m - r + 1) .. m
      <4>1. \A d \in entries : d \in Int /\ d <= m /\ d # m - r
        BY <1>1, <1>2 DEF m
      <4> QED
        BY <1>2, <4>1
    <3>2. entries = (m - r + 1) .. m
      BY <3>1 DEF m
    <3>3. Cardinality(entries) = r
      <4>1. m - r + 1 \in Int /\ (IF m - r + 1 > m THEN 0 ELSE m - (m - r + 1) + 1) = r
        BY <1>2
      <4> QED
        BY <1>2, <3>2, <4>1, FS_Interval
    <3> QED
      BY <1>3, <1>4, <1>8, <3>3
  <2> DEFINE d == Max(rest)
  <2>2. d \in rest /\ \A e \in rest : e <= d
    BY <1>1, <2>1, NewestIs
  <2>3. d \in entries /\ d \in Int /\ d < m - r
    BY <1>1, <2>2
  <2>4. Newer(d) = (m - r + 1) .. m
    <3>1. \A e \in entries : e > d => e \in (m - r + 1) .. m
      <4>1. \A e \in entries : e \in Int /\ e <= m /\ e # m - r /\ (e < m - r => e <= d)
        BY <1>1, <1>2, <2>2 DEF m
      <4> HIDE DEF d
      <4> QED
        BY <1>2, <2>3, <4>1
    <3>2. \A e \in (m - r + 1) .. m : e > d
      <4> HIDE DEF d
      <4> QED
        BY <1>2, <2>3
    <3>3. \A e \in (m - r + 1) .. m : e \in entries
      BY DEF m
    <3> QED
      BY <3>1, <3>2, <3>3 DEF Newer
  <2>5. Cardinality(Newer(d)) = r
    <3>1. m - r + 1 \in Int /\ (IF m - r + 1 > m THEN 0 ELSE m - (m - r + 1) + 1) = r
      BY <1>2
    <3> QED
      BY <1>2, <2>4, <3>1, FS_Interval
  <2> HIDE DEF d, rest
  <2>6. (CHOOSE c \in entries : Cardinality(Newer(c)) = r + 1 - 1) \in entries
    <3>1. r + 1 - 1 = r
      OBVIOUS
    <3> QED
      BY <2>3, <2>5, <3>1
  <2>7. Dates[r + 1] \in entries
    BY <1>5, <1>8, <2>6
  <2> QED
    BY <2>7 DEF m
<1> QED
  BY <1>4, <1>6, <1>7, <1>8 DEF m

LEMMA RecentStreak ==
  ASSUME FiguresTypeOK
  PROVE  RecentStreakIsARun
<1> SUFFICES ASSUME entries # {} PROVE HabitStreak = Min({StreakLimit, Cardinality(RunUp)})
  BY DEF RecentStreakIsARun, RunUp
<1>1. PICK r \in Nat \ {0} :
        /\ Cardinality(RunUp) = r /\ r <= Cardinality(entries)
        /\ (Max(entries) - r + 1) .. Max(entries) \subseteq entries
        /\ Max(entries) - r \notin entries
  BY RunUpIs
<1> DEFINE m == Max(entries)
           n == Len(Dates)
<1>2. Cardinality(entries) \in Nat /\ StreakLimit \in Nat
  BY EntriesAreFinite, LimitsAssumption
<1>3. /\ n \in Nat
      /\ n = IF Cardinality(entries) <= StreakLimit THEN Cardinality(entries) ELSE StreakLimit
      /\ \A k \in 1 .. n : k <= r => Dates[k] = m - k + 1
      /\ r + 1 \in 1 .. n => Dates[r + 1] # m - r
  BY <1>1, DatesOfRun
<1>4. m \in Int
  <2>1. entries \in SUBSET Days /\ Days \subseteq Int
    BY DEF FiguresTypeOK, Days
  <2> QED
    BY <2>1, NewestIs
<1>5. n > 0 => Dates[1] = m
  <2> HIDE DEF m, n
  <2>1. n > 0 => 1 \in 1 .. n /\ 1 <= r /\ m - 1 + 1 = m
    BY <1>3, <1>4
  <2> QED
    BY <1>3, <2>1
<1>6. n > 0 => HabitStreak = IF n <= r THEN n ELSE r
  BY <1>3, <1>4, <1>5, WalkIs
<1>7. n = 0 => HabitStreak = 0
  BY DEF HabitStreak
<1> HIDE DEF n
<1>8. HabitStreak = IF StreakLimit <= r THEN StreakLimit ELSE r
  BY <1>1, <1>2, <1>3, <1>6, <1>7
<1>9. Min({StreakLimit, r}) = IF StreakLimit <= r THEN StreakLimit ELSE r
  <2> DEFINE l == IF StreakLimit <= r THEN StreakLimit ELSE r
  <2>1. {StreakLimit, r} \in SUBSET Int /\ l \in {StreakLimit, r} /\ \A y \in {StreakLimit, r} : l <= y
    BY <1>2
  <2> HIDE DEF l
  <2>2. Min({StreakLimit, r}) = l
    BY <2>1, MinIs
  <2> QED
    BY <2>2 DEF l
<1> QED
  BY <1>1, <1>8, <1>9

-----------------------------------------------------------------------------
(* The panels of a page *)

\* What a sum asks of its partial sums, an element at a time.
IsSum(g, f) ==
  g = [s \in SUBSET DOMAIN f |->
         IF s = {} THEN 0 ELSE f[CHOOSE x \in s : TRUE] + g[s \ {CHOOSE x \in s : TRUE}]]

LEMMA SumIs ==
  ASSUME NEW f, NEW h, IsSum(h, f)
  PROVE  \E g : IsSum(g, f) /\ SumOver(f) = g[DOMAIN f]
<1> DEFINE g == CHOOSE g : g = [s \in SUBSET DOMAIN f |->
                  IF s = {} THEN 0 ELSE f[CHOOSE x \in s : TRUE] + g[s \ {CHOOSE x \in s : TRUE}]]
<1>1. IsSum(g, f)
  BY Zenon DEF IsSum
<1>2. SumOver(f) = g[DOMAIN f]
  BY Zenon DEF SumOver, MapThenSumSet, MapThenFoldSet
<1> QED
  BY <1>1, <1>2

LEMMA SumIsOne ==
  ASSUME NEW f, NEW h, IsSum(h, f), IsFiniteSet(DOMAIN f)
  PROVE  SumOver(f) = h[DOMAIN f]
<1>1. PICK g : IsSum(g, f) /\ SumOver(f) = g[DOMAIN f]
  BY SumIs
<1> DEFINE Bad == {n \in Nat : \E s \in SUBSET DOMAIN f : Cardinality(s) = n /\ g[s] # h[s]}
<1>2. \A s \in SUBSET DOMAIN f : IsFiniteSet(s) /\ Cardinality(s) \in Nat
  BY FS_Subset, FS_CardinalityType
<1>3. Bad = {}
  <2> SUFFICES ASSUME Bad # {} PROVE FALSE
    OBVIOUS
  <2>1. PICK n \in Bad : \A m \in Bad : n <= m
    <3>1. Bad \in SUBSET Nat
      OBVIOUS
    <3> QED
      BY <3>1, LeastNumber
  <2>2. PICK s \in SUBSET DOMAIN f : Cardinality(s) = n /\ g[s] # h[s]
    BY <2>1
  <2> DEFINE x == CHOOSE x \in s : TRUE
             rest == s \ {x}
  <2>3. /\ g[s] = IF s = {} THEN 0 ELSE f[x] + g[rest]
        /\ h[s] = IF s = {} THEN 0 ELSE f[x] + h[rest]
    <3>1. g = [t \in SUBSET DOMAIN f |->
                IF t = {} THEN 0 ELSE f[CHOOSE y \in t : TRUE] + g[t \ {CHOOSE y \in t : TRUE}]]
      BY <1>1 DEF IsSum
    <3>2. h = [t \in SUBSET DOMAIN f |->
                IF t = {} THEN 0 ELSE f[CHOOSE y \in t : TRUE] + h[t \ {CHOOSE y \in t : TRUE}]]
      BY DEF IsSum
    <3>3. g[s] = IF s = {} THEN 0 ELSE f[x] + g[rest]
      BY <2>2, <3>1, Zenon
    <3>4. h[s] = IF s = {} THEN 0 ELSE f[x] + h[rest]
      BY <2>2, <3>2, Zenon
    <3> QED
      BY <3>3, <3>4
  <2>4. s # {} /\ g[rest] # h[rest] /\ x \in s
    <3>1. s # {} /\ g[rest] # h[rest]
      BY <2>2, <2>3
    <3> QED
      BY <3>1
  <2>5. Cardinality(rest) = n - 1 /\ Cardinality(rest) \in Nat
    <3>1. IsFiniteSet(s) /\ rest \in SUBSET DOMAIN f
      BY <1>2
    <3> QED
      BY <1>2, <2>2, <2>4, <3>1, FS_RemoveElement
  <2>6. n - 1 \in Bad
    <3>1. rest \in SUBSET DOMAIN f
      OBVIOUS
    <3> HIDE DEF rest
    <3>2. n - 1 \in Nat
      BY <2>5
    <3> QED
      BY <2>4, <2>5, <3>1, <3>2
  <2> QED
    BY <2>1, <2>6
<1> QED
  <2>1. Cardinality(DOMAIN f) \in Nat /\ DOMAIN f \in SUBSET DOMAIN f
    BY <1>2
  <2>2. g[DOMAIN f] = h[DOMAIN f]
    BY <1>3, <2>1
  <2> QED
    BY <1>1, <2>2

\* The pairs of a relation, counted by what they begin with.
Row(R, T, i) == {j \in T : <<i, j>> \in R}
Rows(R, s) == {p \in R : p[1] \in s}

LEMMA RowIsCounted ==
  ASSUME NEW S, NEW T, NEW R \in SUBSET (S \X T), IsFiniteSet(T), NEW i \in S
  PROVE  IsFiniteSet(Rows(R, {i})) /\ Cardinality(Rows(R, {i})) = Cardinality(Row(R, T, i))
<1> DEFINE f == [j \in Row(R, T, i) |-> <<i, j>>]
<1>1. IsFiniteSet(Row(R, T, i))
  BY FS_Subset DEF Row
<1>2. f \in Bijection(Row(R, T, i), Rows(R, {i}))
  <2>1. f \in [Row(R, T, i) -> Rows(R, {i})]
    BY DEF Row, Rows
  <2>2. \A a, b \in Row(R, T, i) : f[a] = f[b] => a = b
    OBVIOUS
  <2>3. \A p \in Rows(R, {i}) : \E j \in Row(R, T, i) : f[j] = p
    <3> SUFFICES ASSUME NEW p \in Rows(R, {i}) PROVE \E j \in Row(R, T, i) : f[j] = p
      OBVIOUS
    <3>1. p \in R /\ p[1] = i /\ p \in S \X T
      BY DEF Rows
    <3>2. p = <<i, p[2]>> /\ p[2] \in T
      BY <3>1
    <3>3. p[2] \in Row(R, T, i)
      BY <3>1, <3>2 DEF Row
    <3> QED
      BY <3>2, <3>3
  <2> QED
    BY <2>1, <2>2, <2>3 DEF Bijection, Injection, Surjection, IsInjective
<1> QED
  BY <1>1, <1>2, FS_Bijection DEF ExistsBijection

LEMMA SumOfRows ==
  ASSUME NEW S, NEW T, NEW R \in SUBSET (S \X T), IsFiniteSet(S), IsFiniteSet(T)
  PROVE  SumOver([i \in S |-> Cardinality(Row(R, T, i))]) = Cardinality(R)
<1> DEFINE f == [i \in S |-> Cardinality(Row(R, T, i))]
           h == [s \in SUBSET S |-> Cardinality(Rows(R, s))]
<1>1. IsFiniteSet(R) /\ \A s : IsFiniteSet(Rows(R, s)) /\ Cardinality(Rows(R, s)) \in Nat
  <2>1. IsFiniteSet(R)
    BY FS_Product, FS_Subset
  <2>2. \A s : Rows(R, s) \in SUBSET R
    BY DEF Rows
  <2> QED
    BY <2>1, <2>2, FS_Subset, FS_CardinalityType
<1>2. ASSUME NEW s \in SUBSET S
      PROVE  h[s] = IF s = {} THEN 0 ELSE f[CHOOSE x \in s : TRUE] + h[s \ {CHOOSE x \in s : TRUE}]
  <2>1. CASE s = {}
    <3>1. Rows(R, s) = {}
      BY <2>1 DEF Rows
    <3> QED
      BY <2>1, <3>1, FS_EmptySet
  <2>2. CASE s # {}
    <3> DEFINE x == CHOOSE x \in s : TRUE
    <3>1. x \in s /\ x \in S
      BY <2>2
    <3> HIDE DEF x
    <3>2. Rows(R, s) = Rows(R, {x}) \cup Rows(R, s \ {x}) /\ Rows(R, {x}) \cap Rows(R, s \ {x}) = {}
      BY <3>1 DEF Rows
    <3>3. Cardinality(Rows(R, s)) = Cardinality(Rows(R, {x})) + Cardinality(Rows(R, s \ {x}))
      <4>1. Cardinality(Rows(R, {x}) \cap Rows(R, s \ {x})) = 0
        BY <3>2, FS_EmptySet
      <4>2. Cardinality(Rows(R, {x}) \cup Rows(R, s \ {x}))
              = Cardinality(Rows(R, {x})) + Cardinality(Rows(R, s \ {x}))
                - Cardinality(Rows(R, {x}) \cap Rows(R, s \ {x}))
        BY <1>1, FS_Union
      <4>3. Cardinality(Rows(R, {x})) \in Nat /\ Cardinality(Rows(R, s \ {x})) \in Nat
        BY <1>1
      <4>4. Cardinality(Rows(R, s)) = Cardinality(Rows(R, {x}) \cup Rows(R, s \ {x}))
        BY <3>2, Zenon
      <4> QED
        BY <4>1, <4>2, <4>3, <4>4
    <3>4. Cardinality(Rows(R, {x})) = f[x]
      BY <3>1, RowIsCounted
    <3>5. h[s] = Cardinality(Rows(R, s)) /\ h[s \ {x}] = Cardinality(Rows(R, s \ {x}))
      <4>1. s \ {x} \in SUBSET S
        OBVIOUS
      <4> QED
        BY <4>1
    <3> HIDE DEF f, h
    <3>6. h[s] = f[x] + h[s \ {x}]
      BY <3>3, <3>4, <3>5
    <3> QED
      BY <2>2, <3>6 DEF x
  <2> QED
    BY <2>1, <2>2
<1>3. DOMAIN f = S
  OBVIOUS
<1>4. IsSum(h, f)
  <2> HIDE DEF f
  <2>1. h = [s \in SUBSET S |->
               IF s = {} THEN 0 ELSE f[CHOOSE x \in s : TRUE] + h[s \ {CHOOSE x \in s : TRUE}]]
    <3> DEFINE k == [s \in SUBSET S |->
               IF s = {} THEN 0 ELSE f[CHOOSE x \in s : TRUE] + h[s \ {CHOOSE x \in s : TRUE}]]
    <3>1. \A s \in SUBSET S : h[s] = k[s]
      <4> HIDE DEF h
      <4> QED
        BY <1>2
    <3>2. h = [s \in SUBSET S |-> h[s]] /\ k = [s \in SUBSET S |-> k[s]]
      OBVIOUS
    <3> QED
      BY <3>1, <3>2, Zenon
  <2> QED
    BY <1>3, <2>1 DEF IsSum
<1>5. SumOver(f) = h[S]
  <2> HIDE DEF f, h
  <2> QED
    BY <1>3, <1>4, SumIsOne
<1>6. h[S] = Cardinality(R)
  <2>1. \A p \in R : p[1] \in S
    OBVIOUS
  <2>2. Rows(R, S) = R
    BY <2>1 DEF Rows
  <2> QED
    BY <2>2
<1> QED
  BY <1>5, <1>6
\* What is published in a window, by the day and by the tier.
LEMMA HeatmapIsMix ==
  ASSUME FiguresTypeOK, NEW w \in Nat
  PROVE  SumOver([i \in 1 .. w |-> Published(today - w + i)]) = SumOver(TierMix(w))
<1> DEFINE days == today - w + 1 .. today
           R == {p \in (1 .. w) \X Tiers : p[2] \in Out(today - w + p[1])}
           Q == {p \in Tiers \X days : p[1] \in Out(p[2])}
<1>1. today \in Int /\ w \in Int
  BY DEF FiguresTypeOK, Days
<1>2. IsFiniteSet(1 .. w) /\ IsFiniteSet(days) /\ IsFiniteSet(Tiers)
  BY <1>1, FS_Interval, TiersAssumption
<1>3. \A d : Out(d) \in SUBSET Tiers
  BY DEF Out, FiguresTypeOK
<1>4. SumOver([i \in 1 .. w |-> Published(today - w + i)]) = Cardinality(R)
  <2>1. \A i \in 1 .. w : Row(R, Tiers, i) = Out(today - w + i)
    BY <1>3 DEF Row
  <2>2. R \in SUBSET ((1 .. w) \X Tiers)
    OBVIOUS
  <2> HIDE DEF R
  <2>3. \A i \in 1 .. w : Published(today - w + i) = Cardinality(Row(R, Tiers, i))
    BY <2>1, Zenon DEF Published
  <2>4. [i \in 1 .. w |-> Published(today - w + i)] = [i \in 1 .. w |-> Cardinality(Row(R, Tiers, i))]
    BY <2>3, Zenon
  <2>5. SumOver([i \in 1 .. w |-> Cardinality(Row(R, Tiers, i))]) = Cardinality(R)
    BY <1>2, <2>2, SumOfRows
  <2> QED
    BY <2>4, <2>5, Zenon
<1>5. SumOver(TierMix(w)) = Cardinality(Q)
  <2>1. \A t \in Tiers : Row(Q, days, t) = {d \in days : t \in Out(d)}
    BY DEF Row
  <2>2. Q \in SUBSET (Tiers \X days)
    OBVIOUS
  <2> HIDE DEF Q
  <2>3. \A t \in Tiers : PublishedTierCount(t, today - w + 1, today) = Cardinality(Row(Q, days, t))
    BY <2>1, Zenon DEF PublishedTierCount
  <2> HIDE DEF days
  <2>4. TierMix(w) = [t \in Tiers |-> Cardinality(Row(Q, days, t))]
    BY <2>3, Zenon DEF TierMix
  <2>5. SumOver([t \in Tiers |-> Cardinality(Row(Q, days, t))]) = Cardinality(Q)
    BY <1>2, <2>2, SumOfRows
  <2> QED
    BY <2>4, <2>5, Zenon
<1>6. Cardinality(R) = Cardinality(Q)
  <2> DEFINE f == [p \in R |-> <<p[2], today - w + p[1]>>]
  <2>1. f \in [R -> Q]
    <3> SUFFICES ASSUME NEW p \in R PROVE <<p[2], today - w + p[1]>> \in Q
      OBVIOUS
    <3>1. p[1] \in 1 .. w /\ p[2] \in Tiers /\ p[2] \in Out(today - w + p[1])
      OBVIOUS
    <3>2. today - w + p[1] \in days
      BY <1>1, <3>1
    <3> QED
      BY <3>1, <3>2
  <2>2. \A p, q \in R : f[p] = f[q] => p = q
    <3> SUFFICES ASSUME NEW p \in R, NEW q \in R, f[p] = f[q] PROVE p = q
      OBVIOUS
    <3>1. p[2] = q[2] /\ today - w + p[1] = today - w + q[1] /\ p[1] \in Int /\ q[1] \in Int
      OBVIOUS
    <3>2. p[1] = q[1]
      BY <1>1, <3>1
    <3> QED
      BY <3>1, <3>2
  <2>3. \A q \in Q : \E p \in R : f[p] = q
    <3> SUFFICES ASSUME NEW q \in Q PROVE \E p \in R : f[p] = q
      OBVIOUS
    <3> DEFINE i == q[2] - today + w
    <3>1. q[1] \in Tiers /\ q[2] \in days /\ q[1] \in Out(q[2]) /\ q = <<q[1], q[2]>>
      OBVIOUS
    <3>2. i \in 1 .. w /\ today - w + i = q[2]
      BY <1>1, <3>1
    <3> HIDE DEF i
    <3>3. <<i, q[1]>> \in R
      BY <3>1, <3>2
    <3>4. f[<<i, q[1]>>] = <<q[1], today - w + i>>
      BY <3>3
    <3> QED
      BY <3>1, <3>2, <3>3, <3>4
  <2>4. f \in Bijection(R, Q)
    <3> HIDE DEF f, R, Q
    <3> QED
      BY <2>1, <2>2, <2>3 DEF Bijection, Injection, Surjection, IsInjective
  <2>5. IsFiniteSet(R)
    <3>1. IsFiniteSet((1 .. w) \X Tiers)
      BY <1>2, FS_Product
    <3> QED
      BY <3>1, FS_Subset
  <2> HIDE DEF R, Q
  <2> QED
    BY <2>4, <2>5, FS_Bijection DEF ExistsBijection
<1> QED
  BY <1>4, <1>5, <1>6, Zenon

LEMMA MondayIs ==
  ASSUME today \in Int
  PROVE  Monday \in Int /\ Monday \in today - 6 .. today /\ Weekday(Monday) = 1
BY Z3 DEF Monday, Weekday

\* The rate and the streaks of a window.
LEMMA RateAndStreaks ==
  ASSUME FiguresTypeOK, NEW w \in Nat \ {0}
  PROVE  /\ Streaks(w).current <= Streaks(w).longest /\ Streaks(w).longest <= CadenceRate(w).hit
         /\ CadenceRate(w).hit = CadenceRate(w).expected <=> Streaks(w).current = CadenceRate(w).expected
         /\ HasCredibility(today) /\ ~IsFriday(today) => Streaks(w).current > 0
<1> DEFINE a == today - w + 1
           hits == {d \in Cadence(a, today) : HasCredibility(d)}
           current == Streaks(w).current
           longest == Streaks(w).longest
<1>1. today \in Int /\ a \in Int /\ today \in a .. today /\ a \in a .. today /\ \A c \in a .. today : c \in Int
  BY DEF FiguresTypeOK, Days
<1>2. CadenceDays(w) = Cadence(a, today)
  <2>1. \A d \in a .. today : d - today + w \in 1 .. w /\ today - w + (d - today + w) = d
    BY <1>1
  <2>2. \A i \in 1 .. w : today - w + i \in a .. today
    BY <1>1
  <2>3. {today - w + i : i \in 1 .. w} = a .. today
    <3> HIDE DEF a
    <3> QED
      BY <2>1, <2>2
  <2>4. WindowDays(w) = {today - w + i : i \in 1 .. w}
    BY DEF WindowDays, Window, ToSet
  <2> QED
    BY <2>3, <2>4 DEF CadenceDays, Cadence
<1> HIDE DEF a
<1>3. CadenceRate(w).expected = Cardinality(Cadence(a, today)) /\ CadenceRate(w).hit = Cardinality(hits)
  BY <1>2 DEF CadenceRate
<1>4. /\ current \in Nat /\ longest \in Nat
      /\ AllHit(a, today) => current = Unbroken(a, today)
      /\ \A c \in a .. today : Unbroken(c, today) <= current
      /\ current = 0 \/ \E c \in a .. today : Unbroken(c, today) = current
      /\ \A c, e \in a .. today : Unbroken(c, e) <= longest
      /\ longest = 0 \/ \E c, e \in a .. today : Unbroken(c, e) = longest
  BY StreaksTell DEF a
<1> HIDE DEF current, longest
<1>5. /\ IsFiniteSet(Cadence(a, today)) /\ Cardinality(Cadence(a, today)) \in Nat
      /\ Unbroken(a, today) = IF AllHit(a, today) THEN Cardinality(Cadence(a, today)) ELSE 0
  BY <1>1, CadenceIsFinite
<1>6. /\ IsFiniteSet(hits) /\ Cardinality(hits) \in Nat /\ Cardinality(hits) <= Cardinality(Cadence(a, today))
      /\ Cardinality(hits) = Cardinality(Cadence(a, today)) => hits = Cadence(a, today)
  BY <1>5, FS_Subset, FS_CardinalityType
<1>7. current <= longest
  BY <1>1, <1>4
<1>8. ASSUME NEW c \in a .. today, NEW e \in a .. today
      PROVE  Unbroken(c, e) <= Cardinality(hits)
  <2>1. c \in Int /\ e \in Int
    BY <1>1
  <2>2. Unbroken(c, e) = IF AllHit(c, e) THEN Cardinality(Cadence(c, e)) ELSE 0
    BY <2>1, CadenceIsFinite
  <2>3. CASE AllHit(c, e)
    <3>1. Cadence(c, e) \in SUBSET hits
      <4>1. \A d \in c .. e : d \in a .. today
        BY <1>1, <2>1
      <4> QED
        BY <2>3, <4>1 DEF Cadence, AllHit
    <3>2. Cardinality(Cadence(c, e)) <= Cardinality(hits)
      BY <1>6, <3>1, FS_Subset
    <3> QED
      BY <2>2, <2>3, <3>2
  <2> QED
    BY <1>6, <2>2, <2>3
<1>9. longest <= Cardinality(hits)
  BY <1>4, <1>6, <1>8
<1>10. Cardinality(hits) = Cardinality(Cadence(a, today)) => current = Cardinality(Cadence(a, today))
  <2> SUFFICES ASSUME hits = Cadence(a, today) PROVE current = Cardinality(Cadence(a, today))
    BY <1>6
  <2>1. AllHit(a, today)
    BY DEF AllHit
  <2> QED
    BY <1>4, <1>5, <2>1
<1>11. HasCredibility(today) /\ ~IsFriday(today) => current > 0
  <2> SUFFICES ASSUME HasCredibility(today), ~IsFriday(today) PROVE current > 0
    OBVIOUS
  <2>1. today .. today = {today}
    BY <1>1
  <2>2. Cadence(today, today) = {today} /\ AllHit(today, today)
    BY <2>1 DEF Cadence, AllHit
  <2>3. Cardinality(Cadence(today, today)) = 1
    BY <2>2, FS_Singleton
  <2>4. Unbroken(today, today) = 1
    BY <1>1, <2>2, <2>3, CadenceIsFinite
  <2>5. Unbroken(today, today) <= current
    BY <1>1, <1>4
  <2> QED
    BY <1>4, <2>4, <2>5
<1> HIDE DEF hits
<1>12. current = Cardinality(Cadence(a, today)) => Cardinality(hits) = Cardinality(Cadence(a, today))
  BY <1>4, <1>5, <1>6, <1>7, <1>9
<1> QED
  BY <1>3, <1>7, <1>9, <1>10, <1>11, <1>12 DEF current, longest

LEMMA PanelsDoAgree ==
  ASSUME FiguresTypeOK
  PROVE  PanelsAgree
<1> SUFFICES ASSUME NEW w \in Windows
             PROVE  /\ SumOver([i \in DOMAIN CadenceHeatmap(w) |-> CadenceHeatmap(w)[i].published])
                         = SumOver(TierMix(w))
                    /\ Streaks(w).current <= Streaks(w).longest /\ Streaks(w).longest <= CadenceRate(w).hit
                    /\ CadenceRate(w).hit = CadenceRate(w).expected
                         <=> Streaks(w).current = CadenceRate(w).expected
                    /\ Snapshot.credibilityUp /\ ~Snapshot.isBufferDay => Streaks(w).current > 0
                    /\ w = 1 + (today - Monday) /\ Weekday(Monday) = 1 =>
                         \A t \in Tiers : WeeklyTierGoals[t] = TierMix(w)[t]
                    /\ Monday \in today - 6 .. today /\ Weekday(Monday) = 1
  BY Zenon DEF PanelsAgree
<1>1. w \in Nat \ {0} /\ w \in Nat /\ today \in Int
  BY LimitsAssumption DEF FiguresTypeOK, Days
<1>2. [i \in DOMAIN CadenceHeatmap(w) |-> CadenceHeatmap(w)[i].published]
        = [i \in 1 .. w |-> Published(today - w + i)]
  BY DEF CadenceHeatmap, Window
<1>3. SumOver([i \in DOMAIN CadenceHeatmap(w) |-> CadenceHeatmap(w)[i].published]) = SumOver(TierMix(w))
  BY <1>1, <1>2, HeatmapIsMix, Zenon
<1>4. Monday \in Int /\ Monday \in today - 6 .. today /\ Weekday(Monday) = 1
  BY <1>1, MondayIs
<1>5. w = 1 + (today - Monday) => \A t \in Tiers : WeeklyTierGoals[t] = TierMix(w)[t]
  <2> SUFFICES ASSUME w = 1 + (today - Monday), NEW t \in Tiers PROVE WeeklyTierGoals[t] = TierMix(w)[t]
    OBVIOUS
  <2>1. today - w + 1 = Monday
    BY <1>1, <1>4
  <2>2. WeeklyTierGoals[t] = PublishedTierCount(t, Monday, today)
    BY DEF WeeklyTierGoals
  <2>3. TierMix(w)[t] = PublishedTierCount(t, today - w + 1, today)
    BY DEF TierMix
  <2> QED
    BY <2>1, <2>2, <2>3, Zenon
<1>6. Snapshot.credibilityUp = HasCredibility(today) /\ Snapshot.isBufferDay = IsFriday(today)
  BY DEF Snapshot
<1> QED
  BY <1>1, <1>3, <1>4, <1>5, <1>6, RateAndStreaks, Zenon
-----------------------------------------------------------------------------
(* Figures *)

LEMMA StepFiguresTypeOK ==
  ASSUME FiguresTypeOK, [FiguresNext]_figures
  PROVE  FiguresTypeOK'
<1>1. CASE Midnight
  BY <1>1 DEF FiguresTypeOK, Midnight, Days
<1>2. ASSUME NEW d \in Days, Toggle(d) PROVE FiguresTypeOK'
  <2>1. entries' \subseteq Days
    BY <1>2 DEF FiguresTypeOK, Toggle, SymDiff
  <2> QED
    BY <1>2, <2>1 DEF FiguresTypeOK, Toggle, Days
<1>3. ASSUME NEW d \in Days, Unpublish(d) PROVE FiguresTypeOK'
  BY <1>3 DEF FiguresTypeOK, Unpublish, Days
<1>4. ASSUME NEW d \in Days, NEW t \in Tiers, Publish(d, t) PROVE FiguresTypeOK'
  <2>1. posts[d] \cup {t} \in SUBSET Tiers
    BY DEF FiguresTypeOK
  <2>2. posts' \in [Days -> SUBSET Tiers]
    BY <1>4, <2>1 DEF FiguresTypeOK, Publish
  <2> QED
    BY <1>4, <2>2 DEF FiguresTypeOK, Publish, Days
<1>5. CASE UNCHANGED figures
  BY <1>5 DEF FiguresTypeOK, figures, Days
<1> QED
  BY <1>1, <1>2, <1>3, <1>4, <1>5 DEF FiguresNext

(***************************************************************************)
(* Posts and entries are of days, whatever is published, deleted or        *)
(* toggled (store/posts.go, store/habits.go).                              *)
(***************************************************************************)
THEOREM FiguresTypeCorrect == FiguresSpec => []FiguresTypeOK
<1>1. FiguresInit => FiguresTypeOK
  <2>1. 1 \in Days
    BY LimitsAssumption DEF Days
  <2> QED
    BY <2>1 DEF FiguresInit, FiguresTypeOK
<1>2. FiguresTypeOK /\ [FiguresNext]_figures => FiguresTypeOK'
  BY StepFiguresTypeOK
<1> QED
  BY <1>1, <1>2, PTL DEF FiguresSpec

(***************************************************************************)
(* The two loops of Streaks (service/metrics.go) find the longest unbroken *)
(* run of a window and the longest that reaches today, in a window of any  *)
(* length.                                                                 *)
(***************************************************************************)
THEOREM AlwaysStreaksAreRuns == FiguresSpec => []StreaksAreRuns
BY FiguresTypeCorrect, StreaksAreMaxima, PTL

(***************************************************************************)
(* HabitStreak (store/habits.go), asked on the day of the newest entry or  *)
(* the day after, counts the days up to there that were all marked,        *)
(* however many rows it may look at.                                       *)
(***************************************************************************)
THEOREM AlwaysRecentStreakIsARun == FiguresSpec => []RecentStreakIsARun
BY FiguresTypeCorrect, RecentStreak, PTL

(***************************************************************************)
(* The panels of service/metrics.go do not contradict each other: heatmap  *)
(* and tier mix count the same posts, rate and streaks bound each other,   *)
(* the week's goals are the mix of its days.                               *)
(***************************************************************************)
THEOREM AlwaysPanelsAgree == FiguresSpec => []PanelsAgree
BY FiguresTypeCorrect, PanelsDoAgree, PTL

-----------------------------------------------------------------------------
(* Days and phases of a sprint *)

LEMMA DivMonotone ==
  ASSUME NEW a \in Int, NEW b \in Int, NEW n \in Nat \ {0}, a <= b
  PROVE  a \div n <= b \div n
BY Z3

LEMMA DivShift ==
  ASSUME NEW a \in Int, NEW k \in Int, NEW n \in Nat \ {0}
  PROVE  (a - k * n) \div n = a \div n - k
BY Z3

\* Instants less than a day apart are of the same date or of two in a row.
LEMMA DivNear ==
  ASSUME NEW a \in Int, NEW b \in Int, NEW n \in Nat \ {0}, b - a < n, a - b < n
  PROVE  b \div n - a \div n \in {-1, 0, 1}
BY Z3

\* There is a first phase in every set of phases.
LEMMA MinOfPhases ==
  ASSUME NEW S \in SUBSET Phases, S # {}
  PROVE  Min(S) \in S /\ \A q \in S : Min(S) <= q
<1>1. \E m \in S : \A q \in S : m <= q
  <2>1. S \subseteq {1, 2, 3, 4}
    BY DEF Phases
  <2>2. CASE 1 \in S
    BY <2>1, <2>2
  <2>3. CASE 1 \notin S /\ 2 \in S
    BY <2>1, <2>3
  <2>4. CASE 1 \notin S /\ 2 \notin S /\ 3 \in S
    BY <2>1, <2>4
  <2>5. CASE 1 \notin S /\ 2 \notin S /\ 3 \notin S
    <3>1. \A x \in S : x = 4
      BY <2>1, <2>5
    <3> QED
      BY <3>1
  <2> QED
    BY <2>2, <2>3, <2>4, <2>5
<1>2. PICK m \in S : \A q \in S : m <= q
  BY <1>1
<1>3. S \in SUBSET Int
  BY DEF Phases
<1> QED
  BY <1>2, <1>3, MinIs

-----------------------------------------------------------------------------
(* Types *)

LEMMA DatesAreInts ==
  ASSUME ProgressTypeOK
  PROVE  /\ now \in Int /\ created \in Int /\ offset \in Int /\ dawn \in Int /\ started \in Int
         /\ Today \in Int /\ DayLength \in Nat \ {0}
<1>1. /\ zone \in Zones /\ offset \in zone /\ dawn \in zone /\ started \in Int
      /\ now \in Int /\ created \in Int
  BY DEF ProgressTypeOK
<1>2. offset \in Int /\ dawn \in Int
  BY <1>1, ClockAssumption
<1> QED
  BY <1>1, <1>2, ClockAssumption DEF Today

LEMMA StepProgressTypeOK ==
  ASSUME ProgressTypeOK, [ProgressNext]_progress
  PROVE  ProgressTypeOK'
<1>1. CASE Tick
  BY <1>1 DEF Tick, birth, ProgressTypeOK
<1>2. ASSUME NEW p \in Phases, SetPhase(p) PROVE ProgressTypeOK'
  <2>1. [to |-> p, at |-> now] \in [to : Phases, at : Nat]
    BY DEF ProgressTypeOK
  <2>2. Append(changes, [to |-> p, at |-> now]) \in Seq([to : Phases, at : Nat])
    BY <2>1 DEF ProgressTypeOK
  <2>3. changes' \in Seq([to : Phases, at : Nat])
    <3>1. changes' \in {changes, Append(changes, [to |-> p, at |-> now])}
      BY <1>2, Zenon DEF SetPhase
    <3>2. changes \in Seq([to : Phases, at : Nat])
      BY DEF ProgressTypeOK
    <3> QED
      BY <2>2, <3>1, <3>2, Zenon
  <2>4. lost' \in Nat /\ since' \in Nat
    BY <1>2 DEF SetPhase, ProgressTypeOK
  <2> QED
    BY <1>2, <2>3, <2>4 DEF SetPhase, birth, ProgressTypeOK
<1>3. ASSUME NEW s \in Statuses, SetStatus(s) PROVE ProgressTypeOK'
  <2>1. Today \in Int
    BY DatesAreInts
  <2> QED
    BY <1>3, <2>1 DEF SetStatus, birth, ProgressTypeOK
<1>4. ASSUME NEW o \in zone, SetClock(o) PROVE ProgressTypeOK'
  BY <1>4 DEF SetClock, birth, ProgressTypeOK
<1>5. CASE UNCHANGED progress
  BY <1>5 DEF progress, birth, ProgressTypeOK
<1> QED
  BY <1>1, <1>2, <1>3, <1>4, <1>5 DEF ProgressNext

(***************************************************************************)
(* Whatever is done to a sprint, each of its columns and what is kept of   *)
(* its past is of its type.                                                *)
(***************************************************************************)
THEOREM ProgressTypeCorrect == ProgressSpec => []ProgressTypeOK
<1>1. ProgressInit => ProgressTypeOK
  <2> SUFFICES ASSUME ProgressInit PROVE ProgressTypeOK
    OBVIOUS
  <2>1. now \in Nat /\ offset \in Int /\ started \in Int
    BY ClockAssumption DEF ProgressInit, Today
  <2> QED
    BY <2>1 DEF ProgressInit, ProgressTypeOK, Phases
<1> QED
  BY <1>1, StepProgressTypeOK, PTL DEF ProgressSpec

-----------------------------------------------------------------------------
(* Dates and days *)

\* The first day is the local date of the creation, by one of the zone's offsets.
Birthday == \E o \in zone : started = (created + o) \div DayLength

LEMMA AlwaysBirthday == ProgressSpec => []Birthday
<1>1. ProgressInit => Birthday
  BY DEF ProgressInit, Birthday, Today
<1>2. Birthday /\ [ProgressNext]_progress => Birthday'
  <2> SUFFICES ASSUME Birthday, [ProgressNext]_progress PROVE Birthday'
    OBVIOUS
  <2>1. UNCHANGED <<zone, created, started>>
    BY DEF ProgressNext, Tick, SetClock, SetPhase, SetStatus, progress, birth
  <2> QED
    BY <2>1 DEF Birthday
<1> QED
  BY <1>1, <1>2, PTL DEF ProgressSpec

\* Neither the clock nor what is taken for midnight is a day off the clock at birth:
\* less than a day is missing from a first day that has not begun by them.
LEMMA FirstDayHasBegun ==
  ASSUME ProgressTypeOK, Birthday
  PROVE  /\ started * DayLength \in Int
         /\ -DayLength < now - started * DayLength
         /\ -DayLength < now + offset - started * DayLength
         /\ -DayLength < now + dawn - started * DayLength
         /\ offset < DayLength /\ -DayLength < offset
         /\ dawn - offset < DayLength /\ offset - dawn < DayLength
<1>1. /\ now \in Int /\ created \in Int /\ offset \in Int /\ dawn \in Int /\ started \in Int
      /\ DayLength \in Nat \ {0} /\ created <= now
  BY DatesAreInts DEF ProgressTypeOK
<1>2. PICK o \in zone : started = (created + o) \div DayLength
  BY DEF Birthday
<1>3. zone \in Zones /\ offset \in zone /\ dawn \in zone
  BY DEF ProgressTypeOK
<1>4. o \in 1 - DayLength .. DayLength - 1 /\ offset \in 1 - DayLength .. DayLength - 1
  BY <1>2, <1>3, ClockAssumption
<1>5. /\ o - offset < DayLength /\ o - dawn < DayLength
      /\ dawn - offset < DayLength /\ offset - dawn < DayLength
  BY <1>2, <1>3, ClockAssumption
<1>6. started * DayLength \in Int
  BY <1>1, Z3
<1>7. o \in Int /\ started * DayLength <= created + o
  <2>1. o \in Int
    BY <1>1, <1>4
  <2> QED
    BY <1>1, <1>2, <2>1, Z3
<1> QED
  BY <1>1, <1>4, <1>5, <1>6, <1>7

LEMMA WholeDaysIs ==
  ASSUME NEW time \in Int, DayLength \in Nat \ {0}, -DayLength < time
  PROVE  WholeDays(time) = IF time < 0 THEN 0 ELSE time \div DayLength
<1>1. time < 0 => (-time) \div DayLength = 0
  BY Z3
<1> QED
  BY <1>1 DEF WholeDays

LEMMA LocalDaysAre ==
  ASSUME ProgressTypeOK
  PROVE  LocalDays = (now + offset - started * DayLength) \div DayLength
<1> DEFINE local == now + offset
<1>1. local \in Int /\ started \in Int /\ DayLength \in Nat \ {0}
  BY DatesAreInts
<1>2. LocalDays = local \div DayLength - started
  BY DEF LocalDays, Today
<1> HIDE DEF local
<1>3. (local - started * DayLength) \div DayLength = local \div DayLength - started
  BY <1>1, DivShift
<1>4. LocalDays = (local - started * DayLength) \div DayLength
  BY <1>2, <1>3, Zenon
<1>5. local - started * DayLength = now + offset - started * DayLength
  <2>1. started * DayLength \in Int /\ now \in Int /\ offset \in Int
    BY <1>1, DatesAreInts, Z3
  <2> DEFINE midnight == started * DayLength
  <2> HIDE DEF midnight
  <2>2. local - midnight = now + offset - midnight
    BY <2>1 DEF local, midnight
  <2> QED
    BY <2>2, Zenon DEF midnight
<1> QED
  BY <1>4, <1>5, Zenon

-----------------------------------------------------------------------------
(* The banner *)

LEMMA DaysAreClose ==
  ASSUME ProgressTypeOK, Birthday
  PROVE  DaysSince \in Int /\ LocalDays \in Int /\ DaysSince - LocalDays \in {-1, 0, 1}
<1> DEFINE time == now - started * DayLength
           local == time + offset
<1>1. /\ time \in Int /\ offset \in Int /\ DayLength \in Nat \ {0}
      /\ -DayLength < time /\ -DayLength < local
      /\ offset < DayLength /\ -DayLength < offset
  BY DatesAreInts, FirstDayHasBegun
<1>2. LocalDays = local \div DayLength
  <2>1. local = now + offset - started * DayLength
    BY DatesAreInts, FirstDayHasBegun
  <2> QED
    BY <2>1, LocalDaysAre
<1>3. DaysSince = IF time < 0 THEN 0 ELSE time \div DayLength
  BY <1>1, WholeDaysIs DEF DaysSince
<1> HIDE DEF time
<1>4. local \div DayLength - time \div DayLength \in {-1, 0, 1}
  BY <1>1, DivNear
<1>5. time < 0 => local \div DayLength \in {-1, 0}
  <2>1. local \in Int /\ (time < 0 => local < DayLength)
    BY <1>1
  <2> HIDE DEF local
  <2> QED
    BY <1>1, <2>1, Z3
<1>6. local \div DayLength \in Int /\ time \div DayLength \in Int
  BY <1>1
<1> QED
  BY <1>2, <1>3, <1>4, <1>5, <1>6

\* The verdict as a number: what makes it worse is the share of the days gone,
\* what makes it better the share of the gates done.
LEMMA RankOfBanner ==
  ASSUME NEW done, NEW total, NEW length, NEW elapsed
  PROVE  LET behind(percent) == total = 0 \/ ~AtLeast(done, total, percent)
         IN Rank[Banner(done, total, length, elapsed)] =
              IF \/ elapsed > length /\ behind(100)
                 \/ AtLeast(elapsed, length, 80) /\ behind(50)
              THEN 2
              ELSE IF AtLeast(elapsed, length, 50) /\ behind(25) THEN 1 ELSE 0
<1>1. Rank["none"] = 0 /\ Rank["success"] = 0 /\ Rank["warning"] = 1 /\ Rank["critical"] = 2
  BY DEF Rank
<1> QED
  BY <1>1 DEF Banner

LEMMA VerdictsAreFair ==
  ASSUME NEW length \in Nat \ {0}, NEW total \in Nat, NEW done \in 0 .. total, NEW age \in Int
  PROVE  LET rank(n, a) == Rank[Banner(n, total, length, a)]
         IN /\ rank(done, age) <= rank(done, age + 1)
            /\ done < total => rank(done + 1, age) <= rank(done, age)
            /\ done = total /\ total > 0 => rank(done, age) = 0
<1>1. Rank[Banner(done, total, length, age)] <= Rank[Banner(done, total, length, age + 1)]
  BY RankOfBanner DEF AtLeast
<1>2. done < total =>
        Rank[Banner(done + 1, total, length, age)] <= Rank[Banner(done, total, length, age)]
  BY RankOfBanner DEF AtLeast
<1>3. done = total /\ total > 0 => Rank[Banner(done, total, length, age)] = 0
  BY RankOfBanner DEF AtLeast
<1> QED
  BY <1>1, <1>2, <1>3

(***************************************************************************)
(* The banner of the sprint page counts from a local date to a UTC instant *)
(* (web/handlers.go, daysSince): wherever the user is, its age is at most  *)
(* a day off; it calls no sprint overdue too early, gets worse by time     *)
(* only, better by what is done only, and is content with a finished list. *)
(***************************************************************************)
THEOREM AlwaysBannerIsFair == ProgressSpec => []BannerIsFair
<1>1. ProgressTypeOK /\ Birthday => BannerIsFair
  <2> SUFFICES ASSUME ProgressTypeOK, Birthday PROVE BannerIsFair
    OBVIOUS
  <2>1. DaysSince \in Int /\ LocalDays \in Int /\ DaysSince - LocalDays \in {-1, 0, 1}
    BY DaysAreClose
  <2>2. ASSUME NEW length \in Lengths, NEW total \in 0 .. MaxItems, NEW done \in 0 .. total
        PROVE  LET rank(n, age) == Rank[Banner(n, total, length, age)]
               IN /\ DaysSince > length => LocalDays >= length
                  /\ rank(done, DaysSince) <= rank(done, DaysSince + 1)
                  /\ done < total => rank(done + 1, DaysSince) <= rank(done, DaysSince)
                  /\ done = total /\ total > 0 => rank(done, DaysSince) = 0
    <3>1. length \in Nat \ {0} /\ total \in Nat
      BY LengthsAssumption, BoundsAssumption
    <3>2. DaysSince > length => LocalDays >= length
      BY <2>1, <3>1
    <3> QED
      BY <2>1, <3>1, <3>2, VerdictsAreFair
  <2> QED
    BY <2>1, <2>2 DEF BannerIsFair
<1> QED
  BY <1>1, ProgressTypeCorrect, AlwaysBirthday, PTL

-----------------------------------------------------------------------------
(* The events *)

\* Events come in the order of their times, none from before the sprint or from
\* the future.
TimesFit ==
  /\ created <= since /\ since <= now
  /\ \A i \in DOMAIN changes : created <= changes[i].at /\ changes[i].at <= now
  /\ \A i, j \in DOMAIN changes : i < j => changes[i].at <= changes[j].at

\* A phase with an event has a first one.
HasFirst ==
  \A p \in Phases : Entries(p) # {} => \E i \in Entries(p) : \A j \in Entries(p) : i <= j

\* If none was lost, the last event tells the phase; and the sprint went through its
\* phases in order if it never went back from one to the next.
PhasesFit ==
  /\ lost = 0 => phase = IF changes = <<>> THEN 1 ELSE changes[Len(changes)].to
  /\ NeverBack => \A i, j \in DOMAIN changes : i <= j => changes[i].to <= changes[j].to

EventsInv == TimesFit /\ HasFirst /\ PhasesFit

\* SetPhase with its event written.
Logged(p) == changes' = Append(changes, [to |-> p, at |-> now])

LEMMA SetPhaseLogs ==
  ASSUME NEW p \in Phases, SetPhase(p)
  PROVE  (Logged(p) /\ lost' = lost) \/ (changes' = changes /\ lost' = lost + 1)
BY DEF SetPhase, Logged

LEMMA EventTypes ==
  ASSUME ProgressTypeOK
  PROVE  /\ DOMAIN changes = 1 .. Len(changes) /\ Len(changes) \in Nat
         /\ \A i \in DOMAIN changes :
              changes[i].to \in Phases /\ changes[i].to \in Int /\ changes[i].at \in Nat
<1> DEFINE Event == [to : Phases, at : Nat]
<1> HIDE DEF Event
<1>1. changes \in Seq(Event)
  BY DEF ProgressTypeOK, Event
<1>2. /\ DOMAIN changes = 1 .. Len(changes) /\ Len(changes) \in Nat
      /\ \A i \in DOMAIN changes : changes[i] \in Event
  BY <1>1
<1>3. \A e \in Event : e.to \in Phases /\ e.to \in Int /\ e.at \in Nat
  BY DEF Event, Phases
<1> QED
  BY <1>2, <1>3

LEMMA AppendedEvent ==
  ASSUME ProgressTypeOK, NEW p \in Phases, Logged(p)
  PROVE  /\ Len(changes') = Len(changes) + 1 /\ DOMAIN changes' = 1 .. Len(changes) + 1
         /\ DOMAIN changes = 1 .. Len(changes) /\ Len(changes) \in Nat
         /\ \A i \in DOMAIN changes : changes'[i] = changes[i]
         /\ changes'[Len(changes) + 1].to = p /\ changes'[Len(changes) + 1].at = now
         /\ \A q \in Phases : Entries(q)' =
              IF q = p THEN Entries(q) \cup {Len(changes) + 1} ELSE Entries(q)
<1>1. changes \in Seq([to : Phases, at : Nat]) /\ now \in Nat
  BY DEF ProgressTypeOK
<1>2. [to |-> p, at |-> now] \in [to : Phases, at : Nat]
  BY <1>1
<1> DEFINE e == [to |-> p, at |-> now]
<1>3. e.to = p /\ e.at = now
  OBVIOUS
<1> HIDE DEF e
<1>4. changes' = Append(changes, e)
  BY DEF Logged, e
<1>5. /\ Len(changes') = Len(changes) + 1 /\ DOMAIN changes' = 1 .. Len(changes) + 1
      /\ DOMAIN changes = 1 .. Len(changes) /\ Len(changes) \in Nat
      /\ \A i \in DOMAIN changes : changes'[i] = changes[i]
      /\ changes'[Len(changes) + 1] = e
  BY <1>1, <1>2, <1>4 DEF e
<1>6. ASSUME NEW q \in Phases
      PROVE  Entries(q)' = IF q = p THEN Entries(q) \cup {Len(changes) + 1} ELSE Entries(q)
  BY <1>3, <1>5 DEF Entries
<1> QED
  BY <1>3, <1>5, <1>6

\* The phase before the first event is the first phase, and before a new one the phase.
LEMMA PhaseBeforeNext ==
  ASSUME ProgressTypeOK, PhasesFit, NEW p \in Phases, SetPhase(p), lost' = 0
  PROVE  /\ Logged(p) /\ lost = 0 /\ lost' = lost
         /\ \A i \in DOMAIN changes : PhaseBefore(i)' = PhaseBefore(i)
         /\ \A n \in Nat : n = Len(changes) + 1 => PhaseBefore(n)' = phase
<1>1. lost \in Nat
  BY DEF ProgressTypeOK
<1>2. Logged(p) /\ lost = 0 /\ lost' = lost
  BY <1>1, SetPhaseLogs
<1>3. /\ DOMAIN changes = 1 .. Len(changes) /\ Len(changes) \in Nat
      /\ \A i \in DOMAIN changes : changes'[i] = changes[i]
  BY <1>2, AppendedEvent
<1>4. ASSUME NEW i \in DOMAIN changes PROVE PhaseBefore(i)' = PhaseBefore(i)
  <2>1. i # 1 => i - 1 \in DOMAIN changes
    BY <1>3
  <2> QED
    BY <1>3, <2>1 DEF PhaseBefore
<1>5. phase = IF Len(changes) = 0 THEN 1 ELSE changes[Len(changes)].to
  BY <1>2 DEF PhasesFit, ProgressTypeOK
<1>6. ASSUME NEW n \in Nat, n = Len(changes) + 1 PROVE PhaseBefore(n)' = phase
  <2>1. PhaseBefore(n)' = IF n = 1 THEN 1 ELSE changes'[n - 1].to
    BY DEF PhaseBefore
  <2>2. n # 1 => n - 1 \in DOMAIN changes /\ n - 1 = Len(changes)
    BY <1>3, <1>6
  <2> QED
    BY <1>3, <1>5, <1>6, <2>1, <2>2
<1> QED
  BY <1>2, <1>4, <1>6

LEMMA StaysForward ==
  ASSUME ProgressTypeOK, PhasesFit, NEW p \in Phases, SetPhase(p), NeverBack'
  PROVE  /\ NeverBack /\ Logged(p) /\ phase <= p
         /\ OnlyForward' => OnlyForward /\ phase # p
<1>1. /\ Logged(p) /\ lost = 0
      /\ \A i \in DOMAIN changes : PhaseBefore(i)' = PhaseBefore(i)
      /\ \A n \in Nat : n = Len(changes) + 1 => PhaseBefore(n)' = phase
  BY PhaseBeforeNext DEF NeverBack
<1> PICK n \in Nat : n = Len(changes) + 1
  BY EventTypes
<1>2. /\ DOMAIN changes' = 1 .. n /\ DOMAIN changes = 1 .. Len(changes)
      /\ Len(changes) \in Nat
      /\ \A i \in DOMAIN changes : changes'[i] = changes[i]
      /\ changes'[n].to = p
  BY <1>1, AppendedEvent
<1>3. \A i \in DOMAIN changes' : changes'[i].to >= PhaseBefore(i)'
  BY DEF NeverBack
<1>4. phase <= p
  <2>1. n \in DOMAIN changes'
    BY <1>2
  <2>2. changes'[n].to >= PhaseBefore(n)'
    BY <1>3, <2>1
  <2> QED
    BY <1>1, <1>2, <2>2 DEF ProgressTypeOK, Phases
<1>5. ASSUME NEW i \in DOMAIN changes PROVE changes[i].to >= PhaseBefore(i)
  <2>1. i \in DOMAIN changes'
    BY <1>2
  <2>2. changes'[i].to >= PhaseBefore(i)'
    BY <1>3, <2>1
  <2> QED
    BY <1>1, <1>2, <2>2
<1>6. NeverBack
  BY <1>1, <1>5 DEF NeverBack
<1>7. ASSUME OnlyForward' PROVE OnlyForward /\ phase # p
  <2>1. \A i \in DOMAIN changes' : changes'[i].to # PhaseBefore(i)'
    BY <1>7 DEF OnlyForward
  <2>2. ASSUME NEW i \in DOMAIN changes PROVE changes[i].to # PhaseBefore(i)
    <3>1. i \in DOMAIN changes'
      BY <1>2
    <3>2. changes'[i].to # PhaseBefore(i)'
      BY <2>1, <3>1
    <3> QED
      BY <1>1, <1>2, <3>2
  <2>3. n \in DOMAIN changes'
    BY <1>2
  <2>4. changes'[n].to # PhaseBefore(n)'
    BY <2>1, <2>3
  <2> QED
    BY <1>1, <1>2, <1>6, <2>2, <2>4 DEF OnlyForward
<1> QED
  BY <1>1, <1>4, <1>6, <1>7

LEMMA StepTimesFit ==
  ASSUME ProgressTypeOK, TimesFit, [ProgressNext]_progress
  PROVE  TimesFit'
<1>1. CASE Tick
  <2>1. UNCHANGED <<created, since, changes>> /\ now' = now + 1 /\ now \in Nat /\ since \in Nat
    BY <1>1 DEF Tick, birth, ProgressTypeOK
  <2>2. \A i \in DOMAIN changes : changes[i].at \in Nat
    BY EventTypes
  <2>3. \A i \in DOMAIN changes : changes[i].at <= now'
    BY <2>1, <2>2 DEF TimesFit
  <2>4. since' <= now'
    BY <2>1 DEF TimesFit
  <2> QED
    BY <2>1, <2>3, <2>4 DEF TimesFit
<1>2. ASSUME NEW p \in Phases, SetPhase(p) PROVE TimesFit'
  <2>1. created' = created /\ now' = now /\ since' \in {since, now}
    BY <1>2 DEF SetPhase, birth
  <2>2. created' <= since' /\ since' <= now'
    BY <2>1 DEF TimesFit, ProgressTypeOK
  <2>3. CASE changes' = changes
    BY <2>1, <2>2, <2>3 DEF TimesFit
  <2>4. CASE Logged(p)
    <3> DEFINE n == Len(changes) + 1
    <3>1. /\ DOMAIN changes' = 1 .. n /\ DOMAIN changes = 1 .. Len(changes) /\ Len(changes) \in Nat
          /\ \A i \in DOMAIN changes : changes'[i] = changes[i]
          /\ changes'[n].at = now
      BY <2>4, AppendedEvent
    <3>2. \A i \in DOMAIN changes' : i \in DOMAIN changes \/ i = n
      BY <3>1
    <3>3. \A i \in DOMAIN changes : changes[i].at \in Nat
      BY EventTypes
    <3>4. ASSUME NEW i \in DOMAIN changes' PROVE created' <= changes'[i].at /\ changes'[i].at <= now'
      BY <2>1, <3>1, <3>2 DEF TimesFit, ProgressTypeOK
    <3>5. ASSUME NEW i \in DOMAIN changes', NEW j \in DOMAIN changes', i < j
          PROVE  changes'[i].at <= changes'[j].at
      <4>1. i \in DOMAIN changes
        BY <3>1, <3>5
      <4>2. CASE j \in DOMAIN changes
        BY <3>1, <3>5, <4>1, <4>2 DEF TimesFit
      <4>3. CASE j = n
        BY <3>1, <4>1, <4>3 DEF TimesFit
      <4> QED
        BY <3>2, <4>2, <4>3
    <3> QED
      BY <2>2, <3>4, <3>5 DEF TimesFit
  <2> QED
    BY <1>2, <2>3, <2>4, SetPhaseLogs
<1>3. CASE UNCHANGED <<now, created, since, changes>>
  BY <1>3 DEF TimesFit
<1>4. (\E s \in Statuses : SetStatus(s)) \/ (\E o \in zone : SetClock(o)) \/ UNCHANGED progress
        => UNCHANGED <<now, created, since, changes>>
  BY DEF SetStatus, SetClock, progress, birth
<1> QED
  BY <1>1, <1>2, <1>3, <1>4 DEF ProgressNext

LEMMA StepHasFirst ==
  ASSUME ProgressTypeOK, HasFirst, [ProgressNext]_progress
  PROVE  HasFirst'
<1>1. CASE changes' = changes
  BY <1>1 DEF HasFirst, Entries
<1>2. ASSUME NEW p \in Phases, Logged(p) PROVE HasFirst'
  <2>1. SUFFICES ASSUME NEW q \in Phases, Entries(q)' # {}
                 PROVE  \E i \in Entries(q)' : \A j \in Entries(q)' : i <= j
    BY DEF HasFirst
  <2>2. Entries(q)' = IF q = p THEN Entries(q) \cup {Len(changes) + 1} ELSE Entries(q)
    BY <1>2, AppendedEvent
  <2>3. Len(changes) \in Nat /\ \A i \in Entries(q) : i \in 1 .. Len(changes)
    BY <1>2, AppendedEvent DEF Entries
  <2>4. CASE Entries(q) = {}
    BY <2>1, <2>2, <2>3, <2>4
  <2>5. CASE Entries(q) # {}
    <3>1. PICK i \in Entries(q) : \A j \in Entries(q) : i <= j
      BY <2>5 DEF HasFirst
    <3>2. i \in Entries(q)' /\ \A j \in Entries(q)' : i <= j
      BY <2>2, <2>3, <3>1
    <3> QED
      BY <3>2
  <2> QED
    BY <2>4, <2>5
<1> QED
  BY <1>1, <1>2, SetPhaseLogs DEF ProgressNext, Tick, SetClock, SetStatus, progress, birth

LEMMA StepPhasesFit ==
  ASSUME ProgressTypeOK, PhasesFit, [ProgressNext]_progress
  PROVE  PhasesFit'
<1>1. CASE UNCHANGED <<changes, lost, phase>>
  BY <1>1 DEF PhasesFit, NeverBack, PhaseBefore
<1>2. ASSUME NEW p \in Phases, SetPhase(p) PROVE PhasesFit'
  <2>1. CASE lost' # 0
    BY <2>1 DEF PhasesFit, NeverBack
  <2>2. CASE lost' = 0
    <3> DEFINE n == Len(changes) + 1
    <3>1. Logged(p) /\ lost = 0
      BY <1>2, <2>2, PhaseBeforeNext
    <3>2. /\ DOMAIN changes' = 1 .. n /\ DOMAIN changes = 1 .. Len(changes) /\ Len(changes) \in Nat
          /\ \A i \in DOMAIN changes : changes'[i] = changes[i]
          /\ changes'[n].to = p /\ Len(changes') = n
      BY <3>1, AppendedEvent
    <3>3. phase' = p /\ changes' # <<>>
      BY <1>2, <3>2 DEF SetPhase
    <3>4. ASSUME NeverBack', NEW i \in DOMAIN changes', NEW j \in DOMAIN changes', i <= j
          PROVE  changes'[i].to <= changes'[j].to
      <4>1. NeverBack /\ phase <= p
        BY <1>2, <3>4, StaysForward
      <4>2. \A k \in DOMAIN changes : changes[k].to <= changes[Len(changes)].to
        BY <3>2, <4>1 DEF PhasesFit
      <4>3. changes # <<>> => phase = changes[Len(changes)].to
        BY <3>1 DEF PhasesFit
      <4>4. \A k \in DOMAIN changes : changes[k].to \in Int
        BY EventTypes
      <4>5. \A k \in DOMAIN changes : changes[k].to <= p
        <5>1. ASSUME NEW k \in DOMAIN changes PROVE changes[k].to <= p
          <6>1. changes # <<>> /\ Len(changes) \in DOMAIN changes
            BY <3>2
          <6> QED
            BY <4>1, <4>2, <4>3, <4>4, <6>1 DEF Phases
        <5> QED
          BY <5>1
      <4>6. CASE j \in DOMAIN changes
        BY <3>2, <3>4, <4>1, <4>6 DEF PhasesFit
      <4>7. CASE j = n /\ i \in DOMAIN changes
        BY <3>2, <4>5, <4>7
      <4>8. CASE j = n /\ i = n
        BY <3>2, <4>8 DEF Phases
      <4> QED
        BY <3>2, <3>4, <4>6, <4>7, <4>8
    <3> QED
      BY <3>2, <3>3, <3>4 DEF PhasesFit
  <2> QED
    BY <2>1, <2>2
<1> QED
  BY <1>1, <1>2 DEF ProgressNext, Tick, SetClock, SetStatus, progress, birth

LEMMA AlwaysEventsInv == ProgressSpec => [](ProgressTypeOK /\ EventsInv)
<1>1. ProgressInit => EventsInv
  <2> SUFFICES ASSUME ProgressInit PROVE EventsInv
    OBVIOUS
  <2>1. DOMAIN changes = {} /\ created = now /\ since = now /\ now \in Int
    BY ClockAssumption DEF ProgressInit
  <2>2. TimesFit
    BY <2>1 DEF TimesFit
  <2>3. HasFirst
    BY <2>1 DEF HasFirst, Entries
  <2>4. PhasesFit
    BY <2>1 DEF ProgressInit, PhasesFit
  <2> QED
    BY <2>2, <2>3, <2>4 DEF EventsInv
<1>2. ProgressTypeOK /\ EventsInv /\ [ProgressNext]_progress => EventsInv'
  BY StepTimesFit, StepHasFirst, StepPhasesFit DEF EventsInv
<1> QED
  BY <1>1, <1>2, ProgressTypeCorrect, PTL DEF ProgressSpec

-----------------------------------------------------------------------------
(* When phases start *)

\* A phase starts with its first event, the first with the sprint.
LEMMA Starts ==
  ASSUME ProgressTypeOK, EventsInv, NEW p \in Phases
  PROVE  /\ PhaseStart(p) # Never =>
              PhaseStart(p) \in Nat /\ created <= PhaseStart(p) /\ PhaseStart(p) <= now
         /\ p = 1 => PhaseStart(p) = created /\ PhaseStart(p) # Never
         /\ p # 1 => /\ PhaseStart(p) = Never <=> Entries(p) = {}
                     /\ Entries(p) # {} =>
                          \E i \in Entries(p) : /\ PhaseStart(p) = changes[i].at
                                                /\ \A j \in Entries(p) : i <= j
<1>1. created \in Nat /\ now \in Nat /\ created <= now /\ created # Never
  BY NeverAssumption DEF ProgressTypeOK
<1>2. CASE p = 1
  BY <1>1, <1>2 DEF PhaseStart
<1>3. CASE p # 1 /\ Entries(p) = {}
  BY <1>3 DEF PhaseStart
<1>4. CASE p # 1 /\ Entries(p) # {}
  <2>1. PICK i \in Entries(p) : \A j \in Entries(p) : i <= j
    BY <1>4 DEF EventsInv, HasFirst
  <2>2. Entries(p) \in SUBSET Int
    BY EventTypes DEF Entries
  <2>3. Min(Entries(p)) = i
    BY <2>1, <2>2, MinIs
  <2>4. PhaseStart(p) = changes[i].at /\ i \in DOMAIN changes
    BY <1>4, <2>1, <2>3 DEF PhaseStart, Entries
  <2>5. PhaseStart(p) \in Nat /\ created <= PhaseStart(p) /\ PhaseStart(p) <= now
    BY <2>4, EventTypes DEF EventsInv, TimesFit
  <2> QED
    BY <1>4, <2>1, <2>4, <2>5, NeverAssumption
<1> QED
  BY <1>2, <1>3, <1>4

LEMMA AppendedStart ==
  ASSUME ProgressTypeOK, EventsInv, EventsInv', ProgressTypeOK',
         NEW p \in Phases, Logged(p), created' = created, NEW q \in Phases
  PROVE  PhaseStart(q)' = IF q = p /\ q # 1 /\ Entries(q) = {} THEN now ELSE PhaseStart(q)
<1> DEFINE n == Len(changes) + 1
<1>1. /\ Entries(q)' = IF q = p THEN Entries(q) \cup {n} ELSE Entries(q)
      /\ Len(changes) \in Nat /\ DOMAIN changes = 1 .. Len(changes)
      /\ \A i \in DOMAIN changes : changes'[i] = changes[i]
      /\ changes'[n].at = now
  BY AppendedEvent
<1>2. CASE q = 1
  BY <1>2 DEF PhaseStart
<1>3. CASE q # 1 /\ Entries(q) = {} /\ q = p
  <2>1. Entries(q)' = {n}
    BY <1>1, <1>3
  <2>2. Min({n}) = n
    <3>1. {n} \in SUBSET Int /\ n \in {n} /\ \A y \in {n} : n <= y
      BY <1>1
    <3> QED
      BY <3>1, MinIs
  <2> QED
    BY <1>1, <1>3, <2>1, <2>2 DEF PhaseStart
<1>4. CASE q # 1 /\ Entries(q) = {} /\ q # p
  BY <1>1, <1>4 DEF PhaseStart
<1>5. CASE q # 1 /\ Entries(q) # {}
  <2>1. PICK i \in Entries(q) : PhaseStart(q) = changes[i].at /\ \A j \in Entries(q) : i <= j
    BY <1>5, Starts
  <2>2. i \in DOMAIN changes /\ \A j \in Entries(q) : j \in 1 .. Len(changes)
    BY <1>1, <2>1 DEF Entries
  <2>3. i \in Entries(q)' /\ \A j \in Entries(q)' : i <= j
    BY <1>1, <2>1, <2>2
  <2>4. Entries(q)' \in SUBSET Int
    BY <1>1, <2>2
  <2>5. Min(Entries(q)') = i
    BY <2>3, <2>4, MinIs
  <2>6. PhaseStart(q)' = changes'[i].at
    BY <1>5, <2>3, <2>5 DEF PhaseStart
  <2> QED
    BY <1>1, <1>5, <2>1, <2>2, <2>6
<1> QED
  BY <1>2, <1>3, <1>4, <1>5

\* If no event was lost, the phase the sprint is in has been entered.
LEMMA PhaseIsEntered ==
  ASSUME ProgressTypeOK, EventsInv, lost = 0
  PROVE  Entered(phase) /\ phase \in Phases /\ phase \in Int
<1>1. phase \in Phases /\ phase \in Int
  BY DEF ProgressTypeOK, Phases
<1>2. phase # 1 => Entries(phase) # {}
  <2>1. phase # 1 => changes # <<>> /\ changes[Len(changes)].to = phase
    BY DEF EventsInv, PhasesFit
  <2>2. changes # <<>> => Len(changes) \in DOMAIN changes
    BY EventTypes DEF ProgressTypeOK
  <2> QED
    BY <2>1, <2>2 DEF Entries
<1>3. PhaseStart(phase) # Never
  BY <1>1, <1>2, Starts
<1> QED
  BY <1>1, <1>3 DEF Entered

\* A sprint that never went back has entered no phase ahead, and its phases in order.
LEMMA StartsInOrder ==
  ASSUME ProgressTypeOK, EventsInv, NeverBack, NEW p \in Phases, PhaseStart(p) # Never
  PROVE  /\ p <= phase
         /\ \A q \in Phases : p < q /\ PhaseStart(q) # Never => PhaseStart(p) <= PhaseStart(q)
<1>1. \A i, j \in DOMAIN changes : i <= j => changes[i].to <= changes[j].to
  BY DEF EventsInv, PhasesFit
<1>2. phase \in 1 .. 4 /\ p \in 1 .. 4
  BY DEF ProgressTypeOK, Phases
<1>3. ASSUME NEW q \in Phases, q # 1, PhaseStart(q) # Never
      PROVE  \E i \in DOMAIN changes : /\ changes[i].to = q /\ PhaseStart(q) = changes[i].at
                                       /\ \A j \in Entries(q) : i <= j
  <2>1. PICK i \in Entries(q) : PhaseStart(q) = changes[i].at /\ \A j \in Entries(q) : i <= j
    BY <1>3, Starts
  <2> QED
    BY <2>1 DEF Entries
<1>4. p <= phase
  <2>1. CASE p = 1
    BY <1>2, <2>1
  <2>2. CASE p # 1
    <3>1. PICK i \in DOMAIN changes : changes[i].to = p
      BY <1>3, <2>2
    <3>2. changes # <<>> /\ Len(changes) \in DOMAIN changes /\ i <= Len(changes)
      BY <3>1, EventTypes
    <3>3. phase = changes[Len(changes)].to
      BY <3>2 DEF EventsInv, PhasesFit, NeverBack
    <3> QED
      BY <1>1, <3>1, <3>2, <3>3
  <2> QED
    BY <2>1, <2>2
<1>5. ASSUME NEW q \in Phases, p < q, PhaseStart(q) # Never PROVE PhaseStart(p) <= PhaseStart(q)
  <2>1. q # 1 /\ q \in Int
    BY <1>2, <1>5 DEF Phases
  <2>2. CASE p = 1
    BY <1>5, <2>2, Starts
  <2>3. CASE p # 1
    <3>1. PICK i \in DOMAIN changes : changes[i].to = p /\ PhaseStart(p) = changes[i].at
      BY <1>3, <2>3
    <3>2. PICK j \in DOMAIN changes : changes[j].to = q /\ PhaseStart(q) = changes[j].at
      BY <1>3, <1>5, <2>1
    <3>3. i \in Int /\ j \in Int
      BY EventTypes
    <3>4. ~(j <= i)
      BY <1>1, <1>2, <1>5, <2>1, <3>1, <3>2
    <3> QED
      BY <3>1, <3>2, <3>3, <3>4 DEF EventsInv, TimesFit
  <2> QED
    BY <2>2, <2>3
<1> QED
  BY <1>4, <1>5

-----------------------------------------------------------------------------
(* The trace *)

LEMMA TraceEndIsInt ==
  ASSUME ProgressTypeOK
  PROVE  TraceEnd \in Int
<1>1. ended # Never => DayEnd \in Int
  BY ClockAssumption DEF ProgressTypeOK, DayEnd
<1> QED
  BY <1>1 DEF TraceEnd, ProgressTypeOK

\* The end of a span before it is kept from lying before its start.
NextStart(p) == PhaseStart(Min(Later(p)))

LEMMA LaterStart ==
  ASSUME ProgressTypeOK, EventsInv, NEW p \in Phases, Later(p) # {}
  PROVE  /\ Min(Later(p)) \in Phases /\ p < Min(Later(p)) /\ Entered(Min(Later(p)))
         /\ \A q \in Phases : p < q /\ Entered(q) => Min(Later(p)) <= q
         /\ NextStart(p) \in Nat
<1>1. Later(p) \in SUBSET Phases
  BY DEF Later
<1>2. Min(Later(p)) \in Later(p) /\ \A q \in Later(p) : Min(Later(p)) <= q
  BY <1>1, MinOfPhases
<1>3. Min(Later(p)) \in Phases /\ p < Min(Later(p)) /\ Entered(Min(Later(p)))
  BY <1>2 DEF Later
<1> QED
  BY <1>2, <1>3, Starts DEF Later, Entered, NextStart

\* No span is negative, and it begins where its phase does.
LEMMA SpansFit ==
  ASSUME ProgressTypeOK, EventsInv, NEW p \in Phases
  PROVE  /\ ~Entered(p) => Duration(p) = 0
         /\ Duration(p) \in Nat
         /\ Entered(p) =>
              LET end == IF Later(p) = {} THEN TraceEnd ELSE NextStart(p)
              IN Duration(p) = (IF PhaseStart(p) >= end THEN PhaseStart(p) ELSE end) - PhaseStart(p)
<1>1. CASE ~Entered(p)
  BY <1>1 DEF Duration
<1>2. CASE Entered(p)
  <2> DEFINE end == IF Later(p) = {} THEN TraceEnd ELSE NextStart(p)
  <2>1. PhaseStart(p) \in Nat
    BY <1>2, Starts DEF Entered
  <2>2. end \in Int
    BY TraceEndIsInt, LaterStart
  <2>3. SpanEnd(p) = Max({PhaseStart(p), end})
    BY DEF SpanEnd, NextStart
  <2> HIDE DEF end
  <2>4. SpanEnd(p) = IF PhaseStart(p) >= end THEN PhaseStart(p) ELSE end
    BY <2>1, <2>2, <2>3, MaxOfTwo
  <2> QED
    BY <1>2, <2>1, <2>2, <2>4 DEF Duration, end
<1> QED
  BY <1>1, <1>2

\* The last span of a sprint that never went back is of the phase it is in, and each
\* other ends where the next starts.
LEMMA SpansInOrder ==
  ASSUME ProgressTypeOK, EventsInv, NeverBack, NEW p \in Phases, Entered(p)
  PROVE  /\ PhaseStart(p) \in Nat /\ p <= phase
         /\ Later(p) = {} <=> p = phase
         /\ Later(p) # {} => Duration(p) = NextStart(p) - PhaseStart(p) /\ NextStart(p) \in Nat
<1>1. PhaseStart(p) \in Nat /\ PhaseStart(p) # Never
  BY Starts DEF Entered
<1>2. p <= phase /\ p \in Int
  BY <1>1, StartsInOrder DEF Phases
<1>3. Entered(phase) /\ phase \in Phases /\ phase \in Int
  BY PhaseIsEntered DEF NeverBack
<1>4. p # phase => phase \in Later(p)
  BY <1>2, <1>3 DEF Later
<1>5. p = phase => Later(p) = {}
  BY <1>3 DEF Later, Entered, Phases
<1>6. ASSUME Later(p) # {} PROVE Duration(p) = NextStart(p) - PhaseStart(p) /\ NextStart(p) \in Nat
  <2>1. NextStart(p) \in Nat /\ Entered(Min(Later(p))) /\ p < Min(Later(p))
        /\ Min(Later(p)) \in Phases
    BY <1>6, LaterStart
  <2>2. PhaseStart(p) <= NextStart(p)
    BY <1>1, <2>1, StartsInOrder DEF Entered, NextStart
  <2> QED
    BY <1>1, <1>6, <2>1, <2>2, SpansFit
<1> QED
  BY <1>1, <1>2, <1>4, <1>5, <1>6

\* The spans from an entered phase on reach from its start to the end.
LEMMA SpansLeaveNoGap ==
  ASSUME ProgressTypeOK, EventsInv, NeverBack
  PROVE  created + TotalDuration =
           IF TraceEnd >= PhaseStart(phase) THEN TraceEnd ELSE PhaseStart(phase)
<1> DEFINE end == IF TraceEnd >= PhaseStart(phase) THEN TraceEnd ELSE PhaseStart(phase)
<1>1. Entered(phase) /\ phase \in Phases /\ TraceEnd \in Int
  BY PhaseIsEntered, TraceEndIsInt DEF NeverBack
<1>2. PhaseStart(phase) \in Nat /\ Later(phase) = {}
  BY <1>1, SpansInOrder
<1>3. Duration(phase) = end - PhaseStart(phase) /\ end \in Int
  BY <1>1, <1>2, SpansFit
<1> HIDE DEF end
<1>4. \A p \in Phases : /\ ~Entered(p) => Duration(p) = 0
                        /\ Entered(p) /\ p # phase => Duration(p) = NextStart(p) - PhaseStart(p)
                        /\ Entered(p) => PhaseStart(p) \in Nat /\ p <= phase
                        /\ Duration(p) \in Nat
  BY SpansFit, SpansInOrder
<1>5. ASSUME NEW p \in Phases, Entered(p), p # phase
      PROVE  \E q \in Phases : /\ p < q /\ Entered(q) /\ NextStart(p) = PhaseStart(q)
                               /\ \A r \in Phases : p < r /\ r < q => ~Entered(r)
  <2>1. Later(p) # {}
    BY <1>5, SpansInOrder
  <2>2. /\ Min(Later(p)) \in Phases /\ p < Min(Later(p)) /\ Entered(Min(Later(p)))
        /\ \A q \in Phases : p < q /\ Entered(q) => Min(Later(p)) <= q
    BY <2>1, LaterStart
  <2>3. \A r \in Phases : r < Min(Later(p)) => ~(Min(Later(p)) <= r)
    BY <2>2 DEF Phases
  <2> QED
    BY <2>2, <2>3 DEF NextStart
<1>6. Entered(4) => Duration(4) = end - PhaseStart(4)
  BY <1>1, <1>3, <1>4 DEF Phases
<1>7. Entered(3) => Duration(3) + Duration(4) = end - PhaseStart(3)
  <2>1. CASE Entered(3) /\ phase = 3
    BY <1>3, <1>4, <2>1 DEF Phases
  <2>2. CASE Entered(3) /\ phase # 3
    <3>1. PICK q \in Phases : 3 < q /\ Entered(q) /\ NextStart(3) = PhaseStart(q)
      BY <1>5, <2>2 DEF Phases
    <3>2. q = 4
      BY <3>1 DEF Phases
    <3> QED
      BY <1>3, <1>4, <1>6, <2>2, <3>1, <3>2 DEF Phases
  <2> QED
    BY <2>1, <2>2
<1>8. Entered(2) => Duration(2) + Duration(3) + Duration(4) = end - PhaseStart(2)
  <2>1. CASE Entered(2) /\ phase = 2
    BY <1>3, <1>4, <2>1 DEF Phases
  <2>2. CASE Entered(2) /\ phase # 2
    <3>1. PICK q \in Phases : /\ 2 < q /\ Entered(q) /\ NextStart(2) = PhaseStart(q)
                              /\ \A r \in Phases : 2 < r /\ r < q => ~Entered(r)
      BY <1>5, <2>2 DEF Phases
    <3>2. q = 3 \/ (q = 4 /\ ~Entered(3))
      BY <3>1 DEF Phases
    <3>3. Duration(2) = PhaseStart(q) - PhaseStart(2) /\ PhaseStart(q) \in Nat /\ PhaseStart(2) \in Nat
      BY <1>4, <2>2, <3>1 DEF Phases
    <3>4. Duration(3) + Duration(4) = end - PhaseStart(q)
      BY <1>3, <1>4, <1>6, <1>7, <3>1, <3>2 DEF Phases
    <3>5. Duration(2) \in Nat /\ Duration(3) \in Nat /\ Duration(4) \in Nat
      BY <1>4 DEF Phases
    <3> QED
      BY <1>3, <3>3, <3>4, <3>5
  <2> QED
    BY <2>1, <2>2
<1>9. Duration(1) + Duration(2) + Duration(3) + Duration(4) = end - created
  <2>1. Entered(1) /\ PhaseStart(1) = created /\ created \in Nat
    BY Starts DEF Entered, Phases, ProgressTypeOK
  <2>2. CASE phase = 1
    BY <1>3, <1>4, <2>1, <2>2 DEF Phases
  <2>3. CASE phase # 1
    <3>1. PICK q \in Phases : /\ 1 < q /\ Entered(q) /\ NextStart(1) = PhaseStart(q)
                              /\ \A r \in Phases : 1 < r /\ r < q => ~Entered(r)
      BY <1>5, <2>1, <2>3 DEF Phases
    <3>2. q = 2 \/ (q = 3 /\ ~Entered(2)) \/ (q = 4 /\ ~Entered(2) /\ ~Entered(3))
      BY <3>1 DEF Phases
    <3>3. Duration(1) = PhaseStart(q) - created /\ PhaseStart(q) \in Nat
      BY <1>4, <2>1, <2>3, <3>1 DEF Phases
    <3>4. Duration(2) + Duration(3) + Duration(4) = end - PhaseStart(q)
      BY <1>3, <1>4, <1>6, <1>7, <1>8, <3>1, <3>2 DEF Phases
    <3>5. \A p \in {1, 2, 3, 4} : Duration(p) \in Nat
      BY <1>4 DEF Phases
    <3> QED
      BY <1>3, <2>1, <3>3, <3>4, <3>5
  <2> QED
    BY <2>2, <2>3
<1>10. created \in Nat /\ \A p \in {1, 2, 3, 4} : Duration(p) \in Nat
  BY <1>4 DEF Phases, ProgressTypeOK
<1> QED
  BY <1>3, <1>9, <1>10 DEF TotalDuration, end

(***************************************************************************)
(* However a sprint jumped, finished or lost its events, its trace         *)
(* (service/traces.go) has no negative span and none for a phase ahead;    *)
(* the spans of one that never went back cover its time without a gap.     *)
(***************************************************************************)
THEOREM AlwaysTraceFits == ProgressSpec => []TraceFits
<1>1. ProgressTypeOK /\ EventsInv => TraceFits
  <2> SUFFICES ASSUME ProgressTypeOK, EventsInv PROVE TraceFits
    OBVIOUS
  <2>1. ASSUME NEW p \in Phases PROVE Duration(p) >= 0 /\ (p > phase => Duration(p) = 0)
    <3>1. p > phase => ~Entered(p)
      BY DEF Entered, Phases, ProgressTypeOK
    <3> QED
      BY <3>1, SpansFit
  <2>2. lost = 0 => Entered(phase)
    BY PhaseIsEntered
  <2>3. ASSUME NeverBack PROVE created + TotalDuration = Max({TraceEnd, PhaseStart(phase)})
    <3>1. TraceEnd \in Int /\ PhaseStart(phase) \in Int
      BY <2>3, TraceEndIsInt, PhaseIsEntered, SpansInOrder DEF NeverBack
    <3> QED
      BY <2>3, <3>1, MaxOfTwo, SpansLeaveNoGap
  <2> QED
    BY <2>1, <2>2, <2>3 DEF TraceFits
<1> QED
  BY <1>1, AlwaysEventsInv, PTL

\* A step that does not go back starts no phase before the one the sprint is in, and
\* starts none again.
LEMMA StartsStand ==
  ASSUME ProgressTypeOK, EventsInv, ProgressTypeOK', EventsInv', [ProgressNext]_progress,
         phase' >= phase, NEW q \in Phases
  PROVE  PhaseStart(q) # Never \/ q < phase => PhaseStart(q)' = PhaseStart(q)
<1>1. CASE UNCHANGED <<created, changes>>
  BY <1>1 DEF PhaseStart, Entries
<1>2. ASSUME NEW p \in Phases, SetPhase(p), Logged(p)
      PROVE  PhaseStart(q) # Never \/ q < phase => PhaseStart(q)' = PhaseStart(q)
  <2>1. created' = created /\ phase' = p
    BY <1>2 DEF SetPhase, birth
  <2>2. PhaseStart(q)' = IF q = p /\ q # 1 /\ Entries(q) = {} THEN now ELSE PhaseStart(q)
    BY <1>2, <2>1, AppendedStart
  <2>3. q < phase => q # p
    BY <2>1 DEF ProgressTypeOK, Phases
  <2>4. q # 1 /\ PhaseStart(q) # Never => Entries(q) # {}
    BY Starts
  <2> QED
    BY <2>2, <2>3, <2>4
<1>3. ASSUME NEW p \in Phases, SetPhase(p), changes' = changes PROVE UNCHANGED <<created, changes>>
  BY <1>3 DEF SetPhase, birth
<1> QED
  BY <1>1, <1>2, <1>3, SetPhaseLogs
  DEF ProgressNext, Tick, SetClock, SetStatus, progress, birth

\* A span that is followed by one of phase m ends where that starts, if not before it
\* starts itself.
FollowedBy(p, m) ==
  /\ p < m /\ Entered(m) /\ \A q \in Phases : p < q /\ Entered(q) => m <= q
  /\ Entered(p) => Duration(p) = (IF PhaseStart(p) >= PhaseStart(m)
                                  THEN PhaseStart(p) ELSE PhaseStart(m)) - PhaseStart(p)

SpansFollow ==
  \A p \in Phases : Later(p) # {} => \E m \in Phases : FollowedBy(p, m)

LEMMA AlwaysSpansFollow == ProgressSpec => []SpansFollow
<1>1. ProgressTypeOK /\ EventsInv => SpansFollow
  <2> SUFFICES ASSUME ProgressTypeOK, EventsInv, NEW p \in Phases, Later(p) # {}
               PROVE  \E m \in Phases : FollowedBy(p, m)
    BY DEF SpansFollow
  <2>1. PICK m \in Phases : m = Min(Later(p))
    BY LaterStart
  <2>2. p < m /\ Entered(m) /\ \A q \in Phases : p < q /\ Entered(q) => m <= q
    BY <2>1, LaterStart
  <2>3. NextStart(p) = PhaseStart(m)
    BY <2>1 DEF NextStart
  <2>4. Entered(p) => Duration(p) = (IF PhaseStart(p) >= NextStart(p)
                                     THEN PhaseStart(p) ELSE NextStart(p)) - PhaseStart(p)
    BY SpansFit
  <2> QED
    BY <2>2, <2>3, <2>4 DEF FollowedBy
<1> QED
  BY <1>1, AlwaysEventsInv, PTL

(***************************************************************************)
(* What a sprint has left behind stands (service/traces.go): a span that   *)
(* another one follows keeps its length, however phases are skipped, set   *)
(* again or lost from the log, until the sprint goes back.                 *)
(***************************************************************************)
THEOREM AlwaysPastStands == ProgressSpec => PastStands
<1> DEFINE Inv == ProgressTypeOK /\ EventsInv /\ SpansFollow
<1>1. ASSUME Inv, Inv', [ProgressNext]_progress, phase' >= phase, NEW p \in Phases, Later(p) # {}
      PROVE  Duration(p)' = Duration(p)
  <2>1. PICK m \in Phases : FollowedBy(p, m)
    BY <1>1 DEF SpansFollow
  <2>2. p < m /\ Entered(m) /\ \A q \in Phases : p < q /\ Entered(q) => m <= q
    BY <2>1 DEF FollowedBy
  <2>3. /\ phase \in 1 .. 4 /\ phase' \in 1 .. 4 /\ p \in 1 .. 4 /\ m \in 1 .. 4
        /\ \A q \in Phases : q \in 1 .. 4
    BY <1>1 DEF ProgressTypeOK, Phases
  <2>4. m <= phase /\ PhaseStart(m) # Never
    BY <2>2 DEF Entered
  <2>5. ASSUME NEW q \in Phases, q < m
        PROVE  PhaseStart(q)' = PhaseStart(q) /\ (Entered(q)' <=> Entered(q))
    <3>1. q < phase /\ q <= phase'
      BY <1>1, <2>3, <2>4, <2>5
    <3>2. PhaseStart(q)' = PhaseStart(q)
      BY <1>1, <3>1, StartsStand
    <3> QED
      BY <2>3, <3>1, <3>2 DEF Entered
  <2>6. PhaseStart(m)' = PhaseStart(m) /\ Entered(m)'
    <3>1. PhaseStart(m)' = PhaseStart(m)
      BY <1>1, <2>4, StartsStand
    <3> QED
      BY <1>1, <2>3, <2>4, <3>1 DEF Entered
  <2>7. Later(p)' # {}
    BY <2>2, <2>6 DEF Later
  <2>8. PICK k \in Phases : FollowedBy(p, k)'
    BY <1>1, <2>7 DEF SpansFollow
  <2>9. k = m
    <3>1. p < k /\ Entered(k)' /\ \A q \in Phases : p < q /\ Entered(q)' => k <= q
      BY <2>8 DEF FollowedBy
    <3>2. k <= m
      BY <2>2, <2>6, <3>1
    <3>3. ~(k < m)
      BY <2>2, <2>3, <2>5, <3>1
    <3> QED
      BY <2>3, <3>2, <3>3
  <2>10. PhaseStart(p)' = PhaseStart(p) /\ (Entered(p)' <=> Entered(p))
    BY <2>2, <2>5
  <2>11. CASE Entered(p)
    <3>1. Duration(p) = (IF PhaseStart(p) >= PhaseStart(m)
                         THEN PhaseStart(p) ELSE PhaseStart(m)) - PhaseStart(p)
      BY <2>1, <2>11 DEF FollowedBy
    <3>2. Duration(p)' = (IF PhaseStart(p)' >= PhaseStart(m)'
                          THEN PhaseStart(p)' ELSE PhaseStart(m)') - PhaseStart(p)'
      BY <2>8, <2>9, <2>10, <2>11 DEF FollowedBy
    <3> QED
      BY <2>6, <2>10, <3>1, <3>2
  <2>12. CASE ~Entered(p)
    BY <2>10, <2>12 DEF Duration
  <2> QED
    BY <2>11, <2>12
<1>2. Inv /\ Inv' /\ [ProgressNext]_progress =>
        [phase' >= phase => \A p \in Phases : Later(p) # {} => Duration(p)' = Duration(p)]_progress
  BY <1>1
<1> QED
  BY <1>2, AlwaysEventsInv, AlwaysSpansFollow, PTL DEF ProgressSpec, PastStands

-----------------------------------------------------------------------------
(* What happened *)

\* The time a phase has taken is that from its start to the start of the next one
\* entered, or until now; uptime panel and trace know when the phase began.
TimeTaken ==
  NeverBack =>
    /\ spent[phase] = now - PhaseStart(phase)
    /\ \A p \in Phases : ~Entered(p) => spent[p] = 0
    /\ \A p, q \in Phases :
         /\ p < q /\ Entered(p) /\ Entered(q)
         /\ \A r \in Phases : p < r /\ r < q => ~Entered(r)
         => spent[p] = PhaseStart(q) - PhaseStart(p)

Begun == OnlyForward => UptimePhaseStart = since /\ PhaseStart(phase) = since

\* An event of a phase ahead is its first, and starts it now.
LEMMA MovesForward ==
  ASSUME ProgressTypeOK, EventsInv, ProgressTypeOK', EventsInv',
         NEW p \in Phases, SetPhase(p), NeverBack', phase < p
  PROVE  /\ PhaseStart(p)' = now /\ ~Entered(p) /\ Entered(p)'
         /\ \A q \in Phases \ {p} : PhaseStart(q)' = PhaseStart(q) /\ (Entered(q)' <=> Entered(q))
<1>1. NeverBack /\ Logged(p) /\ phase' = p /\ created' = created
  BY StaysForward DEF SetPhase, birth, EventsInv
<1>2. phase \in 1 .. 4 /\ p \in 1 .. 4 /\ now # Never
  BY NeverAssumption DEF ProgressTypeOK, Phases
<1>3. PhaseStart(p) = Never
  BY <1>1, <1>2, StartsInOrder
<1>4. p # 1 /\ Entries(p) = {}
  BY <1>3, Starts
<1>5. PhaseStart(p)' = now /\ \A q \in Phases \ {p} : PhaseStart(q)' = PhaseStart(q)
  BY <1>1, <1>4, AppendedStart
<1>6. ASSUME NEW q \in Phases \ {p} PROVE Entered(q)' <=> Entered(q)
  <2>1. q \in 1 .. 4 /\ (PhaseStart(q) # Never => q <= phase)
    BY <1>1, StartsInOrder DEF Phases
  <2>2. Entered(q)' <=> PhaseStart(q)' # Never /\ q <= phase'
    BY DEF Entered
  <2> QED
    BY <1>1, <1>2, <1>5, <2>1, <2>2 DEF Entered
<1>7. ~Entered(p) /\ Entered(p)'
  BY <1>1, <1>2, <1>3, <1>5 DEF Entered
<1> QED
  BY <1>5, <1>6, <1>7

\* The event of the phase a sprint is in already starts nothing.
LEMMA StaysInPhase ==
  ASSUME ProgressTypeOK, EventsInv, ProgressTypeOK', EventsInv',
         SetPhase(phase), NeverBack'
  PROVE  \A q \in Phases : PhaseStart(q)' = PhaseStart(q) /\ (Entered(q)' <=> Entered(q))
<1> PICK p \in Phases : p = phase
  BY DEF ProgressTypeOK
<1>1. NeverBack /\ Logged(p) /\ phase' = phase /\ created' = created
  BY StaysForward DEF SetPhase, birth, EventsInv
<1>2. p = 1 \/ Entries(p) # {}
  BY <1>1, PhaseIsEntered, Starts DEF Entered, NeverBack
<1>3. \A q \in Phases : PhaseStart(q)' = PhaseStart(q)
  BY <1>1, <1>2, AppendedStart
<1> QED
  BY <1>1, <1>3 DEF Entered

LEMMA StepTimeTaken ==
  ASSUME ProgressTypeOK, EventsInv, ProgressTypeOK', EventsInv', TimeTaken, [ProgressNext]_progress
  PROVE  TimeTaken'
<1> SUFFICES ASSUME NeverBack' PROVE TimeTaken'
  BY DEF TimeTaken
<1>1. CASE Tick
  <2>1. UNCHANGED <<created, phase, changes, lost>> /\ now' = now + 1
        /\ spent' = [spent EXCEPT ![phase] = @ + 1]
    BY <1>1 DEF Tick, birth
  <2>2. NeverBack /\ \A q \in Phases : PhaseStart(q)' = PhaseStart(q) /\ Entered(q)' = Entered(q)
    BY <2>1 DEF NeverBack, PhaseBefore, PhaseStart, Entered, Entries
  <2>3. phase \in Phases /\ now \in Nat /\ Entered(phase) /\ PhaseStart(phase) \in Nat
    BY <2>2, PhaseIsEntered, SpansInOrder DEF NeverBack, ProgressTypeOK
  <2>4. spent[phase] = now - PhaseStart(phase)
    BY <2>2 DEF TimeTaken
  <2>5. spent'[phase] = spent[phase] + 1 /\ \A q \in Phases \ {phase} : spent'[q] = spent[q]
    BY <2>1, <2>3 DEF ProgressTypeOK
  <2>6. spent'[phase'] = now' - PhaseStart(phase)
    BY <2>1, <2>3, <2>4, <2>5
  <2>7. ASSUME NEW p \in Phases, ~Entered(p)' PROVE spent'[p] = 0
    BY <2>2, <2>3, <2>5, <2>7 DEF TimeTaken
  <2>8. ASSUME NEW p \in Phases, NEW q \in Phases, p < q, Entered(p)', Entered(q)',
               \A r \in Phases : p < r /\ r < q => ~Entered(r)'
        PROVE  spent'[p] = PhaseStart(q)' - PhaseStart(p)'
    <3>1. q <= phase
      BY <2>2, <2>8, SpansInOrder
    <3>2. p # phase
      BY <2>3, <2>8, <3>1 DEF Phases
    <3> QED
      BY <2>2, <2>5, <2>8, <3>2 DEF TimeTaken
  <2>9. PhaseStart(phase)' = PhaseStart(phase)
    BY <2>1 DEF PhaseStart, Entries
  <2> QED
    BY <2>6, <2>7, <2>8, <2>9 DEF TimeTaken
<1>2. ASSUME NEW p \in Phases, SetPhase(p) PROVE TimeTaken'
  <2>1. NeverBack /\ phase <= p /\ UNCHANGED <<now, spent>> /\ phase' = p
    BY <1>2, StaysForward DEF SetPhase, EventsInv
  <2>2. phase \in Phases /\ now \in Nat /\ Entered(phase) /\ PhaseStart(phase) \in Nat
    BY <2>1, PhaseIsEntered, SpansInOrder DEF NeverBack, ProgressTypeOK
  <2>3. spent[phase] = now - PhaseStart(phase)
    BY <2>1 DEF TimeTaken
  <2>4. CASE phase = p
    <3>1. \A q \in Phases : PhaseStart(q)' = PhaseStart(q) /\ (Entered(q)' <=> Entered(q))
      BY <1>2, <2>4, StaysInPhase
    <3>2. spent'[p] = now' - PhaseStart(p)'
      BY <2>1, <2>3, <2>4, <3>1
    <3>3. \A q \in Phases : ~Entered(q)' => spent'[q] = 0
      BY <2>1, <3>1 DEF TimeTaken
    <3>4. ASSUME NEW a \in Phases, NEW b \in Phases, a < b, Entered(a)', Entered(b)',
                 \A r \in Phases : a < r /\ r < b => ~Entered(r)'
          PROVE  spent'[a] = PhaseStart(b)' - PhaseStart(a)'
      BY <2>1, <3>1, <3>4 DEF TimeTaken
    <3> QED
      BY <2>1, <3>2, <3>3, <3>4 DEF TimeTaken
  <2>5. CASE phase # p
    <3>1. phase < p /\ \A a, b \in Phases : a < b \/ a = b \/ b < a
      BY <2>1, <2>2, <2>5 DEF Phases
    <3>2. /\ PhaseStart(p)' = now /\ ~Entered(p) /\ Entered(p)'
          /\ \A q \in Phases \ {p} : PhaseStart(q)' = PhaseStart(q) /\ (Entered(q)' <=> Entered(q))
      BY <1>2, <3>1, MovesForward
    <3>3. spent[p] = 0
      BY <2>1, <3>2 DEF TimeTaken
    <3>4. spent'[p] = now' - PhaseStart(p)'
      BY <2>1, <2>2, <3>2, <3>3
    <3>5. \A q \in Phases : ~Entered(q)' => spent'[q] = 0
      BY <2>1, <3>2 DEF TimeTaken
    <3>6. ASSUME NEW a \in Phases, NEW b \in Phases, a < b, Entered(a)', Entered(b)',
                 \A r \in Phases : a < r /\ r < b => ~Entered(r)'
          PROVE  spent'[a] = PhaseStart(b)' - PhaseStart(a)'
      <4>1. a # p
        <5>1. CASE a = p
          <6>1. b # p /\ Entered(b)
            BY <3>2, <3>6, <5>1 DEF Phases
          <6>2. b <= phase
            BY <2>1, <6>1, SpansInOrder
          <6> QED
            BY <2>2, <3>1, <3>6, <5>1, <6>2 DEF Phases
        <5> QED
          BY <5>1
      <4>2. Entered(a) /\ PhaseStart(a)' = PhaseStart(a)
        BY <3>2, <3>6, <4>1
      <4>3. CASE b = p
        <5>1. a <= phase
          BY <2>1, <4>2, SpansInOrder
        <5>2. ~(a < phase)
          <6>1. \A r \in Phases : a < r /\ r < b => ~Entered(r)'
            BY <3>6
          <6>2. PICK r \in Phases : r = phase
            BY <2>2
          <6>3. Entered(r) /\ r # p
            BY <2>2, <2>5, <6>2 DEF Entered
          <6>4. Entered(r)'
            BY <3>2, <6>3
          <6> QED
            BY <3>1, <4>3, <6>1, <6>2, <6>4
        <5>3. a = phase
          BY <2>2, <5>1, <5>2 DEF Phases
        <5> QED
          BY <2>1, <2>3, <3>2, <4>2, <4>3, <5>3
      <4>4. CASE b # p
        BY <2>1, <3>2, <3>6, <4>2, <4>4 DEF TimeTaken
      <4> QED
        BY <4>3, <4>4
    <3> QED
      BY <2>1, <3>4, <3>5, <3>6 DEF TimeTaken
  <2> QED
    BY <2>4, <2>5
<1>3. CASE UNCHANGED <<now, created, phase, changes, lost, spent>>
  <2>1. NeverBack
    BY <1>3 DEF NeverBack, PhaseBefore
  <2>2. \A q \in Phases : PhaseStart(q)' = PhaseStart(q) /\ (Entered(q)' <=> Entered(q))
    BY <1>3 DEF PhaseStart, Entered, Entries
  <2>3. PhaseStart(phase)' = PhaseStart(phase)
    BY <1>3 DEF PhaseStart, Entries
  <2> QED
    BY <1>3, <2>1, <2>2, <2>3 DEF TimeTaken
<1> QED
  BY <1>1, <1>2, <1>3 DEF ProgressNext, SetClock, SetStatus, progress, birth

LEMMA StepBegun ==
  ASSUME ProgressTypeOK, EventsInv, ProgressTypeOK', EventsInv', Begun, [ProgressNext]_progress
  PROVE  Begun'
<1>1. CASE UNCHANGED <<created, phase, changes, since, lost>>
  BY <1>1 DEF Begun, OnlyForward, NeverBack, PhaseBefore, UptimePhaseStart, PhaseStart, Entries
<1>2. ASSUME NEW p \in Phases, SetPhase(p) PROVE Begun'
  <2> SUFFICES ASSUME OnlyForward' PROVE (UptimePhaseStart = since /\ PhaseStart(phase) = since)'
    BY DEF Begun
  <2>1. NeverBack' /\ phase <= p /\ phase # p /\ Logged(p)
    BY <1>2, StaysForward DEF OnlyForward, EventsInv
  <2>2. phase < p
    BY <2>1 DEF ProgressTypeOK, Phases
  <2>3. since' = now /\ phase' = p
    BY <1>2, <2>1 DEF SetPhase
  <2>4. PhaseStart(p)' = now
    BY <1>2, <2>1, <2>2, MovesForward
  <2>5. UptimePhaseStart' = now
    <3>1. Len(changes') = Len(changes) + 1 /\ changes'[Len(changes) + 1].at = now
          /\ Len(changes) \in Nat
      BY <2>1, AppendedEvent
    <3>2. changes' # <<>>
      BY <3>1
    <3> QED
      BY <3>1, <3>2 DEF UptimePhaseStart, Last
  <2> QED
    BY <2>3, <2>4, <2>5
<1> QED
  BY <1>1, <1>2 DEF ProgressNext, Tick, SetClock, SetStatus, progress, birth

LEMMA AlwaysHistoryFits == ProgressSpec => [](TimeTaken /\ Begun)
<1>1. ProgressInit => TimeTaken /\ Begun
  <2> SUFFICES ASSUME ProgressInit PROVE TimeTaken /\ Begun
    OBVIOUS
  <2>1. /\ phase = 1 /\ changes = <<>> /\ created = now /\ since = now /\ now \in Nat
        /\ spent = [p \in Phases |-> 0]
    BY ClockAssumption DEF ProgressInit
  <2>2. PhaseStart(1) = now /\ \A p \in Phases : p # 1 => PhaseStart(p) = Never
    BY <2>1 DEF PhaseStart, Entries
  <2>3. \A p, q \in Phases : p < q => ~Entered(q)
    BY <2>2 DEF Entered, Phases
  <2>4. spent[phase] = now - PhaseStart(phase)
    BY <2>1, <2>2 DEF Phases
  <2> QED
    BY <2>1, <2>2, <2>3, <2>4 DEF TimeTaken, Begun, UptimePhaseStart
<1> QED
  BY <1>1, StepTimeTaken, StepBegun, AlwaysEventsInv, PTL DEF ProgressSpec

\* Two clocks less than a day apart, the one d ahead of the other, count days alike,
\* but that the one ahead may count one more.
LEMMA DaysOfTwoClocks ==
  ASSUME NEW x \in Int, NEW d \in Int, NEW n \in Nat \ {0},
         -n < x, -n < x + d, d < n, -n < d
  PROVE  (IF x + d < 0 THEN 0 ELSE (x + d) \div n) - (IF x < 0 THEN 0 ELSE x \div n) \in
           CASE d = 0 -> {0} [] d < 0 -> {-1, 0} [] d > 0 -> {0, 1}
<1>1. (x + d) \div n - x \div n \in {-1, 0, 1} /\ (x + d) \div n \in Int /\ x \div n \in Int
  BY DivNear
<1>2. d <= 0 => (x + d) \div n <= x \div n
  BY DivMonotone
<1>3. d >= 0 => x \div n <= (x + d) \div n
  BY DivMonotone
<1>4. x < n /\ x >= 0 => x \div n = 0
  BY Z3
<1>5. x + d < n /\ x + d >= 0 => (x + d) \div n = 0
  BY Z3
<1>6. CASE d = 0
  BY <1>6
<1>7. CASE d < 0
  BY <1>1, <1>2, <1>4, <1>7
<1>8. CASE d > 0
  BY <1>1, <1>3, <1>5, <1>8
<1> QED
  BY <1>6, <1>7, <1>8

\* Days are local days as the clock stood at midnight, and those in a phase are no more
\* than those of the sprint.
LEMMA DaysFit ==
  ASSUME ProgressTypeOK, EventsInv, Birthday
  PROVE  DaysFollowTheClock
<1> DEFINE x == now + offset - started * DayLength
           d == dawn - offset
           age == now - FirstMidnight
<1>1. /\ now \in Int /\ created \in Int /\ offset \in Int /\ dawn \in Int /\ started \in Int
      /\ DayLength \in Nat \ {0} /\ started * DayLength \in Int
  BY DatesAreInts, FirstDayHasBegun
<1>2. /\ x \in Int /\ d \in Int /\ -DayLength < x /\ -DayLength < x + d
      /\ d < DayLength /\ -DayLength < d
  BY <1>1, FirstDayHasBegun
<1>3. FirstMidnight \in Int /\ age = x + d
  BY <1>1 DEF FirstMidnight
<1>4. LocalDays = x \div DayLength
  BY LocalDaysAre
<1>5. d = 0 <=> offset = dawn
  BY <1>1
<1>6. (d < 0 <=> offset > dawn) /\ (d > 0 <=> offset < dawn)
  BY <1>1
<1>7. DaysActive = WholeDays(age) + 1
  BY DEF DaysActive
<1> HIDE DEF x, d, age
<1>8. WholeDays(age) = IF x + d < 0 THEN 0 ELSE (x + d) \div DayLength
  BY <1>1, <1>2, <1>3, WholeDaysIs
<1>9. Max({0, LocalDays}) = IF x < 0 THEN 0 ELSE x \div DayLength
  <2>1. x \div DayLength \in Int /\ (x < 0 => x \div DayLength < 0) /\ (x >= 0 => x \div DayLength >= 0)
    BY <1>1, <1>2, Z3
  <2> QED
    BY <1>2, <1>4, <2>1, MaxOfTwo
<1>10. WholeDays(age) - Max({0, LocalDays}) \in CASE d = 0 -> {0} [] d < 0 -> {-1, 0} [] d > 0 -> {0, 1}
  BY <1>1, <1>2, <1>8, <1>9, DaysOfTwoClocks
<1>11. WholeDays(age) \in Int /\ Max({0, LocalDays}) \in Int
  BY <1>1, <1>2, <1>8, <1>9
<1>12. DaysActive - (Max({0, LocalDays}) + 1) = WholeDays(age) - Max({0, LocalDays})
  BY <1>7, <1>11
<1>13. FirstMidnight <= created => DaysInPhase <= DaysActive
  <2> SUFFICES ASSUME FirstMidnight <= created PROVE DaysInPhase <= DaysActive
    OBVIOUS
  <2>1. UptimePhaseStart \in Int /\ created <= UptimePhaseStart /\ UptimePhaseStart <= now
    <3>1. changes # <<>> => Len(changes) \in DOMAIN changes
      BY EventTypes
    <3> QED
      BY <1>1, <3>1, EventTypes DEF UptimePhaseStart, Last, EventsInv, TimesFit, ProgressTypeOK
  <2>2. /\ now - UptimePhaseStart \in Int /\ age \in Int
        /\ 0 <= now - UptimePhaseStart /\ now - UptimePhaseStart <= age
    BY <1>1, <1>3, <2>1 DEF age
  <2>3. /\ WholeDays(now - UptimePhaseStart) = (now - UptimePhaseStart) \div DayLength
        /\ WholeDays(age) = age \div DayLength
    BY <1>1, <2>2, WholeDaysIs
  <2>4. (now - UptimePhaseStart) \div DayLength <= age \div DayLength
    BY <1>1, <2>2, DivMonotone
  <2>5. (now - UptimePhaseStart) \div DayLength \in Int /\ age \div DayLength \in Int
    BY <1>1, <2>2
  <2> QED
    BY <1>7, <2>3, <2>4, <2>5 DEF DaysInPhase
<1> DEFINE diff == DaysActive - (Max({0, LocalDays}) + 1)
<1>14. /\ offset = dawn => diff \in {0}
       /\ offset > dawn => diff \in {-1, 0}
       /\ offset < dawn => diff \in {0, 1}
  BY <1>2, <1>5, <1>6, <1>10, <1>12
<1>15. diff \in CASE offset = dawn -> {0} [] offset > dawn -> {-1, 0} [] offset < dawn -> {0, 1}
  <2> HIDE DEF diff
  <2>1. offset = dawn \/ offset > dawn \/ offset < dawn
    BY <1>1
  <2>2. ~(offset = dawn /\ offset > dawn) /\ ~(offset = dawn /\ offset < dawn)
        /\ ~(offset > dawn /\ offset < dawn)
    BY <1>1
  <2> QED
    BY <1>14, <2>1, <2>2
<1> QED
  BY <1>13, <1>15 DEF DaysFollowTheClock

(***************************************************************************)
(* Trace and uptime panel (service/traces.go, service/metrics.go) tell     *)
(* what happened: the span of each phase of a sprint that never went back  *)
(* is the time it took, both know when the phase of one that only went     *)
(* forward began, and the days of a sprint, counted in lengths of 24 hours *)
(* from a local midnight, are the local ones but for the one day that      *)
(* summer time makes shorter or longer.                                    *)
(***************************************************************************)
THEOREM AlwaysProgressIsTrue == ProgressSpec => []ProgressIsTrue
<1>1. ProgressTypeOK /\ EventsInv /\ Birthday /\ TimeTaken /\ Begun => ProgressIsTrue
  <2> SUFFICES ASSUME ProgressTypeOK, EventsInv, Birthday, TimeTaken, Begun PROVE ProgressIsTrue
    OBVIOUS
  <2>1. ASSUME NeverBack, TraceEnd = now, NEW p \in Phases PROVE Duration(p) = spent[p]
    <3>1. CASE ~Entered(p)
      BY <2>1, <3>1, SpansFit DEF TimeTaken
    <3>2. CASE Entered(p) /\ p = phase
      <4>1. Later(p) = {} /\ PhaseStart(p) \in Nat /\ PhaseStart(p) <= now /\ now \in Nat
        BY <2>1, <3>2, SpansInOrder, Starts DEF Entered, ProgressTypeOK
      <4>2. Duration(p) = now - PhaseStart(p)
        BY <2>1, <3>2, <4>1, SpansFit
      <4> QED
        BY <2>1, <3>2, <4>2 DEF TimeTaken
    <3>3. CASE Entered(p) /\ p # phase
      <4>1. Later(p) # {} /\ Duration(p) = NextStart(p) - PhaseStart(p)
        BY <2>1, <3>3, SpansInOrder
      <4>2. PICK q \in Phases : q = Min(Later(p)) /\ p < q /\ Entered(q)
        BY <4>1, LaterStart
      <4>3. \A r \in Phases : p < r /\ r < q => ~Entered(r)
        <5>1. \A r \in Phases : p < r /\ Entered(r) => q <= r
          BY <4>1, <4>2, LaterStart
        <5> QED
          BY <5>1 DEF Phases
      <4>4. spent[p] = PhaseStart(q) - PhaseStart(p)
        BY <2>1, <3>3, <4>2, <4>3 DEF TimeTaken
      <4> QED
        BY <4>1, <4>2, <4>4 DEF NextStart
    <3> QED
      BY <3>1, <3>2, <3>3
  <2> QED
    BY <2>1, DaysFit DEF ProgressIsTrue, Begun
<1> QED
  BY <1>1, AlwaysEventsInv, AlwaysBirthday, AlwaysHistoryFits, PTL

=============================================================================
