-------------------------- MODULE ErrorWindowProofs -------------------------
(***************************************************************************)
(* Proofs about ErrorWindow, for any program, page size and configuration. *)
(*                                                                         *)
(* The invariant rests on what the translator leaves behind.  While single *)
(* stepping has not been set for good, a window that is still open has all *)
(* cached code inside it (CachedInside), stepping is on only for an open   *)
(* window if there are windows (StepOpen), and a block of more than one    *)
(* instruction is in the cache only if it will be as long when it is       *)
(* translated again, or stepping was switched on since (Short).            *)
(*                                                                         *)
(* The invariant of the configuration speaks of the lines read so far: the *)
(* places of a file already consumed are the ones before its unread rest   *)
(* (FileInv), and the last of those that names an instruction decides its  *)
(* class (ConfigInv).                                                      *)
(***************************************************************************)
EXTENDS ErrorWindow, WellFoundedInduction, TLAPS

-----------------------------------------------------------------------------
\* What the translator computes

\* The least counterexample, for the inductions over instructions
LEMMA LeastNatural ==
  ASSUME NEW T \in SUBSET Nat, T # {}
  PROVE  \E x \in T : \A y \in T : x <= y
<1>1. \E x \in T : \A y \in T : ~(<<y, x>> \in OpToRel(<, Nat))
  BY WFMin, NatLessThanWellFounded
<1>2. PICK x \in T : \A y \in T : ~(<<y, x>> \in OpToRel(<, Nat))
  BY <1>1
<1>3. \A y \in T : ~(y < x)
  BY <1>2 DEF OpToRel
<1> QED
  BY <1>3

\* The two tests after the instruction at b
Tested(s, b) == StepWindow("icount", StepWindow("pc", s, b), b)
Now == [step |-> singlestep, enabled |-> enabled]

\* The translator's loop is defined for every length of a block
LEMMA AfterLoop ==
  ASSUME NEW a \in Nat
  PROVE  After(a) =
           [n \in Lengths(a) |-> Tested(IF n = 1 THEN Now ELSE After(a)[n - 1], a + n - 1)]
<1> DEFINE P(n) ==
      \E f : f = [i \in 1 .. n |-> Tested(IF i = 1 THEN Now ELSE f[i - 1], a + i - 1)]
           T == {n \in Nat : ~P(n)}
<1>1. T = {}
  <2> SUFFICES ASSUME T # {} PROVE FALSE
    OBVIOUS
  <2>1. PICK x \in T : \A y \in T : x <= y
    BY LeastNatural
  <2>2. P(0)
    <3> DEFINE f == [i \in 1 .. 0 |-> Now]
    <3>1. f = [i \in 1 .. 0 |-> Tested(IF i = 1 THEN Now ELSE f[i - 1], a + i - 1)]
      OBVIOUS
    <3> QED
      BY <3>1
  <2> HIDE DEF P
  <2>3. x \in Nat /\ x # 0 /\ x - 1 \in Nat /\ ~P(x)
    BY <2>1, <2>2
  <2>4. P(x - 1)
    BY <2>1, <2>3
  <2> HIDE DEF T
  <2> USE DEF P
  <2>5. PICK f : f = [i \in 1 .. x - 1 |-> Tested(IF i = 1 THEN Now ELSE f[i - 1], a + i - 1)]
    BY <2>4
  <2> DEFINE v(h, i) == Tested(IF i = 1 THEN Now ELSE h[i - 1], a + i - 1)
             g == [i \in 1 .. x |-> IF i = x THEN v(f, x) ELSE f[i]]
  <2>6. \A i \in 1 .. x - 1 : g[i] = f[i]
    BY <2>3
  <2>7. \A i \in 1 .. x : v(g, i) = v(f, i)
    <3> SUFFICES ASSUME NEW i \in 1 .. x PROVE v(g, i) = v(f, i)
      OBVIOUS
    <3>1. CASE i = 1
      BY <3>1
    <3>2. CASE i # 1
      <4>1. i - 1 \in 1 .. x - 1
        BY <2>3, <3>2
      <4>2. g[i - 1] = f[i - 1]
        BY <2>6, <4>1
      <4> HIDE DEF g
      <4> QED
        BY <4>2
    <3> QED
      BY <3>1, <3>2
  <2>8. \A i \in 1 .. x - 1 : f[i] = v(f, i)
    BY <2>5
  <2>9. \A i \in 1 .. x : g[i] = v(f, i)
    <3> HIDE DEF v
    <3> QED
      BY <2>3, <2>8
  <2>10. g = [i \in 1 .. x |-> g[i]]
    OBVIOUS
  <2>11. g = [i \in 1 .. x |-> v(g, i)]
    <3> HIDE DEF v, g
    <3> QED
      BY <2>7, <2>9, <2>10
  <2>12. P(x)
    <3> HIDE DEF g
    <3> QED
      BY <2>11
  <2> QED
    BY <2>3, <2>12
<1>2. PageSize - (a % PageSize) \in Nat
  BY BoundsAssumption
<1>3. P(PageSize - (a % PageSize))
  BY <1>1, <1>2
<1>4. \E f : f = [n \in Lengths(a) |-> Tested(IF n = 1 THEN Now ELSE f[n - 1], a + n - 1)]
  BY <1>3 DEF Lengths
<1>5. After(a) = CHOOSE f :
        f = [n \in Lengths(a) |-> Tested(IF n = 1 THEN Now ELSE f[n - 1], a + n - 1)]
  BY DEF After, Tested, Now
<1> QED
  BY <1>4, <1>5

Stepping == [step : 0 .. 1, enabled : [Kinds -> BOOLEAN]]

\* One test changes nothing if its window is closed or stepping is set for
\* good; else stepping is on if and only if the window stays open
LEMMA OneTest ==
  ASSUME NEW w \in Kinds, NEW s \in Stepping, NEW b
  PROVE  /\ StepWindow(w, s, b) \in Stepping
         /\ (allthru \/ ~s.enabled[w]) => StepWindow(w, s, b) = s
         /\ \A v \in Kinds \ {w} : StepWindow(w, s, b).enabled[v] = s.enabled[v]
         /\ StepWindow(w, s, b).enabled[w] => s.enabled[w]
         /\ (~allthru /\ s.enabled[w]) =>
              /\ StepWindow(w, s, b).enabled[w] <=> Inside(w, b)
              /\ StepWindow(w, s, b).step = IF Inside(w, b) THEN 1 ELSE 0
<1> DEFINE t == StepWindow(w, s, b)
<1>1. s.step \in 0 .. 1 /\ s.enabled \in [Kinds -> BOOLEAN]
  BY DEF Stepping
<1>2. CASE allthru \/ ~s.enabled[w]
  <2>1. t = s
    BY <1>2 DEF StepWindow
  <2> QED
    BY <1>2, <2>1
<1>3. CASE ~allthru /\ s.enabled[w] /\ Inside(w, b)
  <2>1. t = [s EXCEPT !.step = 1]
    BY <1>3 DEF StepWindow
  <2>2. t \in Stepping /\ t.step = 1 /\ t.enabled = s.enabled
    BY <1>1, <2>1 DEF Stepping
  <2> QED
    BY <1>3, <2>2
<1>4. CASE ~allthru /\ s.enabled[w] /\ ~Inside(w, b)
  <2>1. t = [s EXCEPT !.step = 0, !.enabled[w] = FALSE]
    BY <1>4 DEF StepWindow
  <2>0. t = [step |-> 0, enabled |-> [s.enabled EXCEPT ![w] = FALSE]]
    BY <2>1 DEF Stepping
  <2>2. t.step = 0 /\ t.enabled = [s.enabled EXCEPT ![w] = FALSE]
    BY <2>0
  <2>5. [s.enabled EXCEPT ![w] = FALSE] \in [Kinds -> BOOLEAN]
    BY <1>1
  <2>3. t \in Stepping
    BY <2>0, <2>5 DEF Stepping
  <2>4. t.enabled[w] = FALSE /\ \A v \in Kinds \ {w} : t.enabled[v] = s.enabled[v]
    BY <1>1, <2>2
  <2> QED
    BY <1>4, <2>2, <2>3, <2>4
<1> QED
  BY <1>2, <1>3, <1>4

LEMMA BothTests ==
  ASSUME NEW s \in Stepping, NEW b
  PROVE  /\ Tested(s, b) \in Stepping
         /\ (allthru \/ \A w \in Kinds : ~s.enabled[w]) => Tested(s, b) = s
         /\ \A w \in Kinds : Tested(s, b).enabled[w] => s.enabled[w]
         /\ ~allthru =>
              /\ \A w \in Kinds : Tested(s, b).enabled[w] => Inside(w, b)
              /\ Tested(s, b).step = 1 =>
                   \/ \E w \in Kinds : Tested(s, b).enabled[w]
                   \/ s.step = 1 /\ \A w \in Kinds : ~s.enabled[w]
              /\ Tested(s, b).enabled["icount"] => Tested(s, b).step = 1
              /\ Tested(s, b).enabled["pc"] =>
                   \/ Tested(s, b).step = 1
                   \/ s.enabled["icount"] /\ ~Tested(s, b).enabled["icount"]
<1> DEFINE r == StepWindow("pc", s, b)
           t == StepWindow("icount", r, b)
<1>0. Kinds = {"pc", "icount"} /\ "pc" # "icount" /\ "pc" \in Kinds /\ "icount" \in Kinds
  BY DEF Kinds
<1>1. /\ r \in Stepping
      /\ (allthru \/ ~s.enabled["pc"]) => r = s
      /\ r.enabled["icount"] = s.enabled["icount"]
      /\ r.enabled["pc"] => s.enabled["pc"]
      /\ (~allthru /\ s.enabled["pc"]) =>
              /\ r.enabled["pc"] <=> Inside("pc", b)
              /\ r.step = IF Inside("pc", b) THEN 1 ELSE 0
  <2> HIDE DEF r
  <2> QED
    BY <1>0, OneTest DEF r
<1> HIDE DEF r
<1>2. /\ t \in Stepping
      /\ (allthru \/ ~r.enabled["icount"]) => t = r
      /\ t.enabled["pc"] = r.enabled["pc"]
      /\ t.enabled["icount"] => r.enabled["icount"]
      /\ (~allthru /\ r.enabled["icount"]) =>
              /\ t.enabled["icount"] <=> Inside("icount", b)
              /\ t.step = IF Inside("icount", b) THEN 1 ELSE 0
  BY <1>0, <1>1, OneTest
<1>3. Tested(s, b) = t
  BY DEF Tested, r
<1> HIDE DEF t
<1>4. (allthru \/ \A w \in Kinds : ~s.enabled[w]) => t = s
  BY <1>0, <1>1, <1>2
<1>5. \A w \in Kinds : t.enabled[w] => s.enabled[w]
  BY <1>0, <1>1, <1>2
<1>6. ASSUME ~allthru
      PROVE  /\ \A w \in Kinds : t.enabled[w] => Inside(w, b)
             /\ t.step = 1 =>
                  \/ \E w \in Kinds : t.enabled[w]
                  \/ s.step = 1 /\ \A w \in Kinds : ~s.enabled[w]
             /\ t.enabled["icount"] => t.step = 1
             /\ t.enabled["pc"] => (t.step = 1 \/ (s.enabled["icount"] /\ ~t.enabled["icount"]))
  <2>1. t.enabled["pc"] => Inside("pc", b)
    BY <1>1, <1>2, <1>6
  <2>2. t.enabled["icount"] => Inside("icount", b) /\ t.step = 1
    BY <1>1, <1>2, <1>6
  <2>3. t.enabled["pc"] => (t.step = 1 \/ (s.enabled["icount"] /\ ~t.enabled["icount"]))
    BY <1>1, <1>2, <1>6
  <2>4. t.step = 1 => \/ t.enabled["pc"] \/ t.enabled["icount"]
                      \/ s.step = 1 /\ ~s.enabled["pc"] /\ ~s.enabled["icount"]
    BY <1>1, <1>2, <1>6
  <2> QED
    BY <1>0, <2>1, <2>2, <2>3, <2>4
<1> QED
  BY <1>2, <1>3, <1>4, <1>5, <1>6

\* A block ends with its page at the latest
LEMMA PageEnds ==
  ASSUME NEW a \in Nat
  PROVE  /\ PageSize - (a % PageSize) \in Nat \ {0}
         /\ PageSize - (a % PageSize) \in Lengths(a)
         /\ EndsBlock(a + (PageSize - (a % PageSize)) - 1)
<1> DEFINE P == PageSize
           q == a \div P
           r == a % P
           m == P - r
<1>1. P \in Nat /\ P > 0
  BY BoundsAssumption
<1> HIDE DEF P
<1>2. q \in Int /\ r \in 0 .. P - 1 /\ a = P * q + r
  BY <1>1
<1> HIDE DEF q, r
<1>3. m \in Nat \ {0} /\ a + m = P * q + P /\ a + m - 1 \in Nat /\ a + m \in Nat
  BY <1>1, <1>2
<1> HIDE DEF m
<1>4. (a + m) \div P # (a + m - 1) \div P
  <2> SUFFICES ASSUME (a + m) \div P = (a + m - 1) \div P PROVE FALSE
    OBVIOUS
  <2>1. PICK u \in Int : u = (a + m) \div P
    BY <1>1, <1>3
  <2>2. PICK v \in 0 .. P - 1 : a + m - 1 = P * u + v
    <3>1. /\ (a + m - 1) = P * ((a + m - 1) \div P) + ((a + m - 1) % P)
          /\ (a + m - 1) % P \in 0 .. P - 1
      BY <1>1, <1>3
    <3> QED
      BY <2>1, <3>1
  <2>3. PICK z \in 0 .. P - 1 : a + m = P * u + z
    <3>1. /\ (a + m) = P * ((a + m) \div P) + ((a + m) % P)
          /\ (a + m) % P \in 0 .. P - 1
      BY <1>1, <1>3
    <3> QED
      BY <2>1, <3>1
  <2>4. P * u \in Int /\ P * q \in Int
    BY <1>1, <1>2, <2>1
  <2>5. z = v + 1 /\ z > 0
    BY <1>1, <1>3, <2>2, <2>3, <2>4
  <2>6. P * q + P = P * u + z
    BY <1>3, <2>3
  <2>7. P * (q + 1 - u) = z
    BY <1>1, <1>2, <2>1, <2>4, <2>6
  <2>8. CASE q + 1 - u <= 0
    <3>1. P * (q + 1 - u) <= 0
      BY <1>1, <1>2, <2>1, <2>8
    <3> QED
      BY <1>1, <2>5, <2>7, <3>1
  <2>9. CASE q + 1 - u >= 1
    <3>1. P * (q + 1 - u) >= P
      BY <1>1, <1>2, <2>1, <2>9
    <3> QED
      BY <1>1, <2>7, <3>1
  <2> QED
    BY <1>2, <2>1, <2>8, <2>9
<1>5. Page(a + m - 1 + 1) # Page(a + m - 1)
  <2>1. a + m - 1 + 1 = a + m
    BY <1>3
  <2> QED
    BY <1>4, <2>1 DEF Page, P
<1>6. m \in Lengths(a)
  BY <1>3 DEF Lengths, m, P, r
<1> QED
  BY <1>3, <1>5, <1>6 DEF EndsBlock, m, P, r

\* What the windows and the stepping are after n instructions of a block at a
LEMMA AfterIs ==
  ASSUME NEW a \in Nat, Now \in Stepping
  PROVE  \A n \in Lengths(a) :
           /\ After(a)[n] \in Stepping
           /\ (allthru \/ \A w \in Kinds : ~enabled[w]) => After(a)[n] = Now
           /\ \A w \in Kinds :
                After(a)[n].enabled[w] =>
                  /\ enabled[w]
                  /\ After(a)[1].enabled[w]
                  /\ n # 1 => After(a)[n - 1].enabled[w]
                  /\ ~allthru => \A k \in 0 .. n - 1 : Inside(w, a + k)
           /\ (~allthru /\ After(a)[n].step = 1) =>
                \/ \E w \in Kinds : After(a)[n].enabled[w]
                \/ singlestep = 1 /\ \A w \in Kinds : ~enabled[w]
<1> DEFINE S == After(a)
           m == PageSize - (a % PageSize)
           Good(n) ==
             /\ S[n] \in Stepping
             /\ (allthru \/ \A w \in Kinds : ~enabled[w]) => S[n] = Now
             /\ \A w \in Kinds :
                  S[n].enabled[w] =>
                    /\ enabled[w]
                    /\ S[1].enabled[w]
                    /\ n # 1 => S[n - 1].enabled[w]
                    /\ ~allthru => \A k \in 0 .. n - 1 : Inside(w, a + k)
             /\ (~allthru /\ S[n].step = 1) =>
                  \/ \E w \in Kinds : S[n].enabled[w]
                  \/ singlestep = 1 /\ \A w \in Kinds : ~enabled[w]
           T == {n \in 1 .. m : ~Good(n)}
<1>1. m \in Nat \ {0} /\ Lengths(a) = 1 .. m
  BY PageEnds DEF Lengths
<1> HIDE DEF m
<1>2. \A n \in 1 .. m : S[n] = Tested(IF n = 1 THEN Now ELSE S[n - 1], a + n - 1)
  BY <1>1, AfterLoop
<1>3. Now.step = singlestep /\ Now.enabled = enabled
  BY DEF Now
<1> HIDE DEF S
<1>4. Good(1)
  <2>1. 1 \in 1 .. m /\ a + 1 - 1 = a
    BY <1>1
  <2>2. S[1] = Tested(Now, a)
    BY <1>2, <2>1
  <2>3. \A k \in 0 .. 1 - 1 : a + k = a
    OBVIOUS
  <2>4. S[1] \in Stepping /\ ((allthru \/ \A w \in Kinds : ~enabled[w]) => S[1] = Now)
    BY <1>3, <2>2, BothTests
  <2>5. ASSUME NEW w \in Kinds, S[1].enabled[w]
        PROVE  enabled[w] /\ (~allthru => Inside(w, a))
    BY <1>3, <2>2, <2>5, BothTests
  <2>6. (~allthru /\ S[1].step = 1) =>
           \/ \E w \in Kinds : S[1].enabled[w]
           \/ singlestep = 1 /\ \A w \in Kinds : ~enabled[w]
    BY <1>3, <2>2, BothTests
  <2> QED
    BY <2>3, <2>4, <2>5, <2>6
<1>5. ASSUME NEW n \in 2 .. m, Good(n - 1) PROVE Good(n)
  <2>1. n \in 1 .. m /\ n # 1
    BY <1>1
  <2>2. S[n] = Tested(S[n - 1], a + n - 1)
    BY <1>2, <2>1
  <2>3. S[n - 1] \in Stepping
    BY <1>5
  <2>4. S[n] \in Stepping /\ ((allthru \/ \A w \in Kinds : ~enabled[w]) => S[n] = Now)
    <3>1. S[n] \in Stepping
      BY <2>2, <2>3, BothTests
    <3>2. ASSUME allthru \/ \A w \in Kinds : ~enabled[w] PROVE S[n] = Now
      <4>1. S[n - 1] = Now
        BY <1>5, <3>2
      <4> QED
        BY <1>3, <2>2, <2>3, <3>2, <4>1, BothTests
    <3> QED
      BY <3>1, <3>2
  <2>5. ASSUME NEW w \in Kinds, S[n].enabled[w]
        PROVE  /\ enabled[w] /\ S[1].enabled[w] /\ S[n - 1].enabled[w]
               /\ ~allthru => \A k \in 0 .. n - 1 : Inside(w, a + k)
    <3>1. S[n - 1].enabled[w] /\ (~allthru => Inside(w, a + n - 1))
      BY <2>2, <2>3, <2>5, BothTests
    <3>2. enabled[w] /\ S[1].enabled[w]
      BY <1>5, <3>1
    <3>3. ASSUME ~allthru, NEW k \in 0 .. n - 1 PROVE Inside(w, a + k)
      <4>1. \A i \in 0 .. n - 1 - 1 : Inside(w, a + i)
        BY <1>5, <3>1, <3>3
      <4>2. CASE k = n - 1
        <5>1. a + k = a + n - 1
          BY <4>2
        <5> QED
          BY <3>1, <3>3, <5>1
      <4>3. CASE k # n - 1
        <5>1. k \in 0 .. n - 1 - 1
          BY <4>3
        <5> QED
          BY <4>1, <5>1
      <4> QED
        BY <4>2, <4>3
    <3> QED
      BY <3>1, <3>2, <3>3
  <2>6. ASSUME ~allthru, S[n].step = 1
        PROVE  \/ \E w \in Kinds : S[n].enabled[w]
               \/ singlestep = 1 /\ \A w \in Kinds : ~enabled[w]
    <3>1. \/ \E w \in Kinds : S[n].enabled[w]
          \/ S[n - 1].step = 1 /\ \A w \in Kinds : ~S[n - 1].enabled[w]
      BY <2>2, <2>3, <2>6, BothTests
    <3>2. CASE S[n - 1].step = 1 /\ \A w \in Kinds : ~S[n - 1].enabled[w]
      BY <1>5, <2>6, <3>2
    <3> QED
      BY <3>1, <3>2
  <2> QED
    BY <2>4, <2>5, <2>6
<1> HIDE DEF Good
<1>6. T = {}
  <2> SUFFICES ASSUME T # {} PROVE FALSE
    OBVIOUS
  <2>0. T \in SUBSET Nat
    BY <1>1
  <2>1. PICK x \in T : \A y \in T : x <= y
    BY <2>0, LeastNatural, Zenon
  <2>2. x # 1
    BY <1>4, <2>1
  <2>3. x \in 2 .. m /\ x - 1 \in 1 .. m
    BY <1>1, <2>1, <2>2
  <2>4. Good(x - 1)
    BY <2>1, <2>3
  <2> QED
    BY <1>5, <2>1, <2>3, <2>4
<1>7. \A n \in 1 .. m : Good(n)
  BY <1>6
<1> QED
  BY <1>1, <1>7 DEF Good, S

\* What a translation of the code at a comes to
LEMMA TranslateIs ==
  ASSUME NEW a \in Nat, Now \in Stepping, NEW t, t = Translate(a)
  PROVE  /\ t.len \in Lengths(a) /\ t.len \in Nat \ {0}
         /\ \A n \in 1 .. t.len - 1 : ~EndsBlock(a + n - 1)
         /\ t.step \in 0 .. 1 /\ t.enabled \in [Kinds -> BOOLEAN]
         /\ allthru => t.step = singlestep /\ t.enabled = enabled
         /\ \A w \in Kinds : t.enabled[w] =>
              enabled[w] /\ (~allthru => \A k \in 0 .. t.len - 1 : Inside(w, a + k))
         /\ (~allthru /\ t.step = 1) =>
              \/ \E w \in Kinds : t.enabled[w]
              \/ singlestep = 1 /\ \A w \in Kinds : ~enabled[w]
         /\ t.again \in BOOLEAN
         /\ t.step = 1 => (t.again \/ (singlestep = 1 /\ t.len = 1))
         /\ (~allthru /\ \E w \in Kinds : t.enabled[w]) => (t.again \/ t.len = 1)
         /\ (singlestep = 0 /\ \A w \in Kinds : ~enabled[w]) => EndsBlock(a + t.len - 1)
<1> DEFINE S == After(a)
           m == PageSize - (a % PageSize)
           E == {n \in Lengths(a) : EndsBlock(a + n - 1) \/ S[n].step = 1}
           len == Min(E)
<1>1. /\ t.len = len /\ t.step = S[len].step /\ t.enabled = S[len].enabled
      /\ t.again = (S[len].step = 1 /\ (singlestep = 0 \/ len > 1))
  BY DEF Translate
<1>2. m \in E /\ Lengths(a) = 1 .. m /\ m \in Nat \ {0}
  BY PageEnds DEF Lengths
<1> HIDE DEF m
<1>3. len \in E /\ \A n \in E : len <= n
  <2>0. E \subseteq Lengths(a)
    OBVIOUS
  <2>1. E \in SUBSET Nat /\ E # {}
    <3> HIDE DEF E
    <3> QED
      BY <1>2, <2>0
  <2>2. \E x \in E : \A y \in E : x <= y
    <3> HIDE DEF E
    <3> QED
      BY <2>1, LeastNatural, Zenon
  <2> HIDE DEF E
  <2> QED
    BY <2>2 DEF Min
<1>4. len \in 1 .. m /\ len \in Nat \ {0} /\ (EndsBlock(a + len - 1) \/ S[len].step = 1)
  BY <1>2, <1>3
<1> HIDE DEF len
<1>5. \A n \in 1 .. len - 1 : ~EndsBlock(a + n - 1) /\ ~(S[n].step = 1)
  <2> SUFFICES ASSUME NEW n \in 1 .. len - 1 PROVE n \notin E
    BY <1>2, <1>4
  <2> QED
    BY <1>3, <1>4
<1> HIDE DEF E, S
<1>6. \A n \in 1 .. m :
           /\ S[n] \in Stepping
           /\ (allthru \/ \A w \in Kinds : ~enabled[w]) => S[n] = Now
           /\ \A w \in Kinds :
                S[n].enabled[w] =>
                  /\ enabled[w]
                  /\ S[1].enabled[w]
                  /\ n # 1 => S[n - 1].enabled[w]
                  /\ ~allthru => \A k \in 0 .. n - 1 : Inside(w, a + k)
           /\ (~allthru /\ S[n].step = 1) =>
                \/ \E w \in Kinds : S[n].enabled[w]
                \/ singlestep = 1 /\ \A w \in Kinds : ~enabled[w]
  BY <1>2, AfterIs DEF S
<1>7. S[len] \in Stepping
  BY <1>4, <1>6
<1>8. singlestep \in 0 .. 1 /\ Now.step = singlestep /\ Now.enabled = enabled
  BY DEF Stepping, Now
<1>9. t.step \in 0 .. 1 /\ t.enabled \in [Kinds -> BOOLEAN]
  BY <1>1, <1>7 DEF Stepping
<1>10. allthru => t.step = singlestep /\ t.enabled = enabled
  <2> SUFFICES ASSUME allthru PROVE t.step = singlestep /\ t.enabled = enabled
    OBVIOUS
  <2>1. S[len] = Now
    BY <1>4, <1>6
  <2> QED
    BY <1>1, <1>8, <2>1
<1>11. \A w \in Kinds : t.enabled[w] =>
         enabled[w] /\ (~allthru => \A k \in 0 .. t.len - 1 : Inside(w, a + k))
  BY <1>1, <1>4, <1>6
<1>12. (~allthru /\ t.step = 1) =>
         \/ \E w \in Kinds : t.enabled[w]
         \/ singlestep = 1 /\ \A w \in Kinds : ~enabled[w]
  BY <1>1, <1>4, <1>6
<1>13. t.again \in BOOLEAN /\ (t.step = 1 => (t.again \/ (singlestep = 1 /\ t.len = 1)))
  <2>1. t.again \in BOOLEAN
    BY <1>1
  <2>2. ASSUME t.step = 1, ~t.again PROVE singlestep = 1 /\ t.len = 1
    <3>1. ~(S[len].step = 1 /\ (singlestep = 0 \/ len > 1))
      BY <1>1, <2>2, Zenon
    <3> QED
      BY <1>1, <1>4, <1>8, <2>2, <3>1
  <2> QED
    BY <2>1, <2>2
<1>14. ASSUME ~allthru, NEW w \in Kinds, t.enabled[w], len # 1 PROVE S[len].step = 1
  <2>1. len - 1 \in 1 .. len - 1 /\ 1 \in 1 .. len - 1 /\ 1 \in 1 .. m /\ len - 1 \in 1 .. m
    BY <1>2, <1>4, <1>14
  <2>2. ~(S[1].step = 1) /\ S[len].enabled[w] /\ S[1].enabled[w] /\ S[len - 1] \in Stepping
    BY <1>1, <1>4, <1>5, <1>6, <1>14, <2>1
  <2>3. S[1] = Tested(Now, a) /\ S[len] = Tested(S[len - 1], a + len - 1)
    <3>1. \A n \in 1 .. m : S[n] = Tested(IF n = 1 THEN Now ELSE S[n - 1], a + n - 1)
      BY <1>2, AfterLoop DEF S
    <3>2. a + 1 - 1 = a
      OBVIOUS
    <3> QED
      BY <1>4, <1>14, <2>1, <3>1, <3>2
  <2>4. ~S[1].enabled["icount"]
    BY <1>14, <2>2, <2>3, BothTests
  <2>5. w = "pc"
    BY <2>2, <2>4 DEF Kinds
  <2>6. ~S[len - 1].enabled["icount"]
    BY <1>6, <2>1, <2>4 DEF Kinds
  <2> QED
    BY <1>14, <2>2, <2>3, <2>5, <2>6, BothTests
<1>15. (~allthru /\ \E w \in Kinds : t.enabled[w]) => (t.again \/ t.len = 1)
  <2>1. t.len = len
    BY <1>1
  <2>2. ASSUME ~allthru, NEW w \in Kinds, t.enabled[w], len # 1 PROVE t.again
    <3>1. S[len].step = 1
      BY <1>14, <2>2, Zenon
    <3>2. len > 1
      BY <1>4, <2>2
    <3> QED
      BY <1>1, <3>1, <3>2
  <2> QED
    BY <2>1, <2>2, Zenon
<1>16. (singlestep = 0 /\ \A w \in Kinds : ~enabled[w]) => EndsBlock(a + t.len - 1)
  <2> SUFFICES ASSUME singlestep = 0, \A w \in Kinds : ~enabled[w] PROVE EndsBlock(a + len - 1)
    BY <1>1
  <2>1. S[len] = Now
    BY <1>4, <1>6
  <2> QED
    BY <1>4, <1>8, <2>1
<1>17. t.len \in Lengths(a) /\ t.len \in Nat \ {0} /\ \A n \in 1 .. t.len - 1 : ~EndsBlock(a + n - 1)
  BY <1>1, <1>2, <1>4, <1>5
<1> QED
  BY <1>9, <1>10, <1>11, <1>12, <1>13, <1>15, <1>16, <1>17

\* A block that has not ended goes on where there is code
LEMMA BlockIsCode ==
  ASSUME NEW a \in Addrs, NEW len \in Nat \ {0}, \A n \in 1 .. len - 1 : ~EndsBlock(a + n - 1)
  PROVE  \A k \in 0 .. len - 1 : a + k \in Addrs
<1>0. a \in Nat /\ Addrs \subseteq Nat
  BY ProgramAssumption DEF Addrs
<1> DEFINE T == {k \in 0 .. len - 1 : a + k \notin Addrs}
<1>1. T = {}
  <2> SUFFICES ASSUME T # {} PROVE FALSE
    OBVIOUS
  <2>1. T \in SUBSET Nat
    OBVIOUS
  <2>2. PICK x \in T : \A y \in T : x <= y
    BY <2>1, LeastNatural, Zenon
  <2>3. x # 0
    BY <1>0, <2>2
  <2>4. x \in 1 .. len - 1 /\ x - 1 \in 0 .. len - 1 /\ a + x - 1 = a + (x - 1)
    BY <1>0, <2>2, <2>3
  <2>5. a + (x - 1) \in Addrs
    <3>1. x - 1 \notin T
      BY <2>2, <2>4
    <3> QED
      BY <2>4, <3>1
  <2>6. ~EndsBlock(a + x - 1)
    BY <2>4
  <2>7. Program[a + (x - 1)] = {a + (x - 1) + 1} /\ a + (x - 1) + 1 = a + x
    BY <1>0, <2>4, <2>6 DEF EndsBlock
  <2>8. a + x \in Addrs
    BY <2>5, <2>7, ProgramAssumption DEF Addrs
  <2> QED
    BY <2>2, <2>8
<1> QED
  BY <1>1

-----------------------------------------------------------------------------
\* The inductive invariant

Types ==
  /\ phase \in {"options", "file", "run", "exited", "dead"}
  /\ singlestep \in 0 .. 1
  /\ allthru \in BOOLEAN /\ all \in BOOLEAN /\ again \in BOOLEAN
  /\ enabled \in [Kinds -> BOOLEAN] /\ DOMAIN window = Kinds
  /\ left \subseteq Kinds
  /\ pc \in Addrs /\ resume \in Addrs

\* The cache: blocks are no longer than the code allows, and jumps stay in it
Blocks ==
  /\ run # None => run \in DOMAIN tbs
  /\ last # None => last \in DOMAIN tbs
  /\ \A x, y : <<x, y>> \in links => x \in DOMAIN tbs /\ y \in DOMAIN tbs
  /\ DOMAIN tbs \subseteq Addrs
  /\ \A a \in DOMAIN tbs :
       /\ tbs[a] \in Lengths(a) /\ tbs[a] \in Nat \ {0}
       /\ \A n \in 1 .. tbs[a] - 1 : ~EndsBlock(a + n - 1)

\* Nothing is translated before the guest starts
Before ==
  phase \in {"options", "file"} =>
    /\ DOMAIN tbs = {} /\ left = {} /\ ~again
    /\ run = None /\ last = None /\ links = {}
    /\ allthru <=> all
    /\ \A w \in Kinds : window[w] # NoWindow => enabled[w]

Forever ==
  /\ allthru => all /\ singlestep = 1
  /\ \A w \in Kinds : enabled[w] => window[w] # NoWindow

CachedInside ==
  ~all => \A w \in Kinds : enabled[w] =>
    \A a \in DOMAIN tbs : \A k \in 0 .. tbs[a] - 1 : Inside(w, a + k)

StepOpen ==
  (phase = "run" /\ ~all /\ singlestep = 1 /\ \E w \in Kinds : window[w] # NoWindow)
    => \E w \in Kinds : enabled[w]

Short ==
  (~again /\ (singlestep = 1 \/ (~allthru /\ \E w \in Kinds : enabled[w])))
    => \A a \in DOMAIN tbs : tbs[a] = 1

WindowInv ==
  /\ Types /\ Blocks /\ Before /\ Forever
  /\ CachedInside /\ StepOpen /\ Short /\ OpenWindowNeverLeft

-----------------------------------------------------------------------------
\* What the steps do

LEMMA ProcessedEffect ==
  ASSUME NEW d, Processed(d)
  PROVE  /\ phase' = phase \/ phase' = "dead"
         /\ \/ window' = window /\ enabled' = enabled
            \/ \E w \in Kinds : \E p : /\ p # NoWindow
                                       /\ window' = [window EXCEPT ![w] = p]
                                       /\ enabled' = [enabled EXCEPT ![w] = TRUE]
<1> DEFINE Effect ==
      /\ phase' = phase \/ phase' = "dead"
      /\ \/ window' = window /\ enabled' = enabled
         \/ \E w \in Kinds : \E p : /\ p # NoWindow
                                    /\ window' = [window EXCEPT ![w] = p]
                                    /\ enabled' = [enabled EXCEPT ![w] = TRUE]
<1>1. ASSUME NEW w \in Kinds, NEW x, NEW y, WindowLine(d, w, x, y) PROVE Effect
  <2>1. CASE d[x] > 0 /\ d[y] > 0 /\ d[x] < d[y]
    <3>1. <<d[x], d[y]>> # NoWindow
      BY <2>1 DEF NoWindow
    <3>2. /\ window' = [window EXCEPT ![w] = <<d[x], d[y]>>]
          /\ enabled' = [enabled EXCEPT ![w] = TRUE] /\ phase' = phase
      BY <1>1, <2>1 DEF WindowLine
    <3> QED
      BY <3>1, <3>2
  <2>2. CASE ~(d[x] > 0 /\ d[y] > 0 /\ d[x] < d[y])
    BY <1>1, <2>2 DEF WindowLine, config
  <2> QED
    BY <2>1, <2>2
<1>2. CASE UNCHANGED <<window, enabled>> /\ (phase' = phase \/ phase' = "dead")
  BY <1>2
<1>3. CASE UNCHANGED <<config, phase>>
  BY <1>2, <1>3 DEF config
<1>4. CASE phase' = "dead" /\ UNCHANGED config
  BY <1>2, <1>4 DEF config
<1>5. CASE ErrorneousLine(d)
  BY <1>2, <1>5 DEF ErrorneousLine, config
<1>6. CASE RegsLine(d)
  BY <1>2, <1>6 DEF RegsLine
<1>7. CASE ClassLine(d)
  BY <1>2, <1>7 DEF ClassLine, config
<1>8. "pc" \in Kinds /\ "icount" \in Kinds
  BY DEF Kinds
<1>9. \/ UNCHANGED <<config, phase>> \/ (phase' = "dead" /\ UNCHANGED config)
      \/ ErrorneousLine(d) \/ WindowLine(d, "pc", "start_pc", "end_pc")
      \/ WindowLine(d, "icount", "start_icount", "end_icount")
      \/ RegsLine(d) \/ ClassLine(d)
  BY DEF Processed
<1> QED
  BY <1>1, <1>3, <1>4, <1>5, <1>6, <1>7, <1>8, <1>9, Zenon

\* The command line and the file
LEMMA ConfigureEffect ==
  ASSUME Configure
  PROVE  /\ phase \in {"options", "file"}
         /\ phase' \in {"options", "file", "run", "exited", "dead"}
         /\ \/ window' = window /\ enabled' = enabled
            \/ \E w \in Kinds : \E p : /\ p # NoWindow
                                       /\ window' = [window EXCEPT ![w] = p]
                                       /\ enabled' = [enabled EXCEPT ![w] = TRUE]
         /\ \/ allthru' = allthru /\ (singlestep' = singlestep \/ singlestep' = 1)
            \/ allthru' = TRUE /\ singlestep' = 1
         /\ all' = allthru'
         /\ UNCHANGED <<cpu, cache, activated, commands, again, left>>
<1> DEFINE Effect ==
      /\ phase \in {"options", "file"}
      /\ phase' \in {"options", "file", "run", "exited", "dead"}
      /\ \/ window' = window /\ enabled' = enabled
         \/ \E w \in Kinds : \E p : /\ p # NoWindow
                                    /\ window' = [window EXCEPT ![w] = p]
                                    /\ enabled' = [enabled EXCEPT ![w] = TRUE]
      /\ \/ allthru' = allthru /\ (singlestep' = singlestep \/ singlestep' = 1)
         \/ allthru' = TRUE /\ singlestep' = 1
<1> USE DEF config
<1>1. ASSUME OptionSinglestep PROVE Effect
  BY <1>1 DEF OptionSinglestep
<1>2. ASSUME OptionNoFile PROVE Effect
  BY <1>2 DEF OptionNoFile
<1>11. ASSUME OptionNoClasses PROVE Effect
  BY <1>11 DEF OptionNoClasses
<1>3. ASSUME OptionVariability PROVE Effect
  BY <1>3 DEF OptionVariability
<1>4. ASSUME NEW d, Processed(d), phase = "file", UNCHANGED <<singlestep, allthru>> PROVE Effect
  BY <1>4, ProcessedEffect
<1>5. ASSUME ReadLine PROVE Effect
  <2>1. Processed(Head(file.rest)) /\ phase = "file" /\ UNCHANGED <<singlestep, allthru>>
    BY <1>5 DEF ReadLine
  <2> QED
    BY <1>4, <2>1
<1>6. ASSUME ReadPastEnd PROVE Effect
  <2>1. Processed(line) /\ phase = "file" /\ UNCHANGED <<singlestep, allthru>>
    BY <1>6 DEF ReadPastEnd
  <2> QED
    BY <1>4, <2>1
<1>7. ASSUME FileDone PROVE Effect
  BY <1>7 DEF FileDone
<1>8. ASSUME OptionsDone PROVE Effect
  BY <1>8 DEF OptionsDone
<1>9. ConfigNext /\ all' = allthru' /\ UNCHANGED <<cpu, cache, activated, commands, again, left>>
  BY DEF Configure
<1>10. Effect
  BY <1>1, <1>2, <1>3, <1>5, <1>6, <1>7, <1>8, <1>9, <1>11 DEF ConfigNext
<1> QED
  BY <1>9, <1>10

\* The calls of the guest's code and of the loop leave the rest as it is
Calls ==
  /\ pc' \in Addrs /\ resume' \in Addrs
  /\ run' # None => run' \in DOMAIN tbs'
  /\ last' # None => last' \in DOMAIN tbs'
  /\ \A x, y : <<x, y>> \in links' => x \in DOMAIN tbs' /\ y \in DOMAIN tbs'

Leaving ==
  /\ phase = "run" /\ phase' \in {"run", "dead"}
  /\ all' = all
  /\ left' \subseteq Kinds
  /\ ~all => \A w \in left' : ~enabled[w]

\* A step that neither translates nor switches stepping
LEMMA Kept ==
  ASSUME WindowInv, Leaving, Calls,
         UNCHANGED <<singlestep, allthru, again, enabled, window, tbs>>
  PROVE  WindowInv'
<1>1. \A w, x : Inside(w, x)' <=> Inside(w, x)
  BY DEF Inside
<1>2. Types'
  BY DEF WindowInv, Types, Leaving, Calls
<1>3. Blocks'
  BY DEF WindowInv, Blocks, Calls
<1>4. Before' /\ Forever'
  BY DEF WindowInv, Before, Forever, Leaving
<1>5. CachedInside'
  BY <1>1 DEF WindowInv, CachedInside, Leaving
<1>6. StepOpen'
  BY DEF WindowInv, StepOpen, Leaving
<1>7. Short'
  BY DEF WindowInv, Short
<1>8. OpenWindowNeverLeft'
  BY DEF OpenWindowNeverLeft, Leaving
<1> QED
  BY <1>2, <1>3, <1>4, <1>5, <1>6, <1>7, <1>8 DEF WindowInv

\* A step that translates the code at a, for the cache or to look for a fault
LEMMA Translating ==
  ASSUME WindowInv, Leaving, Calls, NEW a \in Addrs, NEW t, t = Translate(a), Translated(t),
         \/ tbs' = tbs
         \/ tbs' = [x \in DOMAIN tbs \cup {a} |-> IF x = a THEN t.len ELSE tbs[x]]
  PROVE  WindowInv'
<1>0. a \in Nat
  BY ProgramAssumption DEF Addrs
<1>1. Types /\ Blocks /\ Forever /\ CachedInside /\ StepOpen /\ Short
  BY DEF WindowInv
<1>2. Now \in Stepping /\ allthru \in BOOLEAN /\ all \in BOOLEAN /\ again \in BOOLEAN
  BY <1>1 DEF Now, Stepping, Types
<1>3. /\ t.len \in Lengths(a) /\ t.len \in Nat \ {0}
      /\ \A n \in 1 .. t.len - 1 : ~EndsBlock(a + n - 1)
      /\ t.step \in 0 .. 1 /\ t.enabled \in [Kinds -> BOOLEAN]
      /\ allthru => t.step = singlestep /\ t.enabled = enabled
      /\ \A w \in Kinds : t.enabled[w] =>
           enabled[w] /\ (~allthru => \A k \in 0 .. t.len - 1 : Inside(w, a + k))
      /\ (~allthru /\ t.step = 1) =>
           \/ \E w \in Kinds : t.enabled[w]
           \/ singlestep = 1 /\ \A w \in Kinds : ~enabled[w]
      /\ t.again \in BOOLEAN
      /\ t.step = 1 => (t.again \/ (singlestep = 1 /\ t.len = 1))
      /\ (~allthru /\ \E w \in Kinds : t.enabled[w]) => (t.again \/ t.len = 1)
  BY <1>0, <1>2, TranslateIs
<1>4. /\ singlestep' = t.step /\ enabled' = t.enabled /\ again' = (again \/ t.again)
      /\ window' = window /\ allthru' = allthru
  BY DEF Translated
<1>5. DOMAIN tbs' = DOMAIN tbs \/ DOMAIN tbs' = DOMAIN tbs \cup {a}
  OBVIOUS
<1>6. \A x \in DOMAIN tbs' : (x = a /\ tbs'[x] = t.len) \/ (x \in DOMAIN tbs /\ tbs'[x] = tbs[x])
  OBVIOUS
<1>7. \A w, x : Inside(w, x)' <=> Inside(w, x)
  BY <1>4 DEF Inside
<1>8. Types'
  <2>1. again' \in BOOLEAN /\ allthru' \in BOOLEAN /\ all' \in BOOLEAN
    BY <1>2, <1>3, <1>4 DEF Leaving
  <2> QED
    BY <1>1, <1>3, <1>4, <2>1 DEF Types, Leaving, Calls
<1>9. Blocks'
  <2>1. DOMAIN tbs' \subseteq Addrs
    BY <1>1, <1>5 DEF Blocks
  <2>2. \A x \in DOMAIN tbs' :
          /\ tbs'[x] \in Lengths(x) /\ tbs'[x] \in Nat \ {0}
          /\ \A n \in 1 .. tbs'[x] - 1 : ~EndsBlock(x + n - 1)
    BY <1>1, <1>3, <1>6 DEF Blocks
  <2> QED
    BY <2>1, <2>2 DEF Blocks, Calls
<1>10. Before'
  BY DEF Before, Leaving
<1>11. Forever'
  BY <1>1, <1>3, <1>4 DEF Forever, Leaving
<1>12. CachedInside'
  <2> SUFFICES ASSUME ~all, NEW w \in Kinds, t.enabled[w], NEW x \in DOMAIN tbs',
                      NEW k \in 0 .. tbs'[x] - 1
               PROVE  Inside(w, x + k)
    BY <1>4, <1>7 DEF CachedInside, Leaving
  <2>1. ~allthru /\ enabled[w]
    BY <1>1, <1>3 DEF Forever
  <2>2. CASE x = a /\ tbs'[x] = t.len
    BY <1>3, <2>1, <2>2
  <2>3. CASE x \in DOMAIN tbs /\ tbs'[x] = tbs[x]
    BY <1>1, <2>1, <2>3 DEF CachedInside
  <2> QED
    BY <1>6, <2>2, <2>3
<1>13. StepOpen'
  <2> SUFFICES ASSUME ~all, t.step = 1, NEW w \in Kinds, window[w] # NoWindow
               PROVE  \E v \in Kinds : t.enabled[v]
    BY <1>4 DEF StepOpen, Leaving
  <2>1. ~allthru
    BY <1>1 DEF Forever
  <2>2. singlestep = 1 => \E v \in Kinds : enabled[v]
    BY <1>1 DEF StepOpen, Leaving
  <2> QED
    BY <1>3, <2>1, <2>2
<1>14. Short'
  <2> SUFFICES ASSUME ~again, ~t.again, t.step = 1 \/ (~allthru /\ \E w \in Kinds : t.enabled[w])
               PROVE  \A x \in DOMAIN tbs' : tbs'[x] = 1
    BY <1>4 DEF Short
  <2>1. t.len = 1
    BY <1>3
  <2>2. singlestep = 1 \/ (~allthru /\ \E w \in Kinds : enabled[w])
    BY <1>3
  <2>3. \A x \in DOMAIN tbs : tbs[x] = 1
    BY <1>1, <2>2 DEF Short
  <2> QED
    BY <1>6, <2>1, <2>3
<1>15. OpenWindowNeverLeft'
  BY <1>3, <1>4 DEF OpenWindowNeverLeft, Leaving
<1> QED
  BY <1>8, <1>9, <1>10, <1>11, <1>12, <1>13, <1>14, <1>15 DEF WindowInv

\* What is executed of a cached block is inside the windows that are open
LEMMA LeftAreClosed ==
  ASSUME WindowInv, run # None, NEW n \in Nat, n <= tbs[run]
  PROVE  /\ left \cup LeftBy(n) \subseteq Kinds
         /\ ~all => \A w \in left \cup LeftBy(n) : ~enabled[w]
<1>1. run \in DOMAIN tbs /\ tbs[run] \in Nat \ {0} /\ left \subseteq Kinds
  BY DEF WindowInv, Blocks, Types
<1>2. LeftBy(n) \subseteq Kinds
  BY DEF LeftBy
<1>3. ASSUME ~all, NEW w \in LeftBy(n) PROVE ~enabled[w]
  <2>1. PICK k \in 0 .. n - 1 : ~Inside(w, run + k)
    BY DEF LeftBy
  <2>2. k \in 0 .. tbs[run] - 1 /\ w \in Kinds
    BY <1>1, <1>2
  <2> QED
    BY <1>1, <1>3, <2>1, <2>2 DEF WindowInv, CachedInside
<1> QED
  BY <1>1, <1>2, <1>3 DEF WindowInv, OpenWindowNeverLeft

LEMMA ConfigureKeeps ==
  ASSUME WindowInv, Configure
  PROVE  WindowInv'
<1>1. /\ phase \in {"options", "file"}
      /\ phase' \in {"options", "file", "run", "exited", "dead"}
      /\ \/ allthru' = allthru /\ (singlestep' = singlestep \/ singlestep' = 1)
         \/ allthru' = TRUE /\ singlestep' = 1
      /\ all' = allthru'
      /\ pc' = pc /\ resume' = resume /\ run' = run /\ last' = last
      /\ tbs' = tbs /\ links' = links /\ again' = again /\ left' = left
  BY ConfigureEffect DEF cpu, cache
<1>2. \/ window' = window /\ enabled' = enabled
      \/ \E w \in Kinds : \E p : /\ p # NoWindow
                                 /\ window' = [window EXCEPT ![w] = p]
                                 /\ enabled' = [enabled EXCEPT ![w] = TRUE]
  BY ConfigureEffect
<1>3. /\ DOMAIN tbs = {} /\ left = {} /\ ~again
      /\ run = None /\ last = None /\ links = {}
      /\ allthru <=> all
      /\ \A w \in Kinds : window[w] # NoWindow <=> enabled[w]
  BY <1>1 DEF WindowInv, Before, Forever
<1>4. /\ enabled \in [Kinds -> BOOLEAN] /\ DOMAIN window = Kinds
      /\ singlestep \in 0 .. 1 /\ allthru \in BOOLEAN /\ all \in BOOLEAN
      /\ allthru => singlestep = 1
  BY DEF WindowInv, Types, Forever
<1>5. /\ enabled' \in [Kinds -> BOOLEAN] /\ DOMAIN window' = Kinds
      /\ \A w \in Kinds : window'[w] # NoWindow <=> enabled'[w]
  <2>1. CASE window' = window /\ enabled' = enabled
    BY <1>3, <1>4, <2>1
  <2>2. ASSUME NEW v \in Kinds, NEW p, p # NoWindow, window' = [window EXCEPT ![v] = p],
               enabled' = [enabled EXCEPT ![v] = TRUE]
        PROVE  /\ enabled' \in [Kinds -> BOOLEAN] /\ DOMAIN window' = Kinds
               /\ \A w \in Kinds : window'[w] # NoWindow <=> enabled'[w]
    <3>1. enabled' \in [Kinds -> BOOLEAN] /\ DOMAIN window' = Kinds
      BY <1>4, <2>2
    <3>2. ASSUME NEW w \in Kinds PROVE window'[w] # NoWindow <=> enabled'[w]
      <4>1. CASE w = v
        BY <1>4, <2>2, <4>1
      <4>2. CASE w # v
        <5>1. window'[w] = window[w] /\ enabled'[w] = enabled[w]
          BY <1>4, <2>2, <4>2
        <5> QED
          BY <1>3, <5>1
      <4> QED
        BY <4>1, <4>2
    <3> QED
      BY <3>1, <3>2
  <2> QED
    BY <1>2, <2>1, <2>2
<1>6. /\ singlestep' \in 0 .. 1 /\ allthru' \in BOOLEAN /\ all' \in BOOLEAN
      /\ allthru' => singlestep' = 1
  <2>1. singlestep' \in 0 .. 1
    BY <1>1, <1>4
  <2>2. allthru' \in BOOLEAN /\ all' \in BOOLEAN
    BY <1>1, <1>4, Zenon
  <2>3. allthru' => singlestep' = 1
    BY <1>1, <1>4, Zenon
  <2> QED
    BY <2>1, <2>2, <2>3
<1>7. Types'
  BY <1>1, <1>5, <1>6 DEF WindowInv, Types
<1>8. Blocks'
  BY <1>1 DEF WindowInv, Blocks
<1>9. Before' /\ Forever'
  BY <1>1, <1>3, <1>5, <1>6 DEF Before, Forever
<1>10. CachedInside' /\ Short'
  BY <1>1, <1>3 DEF CachedInside, Short
<1>11. StepOpen'
  BY <1>5 DEF StepOpen
<1>12. OpenWindowNeverLeft'
  BY <1>1, <1>3 DEF OpenWindowNeverLeft
<1> QED
  BY <1>7, <1>8, <1>9, <1>10, <1>11, <1>12 DEF WindowInv

LEMMA StartBlockKeeps ==
  ASSUME WindowInv, StartBlock
  PROVE  WindowInv'
<1>1. /\ phase = "run" /\ run' = pc /\ last' = None /\ pc' = pc /\ resume' = resume
      /\ all' = all /\ left' = left
      /\ links' = IF last = None THEN links ELSE links \cup {<<last, pc>>}
  BY DEF StartBlock
<1>2. pc \in Addrs /\ resume \in Addrs /\ (last # None => last \in DOMAIN tbs)
      /\ \A x, y : <<x, y>> \in links => x \in DOMAIN tbs /\ y \in DOMAIN tbs
  BY DEF WindowInv, Types, Blocks
<1>3. \A x, y : <<x, y>> \in links' =>
        (x \in DOMAIN tbs /\ y \in DOMAIN tbs) \/ (x \in DOMAIN tbs /\ y = pc)
  BY <1>1, <1>2
<1>4. Leaving
  <2>1. phase' \in {"run", "dead"}
    BY <1>1 DEF StartBlock, ErrorModel
  <2> QED
    BY <1>1, <2>1 DEF Leaving, WindowInv, Types, OpenWindowNeverLeft
<1>5. CASE pc \in DOMAIN tbs
  <2>1. UNCHANGED <<singlestep, allthru, again, enabled, window, tbs>>
    BY <1>5 DEF StartBlock, config
  <2>2. Calls
    BY <1>1, <1>2, <1>3, <1>5, <2>1 DEF Calls
  <2> QED
    BY <1>4, <2>1, <2>2, Kept
<1>6. CASE pc \notin DOMAIN tbs
  <2>1. PICK t : t = Translate(pc)
    OBVIOUS
  <2>2. /\ Translated(t)
        /\ tbs' = [x \in DOMAIN tbs \cup {pc} |-> IF x = pc THEN t.len ELSE tbs[x]]
    BY <1>6, <2>1 DEF StartBlock
  <2>3. DOMAIN tbs' = DOMAIN tbs \cup {pc}
    BY <2>2
  <2>4. Calls
    BY <1>1, <1>2, <1>3, <2>3 DEF Calls
  <2> QED
    BY <1>2, <1>4, <2>1, <2>2, <2>4, Translating
<1> QED
  BY <1>5, <1>6

LEMMA FinishKeeps ==
  ASSUME WindowInv, FinishBlock \/ ReturnFromException
  PROVE  WindowInv'
<1>1. /\ phase = "run" /\ run # None /\ phase' = phase /\ all' = all /\ resume' = resume
      /\ left' = left \cup LeftBy(tbs[run]) /\ links' = links
      /\ UNCHANGED <<singlestep, allthru, again, enabled, window, tbs>>
  BY DEF FinishBlock, ReturnFromException, configVars, config, cache
<1>2. /\ run \in DOMAIN tbs /\ run \in Addrs /\ tbs[run] \in Nat \ {0}
      /\ \A n \in 1 .. tbs[run] - 1 : ~EndsBlock(run + n - 1)
      /\ pc \in Addrs /\ resume \in Addrs /\ (last # None => last \in DOMAIN tbs)
      /\ \A x, y : <<x, y>> \in links => x \in DOMAIN tbs /\ y \in DOMAIN tbs
  BY <1>1 DEF WindowInv, Blocks, Types
<1>3. run + tbs[run] - 1 \in Addrs
  <2>1. tbs[run] - 1 \in 0 .. tbs[run] - 1 /\ run \in Nat
    BY <1>2, ProgramAssumption DEF Addrs
  <2>2. run + (tbs[run] - 1) \in Addrs
    BY <1>2, <2>1, BlockIsCode
  <2>3. run + (tbs[run] - 1) = run + tbs[run] - 1
    BY <1>2, <2>1
  <2> QED
    BY <2>2, <2>3
<1>4. Leaving
  <2>1. tbs[run] \in Nat /\ tbs[run] <= tbs[run]
    BY <1>2
  <2> QED
    BY <1>1, <2>1, LeftAreClosed DEF Leaving
<1>5. Calls
  <2>1. CASE ReturnFromException
    BY <1>1, <1>2, <2>1 DEF Calls, ReturnFromException
  <2>2. CASE FinishBlock
    <3>1. PICK a \in Program[run + tbs[run] - 1] :
           \/ <<run, a>> \in links /\ run' = a /\ UNCHANGED <<pc, last>>
           \/ /\ <<run, a>> \notin links
              /\ pc' = a
              /\ last' = IF Page(run) = Page(a) THEN run ELSE None
              /\ run' = None
      BY <2>2 DEF FinishBlock
    <3>2. a \in Addrs
      BY <1>3, ProgramAssumption DEF Addrs
    <3> QED
      BY <1>1, <1>2, <3>1, <3>2 DEF Calls
  <2> QED
    BY <2>1, <2>2
<1> QED
  BY <1>1, <1>4, <1>5, Kept

LEMMA FaultKeeps ==
  ASSUME WindowInv, NEW k \in 0 .. PageSize - 1, Fault(k)
  PROVE  WindowInv'
<1>1. PICK t : t = Translate(run)
  OBVIOUS
<1>2. /\ phase = "run" /\ run # None /\ k < tbs[run] /\ Translated(t)
      /\ resume' \in Restored(k, t) /\ left' = left \cup LeftBy(k)
      /\ pc' = Vector /\ run' = None /\ last' = None /\ phase' = phase
      /\ tbs' = tbs /\ links' = links /\ all' = all
  BY <1>1 DEF Fault, cache
<1>3. /\ run \in DOMAIN tbs /\ run \in Addrs /\ tbs[run] \in Nat \ {0}
      /\ \A n \in 1 .. tbs[run] - 1 : ~EndsBlock(run + n - 1)
      /\ pc \in Addrs
      /\ \A x, y : <<x, y>> \in links => x \in DOMAIN tbs /\ y \in DOMAIN tbs
  BY <1>2 DEF WindowInv, Blocks, Types
<1>4. k \in Nat /\ k <= tbs[run] /\ k \in 0 .. tbs[run] - 1
  BY <1>2, <1>3, BoundsAssumption
<1>5. Leaving
  BY <1>2, <1>4, LeftAreClosed DEF Leaving
<1>6. run + k \in Addrs
  BY <1>3, <1>4, BlockIsCode
<1>7. Calls
  <2>1. resume' \in Addrs
    <3>1. Now \in Stepping
      BY DEF Now, Stepping, WindowInv, Types
    <3>2. t.len \in Nat \ {0}
      <4>1. run \in Nat
        BY <1>3, ProgramAssumption DEF Addrs
      <4> QED
        BY <1>1, <3>1, <4>1, TranslateIs
    <3>3. ASSUME t.len <= k PROVE run + t.len - 1 \in Addrs
      <4>1. t.len - 1 \in 0 .. tbs[run] - 1
        BY <1>3, <1>4, <3>2, <3>3
      <4>2. run + (t.len - 1) \in Addrs
        BY <1>3, <4>1, BlockIsCode
      <4>3. run + (t.len - 1) = run + t.len - 1
        BY <1>3, <3>2, ProgramAssumption DEF Addrs
      <4> QED
        BY <4>2, <4>3
    <3>4. k < t.len \/ t.len <= k
      BY <1>4, <3>2
    <3> QED
      BY <1>2, <1>3, <1>6, <3>3, <3>4 DEF Restored
  <2> QED
    BY <1>2, <1>3, <2>1, ProgramAssumption DEF Calls, Addrs
<1> QED
  BY <1>1, <1>2, <1>3, <1>5, <1>7, Translating

LEMMA GuestKeeps ==
  ASSUME WindowInv, Interrupt \/ Unlink \/ \E value \in BOOLEAN : VarmodWrite(value)
  PROVE  WindowInv'
<1>1. /\ phase = "run" /\ phase' = phase /\ all' = all /\ left' = left
      /\ run' = run /\ (last' = last \/ last' = None)
      /\ (pc' = pc /\ resume' = resume) \/ (pc' = Vector /\ resume' = pc)
      /\ links' \subseteq links
      /\ UNCHANGED <<singlestep, allthru, again, enabled, window, tbs>>
  <2>1. CASE Interrupt
    BY <2>1 DEF Interrupt, configVars, config, cache
  <2>2. CASE Unlink
    BY <2>2 DEF Unlink, configVars, config, cpu
  <2>3. CASE \E value \in BOOLEAN : VarmodWrite(value)
    BY <2>3 DEF VarmodWrite, configVars, config, cpu, cache
  <2> QED
    BY <2>1, <2>2, <2>3
<1>2. Leaving
  BY <1>1 DEF Leaving, WindowInv, Types, OpenWindowNeverLeft
<1>3. Calls
  BY <1>1, ProgramAssumption DEF Calls, WindowInv, Types, Blocks, Addrs
<1> QED
  BY <1>1, <1>2, <1>3, Kept

LEMMA FlushKeeps ==
  ASSUME WindowInv, TbFlush
  PROVE  WindowInv'
<1>1. /\ phase = "run" /\ phase' = phase /\ run = None /\ run' = run
      /\ tbs' = <<>> /\ links' = {} /\ last' = None /\ ~again'
      /\ UNCHANGED <<singlestep, allthru, enabled, window, pc, resume, all, left>>
  BY DEF TbFlush, configVars, config
<1>2. DOMAIN tbs' = {} /\ again' = FALSE
  BY <1>1 DEF TbFlush
<1>3. Types'
  BY <1>1, <1>2 DEF WindowInv, Types
<1>4. Blocks'
  BY <1>1, <1>2 DEF WindowInv, Blocks
<1>5. Before' /\ Forever'
  BY <1>1 DEF WindowInv, Before, Forever
<1>6. CachedInside' /\ Short'
  BY <1>2 DEF CachedInside, Short
<1>7. StepOpen'
  BY <1>1 DEF WindowInv, StepOpen
<1>8. OpenWindowNeverLeft'
  BY <1>1 DEF WindowInv, OpenWindowNeverLeft
<1> QED
  BY <1>3, <1>4, <1>5, <1>6, <1>7, <1>8 DEF WindowInv

LEMMA MonitorKeeps ==
  ASSUME WindowInv, NEW on \in BOOLEAN, Monitor(on)
  PROVE  WindowInv'
<1>1. /\ phase = "run" /\ phase' = phase /\ run = None /\ run' = run /\ last' = None
      /\ singlestep' = IF on THEN 1 ELSE 0
      /\ allthru' = on
      /\ again' = (again \/ (on /\ singlestep = 0))
      /\ all' = (all \/ on)
      /\ UNCHANGED <<enabled, window, pc, resume, tbs, links, left>>
  BY DEF Monitor, config, cache
<1>2. all' \in BOOLEAN /\ again' \in BOOLEAN /\ allthru' \in BOOLEAN
  <2>1. all \in BOOLEAN /\ again \in BOOLEAN
    BY DEF WindowInv, Types
  <2> QED
    BY <1>1, <2>1, Zenon
<1>3. ~all' => ~all /\ ~on
  BY <1>1, Zenon
<1>4. singlestep' \in 0 .. 1 /\ (allthru' => all' /\ singlestep' = 1)
  BY <1>1
<1>5. Types'
  BY <1>1, <1>2, <1>4 DEF WindowInv, Types
<1>6. Blocks'
  BY <1>1 DEF WindowInv, Blocks
<1>7. Before' /\ Forever'
  BY <1>1, <1>4 DEF WindowInv, Before, Forever
<1>8. CachedInside'
  <2>1. \A w, x : Inside(w, x)' <=> Inside(w, x)
    BY <1>1 DEF Inside
  <2> QED
    BY <1>1, <1>3, <2>1 DEF WindowInv, CachedInside
<1>9. StepOpen'
  BY <1>1, <1>3 DEF StepOpen
<1>10. Short'
  <2>1. ~again' => ~again /\ (on => singlestep # 0)
    BY <1>1, Zenon
  <2>2. singlestep \in 0 .. 1 /\ (allthru => singlestep = 1)
    BY DEF WindowInv, Types, Forever
  <2>3. CASE on
    BY <1>1, <2>1, <2>2, <2>3 DEF WindowInv, Short
  <2>4. CASE ~on
    BY <1>1, <2>1, <2>2, <2>4 DEF WindowInv, Short
  <2> QED
    BY <2>3, <2>4
<1>11. OpenWindowNeverLeft'
  BY <1>1, <1>3 DEF WindowInv, OpenWindowNeverLeft
<1> QED
  BY <1>5, <1>6, <1>7, <1>8, <1>9, <1>10, <1>11 DEF WindowInv

LEMMA WindowInit == Init => WindowInv
<1> SUFFICES ASSUME Init PROVE WindowInv
  OBVIOUS
<1>1. /\ phase = "options" /\ singlestep = 0 /\ allthru = FALSE
      /\ window = [w \in Kinds |-> NoWindow] /\ enabled = [w \in Kinds |-> FALSE]
      /\ pc = Entry /\ resume = Entry /\ DOMAIN tbs = {} /\ links = {} /\ last = None
      /\ run = None /\ again = FALSE /\ all = FALSE /\ left = {}
  BY DEF Init, ConfigInit
<1>2. Types
  <2>1. allthru \in BOOLEAN /\ all \in BOOLEAN /\ again \in BOOLEAN
    BY <1>1, Zenon
  <2>2. enabled \in [Kinds -> BOOLEAN] /\ DOMAIN window = Kinds
    BY <1>1
  <2>3. /\ phase \in {"options", "file", "run", "exited", "dead"}
        /\ singlestep \in 0 .. 1 /\ left \subseteq Kinds
        /\ pc \in Addrs /\ resume \in Addrs
    BY <1>1, ProgramAssumption DEF Addrs
  <2> QED
    BY <2>1, <2>2, <2>3 DEF Types
<1>3. Blocks
  BY <1>1 DEF Blocks
<1>4. Before /\ Forever
  BY <1>1 DEF Before, Forever
<1>5. CachedInside /\ Short /\ OpenWindowNeverLeft
  BY <1>1 DEF CachedInside, Short, OpenWindowNeverLeft
<1>6. StepOpen
  BY <1>1 DEF StepOpen
<1> QED
  BY <1>2, <1>3, <1>4, <1>5, <1>6 DEF WindowInv

LEMMA WindowStutter ==
  ASSUME WindowInv, UNCHANGED vars
  PROVE  WindowInv'
<1>1. /\ UNCHANGED <<phase, singlestep, allthru, enabled, window, pc, resume, run, last>>
      /\ UNCHANGED <<tbs, links, again, all, left>>
  BY DEF vars, configVars, config, cpu, cache
<1>2. \A w, x : Inside(w, x)' <=> Inside(w, x)
  BY <1>1 DEF Inside
<1>3. Types' /\ Blocks' /\ Before' /\ Forever'
  BY <1>1 DEF WindowInv, Types, Blocks, Before, Forever
<1>4. CachedInside'
  BY <1>1, <1>2 DEF WindowInv, CachedInside
<1>5. StepOpen' /\ Short' /\ OpenWindowNeverLeft'
  BY <1>1 DEF WindowInv, StepOpen, Short, OpenWindowNeverLeft
<1> QED
  BY <1>3, <1>4, <1>5 DEF WindowInv

\* The invariant that the properties of stepping rest on: every cached block lies
\* inside every window that is still open, which is what lets tb_find_fast take a
\* block without looking at the windows (as long as do_singlestep is not used)
THEOREM WindowInvariant == Spec => []WindowInv
<1>1. Init => WindowInv
  BY WindowInit
<1>2. WindowInv /\ [Next]_vars => WindowInv'
  <2> SUFFICES ASSUME WindowInv, [Next]_vars PROVE WindowInv'
    OBVIOUS
  <2>1. CASE Configure
    BY <2>1, ConfigureKeeps
  <2>2. CASE StartBlock
    BY <2>2, StartBlockKeeps
  <2>3. CASE FinishBlock \/ ReturnFromException
    BY <2>3, FinishKeeps
  <2>4. CASE \E k \in 0 .. PageSize - 1 : Fault(k)
    BY <2>4, FaultKeeps
  <2>5. CASE Interrupt \/ Unlink \/ \E value \in BOOLEAN : VarmodWrite(value)
    BY <2>5, GuestKeeps
  <2>6. CASE TbFlush
    BY <2>6, FlushKeeps
  <2>7. CASE \E on \in BOOLEAN : Monitor(on)
    BY <2>7, MonitorKeeps
  <2>8. CASE UNCHANGED vars
    BY <2>8, WindowStutter
  <2> QED
    BY <2>1, <2>2, <2>3, <2>4, <2>5, <2>6, <2>7, <2>8 DEF Next
<1> QED
  BY <1>1, <1>2, PTL DEF Spec

\* A window is closed before the guest gets past it, whatever the program and the
\* windows: although gen_intermediate_code_internal only looks at the windows when
\* it translates, and blocks run again from the cache and through patched jumps
THEOREM WindowClosesInTime == Spec => []OpenWindowNeverLeft
<1>1. WindowInv => OpenWindowNeverLeft
  BY DEF WindowInv
<1> QED
  BY <1>1, WindowInvariant, PTL

\* cpu_exec calls the error model only inside a window, if the configuration has
\* one: singlestep, which it tests, is what the translator left behind
THEOREM ErrorsStayInside == Spec => ErrorsInsideWindow
<1> DEFINE Step == (run = None /\ run' # None /\ ErrorModelCalled(singlestep') /\ ~all)
                     => \/ \A w \in Kinds : window[w] = NoWindow
                        \/ \E w \in Kinds : window[w] # NoWindow /\ Inside(w, pc)
<1>1. WindowInv /\ [Next]_vars => [Step]_vars
  <2> SUFFICES ASSUME WindowInv, Next, run = None, run' # None,
                      ErrorModelCalled(singlestep'), ~all,
                      \E w \in Kinds : window[w] # NoWindow
               PROVE  \E w \in Kinds : window[w] # NoWindow /\ Inside(w, pc)
    OBVIOUS
  <2>1. StartBlock
    <3>1. ~Configure
      BY ConfigureEffect DEF cpu
    <3>2. ~Interrupt /\ ~TbFlush /\ ~\E on \in BOOLEAN : Monitor(on)
      BY DEF Interrupt, TbFlush, Monitor
    <3>3. ~FinishBlock /\ ~ReturnFromException /\ ~Unlink
      BY DEF FinishBlock, ReturnFromException, Unlink
    <3>4. (~\E k \in 0 .. PageSize - 1 : Fault(k)) /\ ~\E value \in BOOLEAN : VarmodWrite(value)
      BY DEF Fault, VarmodWrite
    <3> QED
      BY <3>1, <3>2, <3>3, <3>4 DEF Next
  <2>2. /\ phase = "run" /\ singlestep' = 1 /\ pc \in Addrs /\ pc \in Nat /\ ~allthru
        /\ singlestep \in 0 .. 1 /\ enabled \in [Kinds -> BOOLEAN]
    BY <2>1, ProgramAssumption
    DEF StartBlock, ErrorModelCalled, WindowInv, Types, Forever, Addrs
  <2>3. singlestep = 1 => \E w \in Kinds : enabled[w]
    BY <2>2 DEF WindowInv, StepOpen
  <2>4. \A w \in Kinds : enabled[w] => window[w] # NoWindow
    BY DEF WindowInv, Forever
  <2>5. CASE pc \in DOMAIN tbs
    <3>1. singlestep = 1
      BY <2>1, <2>2, <2>5 DEF StartBlock
    <3>2. PICK w \in Kinds : enabled[w]
      BY <2>3, <3>1
    <3>3. tbs[pc] \in Nat \ {0}
      BY <2>5 DEF WindowInv, Blocks
    <3>4. 0 \in 0 .. tbs[pc] - 1 /\ pc + 0 = pc
      BY <2>2, <3>3
    <3>5. Inside(w, pc + 0)
      BY <2>5, <3>2, <3>4 DEF WindowInv, CachedInside
    <3> QED
      BY <2>4, <3>2, <3>4, <3>5
  <2>6. CASE pc \notin DOMAIN tbs
    <3>1. PICK t : t = Translate(pc)
      OBVIOUS
    <3>2. t.step = 1
      BY <2>1, <2>2, <2>6, <3>1 DEF StartBlock, Translated
    <3>3. Now \in Stepping
      BY <2>2 DEF Now, Stepping
    <3>4. PICK w \in Kinds : t.enabled[w]
      BY <2>2, <2>3, <3>1, <3>2, <3>3, TranslateIs
    <3>5. t.len \in Nat \ {0} /\ enabled[w] /\ \A k \in 0 .. t.len - 1 : Inside(w, pc + k)
      BY <2>2, <3>1, <3>3, <3>4, TranslateIs
    <3>6. 0 \in 0 .. t.len - 1 /\ pc + 0 = pc
      BY <2>2, <3>5
    <3> QED
      BY <2>4, <3>5, <3>6
  <2> QED
    BY <2>5, <2>6
<1>2. Spec => [][Next]_vars
  BY PTL DEF Spec
<1> QED
  BY <1>1, <1>2, WindowInvariant, PTL DEF ErrorsInsideWindow

\* cpu_restore_state finds the instruction that faulted by translating the block
\* again, although singlestep and the windows have changed since, as long as
\* do_singlestep has not switched stepping on in between
THEOREM RestoreStaysExact == Spec => RestoreIsExact
<1> DEFINE Step == (user /\ ~user' /\ ~again) => resume' = truePc'
<1>1. WindowInv /\ [Next]_vars => [Step]_vars
  <2> SUFFICES ASSUME WindowInv, Next, user, ~user', ~again
               PROVE  resume' = truePc'
    OBVIOUS
  <2>1. Interrupt \/ \E k \in 0 .. PageSize - 1 : Fault(k)
    <3>1. ~Configure
      BY ConfigureEffect DEF cpu
    <3>2. ~StartBlock /\ ~TbFlush /\ ~\E on \in BOOLEAN : Monitor(on)
      BY DEF StartBlock, TbFlush, Monitor
    <3>3. ~FinishBlock /\ ~ReturnFromException /\ ~Unlink
      BY DEF FinishBlock, ReturnFromException, Unlink, cpu
    <3>4. ~\E value \in BOOLEAN : VarmodWrite(value)
      BY DEF VarmodWrite, cpu
    <3> QED
      BY <3>1, <3>2, <3>3, <3>4 DEF Next
  <2>2. CASE Interrupt
    BY <2>2 DEF Interrupt
  <2>3. ASSUME NEW k \in 0 .. PageSize - 1, Fault(k) PROVE resume' = truePc'
    <3>1. PICK t : t = Translate(run)
      OBVIOUS
    <3>2. /\ run # None /\ k < tbs[run] /\ resume' \in Restored(k, t) /\ truePc' = run + k
      BY <2>3, <3>1 DEF Fault
    <3>3. /\ run \in DOMAIN tbs /\ run \in Addrs /\ run \in Nat /\ tbs[run] \in Nat \ {0}
          /\ \A n \in 1 .. tbs[run] - 1 : ~EndsBlock(run + n - 1)
          /\ singlestep \in 0 .. 1 /\ (allthru => singlestep = 1)
          /\ enabled \in [Kinds -> BOOLEAN] /\ k \in Nat
      BY <3>2, ProgramAssumption, BoundsAssumption
      DEF WindowInv, Blocks, Types, Forever, Addrs
    <3>4. Now \in Stepping
      BY <3>3 DEF Now, Stepping
    <3>5. /\ t.len \in Nat \ {0}
          /\ (singlestep = 0 /\ \A w \in Kinds : ~enabled[w]) => EndsBlock(run + t.len - 1)
      BY <3>1, <3>3, <3>4, TranslateIs
    <3>6. CASE tbs[run] = 1
      <4>1. k < t.len
        BY <3>2, <3>3, <3>5, <3>6
      <4> QED
        BY <3>2, <4>1 DEF Restored
    <3>7. CASE tbs[run] # 1
      <4>1. singlestep = 0 /\ \A w \in Kinds : ~enabled[w]
        BY <3>3, <3>7 DEF WindowInv, Short
      <4>2. t.len \notin 1 .. tbs[run] - 1
        BY <3>3, <3>5, <4>1
      <4>3. k < t.len
        BY <3>2, <3>3, <3>5, <4>2
      <4> QED
        BY <3>2, <4>3 DEF Restored
    <3> QED
      BY <3>6, <3>7
  <2> QED
    BY <2>1, <2>2, <2>3
<1>2. Spec => [][Next]_vars
  BY PTL DEF Spec
<1> QED
  BY <1>1, <1>2, WindowInvariant, PTL DEF RestoreIsExact

-----------------------------------------------------------------------------
\* The configuration

\* The lines that have been read
Seen(p) ==
  \/ p[1] < arg
  \/ phase = "file" /\ p[1] = arg /\ p[2] <= Len(cmd[arg].lines) - Len(file.rest)

SeenPlaces(i) == {p \in AssigningPlaces(i) : Seen(p)}

Reading == phase \in {"options", "file", "run"}

\* While the file is read, what is left is its end, and the buffer of
\* parse_variability_file holds the line before that
FileInv ==
  phase = "file" =>
    /\ arg \in 1 .. Len(cmd) /\ cmd[arg].option = "variability"
    /\ Len(file.rest) <= Len(cmd[arg].lines)
    /\ \A k \in 1 .. Len(file.rest) :
         file.rest[k] = cmd[arg].lines[Len(cmd[arg].lines) - Len(file.rest) + k]
    /\ line = IF Len(file.rest) = Len(cmd[arg].lines) THEN ClassInfo
              ELSE cmd[arg].lines[Len(cmd[arg].lines) - Len(file.rest)]
    /\ file.eof => file.rest = <<>>

\* The inductive invariant: at every point each instruction is in the class
\* that the last line read so far gives it
ConfigInv ==
  /\ cmd \in Seq(Options)
  /\ arg \in 1 .. Len(cmd) + 1
  /\ file \in [rest : Seq(FileLines), newline : BOOLEAN, eof : BOOLEAN]
  /\ phase = "run" => arg = Len(cmd) + 1
  /\ FileInv
  /\ Reading => \A i \in Insns : LastDecides(SeenPlaces(i), i)

\* The keys that say what a line is
LEMMA KindOfLine ==
  ASSUME NEW d, KindOf(d) # {}
  PROVE  \E key \in {"malformed", "class_info", "y", "start_pc", "start_icount",
                     "error_regs", "mem_errors"} : key \in KindOf(d)
<1> DEFINE keys == <<{"malformed"}, {"class_info"}, {"y"}, {"start_pc", "end_pc"},
                {"start_icount", "end_icount"}, {"error_regs"}, {"mem_errors"}>>
           fits == {n \in DOMAIN keys : \A key \in keys[n] : HasKey(d, key)}
<1>1. KindOf(d) = IF fits = {} THEN {} ELSE keys[Min(fits)]
  BY Zenon DEF KindOf
<1>2. DOMAIN keys = 1 .. 7
  OBVIOUS
<1>3. \A n \in 1 .. 7 : \E key \in {"malformed", "class_info", "y", "start_pc", "start_icount",
                                    "error_regs", "mem_errors"} : key \in keys[n]
  OBVIOUS
<1> HIDE DEF keys
<1>4. fits # {} /\ fits \in SUBSET Nat
  BY <1>1, <1>2
<1>5. \E x \in fits : \A y \in fits : x <= y
  BY <1>4, LeastNatural, Zenon
<1>6. Min(fits) \in fits
  BY <1>5, Zenon DEF Min
<1>7. Min(fits) \in 1 .. 7
  BY <1>2, <1>6, Zenon
<1> QED
  BY <1>1, <1>3, <1>4, <1>7, Zenon

\* The buffer after the first line is no line of classes and instructions
LEMMA ClassInfoIsNone == KindOf(ClassInfo) # {}
<1> DEFINE keys == <<{"malformed"}, {"class_info"}, {"y"}, {"start_pc", "end_pc"},
                {"start_icount", "end_icount"}, {"error_regs"}, {"mem_errors"}>>
           fits == {n \in DOMAIN keys : \A key \in keys[n] : HasKey(ClassInfo, key)}
<1>1. KindOf(ClassInfo) = IF fits = {} THEN {} ELSE keys[Min(fits)]
  BY Zenon DEF KindOf
<1>2. DOMAIN keys = 1 .. 7 /\ keys[2] = {"class_info"} /\ \A n \in 1 .. 7 : keys[n] # {}
  OBVIOUS
<1> HIDE DEF keys
<1>3. HasKey(ClassInfo, "class_info")
  BY DEF HasKey, ClassInfo
<1>4. fits # {} /\ fits \in SUBSET Nat
  <2>1. 2 \in 1 .. 7
    OBVIOUS
  <2>2. 2 \in fits
    BY <1>2, <1>3, <2>1, Zenon
  <2> QED
    BY <1>2, <2>2
<1>5. \E x \in fits : \A y \in fits : x <= y
  BY <1>4, LeastNatural, Zenon
<1>6. Min(fits) \in fits
  BY <1>5, Zenon DEF Min
<1>7. Min(fits) \in 1 .. 7
  BY <1>2, <1>6, Zenon
<1> QED
  BY <1>1, <1>2, <1>4, <1>7, Zenon

\* What a line does to the classes
LEMMA ProcessedClasses ==
  ASSUME NEW d, Processed(d)
  PROVE  \/ phase' = "dead"
         \/ phase' = phase /\ class' = class /\ KindOf(d) # {}
         \/ phase' = phase /\ class' = Assigned(d) /\ KindOf(d) = {}
<1> USE DEF config
<1>1. CASE KindOf(d) = {}
  <2>1. ClassLine(d)
    BY <1>1, Zenon DEF Processed
  <2> QED
    BY <1>1, <2>1, Zenon DEF ClassLine
<1>2. CASE KindOf(d) # {}
  <2>1. ASSUME NEW w, NEW x, NEW y, WindowLine(d, w, x, y)
        PROVE  phase' = "dead" \/ (phase' = phase /\ class' = class)
    BY <2>1, Zenon DEF WindowLine
  <2>2. CASE UNCHANGED <<config, phase>> \/ (phase' = "dead" /\ UNCHANGED config)
    BY <1>2, <2>2, Zenon
  <2>3. CASE ErrorneousLine(d)
    BY <1>2, <2>3, Zenon DEF ErrorneousLine
  <2>4. CASE RegsLine(d)
    BY <1>2, <2>4, Zenon DEF RegsLine
  <2>5. \/ UNCHANGED <<config, phase>> \/ (phase' = "dead" /\ UNCHANGED config)
        \/ ErrorneousLine(d) \/ WindowLine(d, "pc", "start_pc", "end_pc")
        \/ WindowLine(d, "icount", "start_icount", "end_icount")
        \/ RegsLine(d)
    <3>1. PICK key \in {"malformed", "class_info", "y", "start_pc", "start_icount",
                        "error_regs", "mem_errors"} : key \in KindOf(d)
      BY <1>2, KindOfLine, Zenon
    <3> QED
      BY <3>1, Zenon DEF Processed
  <2> QED
    BY <1>2, <2>1, <2>2, <2>3, <2>4, <2>5, Zenon
<1> QED
  BY <1>1, <1>2, Zenon

LEMMA PlaceFacts ==
  ASSUME cmd \in Seq(Options)
  PROVE  /\ \A p \in LinePlaces :
              /\ p[1] \in 1 .. Len(cmd) /\ cmd[p[1]].option = "variability"
              /\ p[2] \in 1 .. Len(cmd[p[1]].lines) /\ p = <<p[1], p[2]>>
         /\ \A n \in 1 .. Len(cmd) : cmd[n].option = "variability" =>
              /\ cmd[n].lines \in Seq(FileLines)
              /\ \A k \in 1 .. Len(cmd[n].lines) : <<n, k>> \in LinePlaces
<1>1. DOMAIN cmd = 1 .. Len(cmd) /\ \A n \in 1 .. Len(cmd) : cmd[n] \in Options
  OBVIOUS
<1>2. ASSUME NEW n \in 1 .. Len(cmd), cmd[n].option = "variability"
      PROVE  cmd[n].lines \in Seq(FileLines) /\ DOMAIN cmd[n].lines = 1 .. Len(cmd[n].lines)
  <2>1. cmd[n] \in Options
    BY <1>1, Zenon
  <2>2. cmd[n] \in [option : {"variability"}, lines : Seq(FileLines), newline : BOOLEAN]
    BY <1>2, <2>1 DEF Options
  <2>3. cmd[n].lines \in Seq(FileLines)
    BY <2>2, Zenon
  <2> QED
    BY <2>3
<1>3. ASSUME NEW p \in LinePlaces
      PROVE  /\ p[1] \in 1 .. Len(cmd) /\ cmd[p[1]].option = "variability"
             /\ p[2] \in 1 .. Len(cmd[p[1]].lines) /\ p = <<p[1], p[2]>>
  <2>1. PICK n \in DOMAIN cmd : cmd[n].option = "variability" /\ p \in {n} \X DOMAIN cmd[n].lines
    BY <1>3, Zenon DEF LinePlaces
  <2>2. p[1] = n /\ p[2] \in DOMAIN cmd[n].lines /\ p = <<p[1], p[2]>>
    BY <2>1
  <2> QED
    BY <1>1, <1>2, <2>1, <2>2, Zenon
<1>4. ASSUME NEW n \in 1 .. Len(cmd), cmd[n].option = "variability",
             NEW k \in 1 .. Len(cmd[n].lines)
      PROVE  <<n, k>> \in LinePlaces
  <2>1. <<n, k>> \in {n} \X DOMAIN cmd[n].lines
    BY <1>2, <1>4, Zenon
  <2> QED
    BY <1>1, <1>4, <2>1, Zenon DEF LinePlaces
<1> QED
  BY <1>2, <1>3, <1>4, Zenon

\* A step that reads no line that names i, and leaves its class
LEMMA DecidedStill ==
  ASSUME NEW i, cmd' = cmd, class'[i] = class[i],
         \A p \in AssigningPlaces(i) : Seen(p)' <=> Seen(p),
         LastDecides(SeenPlaces(i), i)
  PROVE  LastDecides(SeenPlaces(i), i)'
<1>1. AssigningPlaces(i)' = AssigningPlaces(i)
  BY Zenon DEF AssigningPlaces, LinePlaces, LineAt
<1>2. SeenPlaces(i)' = SeenPlaces(i)
  BY <1>1, Zenon DEF SeenPlaces
<1>3. \A p : LineAt(p)' = LineAt(p)
  BY Zenon DEF LineAt
<1> QED
  BY <1>2, <1>3, Zenon DEF LastDecides

\* The line at q names i, and is the last that has been read
LEMMA DecidedAnew ==
  ASSUME NEW i \in Insns, NEW q \in AssigningPlaces(i), cmd' = cmd,
         class' = Assigned(LineAt(q)), Seen(q)',
         \A p \in AssigningPlaces(i) : Seen(p)' => ~Earlier(q, p)
  PROVE  LastDecides(SeenPlaces(i), i)'
<1>1. AssigningPlaces(i)' = AssigningPlaces(i)
  BY Zenon DEF AssigningPlaces, LinePlaces, LineAt
<1>2. q \in SeenPlaces(i)' /\ \A p \in SeenPlaces(i)' : ~Earlier(q, p)
  BY <1>1, Zenon DEF SeenPlaces
<1>3. \A p : LineAt(p)' = LineAt(p)
  BY Zenon DEF LineAt
<1>4. \E c \in DOMAIN LineAt(q) \cap Classes : i \in LineAt(q)[c]
  BY Zenon DEF AssigningPlaces, Assigns
<1>5. class'[i] = CHOOSE c \in DOMAIN LineAt(q) \cap Classes : i \in LineAt(q)[c]
  BY <1>4, Zenon DEF Assigned
<1>6. class'[i] \in DOMAIN LineAt(q) \cap Classes /\ i \in LineAt(q)[class'[i]]
  BY <1>4, <1>5, Zenon
<1> QED
  BY <1>2, <1>3, <1>6, Zenon DEF LastDecides, Earlier

\* A line that does not name i leaves its class
LEMMA NotNamed ==
  ASSUME NEW d, NEW i \in Insns, class' = Assigned(d), KindOf(d) = {}, ~Assigns(d, i)
  PROVE  class'[i] = class[i]
  BY Zenon DEF Assigned, Assigns

\* The line at q has been processed, and no line after it has been read
LEMMA Decided ==
  ASSUME cmd \in Seq(Options), NEW q \in LinePlaces, Processed(LineAt(q)),
         cmd' = cmd, arg' = arg, q[1] = arg, phase' = phase,
         \A p \in LinePlaces : Seen(p)' <=> p[1] < arg \/ (p[1] = arg /\ p[2] <= q[2]),
         \A p \in LinePlaces : p # q => (Seen(p)' <=> Seen(p)),
         \A i \in Insns : LastDecides(SeenPlaces(i), i)
  PROVE  phase = "dead" \/ \A i \in Insns : LastDecides(SeenPlaces(i), i)'
<1> SUFFICES ASSUME phase # "dead", NEW i \in Insns PROVE LastDecides(SeenPlaces(i), i)'
  BY Zenon
<1> DEFINE d == LineAt(q)
<1>1. \/ class' = class /\ KindOf(d) # {}
      \/ class' = Assigned(d) /\ KindOf(d) = {}
  BY ProcessedClasses, Zenon
<1>2. CASE Assigns(d, i)
  <2>1. class' = Assigned(d) /\ q \in AssigningPlaces(i)
    BY <1>1, <1>2, Zenon DEF Assigns, AssigningPlaces
  <2>2. \A p \in LinePlaces : p[1] \in Int /\ p[2] \in Int
    <3>1. \A p \in LinePlaces : p[1] \in 1 .. Len(cmd) /\ p[2] \in 1 .. Len(cmd[p[1]].lines)
      BY PlaceFacts, Zenon
    <3> QED
      BY <3>1
  <2>3. Seen(q)'
    <3>1. q[2] <= q[2]
      BY <2>2
    <3> QED
      BY <3>1, Zenon
  <2>4. ASSUME NEW p \in LinePlaces, Seen(p)' PROVE ~Earlier(q, p)
    <3>1. p[1] < arg \/ (p[1] = arg /\ p[2] <= q[2])
      BY <2>4, Zenon
    <3>2. p[1] \in Int /\ p[2] \in Int /\ q[1] \in Int /\ q[2] \in Int
      BY <2>2, Zenon
    <3> QED
      BY <3>1, <3>2 DEF Earlier
  <2>5. \A p \in AssigningPlaces(i) : Seen(p)' => ~Earlier(q, p)
    BY <2>4, Zenon DEF AssigningPlaces
  <2> QED
    BY <2>1, <2>3, <2>5, DecidedAnew, Zenon
<1>3. CASE ~Assigns(d, i)
  <2>1. class'[i] = class[i]
    BY <1>1, <1>3, NotNamed, Zenon
  <2>2. \A p \in AssigningPlaces(i) : p # q /\ p \in LinePlaces
    BY <1>3, Zenon DEF AssigningPlaces
  <2>3. \A p \in AssigningPlaces(i) : Seen(p)' <=> Seen(p)
    BY <2>2, Zenon
  <2> QED
    BY <2>1, <2>3, DecidedStill, Zenon
<1> QED
  BY <1>2, <1>3, Zenon

\* Whatever was wrong with a line, the configuration stays what it was
LEMMA Died ==
  ASSUME ConfigInv, phase' \in {"exited", "dead"}, cmd' = cmd, arg' = arg,
         file' \in [rest : Seq(FileLines), newline : BOOLEAN, eof : BOOLEAN]
  PROVE  ConfigInv'
  BY Zenon DEF ConfigInv, FileInv, Reading

\* A line of the file
LEMMA ReadLineKeeps ==
  ASSUME ConfigInv, ReadLine
  PROVE  ConfigInv'
<1> DEFINE lines == cmd[arg].lines
           n == Len(lines)
           m == Len(file.rest)
           d == Head(file.rest)
           q == <<arg, n - m + 1>>
<1>1. /\ phase = "file" /\ file.rest # <<>> /\ line' = d /\ Processed(d)
      /\ file' = [file EXCEPT !.rest = Tail(@), !.eof = Len(file.rest) = 1 /\ ~file.newline]
      /\ cmd' = cmd /\ arg' = arg
  BY Zenon DEF ReadLine
<1>2. /\ cmd \in Seq(Options) /\ arg \in 1 .. Len(cmd) /\ cmd[arg].option = "variability"
      /\ file \in [rest : Seq(FileLines), newline : BOOLEAN, eof : BOOLEAN] /\ m <= n
      /\ \A k \in 1 .. m : file.rest[k] = lines[n - m + k]
      /\ arg \in 1 .. Len(cmd) + 1
      /\ \A i \in Insns : LastDecides(SeenPlaces(i), i)
  BY <1>1, Zenon DEF ConfigInv, FileInv, Reading
<1>3. lines \in Seq(FileLines) /\ \A k \in 1 .. n : <<arg, k>> \in LinePlaces
  BY <1>2, PlaceFacts, Zenon
<1>4. /\ n \in Nat /\ m \in Nat /\ m > 0 /\ n - m + 1 \in 1 .. n
      /\ Tail(file.rest) \in Seq(FileLines) /\ Len(Tail(file.rest)) = m - 1
      /\ d = file.rest[1] /\ \A k \in 1 .. m - 1 : Tail(file.rest)[k] = file.rest[k + 1]
  <2>1. file.rest \in Seq(FileLines)
    BY <1>2, Zenon
  <2> QED
    BY <1>1, <1>2, <1>3, <2>1
<1>5. d = lines[n - m + 1] /\ LineAt(q) = d /\ q \in LinePlaces /\ q[1] = arg /\ q[2] = n - m + 1
  <2>1. 1 \in 1 .. m
    BY <1>4
  <2>2. d = lines[n - m + 1]
    BY <1>2, <1>4, <2>1, Zenon
  <2>3. q \in LinePlaces /\ q[1] = arg /\ q[2] = n - m + 1
    BY <1>3, <1>4, Zenon
  <2> QED
    BY <2>2, <2>3, Zenon DEF LineAt
<1>6. /\ file'.rest = Tail(file.rest) /\ (file'.eof => m = 1)
      /\ file' \in [rest : Seq(FileLines), newline : BOOLEAN, eof : BOOLEAN]
  BY <1>1, <1>2, <1>4, Zenon
<1>7. Len(file'.rest) = m - 1
  BY <1>4, <1>6
<1> HIDE DEF d, q, m, n, lines
<1>8. CASE phase' = "dead"
  BY <1>1, <1>6, <1>8, Died, Zenon
<1>9. CASE phase' = phase
  <2>1. FileInv'
    <3>1. \A k \in 1 .. m - 1 : file'.rest[k] = lines[n - (m - 1) + k]
      <4> TAKE k \in 1 .. m - 1
      <4>1. k + 1 \in 1 .. m /\ n - (m - 1) + k = n - m + (k + 1)
        BY <1>4
      <4> QED
        BY <1>2, <1>4, <1>6, <4>1, Zenon
    <3>2. line' = lines[n - (m - 1)] /\ m - 1 # n /\ m - 1 <= n
      <4>1. n - (m - 1) = n - m + 1 /\ m - 1 # n /\ m - 1 <= n
        BY <1>2, <1>4
      <4> QED
        BY <1>1, <1>5, <4>1, Zenon
    <3>3. file'.eof => file'.rest = <<>>
      BY <1>4, <1>6
    <3> QED
      BY <1>1, <1>2, <1>7, <1>9, <3>1, <3>2, <3>3, Zenon DEF FileInv, n, lines
  <2>2. ASSUME NEW p \in LinePlaces
        PROVE  /\ Seen(p)' <=> p[1] < arg \/ (p[1] = arg /\ p[2] <= q[2])
               /\ p # q => (Seen(p)' <=> Seen(p))
    <3>0. p[1] \in 1 .. Len(cmd) /\ p[2] \in 1 .. Len(cmd[p[1]].lines) /\ p = <<p[1], p[2]>>
      BY <1>2, PlaceFacts, Zenon
    <3>1. p[2] \in Int /\ n - (m - 1) = n - m + 1
      BY <3>0, <1>4
    <3>2. Seen(p)' <=> p[1] < arg \/ (p[1] = arg /\ p[2] <= n - m + 1)
      BY <1>1, <1>7, <1>9, <3>1, Zenon DEF Seen, n, lines
    <3>3. Seen(p) <=> p[1] < arg \/ (p[1] = arg /\ p[2] <= n - m)
      BY <1>1, Zenon DEF Seen, n, m, lines
    <3>4. p[2] <= n - m + 1 <=> p[2] <= n - m \/ p[2] = n - m + 1
      BY <1>4, <3>1
    <3>5. p[1] = arg /\ p[2] = n - m + 1 => p = q
      BY <3>0, Zenon DEF q
    <3> QED
      BY <1>5, <3>2, <3>3, <3>4, <3>5, Zenon
  <2>3. \A i \in Insns : LastDecides(SeenPlaces(i), i)'
    BY <1>1, <1>2, <1>5, <1>9, <2>2, Decided, Zenon
  <2> QED
    BY <1>1, <1>2, <1>6, <1>9, <2>1, <2>3, Zenon DEF ConfigInv, Reading
<1> QED
  BY <1>1, <1>8, <1>9, ProcessedClasses, Zenon

\* The buffer is processed again: it is the last line, or the first
LEMMA ReadPastEndKeeps ==
  ASSUME ConfigInv, ReadPastEnd
  PROVE  ConfigInv'
<1> DEFINE lines == cmd[arg].lines
           n == Len(lines)
           q == <<arg, n>>
<1>1. /\ phase = "file" /\ file.rest = <<>> /\ Processed(line) /\ line' = line
      /\ file' = [file EXCEPT !.eof = TRUE]
      /\ cmd' = cmd /\ arg' = arg
  BY Zenon DEF ReadPastEnd
<1>2. /\ cmd \in Seq(Options) /\ arg \in 1 .. Len(cmd) /\ cmd[arg].option = "variability"
      /\ file \in [rest : Seq(FileLines), newline : BOOLEAN, eof : BOOLEAN]
      /\ line = IF Len(file.rest) = Len(lines) THEN ClassInfo ELSE lines[n - Len(file.rest)]
      /\ arg \in 1 .. Len(cmd) + 1
      /\ \A i \in Insns : LastDecides(SeenPlaces(i), i)
  BY <1>1, Zenon DEF ConfigInv, FileInv, Reading
<1>3. lines \in Seq(FileLines) /\ \A k \in 1 .. n : <<arg, k>> \in LinePlaces
  BY <1>2, PlaceFacts, Zenon
<1>4. n \in Nat /\ Len(file.rest) = 0 /\ n - Len(file.rest) = n /\ n - 0 = n
  BY <1>1, <1>3
<1>5. /\ file'.rest = file.rest
      /\ file' \in [rest : Seq(FileLines), newline : BOOLEAN, eof : BOOLEAN]
  BY <1>1, <1>2, Zenon
<1> HIDE DEF q, n, lines
<1>6. CASE phase' = "dead"
  BY <1>1, <1>5, <1>6, Died, Zenon
<1>7. CASE phase' = phase
  <2>1. FileInv'
    BY <1>1, <1>5, <1>7, Zenon DEF FileInv, ConfigInv
  <2>2. \A p : Seen(p)' <=> Seen(p)
    BY <1>1, <1>5, <1>7, Zenon DEF Seen
  <2>3. CASE n = 0
    <3>1. KindOf(line) # {}
      BY <1>2, <1>4, <2>3, ClassInfoIsNone, Zenon DEF n
    <3>2. class' = class
      BY <1>1, <1>7, <3>1, ProcessedClasses, Zenon
    <3> QED
      BY <1>1, <1>2, <1>5, <1>7, <2>1, <2>2, <3>2, DecidedStill, Zenon DEF ConfigInv, Reading
  <2>4. CASE n # 0
    <3>1. n \in 1 .. n
      BY <1>4, <2>4
    <3>2. q \in LinePlaces /\ q[1] = arg /\ q[2] = n /\ LineAt(q) = line
      BY <1>2, <1>3, <1>4, <2>4, <3>1, Zenon DEF q, LineAt, n, lines
    <3>3. \A p : Seen(p)' <=> p[1] < arg \/ (p[1] = arg /\ p[2] <= q[2])
      BY <1>1, <1>4, <1>5, <1>7, <3>2, Zenon DEF Seen, n, lines
    <3>4. \A i \in Insns : LastDecides(SeenPlaces(i), i)'
      BY <1>1, <1>2, <1>7, <2>2, <3>2, <3>3, Decided, Zenon
    <3> QED
      BY <1>1, <1>2, <1>5, <1>7, <2>1, <3>4, Zenon DEF ConfigInv, Reading
  <2> QED
    BY <2>3, <2>4, Zenon
<1> QED
  BY <1>1, <1>6, <1>7, ProcessedClasses, Zenon

\* The options, and the end of a file
LEMMA OptionsKeep ==
  ASSUME ConfigInv,
         \/ OptionSinglestep \/ OptionNoFile \/ OptionNoClasses
         \/ OptionVariability \/ FileDone \/ OptionsDone
  PROVE  ConfigInv'
<1> USE DEF config, parsing
<1>1. /\ cmd \in Seq(Options) /\ arg \in 1 .. Len(cmd) + 1 /\ DOMAIN cmd = 1 .. Len(cmd)
      /\ file \in [rest : Seq(FileLines), newline : BOOLEAN, eof : BOOLEAN]
  <2>1. cmd \in Seq(Options)
    BY Zenon DEF ConfigInv
  <2> QED
    BY <2>1 DEF ConfigInv
<1>2. ASSUME cmd' = cmd, class' = class, Reading, \A p \in LinePlaces : Seen(p)' <=> Seen(p)
      PROVE  \A i \in Insns : LastDecides(SeenPlaces(i), i)'
  BY <1>2, DecidedStill, Zenon DEF ConfigInv, AssigningPlaces
<1>3. ASSUME NEW p \in LinePlaces
      PROVE  /\ p[1] \in 1 .. Len(cmd) /\ cmd[p[1]].option = "variability"
             /\ p[2] \in 1 .. Len(cmd[p[1]].lines) /\ p[1] \in Int /\ p[2] \in Int
  <2>1. p[1] \in 1 .. Len(cmd) /\ cmd[p[1]].option = "variability" /\ p[2] \in 1 .. Len(cmd[p[1]].lines)
    BY <1>1, <1>3, PlaceFacts, Zenon
  <2> QED
    BY <2>1
<1>4. <<>> \in Seq(FileLines) /\ Len(<<>>) = 0
  OBVIOUS
<1>5. NoFile \in [rest : Seq(FileLines), newline : BOOLEAN, eof : BOOLEAN]
  BY <1>4, Zenon DEF NoFile
<1>a. CASE OptionSinglestep
  <2>1. /\ phase = "options" /\ phase' = "options" /\ arg \in 1 .. Len(cmd)
        /\ cmd[arg].option = "singlestep" /\ arg' = arg + 1
        /\ UNCHANGED <<cmd, file, class>>
    BY <1>1, <1>a, Zenon DEF OptionSinglestep
  <2>2. ASSUME NEW p \in LinePlaces PROVE Seen(p)' <=> Seen(p)
    <3>1. p[1] # arg
      BY <1>3, <2>1, Zenon
    <3>2. p[1] < arg + 1 <=> p[1] < arg
      BY <1>3, <2>1, <3>1
    <3> QED
      BY <2>1, <3>2, Zenon DEF Seen
  <2>3. arg' \in 1 .. Len(cmd) + 1
    BY <1>1, <2>1
  <2> QED
    BY <1>1, <1>2, <2>1, <2>2, <2>3, Zenon DEF ConfigInv, FileInv, Reading
<1>b. CASE OptionNoFile \/ OptionNoClasses
  BY <1>1, <1>b, Died, Zenon DEF OptionNoFile, OptionNoClasses
<1>c. CASE OptionVariability
  <2> DEFINE lines == cmd[arg].lines
  <2>1. /\ phase = "options" /\ phase' = "file" /\ arg \in 1 .. Len(cmd)
        /\ cmd[arg].option = "variability" /\ arg' = arg
        /\ file' = [rest |-> lines, newline |-> cmd[arg].newline,
                    eof |-> lines = <<>> /\ ~cmd[arg].newline]
        /\ line' = ClassInfo
        /\ UNCHANGED <<cmd, class>>
    BY <1>1, <1>c, Zenon DEF OptionVariability
  <2>2. lines \in Seq(FileLines) /\ cmd[arg].newline \in BOOLEAN
    <3>1. cmd[arg] \in Options
      BY <1>1, <2>1
    <3>2. cmd[arg] \in [option : {"variability"}, lines : Seq(FileLines), newline : BOOLEAN]
      BY <2>1, <3>1 DEF Options
    <3> QED
      BY <3>2, Zenon
  <2>3. /\ file'.rest = lines /\ (file'.eof => file'.rest = <<>>)
        /\ file' \in [rest : Seq(FileLines), newline : BOOLEAN, eof : BOOLEAN]
    BY <2>1, <2>2, Zenon
  <2>4. Len(lines) \in Nat /\ Len(lines) - Len(lines) = 0 /\ Len(lines) <= Len(lines)
        /\ \A k \in 1 .. Len(lines) : k = 0 + k
    BY <2>2
  <2>5. FileInv'
    BY <2>1, <2>3, <2>4, Zenon DEF FileInv
  <2>6. ASSUME NEW p \in LinePlaces PROVE Seen(p)' <=> Seen(p)
    <3>1. ~(p[2] <= 0)
      BY <1>3
    <3> QED
      BY <2>1, <2>3, <2>4, <3>1, Zenon DEF Seen
  <2> QED
    BY <1>1, <1>2, <2>1, <2>3, <2>5, <2>6, Zenon DEF ConfigInv, Reading
<1>d. CASE FileDone
  <2> DEFINE lines == cmd[arg].lines
  <2>1. /\ phase = "file" /\ file.eof /\ phase' = "options" /\ arg' = arg + 1 /\ file' = NoFile
        /\ UNCHANGED <<cmd, class>>
    BY <1>d, Zenon DEF FileDone
  <2>2. arg \in 1 .. Len(cmd) /\ cmd[arg].option = "variability" /\ file.rest = <<>>
    BY <2>1, Zenon DEF ConfigInv, FileInv
  <2>3. lines \in Seq(FileLines)
    BY <1>1, <2>2, PlaceFacts, Zenon
  <2>4. Len(lines) - Len(file.rest) = Len(lines)
    BY <1>4, <2>2, <2>3
  <2>5. ASSUME NEW p \in LinePlaces PROVE Seen(p)' <=> Seen(p)
    <3>1. p[1] = arg => p[2] <= Len(lines)
      BY <1>3, <2>3
    <3>2. p[1] < arg + 1 <=> p[1] < arg \/ p[1] = arg
      BY <1>3, <2>2
    <3> QED
      BY <2>1, <2>4, <3>1, <3>2, Zenon DEF Seen
  <2>6. arg' \in 1 .. Len(cmd) + 1
    BY <1>1, <2>1, <2>2
  <2> QED
    BY <1>1, <1>2, <1>5, <2>1, <2>5, <2>6, Zenon DEF ConfigInv, FileInv, Reading
<1>e. CASE OptionsDone
  <2>1. /\ phase = "options" /\ phase' = "run" /\ arg \notin 1 .. Len(cmd)
        /\ UNCHANGED <<cmd, arg, file, class>>
    BY <1>1, <1>e, Zenon DEF OptionsDone
  <2>2. arg = Len(cmd) + 1
    BY <1>1, <2>1
  <2>3. \A p : Seen(p)' <=> Seen(p)
    BY <2>1, Zenon DEF Seen
  <2> QED
    BY <1>1, <1>2, <2>1, <2>2, <2>3, Zenon DEF ConfigInv, FileInv, Reading
<1> QED
  BY <1>a, <1>b, <1>c, <1>d, <1>e, Zenon

\* The guest does not change the configuration
LEMMA GuestKeepsConfig ==
  ASSUME ConfigInv, [Next]_vars, ~Configure
  PROVE  ConfigInv'
<1>1. \/ phase = "run" /\ phase' \in {"run", "dead"} /\ UNCHANGED <<cmd, arg, file, line, class>>
      \/ UNCHANGED <<phase, cmd, arg, file, line, class>>
  <2> USE DEF configVars, parsing, config
  <2>1. CASE StartBlock
    BY <2>1, Zenon DEF StartBlock, Translated, ErrorModel
  <2>2. CASE FinishBlock \/ ReturnFromException
    BY <2>2, Zenon DEF FinishBlock, ReturnFromException
  <2>3. CASE \E k \in 0 .. PageSize - 1 : Fault(k)
    BY <2>3, Zenon DEF Fault, Translated
  <2>4. CASE Interrupt \/ Unlink \/ TbFlush \/ \E value \in BOOLEAN : VarmodWrite(value)
    BY <2>4, Zenon DEF Interrupt, Unlink, TbFlush, VarmodWrite
  <2>5. CASE \E on \in BOOLEAN : Monitor(on)
    BY <2>5, Zenon DEF Monitor
  <2>6. CASE UNCHANGED vars
    BY <2>6, Zenon DEF vars
  <2> QED
    BY <2>1, <2>2, <2>3, <2>4, <2>5, <2>6, Zenon DEF Next
<1>2. CASE phase' = phase /\ UNCHANGED <<cmd, arg, file, line, class>>
  <2>1. \A p : Seen(p)' <=> Seen(p)
    BY <1>2, Zenon DEF Seen
  <2>2. Reading => \A i \in Insns : LastDecides(SeenPlaces(i), i)'
    BY <1>2, <2>1, DecidedStill, Zenon DEF ConfigInv
  <2> QED
    BY <1>2, <2>2, Zenon DEF ConfigInv, FileInv, Reading
<1>3. CASE phase' = "dead" /\ UNCHANGED <<cmd, arg, file>>
  BY <1>3, Died, Zenon DEF ConfigInv
<1> QED
  BY <1>1, <1>2, <1>3, Zenon

\* The invariant of vl.c's options and parse_variability_file: at every point
\* each instruction is in the class that the last line read so far gives it,
\* whatever the files hold and however they end
THEOREM ConfigInvariant == Spec => []ConfigInv
<1>1. ASSUME Init PROVE ConfigInv
  <2>1. /\ cmd \in CommandLines /\ arg = 1 /\ file = NoFile /\ phase = "options"
        /\ class = [i \in Insns |-> "unset"]
    BY <1>1, Zenon DEF Init, ConfigInit
  <2>2. cmd \in Seq(Options)
    BY <2>1, OptionsAssumption, Zenon
  <2>3. arg \in 1 .. Len(cmd) + 1
    BY <2>1, <2>2
  <2>4. <<>> \in Seq(FileLines)
    OBVIOUS
  <2>5. file \in [rest : Seq(FileLines), newline : BOOLEAN, eof : BOOLEAN]
    BY <2>1, <2>4, Zenon DEF NoFile
  <2>6. ASSUME NEW i \in Insns PROVE LastDecides(SeenPlaces(i), i)
    <3>1. ASSUME NEW p \in LinePlaces PROVE ~Seen(p)
      <4>1. p[1] \in 1 .. Len(cmd)
        BY <2>2, PlaceFacts, Zenon
      <4>2. ~(p[1] < 1)
        BY <4>1
      <4> QED
        BY <2>1, <4>2, Zenon DEF Seen
    <3>2. SeenPlaces(i) = {} /\ class[i] = "unset"
      BY <2>1, <3>1, Zenon DEF SeenPlaces, AssigningPlaces
    <3> QED
      BY <3>2, Zenon DEF LastDecides
  <2> QED
    BY <2>1, <2>2, <2>3, <2>5, <2>6, Zenon DEF ConfigInv, FileInv
<1>2. ASSUME ConfigInv, [Next]_vars PROVE ConfigInv'
  <2>1. CASE Configure
    BY <1>2, <2>1, OptionsKeep, ReadLineKeeps, ReadPastEndKeeps, Zenon DEF Configure, ConfigNext
  <2>2. CASE ~Configure
    BY <1>2, <2>2, GuestKeepsConfig, Zenon
  <2> QED
    BY <2>1, <2>2, Zenon
<1> QED
  BY <1>1, <1>2, PTL DEF Spec

\* Once the guest runs, each instruction is in the class that the last line to
\* name it gives it, although parse_variability_file may process the last line
\* of a file twice, passes over lines that are no JSON, and reads several files
THEOREM ConfigStaysAsWritten == Spec => []ConfigAsWritten
<1>1. ConfigInv => ConfigAsWritten
  <2> SUFFICES ASSUME ConfigInv, phase = "run", NEW i \in Insns
               PROVE  LastDecides(AssigningPlaces(i), i)
    BY Zenon DEF ConfigAsWritten
  <2>1. cmd \in Seq(Options) /\ arg = Len(cmd) + 1 /\ LastDecides(SeenPlaces(i), i)
    BY Zenon DEF ConfigInv, Reading
  <2>2. ASSUME NEW p \in LinePlaces PROVE Seen(p)
    <3>1. p[1] \in 1 .. Len(cmd)
      BY <2>1, PlaceFacts, Zenon
    <3>2. p[1] < arg
      BY <2>1, <3>1
    <3> QED
      BY <3>2, Zenon DEF Seen
  <2>3. SeenPlaces(i) = AssigningPlaces(i)
    BY <2>2, Zenon DEF SeenPlaces, AssigningPlaces
  <2> QED
    BY <2>1, <2>3, Zenon
<1> QED
  BY <1>1, ConfigInvariant, PTL

=============================================================================
