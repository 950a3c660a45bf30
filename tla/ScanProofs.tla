----------------------------- MODULE ScanProofs -----------------------------
(***************************************************************************)
(* What Scan and Filtered return, for every sequence: induction over the   *)
(* natural numbers in a form without an operator parameter (a set takes    *)
(* its place), and what follows from it.                                   *)
(***************************************************************************)
EXTENDS Scan, WellFoundedInduction, TLAPS

\* Induction: a set of numbers that has 0, and n + 1 if it has n, has them all.
LEMMA NatSetInduction ==
    ASSUME NEW S, 0 \in S, \A n \in Nat : n \in S => n + 1 \in S
    PROVE  \A n \in Nat : n \in S
<1> DEFINE R == OpToRel(<, Nat)
<1>1. IsWellFoundedOn(R, Nat)
  BY NatLessThanWellFounded
<1>2. \A m, n \in Nat : m < n => <<m, n>> \in R
  BY DEF OpToRel
<1> HIDE DEF R
<1> SUFFICES ASSUME Nat \ S # {} PROVE FALSE
  OBVIOUS
<1>3. PICK x \in Nat \ S : \A y \in Nat \ S : ~(<<y, x>> \in R)
  BY <1>1, WFMin
<1>4. x # 0 /\ x - 1 \in Nat /\ x - 1 < x /\ (x - 1) + 1 = x
  OBVIOUS
<1>5. x - 1 \in S
  BY <1>2, <1>3, <1>4
<1> QED BY <1>4, <1>5

\* A number that has a property and is in no smaller company exists.
LEMMA SmallestOf ==
    ASSUME NEW S, S \subseteq Nat, S # {}
    PROVE  \E m \in S : \A n \in S : m <= n
<1> DEFINE R == OpToRel(<, Nat)
<1>1. IsWellFoundedOn(R, Nat)
  BY NatLessThanWellFounded
<1>2. \A m, n \in Nat : m < n => <<m, n>> \in R
  BY DEF OpToRel
<1> HIDE DEF R
<1>3. PICK x \in S : \A y \in S : ~(<<y, x>> \in R)
  BY <1>1, WFMin
<1>4. \A n \in S : x \in Nat /\ n \in Nat /\ ~(n < x)
  BY <1>2, <1>3
<1>5. \A n \in S : x <= n
  BY <1>4
<1> QED BY <1>3, <1>5

\* Induction up to a bound.
LEMMA UpTo ==
    ASSUME NEW N \in Nat, NEW S, 0 \in S,
           \A n \in 0..N : n \in S /\ n < N => n + 1 \in S
    PROVE  \A n \in 0..N : n \in S
<1> DEFINE T == {n \in Nat : n \in 0..N => n \in S}
<1>1. 0 \in T
  OBVIOUS
<1>2. \A n \in Nat : n \in T => n + 1 \in T
  OBVIOUS
<1> HIDE DEF T
<1>3. \A n \in Nat : n \in T
  BY <1>1, <1>2, NatSetInduction
<1> QED BY <1>3 DEF T

-----------------------------------------------------------------------------
(* Scan *)

Scanned(F, m, s, keep) ==
    F = [n \in 0..m |-> IF n = 0 THEN <<>>
                        ELSE IF n \in keep THEN Append(F[n - 1], s[n])
                        ELSE F[n - 1]]

\* Scan satisfies the equations that define it.
LEMMA ScanDef ==
    ASSUME NEW s, Len(s) \in Nat, NEW keep
    PROVE  /\ DOMAIN Scan(s, keep) = 0..Len(s)
           /\ Scan(s, keep)[0] = <<>>
           /\ \A n \in 1..Len(s) :
                Scan(s, keep)[n] = IF n \in keep THEN Append(Scan(s, keep)[n - 1], s[n])
                                                 ELSE Scan(s, keep)[n - 1]
<1> DEFINE T == {m \in Nat : \E F : Scanned(F, m, s, keep)}
<1>1. 0 \in T
  <2> DEFINE F == [n \in 0..0 |-> <<>>]
  <2>1. Scanned(F, 0, s, keep)
    BY DEF Scanned
  <2> QED BY <2>1
<1>2. \A m \in Nat : m \in T => m + 1 \in T
  <2> SUFFICES ASSUME NEW m \in Nat, NEW F, Scanned(F, m, s, keep)
               PROVE  \E G : Scanned(G, m + 1, s, keep)
    OBVIOUS
  <2> DEFINE Last == IF m + 1 \in keep THEN Append(F[m], s[m + 1]) ELSE F[m]
             G == [n \in 0..(m + 1) |-> IF n = m + 1 THEN Last ELSE F[n]]
             H == [n \in 0..(m + 1) |-> IF n = 0 THEN <<>>
                        ELSE IF n \in keep THEN Append(G[n - 1], s[n])
                        ELSE G[n - 1]]
  <2>1. \A n \in 0..m : F[n] = IF n = 0 THEN <<>>
                        ELSE IF n \in keep THEN Append(F[n - 1], s[n])
                        ELSE F[n - 1]
    BY DEF Scanned
  <2>2. \A n \in 0..(m + 1) : n # 0 => n - 1 \in 0..(m + 1) /\ n - 1 # m + 1
    OBVIOUS
  <2>3. \A n \in 0..(m + 1) : n # 0 => G[n - 1] = F[n - 1]
    BY <2>2
  <2>4. \A n \in 0..(m + 1) : n = m + 1 \/ n \in 0..m
    OBVIOUS
  <2>5. \A n \in 0..(m + 1) : G[n] = H[n]
    <3> TAKE n \in 0..(m + 1)
    <3>1. CASE n = m + 1
      BY <3>1, <2>3
    <3>2. CASE n \in 0..m
      BY <3>2, <2>1, <2>3
    <3> QED BY <3>1, <3>2, <2>4
  <2>6. G = H
    BY <2>5
  <2>7. Scanned(G, m + 1, s, keep)
    BY <2>6 DEF Scanned
  <2> QED BY <2>7
<1> HIDE DEF T
<1>3. Len(s) \in T
  BY <1>1, <1>2, NatSetInduction
<1>4. \E F : Scanned(F, Len(s), s, keep)
  BY <1>3 DEF T
<1>5. Scanned(Scan(s, keep), Len(s), s, keep)
  BY <1>4 DEF Scan, Scanned
<1> DEFINE F == Scan(s, keep)
<1> HIDE DEF F
<1>6. F = [n \in 0..Len(s) |-> IF n = 0 THEN <<>>
                        ELSE IF n \in keep THEN Append(F[n - 1], s[n])
                        ELSE F[n - 1]]
  BY <1>5 DEF Scanned, F
<1>7. DOMAIN F = 0..Len(s) /\ F[0] = <<>>
  BY <1>6
<1>8. \A n \in 1..Len(s) : n \in 0..Len(s) /\ n # 0
  OBVIOUS
<1>9. \A n \in 1..Len(s) : F[n] = IF n \in keep THEN Append(F[n - 1], s[n]) ELSE F[n - 1]
  BY <1>6, <1>8
<1> QED BY <1>7, <1>9 DEF F

\* The kept elements are elements of s, no more of them than were read.
LEMMA ScanType ==
    ASSUME NEW S, NEW s \in Seq(S), NEW keep
    PROVE  \A n \in 0..Len(s) : Scan(s, keep)[n] \in Seq(S) /\ Len(Scan(s, keep)[n]) <= n
<1> DEFINE F == Scan(s, keep)
           T == {n \in Nat : n \in 0..Len(s) => F[n] \in Seq(S) /\ Len(F[n]) <= n}
<1>1. /\ F[0] = <<>>
      /\ \A n \in 1..Len(s) : F[n] = IF n \in keep THEN Append(F[n - 1], s[n]) ELSE F[n - 1]
  BY ScanDef
<1>2. \A n \in 1..Len(s) : s[n] \in S
  OBVIOUS
<1> HIDE DEF F
<1>3. 0 \in T
  <2>1. <<>> \in Seq(S) /\ Len(<<>>) = 0
    OBVIOUS
  <2>2. F[0] \in Seq(S) /\ Len(F[0]) <= 0
    BY <1>1, <2>1
  <2> QED BY <2>2
<1>4. \A n \in Nat : n \in T => n + 1 \in T
  <2> SUFFICES ASSUME NEW n \in Nat, n \in T, n + 1 \in 0..Len(s)
               PROVE  F[n + 1] \in Seq(S) /\ Len(F[n + 1]) <= n + 1
    OBVIOUS
  <2>1. n \in 0..Len(s) /\ n + 1 \in 1..Len(s) /\ (n + 1) - 1 = n
    OBVIOUS
  <2>2. F[n] \in Seq(S) /\ Len(F[n]) <= n
    BY <2>1
  <2>3. F[n + 1] = Append(F[n], s[n + 1]) \/ F[n + 1] = F[n]
    BY <1>1, <2>1
  <2>4. s[n + 1] \in S
    BY <2>1, <1>2
  <2>5. /\ Append(F[n], s[n + 1]) \in Seq(S) /\ Len(Append(F[n], s[n + 1])) = Len(F[n]) + 1
        /\ Len(F[n]) \in Nat
    BY <2>2, <2>4
  <2>6. CASE F[n + 1] = Append(F[n], s[n + 1])
    BY <2>2, <2>5, <2>6
  <2>7. CASE F[n + 1] = F[n]
    BY <2>2, <2>5, <2>7
  <2> QED BY <2>3, <2>6, <2>7
<1> HIDE DEF T
<1>5. \A n \in Nat : n \in T
  BY <1>3, <1>4, NatSetInduction
<1> QED BY <1>5 DEF T, F

\* They come from the kept positions, all of those, in ascending order.
Source(g, s, P, e) ==
    /\ e \in [DOMAIN g -> P]
    /\ \A i \in DOMAIN g : g[i] = s[e[i]]
    /\ \A i, j \in DOMAIN g : i < j => e[i] < e[j]
    /\ \A p \in P : \E i \in DOMAIN g : e[i] = p

LEMMA ScanSource ==
    ASSUME NEW S, NEW s \in Seq(S), NEW keep
    PROVE  \A n \in 0..Len(s) : \E e : Source(Scan(s, keep)[n], s, keep \intersect 1..n, e)
<1> DEFINE F == Scan(s, keep)
           T == {n \in Nat : n \in 0..Len(s) => \E e : Source(F[n], s, keep \intersect 1..n, e)}
<1>1. /\ F[0] = <<>>
      /\ \A n \in 1..Len(s) : F[n] = IF n \in keep THEN Append(F[n - 1], s[n]) ELSE F[n - 1]
  BY ScanDef
<1>2. \A n \in 0..Len(s) : F[n] \in Seq(S)
  BY ScanType
<1> HIDE DEF F
<1>3. 0 \in T
  <2> DEFINE e == [i \in {} |-> 0]
  <2>1. DOMAIN F[0] = {}
    BY <1>1
  <2>2. Source(F[0], s, keep \intersect 1..0, e)
    BY <2>1 DEF Source
  <2> QED BY <2>2
<1>4. \A n \in Nat : n \in T => n + 1 \in T
  <2> DEFINE Goal(m) == \E d : Source(F[m], s, keep \intersect 1..m, d)
  <2>0. \A m \in Nat : m \in T <=> (m \in 0..Len(s) => Goal(m))
    OBVIOUS
  <2> HIDE DEF T, Goal
  <2> SUFFICES ASSUME NEW n \in Nat, n \in T, n + 1 \in 0..Len(s)
               PROVE  Goal(n + 1)
    BY <2>0
  <2>1. n \in 0..Len(s) /\ n + 1 \in 1..Len(s) /\ (n + 1) - 1 = n
    OBVIOUS
  <2>2. PICK e : Source(F[n], s, keep \intersect 1..n, e)
    BY <2>0, <2>1 DEF Goal
  <2>3. CASE n + 1 \notin keep
    <3>1. F[n + 1] = F[n]
      BY <1>1, <2>1, <2>3
    <3>2. keep \intersect 1..(n + 1) = keep \intersect 1..n
      BY <2>3
    <3> QED BY <2>2, <3>1, <3>2 DEF Goal
  <2>4. CASE n + 1 \in keep
    <3> DEFINE g == F[n]  h == F[n + 1]  k == Len(g) + 1
               d == [i \in DOMAIN h |-> IF i = k THEN n + 1 ELSE e[i]]
               P == keep \intersect 1..n  Q == keep \intersect 1..(n + 1)
    <3>1. h = Append(g, s[n + 1]) /\ g \in Seq(S)
      BY <1>1, <1>2, <2>1, <2>4
    <3>2. s[n + 1] \in S
      BY <2>1
    <3> HIDE DEF g, h
    <3>3. /\ Len(g) \in Nat /\ DOMAIN g = 1..Len(g) /\ DOMAIN h = 1..k
          /\ \A i \in DOMAIN g : h[i] = g[i]
          /\ h[k] = s[n + 1]
      BY <3>1, <3>2
    <3>4. \A i \in DOMAIN h : i = k \/ (i \in DOMAIN g /\ i # k)
      BY <3>3
    <3>5. /\ k \in DOMAIN h /\ d[k] = n + 1
          /\ \A i \in DOMAIN g : i \in DOMAIN h /\ i # k /\ i < k /\ d[i] = e[i]
      BY <3>3
    <3>6. /\ e \in [DOMAIN g -> P]
          /\ \A i \in DOMAIN g : g[i] = s[e[i]]
          /\ \A i, j \in DOMAIN g : i < j => e[i] < e[j]
          /\ \A p \in P : \E i \in DOMAIN g : e[i] = p
      BY <2>2 DEF Source, g
    <3>7. /\ n + 1 \in Q /\ \A p \in P : p \in Q /\ p \in Nat /\ p < n + 1
          /\ \A p \in Q : p = n + 1 \/ p \in P
      BY <2>4
    <3>8. d \in [DOMAIN h -> Q]
      BY <3>4, <3>6, <3>7
    <3>9. \A i \in DOMAIN h : h[i] = s[d[i]]
      BY <3>3, <3>4, <3>5, <3>6
    <3>10. \A i, j \in DOMAIN h : i < j => d[i] < d[j]
      <4> SUFFICES ASSUME NEW i \in DOMAIN h, NEW j \in DOMAIN h, i < j PROVE d[i] < d[j]
        OBVIOUS
      <4>1. i \in DOMAIN g
        BY <3>3, <3>4
      <4>2. CASE j = k
        BY <4>1, <4>2, <3>5, <3>6, <3>7
      <4>3. CASE j \in DOMAIN g
        BY <4>1, <4>3, <3>5, <3>6
      <4> QED BY <4>2, <4>3, <3>4
    <3>11. \A p \in Q : \E i \in DOMAIN h : d[i] = p
      BY <3>5, <3>6, <3>7
    <3>12. Source(h, s, Q, d)
      BY <3>8, <3>9, <3>10, <3>11 DEF Source
    <3> QED BY <3>12 DEF h, Goal
  <2> QED BY <2>3, <2>4
<1> HIDE DEF T
<1>5. \A n \in Nat : n \in T
  BY <1>3, <1>4, NatSetInduction
<1>6. \A n \in 0..Len(s) : n \in T
  BY <1>5
<1> QED BY <1>6 DEF T, F

\* A loop that keeps nothing more has what it had.
LEMMA ScanIdle ==
    ASSUME NEW s, Len(s) \in Nat, NEW keep, NEW m \in 0..Len(s),
           \A p \in (m + 1)..Len(s) : p \notin keep
    PROVE  \A n \in m..Len(s) : Scan(s, keep)[n] = Scan(s, keep)[m]
<1> DEFINE F == Scan(s, keep)
           T == {n \in Nat : n \in m..Len(s) => F[n] = F[m]}
<1>1. \A n \in 1..Len(s) : F[n] = IF n \in keep THEN Append(F[n - 1], s[n]) ELSE F[n - 1]
  BY ScanDef
<1> HIDE DEF F
<1>2. 0 \in T
  OBVIOUS
<1>3. \A n \in Nat : n \in T => n + 1 \in T
  <2> SUFFICES ASSUME NEW n \in Nat, n \in T, n + 1 \in m..Len(s)
               PROVE  F[n + 1] = F[m]
    OBVIOUS
  <2>1. CASE n + 1 = m
    BY <2>1
  <2>2. CASE n + 1 # m
    <3>1. n \in m..Len(s) /\ n + 1 \in 1..Len(s) /\ (n + 1) - 1 = n /\ n + 1 \notin keep
      BY <2>2
    <3> QED BY <1>1, <3>1
  <2> QED BY <2>1, <2>2
<1> HIDE DEF T
<1>4. \A n \in Nat : n \in T
  BY <1>2, <1>3, NatSetInduction
<1> QED BY <1>4 DEF T, F

\* Two loops that keep the same have kept the same.
LEMMA ScanSame ==
    ASSUME NEW s, NEW t, Len(s) \in Nat, Len(t) \in Nat, NEW keep, NEW hold,
           NEW N \in Nat, N <= Len(s), N <= Len(t),
           \A n \in 1..N : /\ n \in keep <=> n \in hold
                           /\ n \in keep => s[n] = t[n]
    PROVE  \A n \in 0..N : Scan(s, keep)[n] = Scan(t, hold)[n]
<1> DEFINE F == Scan(s, keep)  G == Scan(t, hold)
           T == {n \in Nat : n \in 0..N => F[n] = G[n]}
<1>1. /\ F[0] = <<>>
      /\ \A n \in 1..Len(s) : F[n] = IF n \in keep THEN Append(F[n - 1], s[n]) ELSE F[n - 1]
  BY ScanDef
<1>2. /\ G[0] = <<>>
      /\ \A n \in 1..Len(t) : G[n] = IF n \in hold THEN Append(G[n - 1], t[n]) ELSE G[n - 1]
  BY ScanDef
<1> HIDE DEF F, G
<1>3. 0 \in T
  BY <1>1, <1>2
<1>4. \A n \in Nat : n \in T => n + 1 \in T
  <2> SUFFICES ASSUME NEW n \in Nat, n \in T, n + 1 \in 0..N
               PROVE  F[n + 1] = G[n + 1]
    OBVIOUS
  <2>1. /\ n \in 0..N /\ n + 1 \in 1..N /\ n + 1 \in 1..Len(s) /\ n + 1 \in 1..Len(t)
        /\ (n + 1) - 1 = n
    OBVIOUS
  <2> QED BY <1>1, <1>2, <2>1
<1> HIDE DEF T
<1>5. \A n \in Nat : n \in T
  BY <1>3, <1>4, NatSetInduction
<1> QED BY <1>5 DEF T, F, G

\* A filter that keeps everything changes nothing.
LEMMA FilteredAll ==
    ASSUME NEW S, NEW s \in Seq(S), NEW keep, \A n \in 1..Len(s) : n \in keep
    PROVE  Filtered(s, keep) = s
<1> DEFINE F == Scan(s, keep)
           T == {n \in Nat : n \in 0..Len(s) => Len(F[n]) = n /\ \A i \in 1..n : F[n][i] = s[i]}
<1>1. /\ F[0] = <<>>
      /\ \A n \in 1..Len(s) : F[n] = Append(F[n - 1], s[n])
  <2>1. Len(s) \in Nat
    OBVIOUS
  <2> QED BY <2>1, ScanDef
<1>2. \A n \in 0..Len(s) : F[n] \in Seq(S)
  BY ScanType
<1> HIDE DEF F
<1>3. 0 \in T
  BY <1>1
<1>4. \A n \in Nat : n \in T => n + 1 \in T
  <2> SUFFICES ASSUME NEW n \in Nat, n \in T, n + 1 \in 0..Len(s)
               PROVE  Len(F[n + 1]) = n + 1 /\ \A i \in 1..(n + 1) : F[n + 1][i] = s[i]
    OBVIOUS
  <2>1. n \in 0..Len(s) /\ n + 1 \in 1..Len(s) /\ (n + 1) - 1 = n
    OBVIOUS
  <2>2. F[n] \in Seq(S) /\ Len(F[n]) = n /\ \A i \in 1..n : F[n][i] = s[i]
    BY <1>2, <2>1
  <2>3. F[n + 1] = Append(F[n], s[n + 1]) /\ s[n + 1] \in S
    BY <1>1, <2>1
  <2> QED BY <2>2, <2>3
<1> HIDE DEF T
<1>5. \A n \in Nat : n \in T
  BY <1>3, <1>4, NatSetInduction
<1>6. /\ Len(s) \in 0..Len(s) /\ F[Len(s)] \in Seq(S)
      /\ Len(F[Len(s)]) = Len(s) /\ \A i \in 1..Len(s) : F[Len(s)][i] = s[i]
  BY <1>2, <1>5 DEF T
<1> QED BY <1>6 DEF F, Filtered

\* A second filter, by value, over what a loop has kept.
Positions(g, V) == {i \in DOMAIN g : g[i] \in V}
Among(keep, s, V) == {i \in keep : i \in DOMAIN s /\ s[i] \in V}

\* A sequence without its last element.
ButLast(s) == [i \in 1..(Len(s) - 1) |-> s[i]]

LEMMA LastOff ==
    ASSUME NEW S, NEW n \in Nat, NEW s \in Seq(S), Len(s) = n + 1
    PROVE  /\ ButLast(s) \in Seq(S) /\ Len(ButLast(s)) = n
           /\ s[n + 1] \in S /\ s = Append(ButLast(s), s[n + 1])
<1> DEFINE r == [i \in 1..n |-> s[i]]  x == s[n + 1]  t == Append(r, x)
<1>1. DOMAIN s = 1..(n + 1) /\ \A i \in 1..(n + 1) : s[i] \in S
  OBVIOUS
<1>2. r \in Seq(S) /\ Len(r) = n /\ x \in S
  BY <1>1
<1>3. /\ t \in Seq(S) /\ DOMAIN t = 1..(n + 1)
      /\ \A i \in 1..(n + 1) : t[i] = IF i = n + 1 THEN x ELSE r[i]
  BY <1>2
<1>4. ButLast(s) = r
  BY DEF ButLast
<1> HIDE DEF t
<1>5. \A i \in 1..(n + 1) : t[i] = s[i]
  <2> TAKE i \in 1..(n + 1)
  <2>1. i = n + 1 \/ i \in 1..n
    OBVIOUS
  <2> QED BY <1>3, <2>1
<1> HIDE DEF r, x
<1>6. t = s
  BY <1>1, <1>3, <1>5
<1> QED BY <1>2, <1>4, <1>6 DEF t, x

LEMMA SameElements ==
    ASSUME NEW S, NEW s \in Seq(S), NEW t \in Seq(S), NEW n \in Nat, Len(s) = n, Len(t) = n,
           \A i \in 1..n : s[i] = t[i]
    PROVE  s = t
<1>1. DOMAIN s = 1..n /\ DOMAIN t = 1..n
  OBVIOUS
<1>2. s = [i \in 1..n |-> s[i]] /\ t = [i \in 1..n |-> t[i]]
  BY <1>1
<1> QED BY <1>2

LEMMA AppendToConcat ==
    ASSUME NEW S, NEW g \in Seq(S), NEW r \in Seq(S), NEW x \in S
    PROVE  g \o Append(r, x) = Append(g \o r, x)
<1> DEFINE a == Append(r, x)  t == g \o a  c == g \o r  u == Append(c, x)
<1>1. PICK G \in Nat, R \in Nat : G = Len(g) /\ R = Len(r)
  OBVIOUS
<1>2. /\ a \in Seq(S) /\ Len(a) = R + 1 /\ a[R + 1] = x
      /\ \A i \in 1..R : a[i] = r[i]
  BY <1>1
<1>3. /\ c \in Seq(S) /\ Len(c) = G + R
      /\ \A i \in 1..(G + R) : c[i] = IF i <= G THEN g[i] ELSE r[i - G]
  BY <1>1
<1> HIDE DEF a, c
<1>4. /\ u \in Seq(S) /\ Len(u) = G + R + 1 /\ DOMAIN u = 1..(G + R + 1)
      /\ \A i \in 1..(G + R + 1) : u[i] = IF i = G + R + 1 THEN x ELSE c[i]
  BY <1>3
<1>5. /\ t \in Seq(S) /\ Len(t) = G + R + 1 /\ DOMAIN t = 1..(G + R + 1)
      /\ \A i \in 1..(G + R + 1) : t[i] = IF i <= G THEN g[i] ELSE a[i - G]
  BY <1>1, <1>2
<1> HIDE DEF t, u
<1>6. \A i \in 1..(G + R + 1) : t[i] = u[i]
  <2> TAKE i \in 1..(G + R + 1)
  <2>1. CASE i <= G
    BY <1>3, <1>4, <1>5, <2>1
  <2>2. CASE i > G /\ i <= G + R
    <3>1. i - G \in 1..R /\ i \in 1..(G + R) /\ i # G + R + 1 /\ ~(i <= G)
      BY <2>2
    <3>2. t[i] = a[i - G] /\ u[i] = c[i] /\ c[i] = r[i - G]
      BY <1>3, <1>4, <1>5, <3>1
    <3>3. a[i - G] = r[i - G]
      BY <1>2, <3>1
    <3> QED BY <3>2, <3>3
  <2>3. CASE i = G + R + 1
    <3>1. i - G = R + 1 /\ ~(i <= G)
      BY <2>3
    <3> QED BY <1>2, <1>4, <1>5, <2>3, <3>1
  <2> QED BY <2>1, <2>2, <2>3
<1>7. G + R + 1 \in Nat
  OBVIOUS
<1>8. t = u
  BY <1>4, <1>5, <1>6, <1>7, SameElements
<1> QED BY <1>8 DEF t, u, a, c

\* A filter goes on over what is appended.
LEMMA FilteredAppend ==
    ASSUME NEW S, NEW g \in Seq(S), NEW x \in S, NEW V
    PROVE  Filtered(Append(g, x), Positions(Append(g, x), V))
             = IF x \in V THEN Append(Filtered(g, Positions(g, V)), x)
                          ELSE Filtered(g, Positions(g, V))
<1> DEFINE h == Append(g, x)  N == Len(g)
           P == Positions(g, V)  Q == Positions(h, V)
<1>1. /\ h \in Seq(S) /\ Len(h) = N + 1 /\ N \in Nat /\ h[N + 1] = x
      /\ DOMAIN h = 1..(N + 1) /\ DOMAIN g = 1..N
      /\ \A i \in 1..N : h[i] = g[i]
  OBVIOUS
<1> HIDE DEF h, N
<1>2. \A i \in 1..N : /\ i \in Q <=> i \in P
                      /\ i \in Q => h[i] = g[i]
  BY <1>1 DEF Positions
<1>3. N + 1 \in Q <=> x \in V
  BY <1>1 DEF Positions
<1> HIDE DEF P, Q
<1>4. N <= Len(h) /\ N <= Len(g) /\ N \in 0..N /\ Len(g) \in Nat /\ Len(h) \in Nat
  BY <1>1 DEF N
<1>5. Scan(h, Q)[N] = Scan(g, P)[N]
  BY <1>1, <1>2, <1>4, ScanSame
<1>6. Scan(h, Q)[N + 1] = IF x \in V THEN Append(Scan(h, Q)[N], x) ELSE Scan(h, Q)[N]
  <2>1. N + 1 \in 1..Len(h) /\ (N + 1) - 1 = N
    BY <1>1
  <2> QED BY <1>1, <1>3, <1>4, <2>1, ScanDef
<1> QED BY <1>1, <1>5, <1>6 DEF Filtered, P, Q, h, N

\* What is filtered out of two sequences in a row.
LEMMA FilteredConcat ==
    ASSUME NEW S, NEW g \in Seq(S), NEW h \in Seq(S), NEW V
    PROVE  Filtered(g \o h, Positions(g \o h, V))
             = Filtered(g, Positions(g, V)) \o Filtered(h, Positions(h, V))
<1>b. \A a, r \in Seq(S), x \in S : a \o Append(r, x) = Append(a \o r, x)
  BY AppendToConcat
<1> DEFINE Sel(s) == Filtered(s, Positions(s, V))
           T == {n \in Nat : \A s \in Seq(S) : Len(s) = n => Sel(g \o s) = Sel(g) \o Sel(s)}
<1>1. \A s \in Seq(S), x \in S : Sel(Append(s, x)) = IF x \in V THEN Append(Sel(s), x) ELSE Sel(s)
  BY FilteredAppend
<1>2. Sel(<<>>) = <<>>
  BY ScanDef DEF Filtered
<1>3. \A s \in Seq(S) : Sel(s) \in Seq(S)
  BY ScanType DEF Filtered
<1> HIDE DEF Sel
<1>c. \A n \in Nat :
        n \in T <=> \A s \in Seq(S) : Len(s) = n => Sel(g \o s) = Sel(g) \o Sel(s)
  OBVIOUS
<1> HIDE DEF T
<1>4. 0 \in T
  <2> SUFFICES ASSUME NEW s \in Seq(S), Len(s) = 0 PROVE Sel(g \o s) = Sel(g) \o Sel(s)
    BY <1>c
  <2>1. s = <<>> /\ g \o s = g
    OBVIOUS
  <2>2. Sel(g) \o <<>> = Sel(g)
    BY <1>3
  <2> QED BY <1>2, <2>1, <2>2
<1>5. \A n \in Nat : n \in T => n + 1 \in T
  <2> SUFFICES ASSUME NEW n \in Nat, n \in T, NEW s \in Seq(S), Len(s) = n + 1
               PROVE  Sel(g \o s) = Sel(g) \o Sel(s)
    <3> SUFFICES ASSUME NEW n \in Nat, n \in T PROVE n + 1 \in T
      OBVIOUS
    <3>1. n + 1 \in Nat
      OBVIOUS
    <3> QED BY <1>c, <3>1
  <2> DEFINE r == ButLast(s)  x == s[n + 1]
  <2>1. r \in Seq(S) /\ x \in S /\ Len(r) = n /\ s = Append(r, x)
    BY LastOff
  <2> HIDE DEF r, x
  <2>2. g \o s = Append(g \o r, x) /\ g \o r \in Seq(S)
    BY <1>b, <2>1
  <2>3. Sel(g \o r) = Sel(g) \o Sel(r)
    BY <1>c, <2>1
  <2>4. Sel(g) \in Seq(S) /\ Sel(r) \in Seq(S)
    BY <1>3, <2>1
  <2>5. CASE x \in V
    <3>1. Sel(g \o s) = Append(Sel(g) \o Sel(r), x) /\ Sel(s) = Append(Sel(r), x)
      BY <1>1, <2>1, <2>2, <2>3, <2>5
    <3>2. Append(Sel(g) \o Sel(r), x) = Sel(g) \o Append(Sel(r), x)
      BY <1>b, <2>1, <2>4
    <3> QED BY <3>1, <3>2
  <2>6. CASE x \notin V
    BY <1>1, <2>1, <2>2, <2>3, <2>6
  <2> QED BY <2>5, <2>6
<1>6. \A n \in Nat : n \in T
  BY <1>4, <1>5, NatSetInduction
<1>7. Len(h) \in Nat
  OBVIOUS
<1>8. Sel(g \o h) = Sel(g) \o Sel(h)
  BY <1>6, <1>7, <1>c
<1> QED BY <1>8 DEF Sel

\* What is filtered is of the kind asked for.
LEMMA FilteredType ==
    ASSUME NEW S, NEW s \in Seq(S), NEW V
    PROVE  Filtered(s, Positions(s, V)) \in Seq(S \intersect V)
<1> DEFINE P == Positions(s, V)  g == Scan(s, P)[Len(s)]
<1>1. Len(s) \in Nat /\ Len(s) \in 0..Len(s) /\ DOMAIN s = 1..Len(s)
  OBVIOUS
<1>2. g \in Seq(S)
  BY <1>1, ScanType
<1>3. PICK e : Source(g, s, P \intersect 1..Len(s), e)
  BY <1>1, ScanSource
<1>4. \A i \in DOMAIN g : g[i] = s[e[i]] /\ e[i] \in P
  BY <1>3 DEF Source
<1>5. \A i \in DOMAIN g : g[i] \in S \intersect V
  BY <1>1, <1>4 DEF Positions
<1> HIDE DEF g
<1>6. g \in Seq(S \intersect V)
  BY <1>2, <1>5
<1> QED BY <1>6 DEF Filtered, g

\* Nothing is kept of what has nothing of the kind asked for.
LEMMA FilteredNone ==
    ASSUME NEW S, NEW s \in Seq(S), NEW V, \A i \in 1..Len(s) : s[i] \notin V
    PROVE  Filtered(s, Positions(s, V)) = <<>>
<1>1. Len(s) \in Nat /\ 0 \in 0..Len(s) /\ Len(s) \in 0..Len(s)
  OBVIOUS
<1>2. \A p \in (0 + 1)..Len(s) : p \notin Positions(s, V)
  BY DEF Positions
<1> QED BY <1>1, <1>2, ScanIdle, ScanDef DEF Filtered

LEMMA FilteredTwice ==
    ASSUME NEW S, NEW s \in Seq(S), NEW keep, NEW V
    PROVE  \A n \in 0..Len(s) :
             Filtered(Scan(s, keep)[n], Positions(Scan(s, keep)[n], V))
               = Scan(s, Among(keep, s, V))[n]
<1> DEFINE F == Scan(s, keep)
           G == Scan(s, Among(keep, s, V))
           Sel(g) == Filtered(g, Positions(g, V))
           T == {n \in Nat : n \in 0..Len(s) => Sel(F[n]) = G[n]}
<1>1. /\ F[0] = <<>>
      /\ \A n \in 1..Len(s) : F[n] = IF n \in keep THEN Append(F[n - 1], s[n]) ELSE F[n - 1]
  BY ScanDef
<1>2. /\ G[0] = <<>>
      /\ \A n \in 1..Len(s) : G[n] = IF n \in keep /\ s[n] \in V THEN Append(G[n - 1], s[n])
                                                                ELSE G[n - 1]
  <2>1. DOMAIN s = 1..Len(s) /\ Len(s) \in Nat
    OBVIOUS
  <2>2. \A n \in 1..Len(s) : n \in Among(keep, s, V) <=> n \in keep /\ s[n] \in V
    BY <2>1 DEF Among
  <2> QED BY <2>1, <2>2, ScanDef
<1>3. \A n \in 0..Len(s) : F[n] \in Seq(S)
  BY ScanType
<1>4. Sel(<<>>) = <<>>
  BY ScanDef DEF Filtered
<1>5. ASSUME NEW g \in Seq(S), NEW x \in S
      PROVE  Sel(Append(g, x)) = IF x \in V THEN Append(Sel(g), x) ELSE Sel(g)
  BY FilteredAppend
<1> HIDE DEF F, G, Sel
<1>6. 0 \in T
  BY <1>1, <1>2, <1>4
<1>7. \A n \in Nat : n \in T => n + 1 \in T
  <2> SUFFICES ASSUME NEW n \in Nat, n \in T, n + 1 \in 0..Len(s)
               PROVE  Sel(F[n + 1]) = G[n + 1]
    OBVIOUS
  <2>1. n \in 0..Len(s) /\ n + 1 \in 1..Len(s) /\ (n + 1) - 1 = n /\ s[n + 1] \in S
    OBVIOUS
  <2>2. Sel(F[n]) = G[n] /\ F[n] \in Seq(S)
    BY <1>3, <2>1
  <2>3. CASE n + 1 \in keep
    <3>1. F[n + 1] = Append(F[n], s[n + 1])
      BY <1>1, <2>1, <2>3
    <3>2. G[n + 1] = IF s[n + 1] \in V THEN Append(G[n], s[n + 1]) ELSE G[n]
      BY <1>2, <2>1, <2>3
    <3>3. Sel(F[n + 1]) = IF s[n + 1] \in V THEN Append(Sel(F[n]), s[n + 1]) ELSE Sel(F[n])
      BY <1>5, <2>1, <2>2, <3>1
    <3> QED BY <2>2, <3>2, <3>3
  <2>4. CASE n + 1 \notin keep
    BY <1>1, <1>2, <2>1, <2>2, <2>4
  <2> QED BY <2>3, <2>4
<1> HIDE DEF T
<1>8. \A n \in Nat : n \in T
  BY <1>6, <1>7, NatSetInduction
<1>9. \A n \in 0..Len(s) : Sel(F[n]) = G[n]
  BY <1>8 DEF T
<1> QED BY <1>9 DEF F, G, Sel

=============================================================================
