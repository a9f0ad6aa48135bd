--------------------------- MODULE CompteurProofs ---------------------------
(***************************************************************************)
(* What TLAPS proves of Compteur: the duration that is shown, and that a   *)
(* count survives the process.  The second rests on what FormatInt and     *)
(* LireFichier compute for every count; both are defined by recursion, and *)
(* each fact about all their arguments is proved from the least argument   *)
(* for which it would be false.                                            *)
(***************************************************************************)
EXTENDS Compteur, Files, SequenceTheorems, TLAPS

-----------------------------------------------------------------------------
(* Numbers.                                                                *)

(* The least counterexample.                                               *)
LEMMA PlusPetitContreExemple ==
    ASSUME NEW T, NEW Bon, T \subseteq Nat, ~ (T \subseteq Bon)
    PROVE  \E x \in T : x \notin Bon /\ \A y \in T : y < x => y \in Bon
<1> DEFINE U == T \ Bon
<1>1. PICK x \in U : \A y \in U : x <= y
  BY PlusPetit
<1> QED
  BY <1>1

(* Division by the base.                                                   *)
LEMMA Quotient ==
    ASSUME NEW n \in Nat
    PROVE  /\ n \div Base \in Nat /\ n % Base \in 0..(Base - 1)
           /\ n = Base * (n \div Base) + (n % Base)
           /\ n >= Base => n \div Base < n
<1> DEFINE q == n \div Base
<1>1. q \in Nat /\ n % Base \in 0..(Base - 1) /\ n = Base * q + (n % Base)
  BY CompteurAssumption
<1>2. Base \in Nat /\ Base >= 2
  BY CompteurAssumption
<1> HIDE DEF q
<1>3. Base * q >= 2 * q
  BY <1>1, <1>2
<1>4. n >= Base => q < n
  BY <1>1, <1>2, <1>3
<1> QED
  BY <1>1, <1>4 DEF q

-----------------------------------------------------------------------------
(* What FormatInt computes.                                                *)

(* The number n, when g formats the smaller ones.                          *)
Pas(g, n) == IF n < Base THEN <<n>> ELSE Append(g[n \div Base], n % Base)

(* g formats the numbers from 0 to k.                                      *)
Debut(g, k) == g = [n \in 0..k |-> Pas(g, n)]

(* ... one at a time.                                                      *)
LEMMA DebutVaut ==
    ASSUME NEW g, NEW k \in Nat, Debut(g, k), NEW n \in 0..k
    PROVE  g[n] = Pas(g, n)
<1> DEFINE P(x) == Pas(g, x)
<1>1. g = [x \in 0..k |-> P(x)]
  BY DEF Debut
<1> HIDE DEF P
<1>2. g[n] = P(n)
  BY <1>1
<1> QED
  BY <1>2 DEF P

(* There is one for each k.                                                *)
LEMMA DebutsExistent == ASSUME NEW k \in Nat PROVE \E g : Debut(g, k)
<1> DEFINE B == {n \in Nat : \E g : Debut(g, n)}
<1> SUFFICES ASSUME ~ (Nat \subseteq B) PROVE FALSE
  OBVIOUS
<1>1. PICK m \in Nat : m \notin B /\ \A y \in Nat : y < m => y \in B
  BY PlusPetitContreExemple
<1>2. PICK h : \A n \in Nat : n < m => h[n] = Pas(h, n)
  <2>1. CASE m = 0
    BY <2>1
  <2>2. CASE m # 0
    <3>1. m - 1 \in Nat /\ m - 1 < m
      BY <2>2
    <3>2. PICK h : Debut(h, m - 1)
      BY <3>1, <1>1
    <3>3. \A n \in Nat : n < m => n \in 0..(m - 1)
      BY <3>1
    <3> QED
      BY <3>2, <3>3 DEF Debut
  <2> QED
    BY <2>1, <2>2
<1> DEFINE g == [n \in 0..m |-> Pas(h, n)]
<1>3. \A n \in 0..m : Pas(g, n) = Pas(h, n)
  <2> SUFFICES ASSUME NEW n \in 0..m PROVE Pas(g, n) = Pas(h, n)
    OBVIOUS
  <2>1. CASE n < Base
    BY <2>1 DEF Pas
  <2>2. CASE ~ (n < Base)
    <3>1. n \div Base \in Nat /\ n \div Base < n
      BY <2>2, Quotient, CompteurAssumption
    <3>2. n \div Base \in 0..m /\ n \div Base < m
      BY <3>1
    <3>3. g[n \div Base] = h[n \div Base]
      BY <1>2, <3>1, <3>2
    <3> HIDE DEF g
    <3> QED
      BY <2>2, <3>3 DEF Pas
  <2> QED
    BY <2>1, <2>2
<1>4. Debut(g, m)
  BY <1>3 DEF Debut
<1> QED
  BY <1>1, <1>4

(* Two of them agree where both are defined.                               *)
LEMMA DebutsEgaux ==
    ASSUME NEW g, NEW h, NEW j \in Nat, NEW k \in Nat, Debut(g, j), Debut(h, k),
           NEW n \in Nat, n <= j, n <= k
    PROVE  g[n] = h[n]
<1> DEFINE T == {i \in Nat : i <= j /\ i <= k}
           B == {i \in Nat : g[i] = h[i]}
<1> SUFFICES ASSUME ~ (T \subseteq B) PROVE FALSE
  OBVIOUS
<1>1. PICK m \in T : m \notin B /\ \A y \in T : y < m => y \in B
  BY PlusPetitContreExemple
<1>2. g[m] = Pas(g, m) /\ h[m] = Pas(h, m)
  <2>1. m \in Nat /\ m \in 0..j /\ m \in 0..k
    OBVIOUS
  <2> QED
    BY <2>1, DebutVaut
<1>3. ~ (m < Base) /\ g[m \div Base] # h[m \div Base]
  BY <1>1, <1>2 DEF Pas
<1>4. m \div Base \in Nat /\ m \div Base < m
  BY <1>3, Quotient, CompteurAssumption
<1>5. m \div Base \in T
  BY <1>4
<1> QED
  BY <1>1, <1>3, <1>4, <1>5

(* The recursion defines FormatInt for every number.                       *)
LEMMA FormatIntEquation ==
    ASSUME NEW n \in Nat
    PROVE  FormatInt[n] = IF n < Base THEN <<n>> ELSE Append(FormatInt[n \div Base], n % Base)
<1> DEFINE G == [k \in Nat |-> CHOOSE g : Debut(g, k)]
           F == [k \in Nat |-> G[k][k]]
<1>1. \A k \in Nat : Debut(G[k], k)
  BY DebutsExistent
<1> HIDE DEF G
<1>2. \A k \in Nat : F[k] = Pas(F, k)
  <2> SUFFICES ASSUME NEW k \in Nat PROVE G[k][k] = Pas(F, k)
    OBVIOUS
  <2>1. G[k][k] = Pas(G[k], k)
    BY <1>1, DebutVaut
  <2>2. ~ (k < Base) => F[k \div Base] = G[k][k \div Base]
    <3> SUFFICES ASSUME ~ (k < Base) PROVE G[k \div Base][k \div Base] = G[k][k \div Base]
      BY Quotient
    <3>1. k \div Base \in Nat /\ k \div Base <= k
      BY Quotient, CompteurAssumption
    <3> HIDE DEF F
    <3> QED
      BY <3>1, <1>1, DebutsEgaux
  <2> QED
    BY <2>1, <2>2 DEF Pas
<1>3. F = [k \in Nat |-> Pas(F, k)]
  BY <1>2
<1> HIDE DEF F
<1>4. F = [k \in Nat |-> IF k < Base THEN <<k>> ELSE Append(F[k \div Base], k % Base)]
  BY <1>3 DEF Pas
<1>5. FormatInt = [k \in Nat |-> IF k < Base THEN <<k>> ELSE Append(FormatInt[k \div Base], k % Base)]
  BY <1>4 DEF FormatInt
<1> QED
  BY <1>5
-----------------------------------------------------------------------------
(* What LireFichier computes.                                              *)

(* Max of some positions is the last of them.                              *)
LEMMA PlusGrand ==
    ASSUME NEW k \in Nat, NEW s \in SUBSET (1..k), s # {}
    PROVE  Max(s) \in s /\ \A y \in s : y <= Max(s)
<1> DEFINE T == {b \in Nat : \A y \in s : y <= b}
<1>1. k \in T
  OBVIOUS
<1>2. PICK b \in T : \A y \in T : b <= y
  BY <1>1, PlusPetit
<1>3. b \in s
  <2> SUFFICES ASSUME b \notin s PROVE FALSE
    OBVIOUS
  <2>1. PICK z : z \in s
    OBVIOUS
  <2>2. z \in 1..k /\ z <= b
    BY <1>2, <2>1
  <2>3. \A y \in s : y \in 1..k /\ y <= b /\ y # b
    BY <1>2
  <2>4. \A y \in s : y <= b - 1
    BY <2>3
  <2>5. b - 1 \in T
    BY <2>2, <2>4
  <2> QED
    BY <1>2, <2>5
<1>4. \E x \in s : \A y \in s : x >= y
  BY <1>2, <1>3
<1>5. Max(s) \in s /\ \A y \in s : Max(s) >= y
  BY <1>4 DEF Max
<1> QED
  BY <1>5

(* The value of the digits of c at the positions s, when g has the values  *)
(* of fewer positions.                                                     *)
PasPli(c, g, s) == IF s = {} THEN 0 ELSE Base * g[s \ {Max(s)}] + c[Max(s)]
(* g has the values of all sets of positions up to k.                      *)
DebutPli(c, g, k) == g = [s \in SUBSET (1..k) |-> PasPli(c, g, s)]

(* The function of sets of positions that the fold of LireFichier defines. *)
Pli(c) == CHOOSE g : g = [s \in SUBSET DOMAIN c |->
              IF s = {} THEN 0 ELSE Base * g[s \ {Max(s)}] + c[Max(s)]]

(* A value of g at a time.                                                 *)
LEMMA PliVaut ==
    ASSUME NEW c, NEW g, NEW k \in Nat, DebutPli(c, g, k), NEW s \in SUBSET (1..k)
    PROVE  g[s] = PasPli(c, g, s)
<1> DEFINE P(x) == PasPli(c, g, x)
<1>1. g = [x \in SUBSET (1..k) |-> P(x)]
  BY DEF DebutPli
<1> HIDE DEF P
<1>2. g[s] = P(s)
  BY <1>1
<1> QED
  BY <1>2 DEF P

(* The fold leaves the last position out.                                  *)
LEMMA SansLePlusGrand ==
    ASSUME NEW k \in Nat, NEW s \in SUBSET (1..k), s # {}
    PROVE  k > 0 /\ s \ {Max(s)} \in SUBSET (1..(k - 1))
<1>1. Max(s) \in s /\ \A y \in s : y <= Max(s)
  BY PlusGrand
<1>2. Max(s) \in 1..k
  BY <1>1
<1>3. ASSUME NEW y \in s, y # Max(s) PROVE y \in 1..(k - 1)
  <2>1. y \in 1..k /\ y <= Max(s)
    BY <1>1
  <2> QED
    BY <2>1, <1>2, <1>3
<1>4. k > 0
  BY <1>2
<1>5. s \ {Max(s)} \subseteq 1..(k - 1)
  BY <1>3
<1> QED
  BY <1>4, <1>5

(* There is such a function for each k.                                    *)
LEMMA PlisExistent == ASSUME NEW c, NEW k \in Nat PROVE \E g : DebutPli(c, g, k)
<1> DEFINE B == {n \in Nat : \E g : DebutPli(c, g, n)}
<1> SUFFICES ASSUME ~ (Nat \subseteq B) PROVE FALSE
  OBVIOUS
<1>1. PICK m \in Nat : m \notin B /\ \A y \in Nat : y < m => y \in B
  BY PlusPetitContreExemple
<1>2. PICK h : m # 0 => DebutPli(c, h, m - 1)
  <2>1. CASE m = 0
    BY <2>1
  <2>2. CASE m # 0
    <3>1. m - 1 \in Nat /\ m - 1 < m
      BY <2>2
    <3> QED
      BY <3>1, <1>1
  <2> QED
    BY <2>1, <2>2
<1> DEFINE g == [s \in SUBSET (1..m) |-> PasPli(c, h, s)]
<1>3. ASSUME NEW s \in SUBSET (1..m) PROVE PasPli(c, g, s) = PasPli(c, h, s)
  <2>1. CASE s = {}
    BY <2>1 DEF PasPli
  <2>2. CASE s # {}
    <3> DEFINE u == s \ {Max(s)}
    <3>1. m > 0 /\ u \in SUBSET (1..(m - 1))
      BY <2>2, SansLePlusGrand
    <3> HIDE DEF u
    <3>2. m - 1 \in Nat /\ u \in SUBSET (1..m)
      BY <3>1
    <3>3. h[u] = PasPli(c, h, u)
      BY <3>1, <3>2, <1>2, PliVaut
    <3>4. g[u] = h[u]
      BY <3>2, <3>3
    <3> HIDE DEF g
    <3> QED
      BY <2>2, <3>4 DEF PasPli, u
  <2> QED
    BY <2>1, <2>2
<1>4. DebutPli(c, g, m)
  BY <1>3 DEF DebutPli
<1> QED
  BY <1>1, <1>4

(* The recursion defines the fold.                                         *)
LEMMA PliEquation ==
    ASSUME NEW c, NEW n \in Nat, DOMAIN c = 1..n
    PROVE  DebutPli(c, Pli(c), n)
<1>1. \E g : g = [s \in SUBSET (1..n) |->
              IF s = {} THEN 0 ELSE Base * g[s \ {Max(s)}] + c[Max(s)]]
  BY PlisExistent DEF DebutPli, PasPli
<1>2. Pli(c) = [s \in SUBSET (1..n) |->
              IF s = {} THEN 0 ELSE Base * Pli(c)[s \ {Max(s)}] + c[Max(s)]]
  BY <1>1 DEF Pli
<1> QED
  BY <1>2 DEF DebutPli, PasPli

(* The value of the first k digits from that of the first k - 1.           *)
LEMMA PliIntervalle ==
    ASSUME NEW c, NEW n \in Nat, DOMAIN c = 1..n, NEW k \in 1..n
    PROVE  Pli(c)[1..k] = Base * Pli(c)[1..(k - 1)] + c[k]
<1>1. k \in Nat /\ 1..k \in SUBSET (1..n) /\ 1..k \in SUBSET (1..k) /\ 1..k # {}
  OBVIOUS
<1>2. Max(1..k) \in 1..k /\ \A y \in 1..k : y <= Max(1..k)
  BY <1>1, PlusGrand
<1>3. Max(1..k) = k
  BY <1>2
<1>4. (1..k) \ {k} = 1..(k - 1)
  OBVIOUS
<1>5. Pli(c)[1..k] = PasPli(c, Pli(c), 1..k)
  BY <1>1, PliEquation, PliVaut
<1> QED
  BY <1>1, <1>3, <1>4, <1>5 DEF PasPli

(* The value of no digit.                                                  *)
LEMMA PliVide ==
    ASSUME NEW c, NEW n \in Nat, DOMAIN c = 1..n
    PROVE  Pli(c)[1..0] = 0
<1>1. 1..0 = {} /\ {} \in SUBSET (1..n)
  OBVIOUS
<1>2. Pli(c)[{}] = PasPli(c, Pli(c), {})
  BY <1>1, PliEquation, PliVaut
<1> QED
  BY <1>1, <1>2 DEF PasPli

(* LireFichier takes the value of all positions.                           *)
LEMMA LireDef == ASSUME NEW c PROVE LireFichier(c) = Pli(c)[DOMAIN c]
BY DEF LireFichier, FoldLeft, MapThenFoldSet, Pli

(* An empty file is read as 0.                                             *)
LEMMA LireVide == LireFichier(<<>>) = 0
<1>1. DOMAIN <<>> = 1..0
  OBVIOUS
<1> QED
  BY <1>1, LireDef, PliVide

(* One digit more at the end.                                              *)
LEMMA LireAjout ==
    ASSUME NEW c \in Seq(Nat), NEW d \in Nat
    PROVE  LireFichier(Append(c, d)) = Base * LireFichier(c) + d
<1> DEFINE e == Append(c, d)
           n == Len(c)
           T == 0..n
           B == {k \in T : Pli(e)[1..k] = Pli(c)[1..k]}
<1>1. /\ n \in Nat /\ DOMAIN c = 1..n /\ DOMAIN e = 1..(n + 1)
      /\ \A k \in 1..n : e[k] = c[k]
      /\ e[n + 1] = d
  BY Ajout
<1> HIDE DEF e, n
<1>2. T \subseteq B
  <2> SUFFICES ASSUME ~ (T \subseteq B) PROVE FALSE
    OBVIOUS
  <2>1. T \subseteq Nat
    BY <1>1
  <2>2. PICK m \in T : m \notin B /\ \A y \in T : y < m => y \in B
    BY <2>1, PlusPetitContreExemple
  <2>3. Pli(e)[1..0] = 0 /\ Pli(c)[1..0] = 0
    BY <1>1, PliVide, n + 1 \in Nat
  <2>4. m # 0
    BY <2>2, <2>3
  <2>5. m \in 1..n /\ m \in 1..(n + 1) /\ m - 1 \in T /\ m - 1 < m
    BY <2>4, <1>1
  <2>6. Pli(e)[1..(m - 1)] = Pli(c)[1..(m - 1)]
    BY <2>2, <2>5
  <2>7. Pli(c)[1..m] = Base * Pli(c)[1..(m - 1)] + c[m]
    BY <2>5, <1>1, PliIntervalle
  <2>8. Pli(e)[1..m] = Base * Pli(e)[1..(m - 1)] + e[m]
    BY <2>5, <1>1, PliIntervalle, n + 1 \in Nat
  <2> QED
    BY <2>2, <2>5, <2>6, <2>7, <2>8, <1>1
<1>3. Pli(e)[1..n] = Pli(c)[1..n]
  BY <1>1, <1>2
<1>4. Pli(e)[1..(n + 1)] = Base * Pli(e)[1..n] + d
  <2>1. n + 1 \in Nat /\ n + 1 \in 1..(n + 1) /\ (n + 1) - 1 = n
    BY <1>1
  <2> QED
    BY <2>1, <1>1, PliIntervalle
<1>5. LireFichier(c) = Pli(c)[1..n] /\ LireFichier(e) = Pli(e)[1..(n + 1)]
  BY <1>1, LireDef
<1> QED
  BY <1>3, <1>4, <1>5 DEF e
(* It is a number again.                                                   *)
LEMMA UnChiffreDePlus ==
    ASSUME NEW a \in Nat, NEW d \in Nat
    PROVE  Base * a + d \in Nat
BY CompteurAssumption

(* It is not smaller than before.                                         *)
LEMMA AuMoins ==
    ASSUME NEW a \in Nat, NEW d \in Nat
    PROVE  a <= Base * a + d
<1>1. Base \in Nat /\ Base >= 1
  BY CompteurAssumption
<1>2. Base * a >= 1 * a
  BY <1>1
<1> QED
  BY <1>1, <1>2

(* What is read is a number.                                               *)
LEMMA LireTypee ==
    ASSUME NEW c \in Seq(Nat)
    PROVE  LireFichier(c) \in Nat
<1> DEFINE n == Len(c)
           T == 0..n
           B == {k \in T : Pli(c)[1..k] \in Nat}
<1>1. n \in Nat /\ DOMAIN c = 1..n /\ \A k \in 1..n : c[k] \in Nat
  OBVIOUS
<1> HIDE DEF n
<1>2. T \subseteq B
  <2> SUFFICES ASSUME ~ (T \subseteq B) PROVE FALSE
    OBVIOUS
  <2>1. T \subseteq Nat
    BY <1>1
  <2>2. PICK m \in T : m \notin B /\ \A y \in T : y < m => y \in B
    BY <2>1, PlusPetitContreExemple
  <2>3. m # 0
    BY <2>2, <1>1, PliVide
  <2>4. m \in 1..n /\ m - 1 \in T /\ m - 1 < m
    BY <2>3, <1>1
  <2>5. Pli(c)[1..(m - 1)] \in Nat /\ c[m] \in Nat
    BY <2>2, <2>4, <1>1
  <2>6. Pli(c)[1..m] = Base * Pli(c)[1..(m - 1)] + c[m]
    BY <2>4, <1>1, PliIntervalle
  <2> QED
    BY <2>2, <2>5, <2>6, UnChiffreDePlus
<1> QED
  BY <1>1, <1>2, LireDef

-----------------------------------------------------------------------------
(* What is written and what is read.                                       *)

(* FormatInt gives digits.                                                 *)
LEMMA EcritTypee ==
    ASSUME NEW n \in Nat
    PROVE  FormatInt[n] \in Seq(0..(Base - 1))
<1> DEFINE D == 0..(Base - 1)
           B == {k \in Nat : FormatInt[k] \in Seq(D)}
<1>1. \A k \in Nat : (k < Base => k \in D) /\ k % Base \in D
  BY Quotient, CompteurAssumption
<1> HIDE DEF D
<1>2. ASSUME NEW m \in Nat, \A y \in Nat : y < m => FormatInt[y] \in Seq(D)
      PROVE  FormatInt[m] \in Seq(D)
  <2>1. CASE m < Base
    <3>1. FormatInt[m] = <<m>> /\ m \in D
      BY <1>1, <2>1, FormatIntEquation
    <3> QED
      BY <3>1
  <2>2. CASE ~ (m < Base)
    <3>1. m \div Base \in Nat /\ m \div Base < m
      BY <2>2, Quotient, CompteurAssumption
    <3>2. FormatInt[m \div Base] \in Seq(D) /\ m % Base \in D
      BY <1>1, <1>2, <3>1
    <3>3. FormatInt[m] = Append(FormatInt[m \div Base], m % Base)
      BY <2>2, FormatIntEquation
    <3> QED
      BY <3>2, <3>3
  <2> QED
    BY <2>1, <2>2
<1>3. Nat \subseteq B
  BY <1>2, PlusPetitContreExemple
<1> QED
  BY <1>3 DEF D

(* Digits are numbers.                                                     *)
LEMMA Chiffres == Seq(0..(Base - 1)) \subseteq Seq(Nat)
BY CompteurAssumption

(* A count is read back as it was written.                                 *)
THEOREM LuCommeEcrit ==
    ASSUME NEW n \in Nat
    PROVE  LireFichier(FormatInt[n]) = n
<1> DEFINE B == {k \in Nat : LireFichier(FormatInt[k]) = k}
<1> SUFFICES ASSUME ~ (Nat \subseteq B) PROVE FALSE
  OBVIOUS
<1>1. PICK m \in Nat : m \notin B /\ \A y \in Nat : y < m => y \in B
  BY PlusPetitContreExemple
<1>2. CASE m < Base
  <2>1. <<>> \in Seq(Nat) /\ Append(<<>>, m) = <<m>>
    OBVIOUS
  <2>2. LireFichier(<<m>>) = Base * 0 + m
    BY <2>1, LireVide, LireAjout
  <2> QED
    BY <1>1, <1>2, <2>2, FormatIntEquation, CompteurAssumption
<1>3. CASE ~ (m < Base)
  <2> DEFINE q == m \div Base
             r == m % Base
  <2>1. q \in Nat /\ q < m /\ r \in Nat /\ m = Base * q + r
    BY <1>3, Quotient, CompteurAssumption
  <2>2. FormatInt[m] = Append(FormatInt[q], r)
    BY <1>3, FormatIntEquation
  <2> HIDE DEF q, r
  <2>3. LireFichier(FormatInt[q]) = q /\ FormatInt[q] \in Seq(Nat)
    BY <1>1, <2>1, EcritTypee, Chiffres
  <2>4. LireFichier(Append(FormatInt[q], r)) = Base * LireFichier(FormatInt[q]) + r
    BY <2>1, <2>3, LireAjout
  <2> QED
    BY <1>1, <2>1, <2>2, <2>3, <2>4
<1> QED
  BY <1>2, <1>3

(* Writing over digits leaves digits.                                      *)
LEMMA EcraserTypee ==
    ASSUME NEW S, NEW c \in Seq(S), NEW s \in Seq(S)
    PROVE  Ecraser(c, s) \in Seq(S)
<1>1. Len(s) \in Nat /\ Len(c) \in Nat /\ \A i \in 1..Len(c) : c[i] \in S
  OBVIOUS
<1>2. \A i \in (Len(s) + 1)..Len(c) : i \in 1..Len(c)
  BY <1>1
<1>3. SubSeq(c, Len(s) + 1, Len(c)) \in Seq(S)
  <2>1. Len(s) + 1 \in Int /\ Len(c) \in Int
    BY <1>1
  <2> QED
    BY <1>1, <1>2, <2>1, SubSeqProperties
<1> QED
  BY <1>3 DEF Ecraser

(* Writing into an empty file.                                             *)
LEMMA EcraserVide ==
    ASSUME NEW S, NEW s \in Seq(S)
    PROVE  Ecraser(<<>>, s) = s
<1>1. Len(s) + 1 \in Nat /\ Len(s) + 1 > 0 /\ Len(<<>>) = 0
  OBVIOUS
<1>2. SubSeq(<<>>, Len(s) + 1, Len(<<>>)) = <<>>
  BY <1>1
<1>3. s \o <<>> = s
  OBVIOUS
<1> QED
  BY <1>2, <1>3 DEF Ecraser

(* The first digits of a number never say more than all of them.           *)
LEMMA LireDebut ==
    ASSUME NEW c \in Seq(Nat), NEW k \in 0..Len(c)
    PROVE  /\ SubSeq(c, 1, k) \in Seq(Nat)
           /\ LireFichier(SubSeq(c, 1, k)) <= LireFichier(c)
<1> DEFINE n == Len(c)
           p == SubSeq(c, 1, k)
<1>1. /\ n \in Nat /\ k \in Nat /\ k <= n /\ DOMAIN c = 1..n
      /\ \A i \in 1..n : c[i] \in Nat
  OBVIOUS
<1>2. p \in Seq(Nat) /\ Len(p) = k /\ \A i \in 1..k : p[i] = c[i]
  <2>1. \A i \in 1..k : c[i] \in Nat
    BY <1>1
  <2>2. /\ p \in Seq(Nat)
        /\ Len(p) = IF 1 <= k THEN k - 1 + 1 ELSE 0
        /\ \A i \in 1..(k - 1 + 1) : p[i] = c[1 + i - 1]
    BY <1>1, <2>1, 1 \in Int, k \in Int, SubSeqProperties
  <2>3. k - 1 + 1 = k /\ \A i \in 1..k : 1 + i - 1 = i
    BY <1>1
  <2> QED
    BY <1>1, <2>2, <2>3
<1> HIDE DEF p, n
<1>3. DOMAIN p = 1..k
  BY <1>2
<1> DEFINE V(i) == Pli(c)[1..i]
<1>4. ASSUME NEW i \in 1..n
      PROVE  V(i) = Base * V(i - 1) + c[i]
  BY <1>1, PliIntervalle
<1>5. V(0) = 0
  BY <1>1, PliVide
<1>6. (0..n) \subseteq {i \in 0..n : V(i) \in Nat}
  <2> HIDE DEF V
  <2>1. ASSUME NEW m \in 0..n, \A y \in 0..n : y < m => V(y) \in Nat
        PROVE  V(m) \in Nat
    <3>1. CASE m = 0
      BY <1>5, <3>1
    <3>2. CASE m # 0
      <4>1. m \in 1..n /\ m - 1 \in 0..n /\ m - 1 < m
        BY <1>1, <3>2
      <4>2. V(m - 1) \in Nat /\ c[m] \in Nat /\ V(m) = Base * V(m - 1) + c[m]
        BY <1>1, <1>4, <2>1, <4>1
      <4> QED
        BY <4>2, UnChiffreDePlus
    <3> QED
      BY <3>1, <3>2
  <2>2. (0..n) \subseteq Nat
    BY <1>1
  <2> DEFINE B == {i \in 0..n : V(i) \in Nat}
  <2>3. \A m \in 0..n : (\A y \in 0..n : y < m => y \in B) => m \in B
    BY <2>1
  <2> HIDE DEF B
  <2>4. (0..n) \subseteq B
    BY <2>2, <2>3, PlusPetitContreExemple
  <2> QED
    BY <2>4 DEF B
<1>7. \A i \in 1..n : V(i - 1) <= V(i)
  <2> SUFFICES ASSUME NEW i \in 1..n
               PROVE  V(i - 1) <= V(i)
    OBVIOUS
  <2>1. i - 1 \in 0..n
    BY <1>1
  <2>2. V(i - 1) \in Nat /\ c[i] \in Nat /\ V(i) = Base * V(i - 1) + c[i]
    BY <1>1, <1>4, <1>6, <2>1
  <2> HIDE DEF V
  <2> QED
    BY <2>2, AuMoins
<1>8. V(k) <= V(n)
  <2> DEFINE T == k..n
             B == {i \in T : V(k) <= V(i)}
  <2>1. \A m \in T : (\A y \in T : y < m => y \in B) => m \in B
    <3> SUFFICES ASSUME NEW m \in T, \A y \in T : y < m => y \in B
                 PROVE  V(k) <= V(m)
      OBVIOUS
    <3>1. m \in 0..n /\ V(m) \in Nat /\ V(k) \in Nat
      BY <1>1, <1>6
    <3> HIDE DEF V
    <3>2. CASE m = k
      BY <3>1, <3>2
    <3>3. CASE m # k
      <4>1. m \in 1..n /\ m - 1 \in T /\ m - 1 < m /\ m - 1 \in 0..n
        BY <1>1, <3>3
      <4>2. V(k) <= V(m - 1) /\ V(m - 1) <= V(m) /\ V(m - 1) \in Nat
        BY <1>6, <1>7, <4>1
      <4> QED
        BY <3>1, <4>2
    <3> QED
      BY <3>2, <3>3
  <2>2. T \subseteq Nat /\ n \in T
    BY <1>1
  <2> HIDE DEF B, T
  <2>3. T \subseteq B
    BY <2>1, <2>2, PlusPetitContreExemple
  <2> QED
    BY <2>2, <2>3 DEF B
<1>9. \A i \in 0..k : Pli(p)[1..i] = V(i)
  <2> DEFINE T == 0..k
             B == {i \in T : Pli(p)[1..i] = V(i)}
  <2>1. ASSUME NEW m \in T, \A y \in T : y < m => y \in B
        PROVE  Pli(p)[1..m] = V(m)
    <3>1. CASE m = 0
      BY <1>1, <1>3, <1>5, <3>1, PliVide
    <3>2. CASE m # 0
      <4>1. m \in 1..k /\ m \in 1..n /\ m - 1 \in T /\ m - 1 < m
        BY <1>1, <3>2
      <4>2. Pli(p)[1..(m - 1)] = V(m - 1)
        BY <2>1, <4>1
      <4>3. Pli(p)[1..m] = Base * Pli(p)[1..(m - 1)] + p[m]
        BY <1>1, <1>3, <4>1, PliIntervalle
      <4> HIDE DEF V
      <4> QED
        BY <1>2, <1>4, <4>1, <4>2, <4>3
    <3> QED
      BY <3>1, <3>2
  <2>2. T \subseteq Nat
    BY <1>1
  <2>3. \A m \in T : (\A y \in T : y < m => y \in B) => m \in B
    BY <2>1
  <2> HIDE DEF B, T
  <2>4. T \subseteq B
    BY <2>2, <2>3, PlusPetitContreExemple
  <2> QED
    BY <2>4 DEF B, T
<1>10. LireFichier(p) = V(k) /\ LireFichier(c) = V(n)
  <2>1. k \in 0..k
    BY <1>1
  <2> QED
    BY <1>1, <1>3, <1>9, <2>1, LireDef
<1> QED
  BY <1>2, <1>8, <1>10 DEF p

(* What a write that fails leaves are digits too, and a part of the text.  *)
LEMMA MorceauxTypes ==
    ASSUME NEW n \in Nat, NEW s \in Morceaux(n)
    PROVE  /\ s \in Seq(0..(Base - 1))
           /\ LireFichier(s) \in Nat /\ LireFichier(s) <= n
<1> DEFINE c == FormatInt[n]
<1>1. c \in Seq(0..(Base - 1)) /\ c \in Seq(Nat) /\ LireFichier(c) = n
  BY EcritTypee, Chiffres, LuCommeEcrit
<1>2. PICK k \in 0..(Len(c) - 1) : s = SubSeq(c, 1, k)
  BY DEF Morceaux
<1> HIDE DEF c
<1>3. Len(c) \in Nat /\ k \in Nat /\ k <= Len(c) /\ k \in 0..Len(c)
  BY <1>1, <1>2
<1> DEFINE D == 0..(Base - 1)
<1>4. c \in Seq(D)
  BY <1>1
<1>5. s \in Seq(D)
  <2> HIDE DEF D
  <2>1. \A i \in 1..k : c[i] \in D
    BY <1>3, <1>4
  <2> QED
    BY <1>2, <1>3, <2>1, 1 \in Int, k \in Int, SubSeqProperties
<1>6. LireFichier(s) <= n
  BY <1>1, <1>2, <1>3, LireDebut
<1>7. LireFichier(s) \in Nat
  BY <1>5, Chiffres, LireTypee
<1> QED
  BY <1>5, <1>6, <1>7

(* No digit written is such a part.                                        *)
LEMMA MorceauVide ==
    ASSUME NEW n \in Nat
    PROVE  <<>> \in Morceaux(n)
<1> DEFINE c == FormatInt[n]
<1>1. c \in Seq(0..(Base - 1)) /\ c # <<>>
  <2>1. c \in Seq(0..(Base - 1))
    BY EcritTypee
  <2>2. CASE n < Base
    <3>1. c = <<n>>
      BY <2>2, FormatIntEquation
    <3> HIDE DEF c
    <3> QED
      BY <2>1, <3>1
  <2>3. CASE ~ (n < Base)
    <3> DEFINE a == FormatInt[n \div Base]
               d == n % Base
    <3>1. c = Append(a, d)
      BY <2>3, FormatIntEquation
    <3>2. a \in Seq(Nat) /\ d \in Nat
      <4>1. n \div Base \in Nat /\ d \in 0..(Base - 1)
        BY Quotient
      <4>2. a \in Seq(Nat)
        BY <4>1, EcritTypee, Chiffres
      <4> QED
        BY <4>1, <4>2, CompteurAssumption
    <3> HIDE DEF a, c, d
    <3>3. Len(c) = Len(a) + 1
      BY <3>1, <3>2
    <3>4. Len(a) \in Nat
      BY <3>2
    <3> QED
      BY <2>1, <3>3, <3>4
  <2> QED
    BY <2>1, <2>2, <2>3
<1>2. SubSeq(c, 1, 0) = <<>>
  BY 1 \in Int, 0 \in Int, SubSeqEmpty
<1> HIDE DEF c
<1>3. 0 \in 0..(Len(c) - 1)
  BY <1>1
<1> QED
  BY <1>2, <1>3 DEF c, Morceaux

-----------------------------------------------------------------------------
(* Types.                                                                  *)

LEMMA TypeAuDepart == Init => TypeOK
<1> SUFFICES ASSUME Init
             PROVE  TypeOK
  OBVIOUS
<1>1. Depart \in Nat /\ FormatInt[Depart] \in Seq(0..(Base - 1))
  BY EcritTypee, CompteurAssumption
<1> QED
  BY <1>1 DEF Init, TypeOK

LEMMA TypeConserve == TypeOK /\ [Next]_vars => TypeOK'
<1> SUFFICES ASSUME TypeOK, [Next]_vars
             PROVE  TypeOK'
  OBVIOUS
<1>1. CASE Lancement
  <2>1. LireFichier(fichier) \in Nat
    BY LireTypee, Chiffres DEF TypeOK
  <2> QED
    BY <1>1, <2>1 DEF Lancement, Demarrer, TypeOK
<1>2. CASE LancementIllisible
  BY <1>2 DEF LancementIllisible, Demarrer, TypeOK
<1>3. CASE Panne
  BY <1>3 DEF Panne, Mort, TypeOK
<1>4. CASE Commande
  BY <1>4 DEF Commande, TypeOK
<1>5. CASE TesterFlag
  BY <1>5 DEF TesterFlag, TypeOK
<1>6. CASE Incrementer
  BY <1>6 DEF Incrementer, TypeOK
<1>7. CASE MajDuree
  BY <1>7 DEF MajDuree, TypeOK
<1>8. ASSUME NEW w \in Ecrivains, Appeler(w)
      PROVE  TypeOK'
  BY <1>8 DEF Appeler, TypeOK
<1>9. ASSUME NEW w \in Ecrivains, Creer(w)
      PROVE  TypeOK'
  <2>1. <<>> \in Seq(0..(Base - 1)) /\ donnees[w] \in Nat
    BY DEF TypeOK
  <2> QED
    BY <1>9, <2>1 DEF Creer, TypeOK
<1>10. ASSUME NEW w \in Ecrivains, Rendre(w)
       PROVE  ecriture' \in [Ecrivains -> {"repos", "creer", "vider", "sortir"}]
  BY <1>10 DEF Rendre, TypeOK
<1>11. ASSUME NEW w \in Ecrivains, CreerEchoue(w)
       PROVE  TypeOK'
  BY <1>10, <1>11 DEF CreerEchoue, TypeOK
<1>12. ASSUME NEW w \in Ecrivains, Vider(w)
       PROVE  TypeOK'
  <2>1. donnees[w] \in Nat
    BY DEF TypeOK
  <2>2. Ecraser(fichier, FormatInt[donnees[w]]) \in Seq(0..(Base - 1))
    BY <2>1, EcritTypee, EcraserTypee DEF TypeOK
  <2> QED
    BY <1>10, <1>12, <2>1, <2>2 DEF Vider, TypeOK
<1>13. ASSUME NEW w \in Ecrivains, ViderEchoue(w)
       PROVE  TypeOK'
  <2>1. PICK s \in Morceaux(donnees[w]) : fichier' = Ecraser(fichier, s)
    BY <1>13 DEF ViderEchoue
  <2>2. s \in Seq(0..(Base - 1))
    BY MorceauxTypes DEF TypeOK
  <2>3. fichier' \in Seq(0..(Base - 1))
    BY <2>1, <2>2, EcraserTypee DEF TypeOK
  <2> QED
    BY <1>10, <1>13, <2>3 DEF ViderEchoue, TypeOK
<1>14. ASSUME NEW w \in Ecrivains, Sortir(w)
       PROVE  TypeOK'
  BY <1>14 DEF Sortir, Mort, TypeOK
<1>15. CASE UNCHANGED vars
  BY <1>15 DEF vars, TypeOK
<1> QED
  BY <1>1, <1>2, <1>3, <1>4, <1>5, <1>6, <1>7, <1>8, <1>9, <1>11, <1>12, <1>13, <1>14,
     <1>15 DEF Next, Compter, Ecrire

(* Whatever was in the file and whoever writes over whom, the file holds   *)
(* digits, and the count that a process reads from it is a number.         *)
THEOREM TypesTenus == Spec => []TypeOK
BY TypeAuDepart, TypeConserve, PTL DEF Spec

-----------------------------------------------------------------------------
(* What is shown.                                                          *)

(* counter() is behind its own count only while it sleeps.                 *)
Retard ==
    vif => IF pc = "dort" THEN compteur \in {t, t + 1} ELSE compteur = t

LEMMA RetardAuDepart == Init => Retard
BY DEF Init, Retard

LEMMA RetardConserve == Retard /\ [Next]_vars => Retard'
<1> SUFFICES ASSUME Retard, [Next]_vars
             PROVE  Retard'
  OBVIOUS
<1>1. CASE Lancement \/ LancementIllisible
  BY <1>1 DEF Lancement, LancementIllisible, Demarrer, Retard
<1>2. CASE Panne
  BY <1>2 DEF Panne, Mort, Retard
<1>3. CASE Commande
  BY <1>3 DEF Commande, Retard
<1>4. CASE TesterFlag
  BY <1>4 DEF TesterFlag, Retard
<1>5. CASE Incrementer
  BY <1>5 DEF Incrementer, Retard
<1>6. CASE MajDuree
  BY <1>6 DEF MajDuree, Retard
<1>7. ASSUME NEW w \in Ecrivains,
             \/ Appeler(w) \/ Creer(w) \/ CreerEchoue(w)
             \/ Vider(w) \/ ViderEchoue(w)
      PROVE  Retard'
  BY <1>7 DEF Appeler, Creer, CreerEchoue, Vider, ViderEchoue, Retard
<1>8. ASSUME NEW w \in Ecrivains, Sortir(w)
      PROVE  Retard'
  BY <1>8 DEF Sortir, Mort, Retard
<1>9. CASE UNCHANGED vars
  BY <1>9 DEF vars, Retard
<1> QED
  BY <1>1, <1>2, <1>3, <1>4, <1>5, <1>6, <1>7, <1>8, <1>9 DEF Next, Compter, Ecrire

(* Whatever the writers, the commands and the crashes do, what is shown is *)
(* the count or one second behind it, for every file the process can find. *)
THEOREM AffichageToujoursProche == Spec => []AffichageProche
<1>1. Retard => AffichageProche
  BY DEF Retard, AffichageProche
<1> QED
  BY <1>1, RetardAuDepart, RetardConserve, PTL DEF Spec

-----------------------------------------------------------------------------
(* What is saved.                                                          *)

(* Until Q writes, only the periodic writer has a call under way: the file *)
(* holds what was last written to its last digit, or the first digits of a *)
(* later count, and is empty from the truncation on until that writer has  *)
(* written.                                                                *)
FichierJuste ==
    ~mele =>
        /\ entame = Aucun => LireFichier(fichier) = sauve
        /\ entame # Aucun => fichier \in Morceaux(entame)
        /\ \A w \in Ecrivains : ecriture[w] # "repos" => w = Periodique
        /\ ecriture[Periodique] = "vider" =>
              fichier = <<>> /\ entame = donnees[Periodique]

LEMMA FichierAuDepart == Init => FichierJuste
<1> SUFFICES ASSUME Init
             PROVE  FichierJuste
  OBVIOUS
<1>1. Periodique \in Ecrivains
  BY CompteurAssumption
<1>2. LireFichier(fichier) = sauve
  BY LuCommeEcrit, CompteurAssumption DEF Init
<1> QED
  BY <1>1, <1>2 DEF Init, FichierJuste

LEMMA FichierConserve == TypeOK /\ FichierJuste /\ [Next]_vars => FichierJuste'
<1> SUFFICES ASSUME TypeOK, FichierJuste, [Next]_vars
             PROVE  FichierJuste'
  OBVIOUS
<1>0. Periodique \in Ecrivains /\ Periodique # Clavier
  BY CompteurAssumption
<1>1. CASE Lancement
  BY <1>0, <1>1 DEF Lancement, Demarrer, FichierJuste
<1>2. CASE LancementIllisible
  BY <1>0, <1>2 DEF LancementIllisible, Demarrer, FichierJuste
<1>3. CASE Mort
  BY <1>0, <1>3 DEF Mort, FichierJuste
<1>4. CASE Commande \/ TesterFlag \/ Incrementer \/ MajDuree
  BY <1>4 DEF Commande, TesterFlag, Incrementer, MajDuree, FichierJuste
<1>5. ASSUME NEW w \in Ecrivains, Appeler(w)
      PROVE  FichierJuste'
  <2>1. w = Clavier \/ w = Periodique
    BY CompteurAssumption
  <2> QED
    BY <1>0, <1>5, <2>1 DEF Appeler, FichierJuste, TypeOK
<1>6. ASSUME NEW w \in Ecrivains, Creer(w)
      PROVE  FichierJuste'
  <2> SUFFICES ASSUME ~mele
               PROVE  FichierJuste'
    BY <1>6 DEF Creer, FichierJuste
  <2>1. w = Periodique /\ donnees[w] \in Nat
    BY <1>6 DEF Creer, FichierJuste, TypeOK
  <2>2. fichier' = <<>> /\ entame' = donnees[w] /\ entame' # Aucun
    BY <1>6, <2>1 DEF Creer, Aucun
  <2>3. fichier' \in Morceaux(entame')
    BY <2>1, <2>2, MorceauVide
  <2> QED
    BY <1>0, <1>6, <2>1, <2>2, <2>3 DEF Creer, FichierJuste, TypeOK
<1>7. ASSUME NEW w \in Ecrivains, Rendre(w), ~mele, ecriture[w] # "repos"
      PROVE  w = Periodique /\ ecriture' = [u \in Ecrivains |-> "repos"]
  BY <1>0, <1>7 DEF Rendre, FichierJuste, TypeOK
<1>8. ASSUME NEW w \in Ecrivains, CreerEchoue(w)
      PROVE  FichierJuste'
  <2> SUFFICES ASSUME ~mele
               PROVE  FichierJuste'
    BY <1>8 DEF CreerEchoue, FichierJuste
  <2>1. ecriture' = [u \in Ecrivains |-> "repos"]
    BY <1>7, <1>8 DEF CreerEchoue
  <2> QED
    BY <1>0, <1>8, <2>1 DEF CreerEchoue, FichierJuste
<1>9. ASSUME NEW w \in Ecrivains, Vider(w)
      PROVE  FichierJuste'
  <2> SUFFICES ASSUME ~mele
               PROVE  FichierJuste'
    BY <1>9 DEF Vider, FichierJuste
  <2>1. w = Periodique /\ ecriture' = [u \in Ecrivains |-> "repos"]
    BY <1>7, <1>9 DEF Vider
  <2>2. fichier = <<>>
    BY <1>9, <2>1 DEF Vider, FichierJuste
  <2>3. donnees[w] \in Nat /\ FormatInt[donnees[w]] \in Seq(0..(Base - 1))
    BY EcritTypee DEF TypeOK
  <2>4. fichier' = FormatInt[donnees[w]]
    BY <1>9, <2>2, <2>3, EcraserVide DEF Vider
  <2>5. LireFichier(fichier') = sauve' /\ entame' = Aucun
    BY <1>9, <2>3, <2>4, LuCommeEcrit DEF Vider
  <2> QED
    BY <1>0, <2>1, <2>5 DEF FichierJuste
<1>10. ASSUME NEW w \in Ecrivains, ViderEchoue(w)
       PROVE  FichierJuste'
  <2> SUFFICES ASSUME ~mele
               PROVE  FichierJuste'
    BY <1>10 DEF ViderEchoue, FichierJuste
  <2>1. w = Periodique /\ ecriture' = [u \in Ecrivains |-> "repos"]
    BY <1>7, <1>10 DEF ViderEchoue
  <2>2. fichier = <<>> /\ entame = donnees[w] /\ donnees[w] \in Nat
    BY <1>10, <2>1 DEF ViderEchoue, FichierJuste, TypeOK
  <2>3. PICK s \in Morceaux(donnees[w]) : fichier' = Ecraser(fichier, s)
    BY <1>10 DEF ViderEchoue
  <2>4. fichier' = s
    BY <2>2, <2>3, MorceauxTypes, EcraserVide
  <2>5. entame' = entame /\ entame' # Aucun /\ fichier' \in Morceaux(entame')
    BY <1>10, <2>2, <2>3, <2>4 DEF ViderEchoue, Aucun
  <2> QED
    BY <1>0, <2>1, <2>5 DEF FichierJuste
<1>11. CASE UNCHANGED vars
  BY <1>11 DEF vars, FichierJuste
<1> QED
  BY <1>1, <1>2, <1>3, <1>4, <1>5, <1>6, <1>8, <1>9, <1>10, <1>11
     DEF Next, Compter, Ecrire, Panne, Sortir

(* One launch.                                                             *)
LEMMA Reprise ==
    FichierJuste =>
        [ Lancement /\ ~mele =>
            IF entame = Aucun
            THEN compteur' = sauve
            ELSE compteur' \in {LireFichier(s) : s \in Morceaux(entame)} ]_vars
BY DEF Lancement, Demarrer, FichierJuste

(* Unless Q interfered, no count is lost but the one whose write was cut   *)
(* short, by a crash or by an error that nobody looks at, and of that one  *)
(* the first digits may be left: for every count and any number of failed  *)
(* creations and writes, crashes and launches.                             *)
THEOREM RepriseToujoursExacte == Spec => RepriseExacte
<1>1. Spec => []FichierJuste
  BY FichierAuDepart, FichierConserve, TypesTenus, PTL DEF Spec
<1> QED
  BY <1>1, Reprise, PTL DEF Spec, RepriseExacte

(* Nor does a write that was cut short ever make a count larger: a process *)
(* never starts ahead of the count that the file was last given, whole or  *)
(* in part.                                                                *)
THEOREM JamaisEnAvance ==
    Spec => [][ Lancement /\ ~mele =>
                    compteur' <= (IF entame = Aucun THEN sauve ELSE entame) ]_vars
<1>1. TypeOK /\ FichierJuste =>
        [ Lancement /\ ~mele =>
                    compteur' <= (IF entame = Aucun THEN sauve ELSE entame) ]_vars
  <2> SUFFICES ASSUME TypeOK, FichierJuste, Lancement, ~mele
               PROVE  compteur' <= (IF entame = Aucun THEN sauve ELSE entame)
    OBVIOUS
  <2>1. CASE entame = Aucun
    BY <2>1, Reprise DEF Lancement, Demarrer, FichierJuste, TypeOK
  <2>2. CASE entame # Aucun
    <3>1. fichier \in Morceaux(entame) /\ entame \in Nat
      BY <2>2 DEF FichierJuste, TypeOK
    <3>2. compteur' = LireFichier(fichier)
      BY DEF Lancement, Demarrer
    <3> QED
      BY <2>2, <3>1, <3>2, MorceauxTypes
  <2> QED
    BY <2>1, <2>2
<1>2. Spec => []FichierJuste
  BY FichierAuDepart, FichierConserve, TypesTenus, PTL DEF Spec
<1> QED
  BY <1>1, <1>2, TypesTenus, PTL DEF Spec
=============================================================================
