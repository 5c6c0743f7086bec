----------------------------- MODULE Shox96Proofs -----------------------------
(****************************************************************************)
(* Proofs that the decompressor of Shox96 returns the text the compressor   *)
(* was given, for any texts of the characters README names and any earlier  *)
(* lines, with the code tables as they are.                                 *)
(*                                                                          *)
(* The argument: what the compressor has written is a path of places, each  *)
(* a position in the blob, one in the text, and the state both ends have    *)
(* there (Path).  A pass of the compressor adds places to the end of the    *)
(* path (RepeatCoded, WithinCoded, EarlierCoded, LiteralCoded), and a pass  *)
(* of the decompressor moves from a place to the next (PassOfBlob), because *)
(* no codeword begins with another (VFound, HFound).  The filling of the    *)
(* last byte is the head of the word that ends a blob, so that it stands    *)
(* for nothing (FillingBits).                                               *)
(****************************************************************************)
EXTENDS Shox96, WellFoundedInduction, TLAPS

\* The largest count that encodeCount has a class for.
MaxCount == 70307

\* What is given to the functions is within the limits: characters README names,
\* and lengths that encodeCount has a class for.
WithinLimits ==
    /\ \A t \in Texts : Len(t) <= MaxCount /\ \A k \in 1 .. Len(t) : t[k] \in Characters
    /\ \A lines \in EarlierLines : /\ Len(lines) <= MaxCount
                                   /\ \A i \in 1 .. Len(lines) : Len(lines[i]) <= MaxCount

\* No text has a run of four right after another character and one of its own.
NoDelayedRuns == \A t \in Texts : ~DelayedRun(t)

\* The shortest matches that are coded pay for their words.
MatchesPay == NICE_LEN_FOR_PRIOR >= 3 /\ NICE_LEN_FOR_OTHER >= 4

------------------------------------------------------------------------------
(* Induction.                                                               *)

\* The order of the natural numbers, as a set of pairs.
Less == OpToRel(<, Nat)

\* A set of natural numbers that is not empty has a least one.
LEMMA Least ==
    ASSUME NEW T \in SUBSET Nat, T # {}
    PROVE  \E m \in T : \A k \in T : m <= k
<1>1. IsWellFoundedOn(Less, Nat)
  BY NatLessThanWellFounded DEF Less
<1>2. PICK m \in T : \A k \in T : ~(<<k, m>> \in Less)
  BY <1>1, WFMin
<1>3. \A k \in T : m <= k
  <2> SUFFICES ASSUME NEW k \in T PROVE m <= k
    OBVIOUS
  <2>1. k \in Nat /\ m \in Nat
    OBVIOUS
  <2>2. ~(k < m)
    BY <1>2, <2>1 DEF Less, OpToRel
  <2> QED BY <2>1, <2>2
<1> QED BY <1>3

\* Min of FiniteSetsExt gives it.
LEMMA LeastIsMin ==
    ASSUME NEW T \in SUBSET Nat, T # {}
    PROVE  Min(T) \in T /\ \A k \in T : Min(T) <= k
<1>1. \E m \in T : \A k \in T : m <= k
  BY Least
<1> QED BY <1>1 DEF Min

\* Max gives the greatest of a set of natural numbers that has a bound.
LEMMA GreatestIsMax ==
    ASSUME NEW n \in Nat, NEW T \in SUBSET (0 .. n), T # {}
    PROVE  Max(T) \in T /\ \A k \in T : k <= Max(T)
<1> DEFINE R == {n - k : k \in T}
<1>1. R \in SUBSET Nat /\ R # {}
  <2>1. \A k \in T : n - k \in Nat
    OBVIOUS
  <2> QED BY <2>1
<1>2. PICK m \in R : \A k \in R : m <= k
  <2> HIDE DEF R
  <2> QED BY <1>1, Least
<1>3. PICK t \in T : m = n - t
  OBVIOUS
<1>4. \A k \in T : k <= t
  <2> SUFFICES ASSUME NEW k \in T PROVE k <= t
    OBVIOUS
  <2>1. n - k \in R
    OBVIOUS
  <2>2. n - t <= n - k
    BY <1>2, <1>3, <2>1
  <2> QED BY <2>2
<1> QED BY <1>4 DEF Max

\* Induction over the natural numbers, for a set.
LEMMA AllNaturals ==
    ASSUME NEW S, 0 \in S, \A n \in Nat : n \in S => n + 1 \in S
    PROVE  Nat \subseteq S
<1> SUFFICES ASSUME NEW n \in Nat, n \notin S PROVE FALSE
  OBVIOUS
<1>1. PICK m \in Nat \ S : \A k \in Nat \ S : m <= k
  <2>1. Nat \ S \in SUBSET Nat /\ Nat \ S # {}
    OBVIOUS
  <2> QED BY <2>1, Least
<1>2. m # 0 /\ m - 1 \in Nat
  OBVIOUS
<1>3. m - 1 \in S
  BY <1>1, <1>2
<1>4. (m - 1) + 1 = m
  OBVIOUS
<1> QED BY <1>2, <1>3, <1>4

\* Steps taken one after the other give a sequence of values.
Sequence(f, first, step, n) ==
    f = [k \in 0 .. n |-> IF k = 0 THEN first ELSE step[k][f[k - 1]]]

\* There is one for any steps.
LEMMA Iterated ==
    ASSUME NEW X, NEW first \in X, NEW n \in Nat, NEW step \in [1 .. n -> [X -> X]]
    PROVE  \E f \in [0 .. n -> X] : Sequence(f, first, step, n)
<1> DEFINE Started(f, m) == /\ f \in [0 .. m -> X] /\ f[0] = first
                            /\ \A k \in 1 .. m : f[k] = step[k][f[k - 1]]
           S == {m \in Nat : m <= n => \E f : Started(f, m)}
<1>1. 0 \in S
  <2>1. Started([k \in 0 .. 0 |-> first], 0)
    OBVIOUS
  <2> QED BY <2>1
<1>2. ASSUME NEW m \in Nat, m \in S PROVE m + 1 \in S
  <2> SUFFICES ASSUME m + 1 <= n PROVE \E f : Started(f, m + 1)
    OBVIOUS
  <2>1. PICK f : Started(f, m)
    BY <1>2
  <2> DEFINE g == [k \in 0 .. m + 1 |-> IF k <= m THEN f[k] ELSE step[m + 1][f[m]]]
  <2>2. f[m] \in X /\ step[m + 1][f[m]] \in X
    <3>1. f[m] \in X
      BY <2>1
    <3>2. step[m + 1] \in [X -> X]
      OBVIOUS
    <3> QED BY <3>1, <3>2
  <2>3. g \in [0 .. m + 1 -> X]
    BY <2>1, <2>2
  <2>4. \A k \in 0 .. m : g[k] = f[k]
    OBVIOUS
  <2>5. g[m + 1] = step[m + 1][f[m]]
    OBVIOUS
  <2> HIDE DEF g
  <2>6. g[0] = first
    BY <2>1, <2>4
  <2>7. ASSUME NEW k \in 1 .. m + 1 PROVE g[k] = step[k][g[k - 1]]
    <3>1. CASE k = m + 1
      BY <2>4, <2>5, <3>1
    <3>2. CASE k # m + 1
      <4>1. k \in 1 .. m /\ k \in 0 .. m /\ k - 1 \in 0 .. m
        BY <3>2
      <4> QED BY <2>1, <2>4, <4>1
    <3> QED BY <3>1, <3>2
  <2>8. Started(g, m + 1)
    BY <2>3, <2>6, <2>7
  <2> QED BY <2>8
<1>3. n \in S
  BY <1>1, <1>2, AllNaturals
<1>4. PICK f : Started(f, n)
  BY <1>3
<1>5. f = [k \in 0 .. n |-> IF k = 0 THEN first ELSE step[k][f[k - 1]]]
  BY <1>4
<1> QED BY <1>4, <1>5 DEF Sequence

------------------------------------------------------------------------------
(* Words of bits.                                                           *)

Bit == {0, 1}

\* The bits of b behind the first `at` begin with w.
Reads(b, at, w) == at + Len(w) <= Len(b) /\ \A k \in 1 .. Len(w) : b[at + k] = w[k]

\* Two words, one behind the other.
Two(u, v) == [k \in 1 .. Len(u) + Len(v) |-> IF k <= Len(u) THEN u[k] ELSE v[k - Len(u)]]

\* What is read stays where it is when the blob grows.
LEMMA ReadsOn ==
    ASSUME NEW b \in Seq(Bit), NEW x \in Seq(Bit), NEW w \in Seq(Bit), NEW at \in Nat,
           Reads(b, at, w)
    PROVE  Reads(b \o x, at, w)
<1>1. /\ b \o x \in Seq(Bit) /\ Len(b \o x) = Len(b) + Len(x)
      /\ \A k \in 1 .. Len(b) : (b \o x)[k] = b[k]
  OBVIOUS
<1>2. Len(w) \in Nat /\ Len(b) \in Nat /\ Len(x) \in Nat
  OBVIOUS
<1>3. at + Len(w) <= Len(b \o x)
  BY <1>1, <1>2 DEF Reads
<1>4. ASSUME NEW k \in 1 .. Len(w) PROVE (b \o x)[at + k] = w[k]
  <2>1. at + k \in 1 .. Len(b) /\ b[at + k] = w[k]
    BY <1>2 DEF Reads
  <2> QED BY <1>1, <2>1
<1> QED BY <1>3, <1>4 DEF Reads

\* What is appended is read where the blob ended.
LEMMA ReadsLast ==
    ASSUME NEW b \in Seq(Bit), NEW w \in Seq(Bit)
    PROVE  Reads(b \o w, Len(b), w) /\ Len(b \o w) = Len(b) + Len(w)
BY DEF Reads

\* Two words, one after the other.
LEMMA TwoWords ==
    ASSUME NEW u \in Seq(Bit), NEW v \in Seq(Bit)
    PROVE  /\ Two(u, v) \in Seq(Bit) /\ Len(Two(u, v)) = Len(u) + Len(v)
           /\ \A k \in 1 .. Len(u) : Two(u, v)[k] = u[k]
           /\ \A k \in 1 .. Len(v) : Two(u, v)[Len(u) + k] = v[k]
<1> DEFINE m == Len(u)  n == Len(v)
<1>1. m \in Nat /\ n \in Nat
  OBVIOUS
<1>2. \A k \in 1 .. m + n : (IF k <= m THEN u[k] ELSE v[k - m]) \in Bit
  <2> SUFFICES ASSUME NEW k \in 1 .. m + n PROVE (IF k <= m THEN u[k] ELSE v[k - m]) \in Bit
    OBVIOUS
  <2>1. CASE k <= m
    BY <1>1, <2>1
  <2>2. CASE ~(k <= m)
    <3>1. k - m \in 1 .. n
      BY <1>1, <2>2
    <3> QED BY <2>2, <3>1
  <2> QED BY <2>1, <2>2
<1>3. Two(u, v) = [k \in 1 .. m + n |-> IF k <= m THEN u[k] ELSE v[k - m]]
  BY DEF Two
<1> HIDE DEF m, n
<1>4. Two(u, v) \in Seq(Bit) /\ Len(Two(u, v)) = m + n
  BY <1>1, <1>2, <1>3
<1>5. /\ \A k \in 1 .. m : Two(u, v)[k] = u[k]
      /\ \A k \in 1 .. n : Two(u, v)[m + k] = v[k]
  BY <1>1, <1>3
<1> QED BY <1>4, <1>5 DEF m, n

\* Two words are read one after the other.
LEMMA ReadsTwo ==
    ASSUME NEW b \in Seq(Bit), NEW u \in Seq(Bit), NEW v \in Seq(Bit), NEW at \in Nat,
           Reads(b, at, Two(u, v))
    PROVE  Reads(b, at, u) /\ Reads(b, at + Len(u), v)
<1>1. Len(u) \in Nat /\ Len(v) \in Nat /\ Len(b) \in Nat
  OBVIOUS
<1>2. /\ Len(Two(u, v)) = Len(u) + Len(v)
      /\ \A k \in 1 .. Len(u) : Two(u, v)[k] = u[k]
      /\ \A k \in 1 .. Len(v) : Two(u, v)[Len(u) + k] = v[k]
  BY TwoWords
<1>3. Reads(b, at, u)
  BY <1>1, <1>2 DEF Reads
<1>4. ASSUME NEW k \in 1 .. Len(v) PROVE b[(at + Len(u)) + k] = v[k]
  <2>1. Len(u) + k \in 1 .. Len(Two(u, v)) /\ (at + Len(u)) + k = at + (Len(u) + k)
    BY <1>1, <1>2
  <2> QED BY <1>2, <2>1 DEF Reads
<1>5. at + Len(u) + Len(v) <= Len(b)
  BY <1>1, <1>2 DEF Reads
<1> QED BY <1>2, <1>3, <1>4, <1>5 DEF Reads

\* The codewords, written out.
LEMMA VWords ==
    /\ Len(vcode) = 11 /\ Len(vcode[1]) = 2
    /\ vcode[1] = <<0, 0>> /\ vcode[2] = <<0, 1, 0>> /\ vcode[3] = <<0, 1, 1>>
    /\ vcode[4] = <<1, 0, 0>> /\ vcode[5] = <<1, 0, 1, 0>> /\ vcode[6] = <<1, 0, 1, 1>>
    /\ vcode[7] = <<1, 1, 0, 0>> /\ vcode[8] = <<1, 1, 0, 1>> /\ vcode[9] = <<1, 1, 1, 0>>
    /\ vcode[10] = <<1, 1, 1, 1, 0>> /\ vcode[11] = <<1, 1, 1, 1, 1>>
BY DEF vcode

\* Those of the sets.
LEMMA HWords ==
    /\ Len(hcode) = 7 /\ Len(hcode[4]) = 5
    /\ hcode[1] = <<1, 0>> /\ hcode[2] = <<0>> /\ hcode[3] = <<1, 1, 0>>
    /\ hcode[4] = <<1, 1, 1, 0, 0>> /\ hcode[5] = <<1, 1, 1, 0, 1>>
    /\ hcode[6] = <<1, 1, 1, 1, 0>> /\ hcode[7] = <<1, 1, 1, 1, 1>>
BY DEF hcode

\* Every codeword is a sequence of bits.
LEMMA WordBits ==
    /\ \A i \in 1 .. 11 : vcode[i] \in Seq(Bit) /\ Len(vcode[i]) \in 2 .. 5
    /\ \A i \in 1 .. 7 : hcode[i] \in Seq(Bit) /\ Len(hcode[i]) \in 1 .. 5
<1>1. /\ \A x, y \in Bit : <<x>> \in Seq(Bit) /\ <<x, y>> \in Seq(Bit)
      /\ \A x, y, z \in Bit : <<x, y, z>> \in Seq(Bit)
      /\ \A x, y, z, t \in Bit : <<x, y, z, t>> \in Seq(Bit)
      /\ \A x, y, z, t, u \in Bit : <<x, y, z, t, u>> \in Seq(Bit)
  OBVIOUS
<1>2. 0 \in Bit /\ 1 \in Bit
  BY DEF Bit
<1>3. /\ \A i \in 1 .. 11 : i \in {1, 2, 3, 4, 5, 6, 7, 8, 9, 10, 11}
      /\ \A i \in 1 .. 7 : i \in {1, 2, 3, 4, 5, 6, 7}
  OBVIOUS
<1>4. \A i \in {1, 2, 3, 4, 5, 6, 7, 8, 9, 10, 11} : vcode[i] \in Seq(Bit)
  BY <1>1, <1>2, VWords
<1>5. \A i \in {1, 2, 3, 4, 5, 6, 7, 8, 9, 10, 11} : Len(vcode[i]) \in 2 .. 5
  BY VWords
<1>6. \A i \in {1, 2, 3, 4, 5, 6, 7} : hcode[i] \in Seq(Bit)
  BY <1>1, <1>2, HWords
<1>7. \A i \in {1, 2, 3, 4, 5, 6, 7} : Len(hcode[i]) \in 1 .. 5
  BY HWords
<1> QED BY <1>3, <1>4, <1>5, <1>6, <1>7

\* A codeword is read where its bits are.
LEMMA VRead ==
    ASSUME NEW b \in Seq(Bit), NEW at \in Nat
    PROVE  /\ (Reads(b, at, vcode[1]) <=> at + 2 <= Len(b) /\ b[at + 1] = 0 /\ b[at + 2] = 0)
           /\ (Reads(b, at, vcode[2]) <=> at + 3 <= Len(b) /\ b[at + 1] = 0 /\ b[at + 2] = 1
                                            /\ b[at + 3] = 0)
           /\ (Reads(b, at, vcode[3]) <=> at + 3 <= Len(b) /\ b[at + 1] = 0 /\ b[at + 2] = 1
                                            /\ b[at + 3] = 1)
           /\ (Reads(b, at, vcode[4]) <=> at + 3 <= Len(b) /\ b[at + 1] = 1 /\ b[at + 2] = 0
                                            /\ b[at + 3] = 0)
           /\ (Reads(b, at, vcode[5]) <=> at + 4 <= Len(b) /\ b[at + 1] = 1 /\ b[at + 2] = 0
                                            /\ b[at + 3] = 1 /\ b[at + 4] = 0)
           /\ (Reads(b, at, vcode[6]) <=> at + 4 <= Len(b) /\ b[at + 1] = 1 /\ b[at + 2] = 0
                                            /\ b[at + 3] = 1 /\ b[at + 4] = 1)
           /\ (Reads(b, at, vcode[7]) <=> at + 4 <= Len(b) /\ b[at + 1] = 1 /\ b[at + 2] = 1
                                            /\ b[at + 3] = 0 /\ b[at + 4] = 0)
           /\ (Reads(b, at, vcode[8]) <=> at + 4 <= Len(b) /\ b[at + 1] = 1 /\ b[at + 2] = 1
                                            /\ b[at + 3] = 0 /\ b[at + 4] = 1)
           /\ (Reads(b, at, vcode[9]) <=> at + 4 <= Len(b) /\ b[at + 1] = 1 /\ b[at + 2] = 1
                                            /\ b[at + 3] = 1 /\ b[at + 4] = 0)
           /\ (Reads(b, at, vcode[10]) <=> at + 5 <= Len(b) /\ b[at + 1] = 1
                                             /\ b[at + 2] = 1 /\ b[at + 3] = 1
                                             /\ b[at + 4] = 1 /\ b[at + 5] = 0)
           /\ (Reads(b, at, vcode[11]) <=> at + 5 <= Len(b) /\ b[at + 1] = 1
                                             /\ b[at + 2] = 1 /\ b[at + 3] = 1
                                             /\ b[at + 4] = 1 /\ b[at + 5] = 1)
<1>1. Reads(b, at, vcode[1]) <=> at + 2 <= Len(b) /\ b[at + 1] = 0 /\ b[at + 2] = 0
  BY VWords DEF Reads
<1>2. Reads(b, at, vcode[2]) <=> at + 3 <= Len(b) /\ b[at + 1] = 0 /\ b[at + 2] = 1
                                 /\ b[at + 3] = 0
  BY VWords DEF Reads
<1>3. Reads(b, at, vcode[3]) <=> at + 3 <= Len(b) /\ b[at + 1] = 0 /\ b[at + 2] = 1
                                 /\ b[at + 3] = 1
  BY VWords DEF Reads
<1>4. Reads(b, at, vcode[4]) <=> at + 3 <= Len(b) /\ b[at + 1] = 1 /\ b[at + 2] = 0
                                 /\ b[at + 3] = 0
  BY VWords DEF Reads
<1>5. Reads(b, at, vcode[5]) <=> at + 4 <= Len(b) /\ b[at + 1] = 1 /\ b[at + 2] = 0
                                 /\ b[at + 3] = 1 /\ b[at + 4] = 0
  BY VWords DEF Reads
<1>6. Reads(b, at, vcode[6]) <=> at + 4 <= Len(b) /\ b[at + 1] = 1 /\ b[at + 2] = 0
                                 /\ b[at + 3] = 1 /\ b[at + 4] = 1
  BY VWords DEF Reads
<1>7. Reads(b, at, vcode[7]) <=> at + 4 <= Len(b) /\ b[at + 1] = 1 /\ b[at + 2] = 1
                                 /\ b[at + 3] = 0 /\ b[at + 4] = 0
  BY VWords DEF Reads
<1>8. Reads(b, at, vcode[8]) <=> at + 4 <= Len(b) /\ b[at + 1] = 1 /\ b[at + 2] = 1
                                 /\ b[at + 3] = 0 /\ b[at + 4] = 1
  BY VWords DEF Reads
<1>9. Reads(b, at, vcode[9]) <=> at + 4 <= Len(b) /\ b[at + 1] = 1 /\ b[at + 2] = 1
                                 /\ b[at + 3] = 1 /\ b[at + 4] = 0
  BY VWords DEF Reads
<1>10. Reads(b, at, vcode[10]) <=> at + 5 <= Len(b) /\ b[at + 1] = 1 /\ b[at + 2] = 1
                                   /\ b[at + 3] = 1 /\ b[at + 4] = 1 /\ b[at + 5] = 0
  BY VWords DEF Reads
<1>11. Reads(b, at, vcode[11]) <=> at + 5 <= Len(b) /\ b[at + 1] = 1 /\ b[at + 2] = 1
                                   /\ b[at + 3] = 1 /\ b[at + 4] = 1 /\ b[at + 5] = 1
  BY VWords DEF Reads
<1> QED BY <1>1, <1>2, <1>3, <1>4, <1>5, <1>6, <1>7, <1>8, <1>9, <1>10, <1>11

\* The same for the codewords of the sets.
LEMMA HRead ==
    ASSUME NEW b \in Seq(Bit), NEW at \in Nat
    PROVE  /\ (Reads(b, at, hcode[1]) <=> at + 2 <= Len(b) /\ b[at + 1] = 1 /\ b[at + 2] = 0)
           /\ (Reads(b, at, hcode[2]) <=> at + 1 <= Len(b) /\ b[at + 1] = 0)
           /\ (Reads(b, at, hcode[3]) <=> at + 3 <= Len(b) /\ b[at + 1] = 1 /\ b[at + 2] = 1
                                            /\ b[at + 3] = 0)
           /\ (Reads(b, at, hcode[4]) <=> at + 5 <= Len(b) /\ b[at + 1] = 1 /\ b[at + 2] = 1
                                            /\ b[at + 3] = 1 /\ b[at + 4] = 0
                                            /\ b[at + 5] = 0)
           /\ (Reads(b, at, hcode[5]) <=> at + 5 <= Len(b) /\ b[at + 1] = 1 /\ b[at + 2] = 1
                                            /\ b[at + 3] = 1 /\ b[at + 4] = 0
                                            /\ b[at + 5] = 1)
           /\ (Reads(b, at, hcode[6]) <=> at + 5 <= Len(b) /\ b[at + 1] = 1 /\ b[at + 2] = 1
                                            /\ b[at + 3] = 1 /\ b[at + 4] = 1
                                            /\ b[at + 5] = 0)
           /\ (Reads(b, at, hcode[7]) <=> at + 5 <= Len(b) /\ b[at + 1] = 1 /\ b[at + 2] = 1
                                            /\ b[at + 3] = 1 /\ b[at + 4] = 1
                                            /\ b[at + 5] = 1)
<1>1. Reads(b, at, hcode[1]) <=> at + 2 <= Len(b) /\ b[at + 1] = 1 /\ b[at + 2] = 0
  <2>1. Len(hcode[1]) = 2 /\ hcode[1][1] = 1 /\ hcode[1][2] = 0
    BY HWords
  <2>2. \A k \in 1 .. 2 : k = 1 \/ k = 2
    OBVIOUS
  <2> QED BY <2>1, <2>2 DEF Reads
<1>2. Reads(b, at, hcode[2]) <=> at + 1 <= Len(b) /\ b[at + 1] = 0
  BY HWords DEF Reads
<1>3. Reads(b, at, hcode[3]) <=> at + 3 <= Len(b) /\ b[at + 1] = 1 /\ b[at + 2] = 1
                                 /\ b[at + 3] = 0
  BY HWords DEF Reads
<1>4. Reads(b, at, hcode[4]) <=> at + 5 <= Len(b) /\ b[at + 1] = 1 /\ b[at + 2] = 1
                                 /\ b[at + 3] = 1 /\ b[at + 4] = 0 /\ b[at + 5] = 0
  BY HWords DEF Reads
<1>5. Reads(b, at, hcode[5]) <=> at + 5 <= Len(b) /\ b[at + 1] = 1 /\ b[at + 2] = 1
                                 /\ b[at + 3] = 1 /\ b[at + 4] = 0 /\ b[at + 5] = 1
  BY HWords DEF Reads
<1>6. Reads(b, at, hcode[6]) <=> at + 5 <= Len(b) /\ b[at + 1] = 1 /\ b[at + 2] = 1
                                 /\ b[at + 3] = 1 /\ b[at + 4] = 1 /\ b[at + 5] = 0
  BY HWords DEF Reads
<1>7. Reads(b, at, hcode[7]) <=> at + 5 <= Len(b) /\ b[at + 1] = 1 /\ b[at + 2] = 1
                                 /\ b[at + 3] = 1 /\ b[at + 4] = 1 /\ b[at + 5] = 1
  BY HWords DEF Reads
<1> QED BY <1>1, <1>2, <1>3, <1>4, <1>5, <1>6, <1>7

\* getCodeIdx finds the codeword that is there: no codeword begins with another.
LEMMA VFound ==
    ASSUME bits \in Seq(Bit), NEW at \in Nat, NEW i \in 1 .. 11, Reads(bits, at, vcode[i])
    PROVE  getCodeIdx(vcode, at) = [idx |-> i - 1, next |-> at + Len(vcode[i])]
<1> DEFINE here == {j \in 1 .. Len(vcode) :
                     /\ at + Len(vcode[j]) <= Len(bits)
                     /\ \A k \in 1 .. Len(vcode[j]) : bits[at + k] = vcode[j][k]}
<1>1. here = {j \in 1 .. 11 : Reads(bits, at, vcode[j])}
  BY VWords DEF Reads
<1>2. ASSUME NEW j \in 1 .. 11, Reads(bits, at, vcode[j]) PROVE j = i
  <2> DEFINE Is(k) == Reads(bits, at, vcode[k])
             x(k) == bits[at + k]
  <2>1. /\ Is(1) => x(1) = 0 /\ x(2) = 0
        /\ Is(2) => x(1) = 0 /\ x(2) = 1 /\ x(3) = 0
        /\ Is(3) => x(1) = 0 /\ x(2) = 1 /\ x(3) = 1
        /\ Is(4) => x(1) = 1 /\ x(2) = 0 /\ x(3) = 0
        /\ Is(5) => x(1) = 1 /\ x(2) = 0 /\ x(3) = 1 /\ x(4) = 0
        /\ Is(6) => x(1) = 1 /\ x(2) = 0 /\ x(3) = 1 /\ x(4) = 1
        /\ Is(7) => x(1) = 1 /\ x(2) = 1 /\ x(3) = 0 /\ x(4) = 0
        /\ Is(8) => x(1) = 1 /\ x(2) = 1 /\ x(3) = 0 /\ x(4) = 1
        /\ Is(9) => x(1) = 1 /\ x(2) = 1 /\ x(3) = 1 /\ x(4) = 0
        /\ Is(10) => x(1) = 1 /\ x(2) = 1 /\ x(3) = 1 /\ x(4) = 1 /\ x(5) = 0
        /\ Is(11) => x(1) = 1 /\ x(2) = 1 /\ x(3) = 1 /\ x(4) = 1 /\ x(5) = 1
    BY VRead
  <2>2. Is(i) /\ Is(j)
    BY <1>2
  <2> HIDE DEF Is, x
  <2> QED BY <2>1, <2>2
<1>3. here = {i}
  BY <1>1, <1>2
<1>4. Min(here) = i /\ here # {}
  <2> HIDE DEF here
  <2> QED BY <1>3 DEF Min
<1> QED BY <1>4 DEF getCodeIdx

\* The same for the codewords of the sets.
LEMMA HFound ==
    ASSUME bits \in Seq(Bit), NEW at \in Nat, NEW i \in 1 .. 7, Reads(bits, at, hcode[i])
    PROVE  getCodeIdx(hcode, at) = [idx |-> i - 1, next |-> at + Len(hcode[i])]
<1> DEFINE here == {j \in 1 .. Len(hcode) :
                     /\ at + Len(hcode[j]) <= Len(bits)
                     /\ \A k \in 1 .. Len(hcode[j]) : bits[at + k] = hcode[j][k]}
<1>1. here = {j \in 1 .. 7 : Reads(bits, at, hcode[j])}
  BY HWords DEF Reads
<1>2. ASSUME NEW j \in 1 .. 7, Reads(bits, at, hcode[j]) PROVE j = i
  <2> DEFINE Is(k) == Reads(bits, at, hcode[k])
             x(k) == bits[at + k]
  <2>1. /\ Is(1) => x(1) = 1 /\ x(2) = 0
        /\ Is(2) => x(1) = 0
        /\ Is(3) => x(1) = 1 /\ x(2) = 1 /\ x(3) = 0
        /\ Is(4) => x(1) = 1 /\ x(2) = 1 /\ x(3) = 1 /\ x(4) = 0 /\ x(5) = 0
        /\ Is(5) => x(1) = 1 /\ x(2) = 1 /\ x(3) = 1 /\ x(4) = 0 /\ x(5) = 1
        /\ Is(6) => x(1) = 1 /\ x(2) = 1 /\ x(3) = 1 /\ x(4) = 1 /\ x(5) = 0
        /\ Is(7) => x(1) = 1 /\ x(2) = 1 /\ x(3) = 1 /\ x(4) = 1 /\ x(5) = 1
    BY HRead
  <2>2. Is(i) /\ Is(j)
    BY <1>2
  <2> HIDE DEF Is, x
  <2> QED BY <2>1, <2>2
<1>3. here = {i}
  BY <1>1, <1>2
<1>4. Min(here) = i /\ here # {}
  <2> HIDE DEF here
  <2> QED BY <1>3 DEF Min
<1> QED BY <1>4 DEF getCodeIdx

\* The word of element v of set h with the switch to it, the switch to set 1,
\* and the words of the functions that have counts behind them.
Word(h, v) == Two(vcode[1], Two(hcode[h + 1], vcode[v + 1]))
ToSet1 == Two(vcode[1], hcode[SET1 + 1])
ToSet2 == Two(vcode[1], hcode[SET2 + 1])
ToUpper == Two(ToSet1, ToSet1)

\* The codes that do not depend on a character.
LEMMA FixedCodes ==
    /\ Bits(8192, 4) = ToSet1 /\ Bits(8704, 8) = ToUpper /\ Bits(14336, 7) = ToSet2
    /\ Bits(14208, 10) = Word(2, 9) /\ Bits(14144, 10) = Two(Word(2, 8), <<1>>)
    /\ Bits(14080, 10) = Two(Word(2, 8), <<0>>) /\ Bits(15232, 11) = Word(4, 6)
    /\ Bits(13824, 9) = Word(2, 6) /\ Bits(13952, 9) = Word(2, 7)
    /\ Bits(9064, 13) = Two(ToSet1, Word(2, 7)) /\ Bits(9216, 7) = Two(ToSet1, vcode[2])
<1>1. Bits(8192, 4) = ToSet1
  BY DEF Bits, Two, ToSet1, vcode, hcode, SET1
<1>2. Bits(8704, 8) = ToUpper
  BY DEF Bits, Two, ToSet1, ToUpper, vcode, hcode, SET1
<1>3. Bits(14336, 7) = ToSet2
  BY DEF Bits, Two, ToSet2, vcode, hcode, SET2
<1>4. Bits(14208, 10) = Word(2, 9)
  BY DEF Bits, Two, Word, vcode, hcode
<1>5. Bits(14144, 10) = Two(Word(2, 8), <<1>>)
  BY DEF Bits, Two, Word, vcode, hcode
<1>6. Bits(14080, 10) = Two(Word(2, 8), <<0>>)
  BY DEF Bits, Two, Word, vcode, hcode
<1>7. Bits(15232, 11) = Word(4, 6)
  BY DEF Bits, Two, Word, vcode, hcode
<1>8. Bits(13824, 9) = Word(2, 6)
  BY DEF Bits, Two, Word, vcode, hcode
<1>9. Bits(13952, 9) = Word(2, 7)
  BY DEF Bits, Two, Word, vcode, hcode
<1>10. Bits(9064, 13) = Two(ToSet1, Word(2, 7))
  BY DEF Bits, Two, Word, ToSet1, vcode, hcode, SET1
<1>11. Bits(9216, 7) = Two(ToSet1, vcode[2])
  BY DEF Bits, Two, ToSet1, vcode, hcode, SET1
<1> QED BY <1>1, <1>2, <1>3, <1>4, <1>5, <1>6, <1>7, <1>8, <1>9, <1>10, <1>11

\* The word of element v of set h where set 1 is the one taken without a switch.
Code(h, v) == IF h = SET1 THEN vcode[v + 1] ELSE Word(h, v)
\* A small letter c, and the capital of it outside a run.
Letter(c, h, v) ==
    /\ sets[h + 1][v + 1] = c /\ (h = SET1 => v # 0) /\ (h = SET1B => v \in 0 .. 5)
    /\ Bits(c_95[c - 31], l_95[c - 31]) = Code(h, v)
    /\ Bits(c_95[c - 63], l_95[c - 63]) = Two(ToSet1, Code(h, v))
\* A digit c, coded in state 2.
Digit(c, v) ==
    /\ sets[SET2 + 1][v + 1] = c
    /\ c_95[c - 31] \div 512 = 28 /\ Bits(c_95[c - 31] * 128, l_95[c - 31] - 7) = vcode[v + 1]
\* Any other visible character, coded with its set in both states.
Mark(c, h, v) ==
    /\ sets[h + 1][v + 1] = c
    /\ c_95[c - 31] \div 512 # 28 /\ Bits(c_95[c - 31], l_95[c - 31]) = Word(h, v)

\* The letters: both tables agree on them.
LEMMA LetterCodes ==
    \A c \in 97 .. 122 : \E h \in 0 .. 2, v \in 0 .. 10 : Letter(c, h, v)
<1>1. Letter(97, 0, 4)
  BY DEF Letter, Bits, Two, Code, Word, ToSet1, sets, c_95, l_95, vcode, hcode, SET1, SET1B
<1>2. Letter(98, 1, 6)
  BY DEF Letter, Bits, Two, Code, Word, ToSet1, sets, c_95, l_95, vcode, hcode, SET1, SET1B
<1>3. Letter(99, 1, 0)
  BY DEF Letter, Bits, Two, Code, Word, ToSet1, sets, c_95, l_95, vcode, hcode, SET1, SET1B
<1>4. Letter(100, 1, 1)
  BY DEF Letter, Bits, Two, Code, Word, ToSet1, sets, c_95, l_95, vcode, hcode, SET1, SET1B
<1>5. Letter(101, 0, 2)
  BY DEF Letter, Bits, Two, Code, Word, ToSet1, sets, c_95, l_95, vcode, hcode, SET1, SET1B
<1>6. Letter(102, 1, 9)
  BY DEF Letter, Bits, Two, Code, Word, ToSet1, sets, c_95, l_95, vcode, hcode, SET1, SET1B
<1>7. Letter(103, 1, 7)
  BY DEF Letter, Bits, Two, Code, Word, ToSet1, sets, c_95, l_95, vcode, hcode, SET1, SET1B
<1>8. Letter(104, 1, 2)
  BY DEF Letter, Bits, Two, Code, Word, ToSet1, sets, c_95, l_95, vcode, hcode, SET1, SET1B
<1>9. Letter(105, 0, 6)
  BY DEF Letter, Bits, Two, Code, Word, ToSet1, sets, c_95, l_95, vcode, hcode, SET1, SET1B
<1>10. Letter(106, 2, 3)
  BY DEF Letter, Bits, Two, Code, Word, ToSet1, sets, c_95, l_95, vcode, hcode, SET1, SET1B
<1>11. Letter(107, 2, 1)
  BY DEF Letter, Bits, Two, Code, Word, ToSet1, sets, c_95, l_95, vcode, hcode, SET1, SET1B
<1>12. Letter(108, 0, 10)
  BY DEF Letter, Bits, Two, Code, Word, ToSet1, sets, c_95, l_95, vcode, hcode, SET1, SET1B
<1>13. Letter(109, 1, 5)
  BY DEF Letter, Bits, Two, Code, Word, ToSet1, sets, c_95, l_95, vcode, hcode, SET1, SET1B
<1>14. Letter(110, 0, 7)
  BY DEF Letter, Bits, Two, Code, Word, ToSet1, sets, c_95, l_95, vcode, hcode, SET1, SET1B
<1>15. Letter(111, 0, 5)
  BY DEF Letter, Bits, Two, Code, Word, ToSet1, sets, c_95, l_95, vcode, hcode, SET1, SET1B
<1>16. Letter(112, 1, 4)
  BY DEF Letter, Bits, Two, Code, Word, ToSet1, sets, c_95, l_95, vcode, hcode, SET1, SET1B
<1>17. Letter(113, 2, 2)
  BY DEF Letter, Bits, Two, Code, Word, ToSet1, sets, c_95, l_95, vcode, hcode, SET1, SET1B
<1>18. Letter(114, 0, 9)
  BY DEF Letter, Bits, Two, Code, Word, ToSet1, sets, c_95, l_95, vcode, hcode, SET1, SET1B
<1>19. Letter(115, 0, 8)
  BY DEF Letter, Bits, Two, Code, Word, ToSet1, sets, c_95, l_95, vcode, hcode, SET1, SET1B
<1>20. Letter(116, 0, 3)
  BY DEF Letter, Bits, Two, Code, Word, ToSet1, sets, c_95, l_95, vcode, hcode, SET1, SET1B
<1>21. Letter(117, 1, 3)
  BY DEF Letter, Bits, Two, Code, Word, ToSet1, sets, c_95, l_95, vcode, hcode, SET1, SET1B
<1>22. Letter(118, 2, 0)
  BY DEF Letter, Bits, Two, Code, Word, ToSet1, sets, c_95, l_95, vcode, hcode, SET1, SET1B
<1>23. Letter(119, 1, 8)
  BY DEF Letter, Bits, Two, Code, Word, ToSet1, sets, c_95, l_95, vcode, hcode, SET1, SET1B
<1>24. Letter(120, 2, 4)
  BY DEF Letter, Bits, Two, Code, Word, ToSet1, sets, c_95, l_95, vcode, hcode, SET1, SET1B
<1>25. Letter(121, 1, 10)
  BY DEF Letter, Bits, Two, Code, Word, ToSet1, sets, c_95, l_95, vcode, hcode, SET1, SET1B
<1>26. Letter(122, 2, 5)
  BY DEF Letter, Bits, Two, Code, Word, ToSet1, sets, c_95, l_95, vcode, hcode, SET1, SET1B
<1>27. \A c \in 97 .. 122 : c \in {97, 98, 99, 100, 101, 102, 103, 104, 105, 106, 107,
                                   108, 109, 110, 111, 112, 113, 114, 115, 116, 117,
                                   118, 119, 120, 121, 122}
  OBVIOUS
<1> QED BY <1>1, <1>2, <1>3, <1>4, <1>5, <1>6, <1>7, <1>8, <1>9, <1>10, <1>11, <1>12,
     <1>13, <1>14, <1>15, <1>16, <1>17, <1>18, <1>19, <1>20, <1>21, <1>22, <1>23, <1>24,
     <1>25, <1>26, <1>27

\* The digits.
LEMMA DigitCodes ==
    \A c \in 48 .. 57 : \E v \in 1 .. 10 : Digit(c, v)
<1>1. Digit(48, 2)
  BY DEF Digit, Bits, sets, c_95, l_95, vcode, SET2
<1>2. Digit(49, 3)
  BY DEF Digit, Bits, sets, c_95, l_95, vcode, SET2
<1>3. Digit(50, 4)
  BY DEF Digit, Bits, sets, c_95, l_95, vcode, SET2
<1>4. Digit(51, 5)
  BY DEF Digit, Bits, sets, c_95, l_95, vcode, SET2
<1>5. Digit(52, 6)
  BY DEF Digit, Bits, sets, c_95, l_95, vcode, SET2
<1>6. Digit(53, 7)
  BY DEF Digit, Bits, sets, c_95, l_95, vcode, SET2
<1>7. Digit(54, 8)
  BY DEF Digit, Bits, sets, c_95, l_95, vcode, SET2
<1>8. Digit(55, 9)
  BY DEF Digit, Bits, sets, c_95, l_95, vcode, SET2
<1>9. Digit(56, 10)
  BY DEF Digit, Bits, sets, c_95, l_95, vcode, SET2
<1>10. Digit(57, 1)
  BY DEF Digit, Bits, sets, c_95, l_95, vcode, SET2
<1>11. \A c \in 48 .. 57 : c \in {48, 49, 50, 51, 52, 53, 54, 55, 56, 57}
  OBVIOUS
<1> QED BY <1>1, <1>2, <1>3, <1>4, <1>5, <1>6, <1>7, <1>8, <1>9, <1>10, <1>11

\* The other visible characters.
LEMMA MarkCodes ==
    \A c \in (33 .. 47) \cup (58 .. 64) \cup (91 .. 96) \cup (123 .. 126) :
        \E h \in 4 .. 6, v \in 0 .. 10 : Mark(c, h, v)
<1>1. Mark(33, 6, 6)
  BY DEF Mark, Bits, Two, Word, sets, c_95, l_95, vcode, hcode
<1>2. Mark(34, 5, 6)
  BY DEF Mark, Bits, Two, Word, sets, c_95, l_95, vcode, hcode
<1>3. Mark(35, 6, 4)
  BY DEF Mark, Bits, Two, Word, sets, c_95, l_95, vcode, hcode
<1>4. Mark(36, 4, 9)
  BY DEF Mark, Bits, Two, Word, sets, c_95, l_95, vcode, hcode
<1>5. Mark(37, 4, 10)
  BY DEF Mark, Bits, Two, Word, sets, c_95, l_95, vcode, hcode
<1>6. Mark(38, 5, 0)
  BY DEF Mark, Bits, Two, Word, sets, c_95, l_95, vcode, hcode
<1>7. Mark(39, 6, 2)
  BY DEF Mark, Bits, Two, Word, sets, c_95, l_95, vcode, hcode
<1>8. Mark(40, 4, 7)
  BY DEF Mark, Bits, Two, Word, sets, c_95, l_95, vcode, hcode
<1>9. Mark(41, 4, 8)
  BY DEF Mark, Bits, Two, Word, sets, c_95, l_95, vcode, hcode
<1>10. Mark(42, 5, 5)
  BY DEF Mark, Bits, Two, Word, sets, c_95, l_95, vcode, hcode
<1>11. Mark(43, 4, 5)
  BY DEF Mark, Bits, Two, Word, sets, c_95, l_95, vcode, hcode
<1>12. Mark(44, 4, 1)
  BY DEF Mark, Bits, Two, Word, sets, c_95, l_95, vcode, hcode
<1>13. Mark(45, 4, 2)
  BY DEF Mark, Bits, Two, Word, sets, c_95, l_95, vcode, hcode
<1>14. Mark(46, 4, 0)
  BY DEF Mark, Bits, Two, Word, sets, c_95, l_95, vcode, hcode
<1>15. Mark(47, 4, 3)
  BY DEF Mark, Bits, Two, Word, sets, c_95, l_95, vcode, hcode
<1>16. Mark(58, 5, 2)
  BY DEF Mark, Bits, Two, Word, sets, c_95, l_95, vcode, hcode
<1>17. Mark(59, 5, 1)
  BY DEF Mark, Bits, Two, Word, sets, c_95, l_95, vcode, hcode
<1>18. Mark(60, 5, 3)
  BY DEF Mark, Bits, Two, Word, sets, c_95, l_95, vcode, hcode
<1>19. Mark(61, 4, 4)
  BY DEF Mark, Bits, Two, Word, sets, c_95, l_95, vcode, hcode
<1>20. Mark(62, 5, 4)
  BY DEF Mark, Bits, Two, Word, sets, c_95, l_95, vcode, hcode
<1>21. Mark(63, 6, 1)
  BY DEF Mark, Bits, Two, Word, sets, c_95, l_95, vcode, hcode
<1>22. Mark(64, 6, 0)
  BY DEF Mark, Bits, Two, Word, sets, c_95, l_95, vcode, hcode
<1>23. Mark(91, 5, 9)
  BY DEF Mark, Bits, Two, Word, sets, c_95, l_95, vcode, hcode
<1>24. Mark(92, 6, 7)
  BY DEF Mark, Bits, Two, Word, sets, c_95, l_95, vcode, hcode
<1>25. Mark(93, 5, 10)
  BY DEF Mark, Bits, Two, Word, sets, c_95, l_95, vcode, hcode
<1>26. Mark(94, 6, 3)
  BY DEF Mark, Bits, Two, Word, sets, c_95, l_95, vcode, hcode
<1>27. Mark(95, 6, 5)
  BY DEF Mark, Bits, Two, Word, sets, c_95, l_95, vcode, hcode
<1>28. Mark(96, 6, 10)
  BY DEF Mark, Bits, Two, Word, sets, c_95, l_95, vcode, hcode
<1>29. Mark(123, 5, 7)
  BY DEF Mark, Bits, Two, Word, sets, c_95, l_95, vcode, hcode
<1>30. Mark(124, 6, 8)
  BY DEF Mark, Bits, Two, Word, sets, c_95, l_95, vcode, hcode
<1>31. Mark(125, 5, 8)
  BY DEF Mark, Bits, Two, Word, sets, c_95, l_95, vcode, hcode
<1>32. Mark(126, 6, 9)
  BY DEF Mark, Bits, Two, Word, sets, c_95, l_95, vcode, hcode
<1>33. \A c \in (33 .. 47) \cup (58 .. 64) \cup (91 .. 96) \cup (123 .. 126) :
            c \in {33, 34, 35, 36, 37, 38, 39, 40, 41, 42, 43, 44, 45, 46, 47, 58, 59,
                  60, 61, 62, 63, 64, 91, 92, 93, 94, 95, 96, 123, 124, 125, 126}
  OBVIOUS
<1> QED BY <1>1, <1>2, <1>3, <1>4, <1>5, <1>6, <1>7, <1>8, <1>9, <1>10, <1>11, <1>12,
     <1>13, <1>14, <1>15, <1>16, <1>17, <1>18, <1>19, <1>20, <1>21, <1>22, <1>23, <1>24,
     <1>25, <1>26, <1>27, <1>28, <1>29, <1>30, <1>31, <1>32, <1>33

------------------------------------------------------------------------------
(* What the decompressor takes a word for.                                  *)

\* The set of unprefixed codes in either state of the compressor.
SetOf(st) == IF st = 2 THEN SET2 ELSE SET1

\* In state st, `up` in a run of capitals, w is element v of set h; upper if with
\* a shift to capitals.
Coded(st, up, h, v, upper, w) ==
    \/ h = SetOf(st) /\ v # 0 /\ upper = up /\ w = vcode[v + 1]
    \/ h \notin {SET1, SET2} /\ upper = up /\ w = Word(h, v)
    \/ st = 1 /\ ~up /\ upper /\ h = SET1 /\ v # 0 /\ w = Two(ToSet1, vcode[v + 1])
    \/ st = 1 /\ ~up /\ upper /\ h \notin {SET1, SET2} /\ w = Two(ToSet1, Word(h, v))

\* The codewords of an element and of its set are sequences of two to five bits
\* and of one to five.
LEMMA Codewords ==
    ASSUME NEW h \in 0 .. 6, NEW v \in 0 .. 10
    PROVE  /\ vcode[v + 1] \in Seq(Bit) /\ Len(vcode[v + 1]) \in 2 .. 5
           /\ hcode[h + 1] \in Seq(Bit) /\ Len(hcode[h + 1]) \in 1 .. 5
<1>1. h + 1 \in 1 .. 7 /\ v + 1 \in 1 .. 11
  OBVIOUS
<1> QED BY <1>1, WordBits

\* Those of a switch to set 1.
LEMMA SwitchWords ==
    /\ vcode[1] \in Seq(Bit) /\ Len(vcode[1]) = 2
    /\ hcode[1] \in Seq(Bit) /\ Len(hcode[1]) = 2
    /\ ToSet1 \in Seq(Bit) /\ Len(ToSet1) = 4
<1>1. vcode[1] \in Seq(Bit) /\ hcode[1] \in Seq(Bit)
  BY WordBits
<1>2. Len(vcode[1]) = 2 /\ Len(hcode[1]) = 2
  BY VWords, HWords
<1>3. ToSet1 = Two(vcode[1], hcode[1])
  BY DEF ToSet1, SET1
<1>4. /\ Two(vcode[1], hcode[1]) \in Seq(Bit)
      /\ Len(Two(vcode[1], hcode[1])) = Len(vcode[1]) + Len(hcode[1])
  BY <1>1, TwoWords
<1>5. ToSet1 \in Seq(Bit)
  BY <1>3, <1>4
<1>6. Len(ToSet1) = 4
  BY <1>2, <1>3, <1>4
<1> QED BY <1>1, <1>2, <1>5, <1>6

\* The parts of a word of a set are read as such.
LEMMA WordRead ==
    ASSUME NEW b \in Seq(Bit), NEW at \in Nat, NEW h \in 0 .. 6, NEW v \in 0 .. 10,
           Reads(b, at, Word(h, v))
    PROVE  /\ Reads(b, at, vcode[1]) /\ Reads(b, at + 2, hcode[h + 1])
           /\ Reads(b, at + 2 + Len(hcode[h + 1]), vcode[v + 1])
           /\ Len(Word(h, v)) = 2 + Len(hcode[h + 1]) + Len(vcode[v + 1])
<1> DEFINE s == vcode[1]  x == hcode[h + 1]  y == vcode[v + 1]
<1>1. s \in Seq(Bit) /\ x \in Seq(Bit) /\ y \in Seq(Bit) /\ Len(s) = 2
  BY Codewords, SwitchWords
<1>2. Reads(b, at, Two(s, Two(x, y)))
  BY DEF Word
<1> HIDE DEF s, x, y
<1>3. Two(x, y) \in Seq(Bit) /\ Len(Two(x, y)) = Len(x) + Len(y)
  BY <1>1, TwoWords
<1>4. /\ Reads(b, at, s) /\ Reads(b, at + 2, Two(x, y))
      /\ Len(Two(s, Two(x, y))) = 2 + Len(Two(x, y))
  <2>1. Reads(b, at, s) /\ Reads(b, at + Len(s), Two(x, y))
    BY <1>1, <1>2, <1>3, ReadsTwo
  <2>2. Len(Two(s, Two(x, y))) = Len(s) + Len(Two(x, y))
    BY <1>1, <1>3, TwoWords
  <2> QED BY <1>1, <2>1, <2>2
<1>5. Reads(b, at + 2, x) /\ Reads(b, (at + 2) + Len(x), y)
  <2>1. at + 2 \in Nat
    OBVIOUS
  <2> QED BY <1>1, <1>4, <2>1, ReadsTwo
<1>6. Len(Two(s, Two(x, y))) = 2 + Len(x) + Len(y)
  <2>1. Len(x) \in Nat /\ Len(y) \in Nat
    BY <1>1
  <2> QED BY <1>3, <1>4, <2>1
<1> QED BY <1>4, <1>5, <1>6 DEF Word, s, x, y

\* So are those of a switch to set 1.
LEMMA ToSet1Read ==
    ASSUME NEW b \in Seq(Bit), NEW at \in Nat, Reads(b, at, ToSet1)
    PROVE  Reads(b, at, vcode[1]) /\ Reads(b, at + 2, hcode[1])
<1>1. Reads(b, at, Two(vcode[1], hcode[1]))
  BY DEF ToSet1, SET1
<1> QED BY <1>1, SwitchWords, ReadsTwo

\* Words of codes are sequences of bits.
LEMMA CodedWord ==
    ASSUME NEW st, NEW up, NEW upper, NEW h \in 0 .. 6, NEW v \in 0 .. 10, NEW w,
           Coded(st, up, h, v, upper, w)
    PROVE  w \in Seq(Bit) /\ Len(w) \in Nat \ {0}
<1> DEFINE s == vcode[1]  x == hcode[h + 1]  y == vcode[v + 1]
<1>1. /\ s \in Seq(Bit) /\ x \in Seq(Bit) /\ y \in Seq(Bit) /\ ToSet1 \in Seq(Bit)
      /\ Len(s) = 2 /\ Len(x) \in Nat /\ Len(y) \in Nat \ {0} /\ Len(ToSet1) = 4
  <2>1. s \in Seq(Bit) /\ ToSet1 \in Seq(Bit) /\ Len(s) = 2 /\ Len(ToSet1) = 4
    BY SwitchWords
  <2>2. x \in Seq(Bit) /\ y \in Seq(Bit) /\ Len(x) \in 1 .. 5 /\ Len(y) \in 2 .. 5
    BY Codewords
  <2>3. \A k \in 1 .. 5 : k \in Nat
    OBVIOUS
  <2>4. \A k \in 2 .. 5 : k \in Nat \ {0}
    OBVIOUS
  <2> HIDE DEF s, x, y
  <2> QED BY <2>1, <2>2, <2>3, <2>4
<1>2. w \in {y, Two(s, Two(x, y)), Two(ToSet1, y), Two(ToSet1, Two(s, Two(x, y)))}
  BY DEF Coded, Word
<1> HIDE DEF s, x, y
<1>3. \A a, b \in Seq(Bit) : Two(a, b) \in Seq(Bit) /\ Len(Two(a, b)) = Len(a) + Len(b)
  BY TwoWords
<1>4. /\ Two(x, y) \in Seq(Bit) /\ Two(s, Two(x, y)) \in Seq(Bit) /\ Two(ToSet1, y) \in Seq(Bit)
      /\ Two(ToSet1, Two(s, Two(x, y))) \in Seq(Bit)
  BY <1>1, <1>3
<1>5. /\ Len(Two(x, y)) = Len(x) + Len(y) /\ Len(Two(s, Two(x, y))) = Len(s) + Len(Two(x, y))
      /\ Len(Two(ToSet1, y)) = 4 + Len(y)
      /\ Len(Two(ToSet1, Two(s, Two(x, y)))) = 4 + Len(Two(s, Two(x, y)))
  BY <1>1, <1>3, <1>4
<1> QED BY <1>1, <1>2, <1>4, <1>5

\* At position `at` stands the codeword of index i, n is the position behind it.
Finds(table, at, i, n) == getCodeIdx(table, at).idx = i /\ getCodeIdx(table, at).next = n

\* The token of element v of set h, n the position behind it.
SymbolToken(h, v, upper, n) ==
    [kind |-> "symbol", h |-> h, v |-> v, upper |-> upper, next |-> n]

\* Read without a switch, and with the one to its set.
LEMMA TokenUnprefixed ==
    ASSUME NEW v, NEW n, v # 0, v # End, Finds(vcode, bit_no, v, n)
    PROVE  Token = SymbolToken(dstate, v, is_all_upper, n)
BY DEF Token, Symbol, SymbolToken, Finds

\* Read behind the switch to its set.
LEMMA TokenPrefixed ==
    ASSUME NEW h, NEW v, NEW n, NEW a, NEW b, v # End, h # SET1, h # SET2, h # End,
           Finds(vcode, bit_no, 0, a), Finds(hcode, a, h, b), Finds(vcode, b, v, n)
    PROVE  Token = SymbolToken(h, v, is_all_upper, n)
BY DEF Token, Symbol, SymbolToken, Finds

\* Read behind a switch to set 1, which shifts a single element to capitals.
LEMMA TokenSwitched ==
    ASSUME NEW a, NEW b, dstate = SET1, ~is_all_upper,
           Finds(vcode, bit_no, 0, a), Finds(hcode, a, SET1, b)
    PROVE  Token = Shifted(getCodeIdx(vcode, b))
<1>1. SET1 # End /\ SET1 # SET2
  BY DEF SET1, SET2, End
<1> QED BY <1>1 DEF Token, Finds

\* An unprefixed element there.
LEMMA TokenShifted ==
    ASSUME NEW v, NEW n, NEW a, NEW b, dstate = SET1, ~is_all_upper, v # 0, v # End,
           Finds(vcode, bit_no, 0, a), Finds(hcode, a, SET1, b), Finds(vcode, b, v, n)
    PROVE  Token = SymbolToken(SET1, v, TRUE, n)
<1>1. Token = Shifted(getCodeIdx(vcode, b))
  BY TokenSwitched
<1> QED BY <1>1 DEF Shifted, Symbol, SymbolToken, Finds

\* An element of another set there.
LEMMA TokenShiftedPrefixed ==
    ASSUME NEW h, NEW v, NEW n, NEW a, NEW b, NEW c, NEW d, dstate = SET1, ~is_all_upper,
           v # End, h # SET1, h # End,
           Finds(vcode, bit_no, 0, a), Finds(hcode, a, SET1, b), Finds(vcode, b, 0, c),
           Finds(hcode, c, h, d), Finds(vcode, d, v, n)
    PROVE  Token = SymbolToken(h, v, TRUE, n)
<1>1. Token = Shifted(getCodeIdx(vcode, b))
  BY TokenSwitched
<1>2. Shifted(getCodeIdx(vcode, b)) = Symbol(h, getCodeIdx(vcode, d), TRUE)
  BY DEF Shifted, Finds
<1> QED BY <1>1, <1>2 DEF Symbol, SymbolToken, Finds

\* The switches change the state of the decompressor.
LEMMA TokenToSet1 ==
    ASSUME NEW a, NEW b, dstate # SET1, Finds(vcode, bit_no, 0, a), Finds(hcode, a, SET1, b)
    PROVE  Token = Change("set1", b)
<1>1. SET1 # End /\ SET1 # SET2
  BY DEF SET1, SET2, End
<1> QED BY <1>1 DEF Token, Finds

\* The switch to set 1 in a run of capitals ends the run.
LEMMA TokenUpperOff ==
    ASSUME NEW a, NEW b, dstate = SET1, is_all_upper = TRUE,
           Finds(vcode, bit_no, 0, a), Finds(hcode, a, SET1, b)
    PROVE  Token = Change("upper_off", b)
<1>1. SET1 # End /\ SET1 # SET2
  BY DEF SET1, SET2, End
<1> QED BY <1>1 DEF Token, Finds

\* The switch to set 2.
LEMMA TokenToSet2 ==
    ASSUME NEW a, NEW b, Finds(vcode, bit_no, 0, a), Finds(hcode, a, SET2, b)
    PROVE  Token = Change("set2", b)
<1>1. SET2 # End /\ SET2 # SET1
  BY DEF SET1, SET2, End
<1> QED BY <1>1 DEF Token, Finds

\* Two switches to set 1 start a run of capitals.
LEMMA TokenUpperOn ==
    ASSUME NEW a, NEW b, NEW c, NEW d, dstate = SET1, ~is_all_upper,
           Finds(vcode, bit_no, 0, a), Finds(hcode, a, SET1, b),
           Finds(vcode, b, 0, c), Finds(hcode, c, SET1, d)
    PROVE  Token = Change("upper_on", d)
<1>1. Token = Shifted(getCodeIdx(vcode, b))
  BY TokenSwitched
<1>2. SET1 # End
  BY DEF SET1, End
<1> QED BY <1>1, <1>2 DEF Shifted, Finds

\* A codeword that is read is found.
LEMMA FoundV ==
    ASSUME bits \in Seq(Bit), NEW at \in Nat, NEW v \in 0 .. 10, Reads(bits, at, vcode[v + 1])
    PROVE  Finds(vcode, at, v, at + Len(vcode[v + 1]))
<1>1. v + 1 \in 1 .. 11 /\ (v + 1) - 1 = v
  OBVIOUS
<1>2. getCodeIdx(vcode, at) = [idx |-> (v + 1) - 1, next |-> at + Len(vcode[v + 1])]
  BY <1>1, VFound
<1> QED BY <1>1, <1>2 DEF Finds

\* The same for a codeword of a set.
LEMMA FoundH ==
    ASSUME bits \in Seq(Bit), NEW at \in Nat, NEW h \in 0 .. 6, Reads(bits, at, hcode[h + 1])
    PROVE  Finds(hcode, at, h, at + Len(hcode[h + 1]))
<1>1. h + 1 \in 1 .. 7 /\ (h + 1) - 1 = h
  OBVIOUS
<1>2. getCodeIdx(hcode, at) = [idx |-> (h + 1) - 1, next |-> at + Len(hcode[h + 1])]
  BY <1>1, HFound
<1> QED BY <1>1, <1>2 DEF Finds

\* So are the two of a switch to set 1.
LEMMA FoundToSet1 ==
    ASSUME bits \in Seq(Bit), NEW at \in Nat, Reads(bits, at, ToSet1)
    PROVE  Finds(vcode, at, 0, at + 2) /\ Finds(hcode, at + 2, SET1, at + 4)
<1>1. Reads(bits, at, vcode[1]) /\ Reads(bits, at + 2, hcode[1])
  BY ToSet1Read
<1>2. Finds(vcode, at, 0, at + 2)
  <2>1. 0 \in 0 .. 10 /\ 0 + 1 = 1
    OBVIOUS
  <2> QED BY <1>1, <2>1, FoundV, SwitchWords
<1>3. Finds(hcode, at + 2, SET1, at + 4)
  <2>1. SET1 \in 0 .. 6 /\ SET1 + 1 = 1
    BY DEF SET1
  <2>2. at + 2 \in Nat /\ (at + 2) + 2 = at + 4
    OBVIOUS
  <2> QED BY <1>1, <2>1, <2>2, FoundH, SwitchWords
<1> QED BY <1>2, <1>3

\* And the three of an element with its set.
LEMMA FoundWord ==
    ASSUME bits \in Seq(Bit), NEW at \in Nat, NEW h \in 0 .. 6, NEW v \in 0 .. 10,
           Reads(bits, at, Word(h, v))
    PROVE  /\ Finds(vcode, at, 0, at + 2)
           /\ \E b : Finds(hcode, at + 2, h, b) /\ Finds(vcode, b, v, at + Len(Word(h, v)))
<1> DEFINE m == Len(hcode[h + 1])  n == Len(vcode[v + 1])
<1>1. /\ Reads(bits, at, vcode[1]) /\ Reads(bits, at + 2, hcode[h + 1])
      /\ Reads(bits, at + 2 + m, vcode[v + 1])
      /\ Len(Word(h, v)) = 2 + m + n
  BY WordRead
<1>2. m \in Nat /\ n \in Nat
  <2>1. m \in 1 .. 5 /\ n \in 2 .. 5
    BY Codewords
  <2> HIDE DEF m, n
  <2> QED BY <2>1
<1>3. Finds(vcode, at, 0, at + 2)
  <2>1. 0 \in 0 .. 10 /\ 0 + 1 = 1
    OBVIOUS
  <2> QED BY <1>1, <2>1, FoundV, SwitchWords
<1>4. Finds(hcode, at + 2, h, at + 2 + m)
  <2>1. at + 2 \in Nat
    OBVIOUS
  <2> QED BY <1>1, <2>1, FoundH
<1>5. Finds(vcode, at + 2 + m, v, (at + 2 + m) + n)
  <2>1. at + 2 + m \in Nat
    <3> HIDE DEF m
    <3> QED BY <1>2
  <2> QED BY <1>1, <2>1, FoundV
<1>6. (at + 2 + m) + n = at + Len(Word(h, v))
  <2> HIDE DEF m, n
  <2> QED BY <1>1, <1>2
<1> HIDE DEF m, n
<1> QED BY <1>3, <1>4, <1>5, <1>6

\* A word that stands for an element is taken for it.
LEMMA SymbolTaken ==
    ASSUME bits \in Seq(Bit), bit_no \in Nat, NEW st \in {1, 2}, NEW up \in BOOLEAN,
           NEW upper \in BOOLEAN, NEW h \in 0 .. 6, NEW v \in 0 .. 10, NEW w,
           dstate = SetOf(st), is_all_upper = up, Coded(st, up, h, v, upper, w),
           Reads(bits, bit_no, w)
    PROVE  Token = SymbolToken(h, v, upper, bit_no + Len(w))
<1>1. v # End /\ h # End
  BY DEF End
<1>2. CASE h = SetOf(st) /\ v # 0 /\ upper = up /\ w = vcode[v + 1]
  <2>1. Finds(vcode, bit_no, v, bit_no + Len(w))
    BY <1>2, FoundV
  <2>2. Token = SymbolToken(dstate, v, is_all_upper, bit_no + Len(w))
    BY <1>1, <1>2, <2>1, TokenUnprefixed
  <2> QED BY <1>2, <2>2
<1>3. CASE h \notin {SET1, SET2} /\ upper = up /\ w = Word(h, v)
  <2>1. PICK b : /\ Finds(vcode, bit_no, 0, bit_no + 2)
                 /\ Finds(hcode, bit_no + 2, h, b) /\ Finds(vcode, b, v, bit_no + Len(w))
    BY <1>3, FoundWord
  <2>2. Token = SymbolToken(h, v, is_all_upper, bit_no + Len(w))
    BY <1>1, <1>3, <2>1, TokenPrefixed
  <2> QED BY <1>3, <2>2
<1>4. ASSUME st = 1, ~up, NEW u \in Seq(Bit), w = Two(ToSet1, u)
      PROVE  /\ Finds(vcode, bit_no, 0, bit_no + 2) /\ Finds(hcode, bit_no + 2, SET1, bit_no + 4)
             /\ Reads(bits, bit_no + 4, u) /\ (bit_no + 4) + Len(u) = bit_no + Len(w)
             /\ dstate = SET1 /\ ~is_all_upper /\ bit_no + 4 \in Nat
  <2>1. Reads(bits, bit_no, ToSet1) /\ Reads(bits, bit_no + Len(ToSet1), u)
    BY <1>4, SwitchWords, ReadsTwo
  <2>2. Len(w) = 4 + Len(u)
    <3>1. Len(Two(ToSet1, u)) = Len(ToSet1) + Len(u)
      BY <1>4, SwitchWords, TwoWords
    <3> QED BY <1>4, <3>1, SwitchWords
  <2>3. Finds(vcode, bit_no, 0, bit_no + 2) /\ Finds(hcode, bit_no + 2, SET1, bit_no + 4)
    BY <2>1, FoundToSet1
  <2>4. dstate = SET1 /\ ~is_all_upper
    BY <1>4 DEF SetOf
  <2>5. Reads(bits, bit_no + 4, u)
    BY <2>1, SwitchWords
  <2>6. (bit_no + 4) + Len(u) = bit_no + Len(w) /\ bit_no + 4 \in Nat
    BY <2>2
  <2> QED BY <2>3, <2>4, <2>5, <2>6
<1>5. CASE st = 1 /\ ~up /\ upper /\ h = SET1 /\ v # 0 /\ w = Two(ToSet1, vcode[v + 1])
  <2>1. vcode[v + 1] \in Seq(Bit)
    BY Codewords
  <2>2. /\ Finds(vcode, bit_no, 0, bit_no + 2) /\ Finds(hcode, bit_no + 2, SET1, bit_no + 4)
        /\ Reads(bits, bit_no + 4, vcode[v + 1]) /\ dstate = SET1 /\ ~is_all_upper
        /\ bit_no + 4 \in Nat /\ (bit_no + 4) + Len(vcode[v + 1]) = bit_no + Len(w)
    BY <1>4, <1>5, <2>1
  <2>3. Finds(vcode, bit_no + 4, v, bit_no + Len(w))
    BY <2>2, FoundV
  <2>4. Token = SymbolToken(SET1, v, TRUE, bit_no + Len(w))
    BY <1>1, <1>5, <2>2, <2>3, TokenShifted
  <2> QED BY <1>5, <2>4
<1>6. CASE st = 1 /\ ~up /\ upper /\ h \notin {SET1, SET2} /\ w = Two(ToSet1, Word(h, v))
  <2>1. Word(h, v) \in Seq(Bit)
    <3>1. h \notin {SET1, SET2} /\ up = up /\ Word(h, v) = Word(h, v)
      BY <1>6
    <3> QED BY <3>1, CodedWord DEF Coded
  <2>2. /\ Finds(vcode, bit_no, 0, bit_no + 2) /\ Finds(hcode, bit_no + 2, SET1, bit_no + 4)
        /\ Reads(bits, bit_no + 4, Word(h, v)) /\ dstate = SET1 /\ ~is_all_upper
        /\ bit_no + 4 \in Nat /\ (bit_no + 4) + Len(Word(h, v)) = bit_no + Len(w)
    BY <1>4, <1>6, <2>1
  <2>3. PICK b : /\ Finds(vcode, bit_no + 4, 0, (bit_no + 4) + 2)
                 /\ Finds(hcode, (bit_no + 4) + 2, h, b) /\ Finds(vcode, b, v, bit_no + Len(w))
    BY <2>2, FoundWord
  <2>4. Token = SymbolToken(h, v, TRUE, bit_no + Len(w))
    BY <1>1, <1>6, <2>2, <2>3, TokenShiftedPrefixed
  <2> QED BY <1>6, <2>4
<1> QED BY <1>2, <1>3, <1>5, <1>6 DEF Coded

------------------------------------------------------------------------------
(* Counts.                                                                  *)

\* getNumFromBits adds up the bits one by one.
LEMMA NumberOf ==
    ASSUME bits \in Seq(Bit), NEW at \in Nat, NEW n \in Nat, at + n <= Len(bits)
    PROVE  \E num \in [0 .. n -> Nat] :
              /\ num[0] = 0 /\ \A k \in 1 .. n : num[k] = 2 * num[k - 1] + bits[at + k]
              /\ getNumFromBits(at, n) = num[n]
<1> DEFINE bit(k) == IF at + k <= Len(bits) THEN bits[at + k] ELSE 0
           step == [k \in 1 .. n |-> [x \in Nat |-> 2 * x + bit(k)]]
           Num(num) == num = [k \in 0 .. n |-> IF k = 0 THEN 0 ELSE 2 * num[k - 1] + bit(k)]
<1>1. \A k \in 1 .. n : bit(k) = bits[at + k] /\ bit(k) \in Nat
  <2> SUFFICES ASSUME NEW k \in 1 .. n PROVE bit(k) = bits[at + k] /\ bit(k) \in Nat
    OBVIOUS
  <2>1. at + k \in 1 .. Len(bits)
    OBVIOUS
  <2>2. bits[at + k] \in Bit
    BY <2>1
  <2> QED BY <2>1, <2>2 DEF Bit
<1> HIDE DEF bit
<1>2. step \in [1 .. n -> [Nat -> Nat]]
  BY <1>1
<1>3. PICK f \in [0 .. n -> Nat] : Sequence(f, 0, step, n)
  <2> HIDE DEF step
  <2>1. 0 \in Nat
    OBVIOUS
  <2> QED BY <1>2, <2>1, Iterated
<1>4. Num(f)
  <2>1. ASSUME NEW k \in 0 .. n, k # 0 PROVE step[k][f[k - 1]] = 2 * f[k - 1] + bit(k)
    <3>1. k \in 1 .. n /\ k - 1 \in 0 .. n
      BY <2>1
    <3>2. f[k - 1] \in Nat
      BY <1>3, <3>1
    <3> QED BY <3>1, <3>2
  <2>2. f = [k \in 0 .. n |-> IF k = 0 THEN 0 ELSE step[k][f[k - 1]]]
    BY <1>3 DEF Sequence
  <2> HIDE DEF step
  <2> QED BY <2>1, <2>2
<1>5. PICK num : num = (CHOOSE g : Num(g))
  OBVIOUS
<1>6. Num(num)
  BY <1>4, <1>5
<1>7. getNumFromBits(at, n) = num[n]
  <2> USE DEF bit
  <2> QED BY <1>5 DEF getNumFromBits
<1>8. num[0] = 0 /\ \A k \in 1 .. n : num[k] = 2 * num[k - 1] + bits[at + k]
  <2>1. num[0] = 0
    BY <1>6
  <2>2. ASSUME NEW k \in 1 .. n PROVE num[k] = 2 * num[k - 1] + bit(k)
    BY <1>6
  <2> QED BY <1>1, <2>1, <2>2
<1>9. \A k \in Nat : k <= n => num[k] \in Nat
  <2> DEFINE S == {k \in Nat : k <= n => num[k] \in Nat}
  <2>1. 0 \in S
    BY <1>8
  <2>2. ASSUME NEW k \in Nat, k \in S PROVE k + 1 \in S
    <3> SUFFICES ASSUME k + 1 <= n PROVE num[k + 1] \in Nat
      OBVIOUS
    <3>1. k + 1 \in 1 .. n /\ (k + 1) - 1 = k /\ num[k] \in Nat
      BY <2>2
    <3>2. num[k + 1] = 2 * num[k] + bits[at + (k + 1)] /\ bits[at + (k + 1)] \in Nat
      BY <1>1, <1>8, <3>1
    <3> QED BY <3>1, <3>2
  <2> HIDE DEF S
  <2>3. Nat \subseteq S
    BY <2>1, <2>2, AllNaturals
  <2> QED BY <2>3 DEF S
<1>10. num \in [0 .. n -> Nat]
  <2>1. num = [k \in 0 .. n |-> num[k]]
    <3>1. DOMAIN num = 0 .. n /\ num = [k \in DOMAIN num |-> num[k]]
      BY <1>6
    <3> QED BY <3>1
  <2>2. \A k \in 0 .. n : num[k] \in Nat
    BY <1>9
  <2> QED BY <2>1, <2>2
<1> QED BY <1>7, <1>8, <1>10

\* A quotient, from the one by twice the divisor.
LEMMA Halving ==
    ASSUME NEW z \in Nat, NEW p \in Nat \ {0}
    PROVE  z \div p = 2 * (z \div (2 * p)) + ((z \div p) % 2)
<1> DEFINE a == z \div p  r == z % p
<1>1. a \in Nat /\ r \in 0 .. p - 1 /\ z = p * a + r
  OBVIOUS
<1> QED BY <1>1, SMT

\* The powers of two that Bits divides by.
LEMMA Powers ==
    \A k \in 1 .. 16 : 2 ^ (16 - k) \in Nat \ {0} /\ 2 ^ (17 - k) = 2 * 2 ^ (16 - k)
<1> DEFINE P(k) == 2 ^ (16 - k) \in Nat \ {0} /\ 2 ^ (17 - k) = 2 * 2 ^ (16 - k)
<1>1. P(1) /\ P(2) /\ P(3) /\ P(4)
  BY SMT
<1>2. P(5) /\ P(6) /\ P(7) /\ P(8)
  BY SMT
<1>3. P(9) /\ P(10) /\ P(11) /\ P(12)
  BY SMT
<1>4. P(13) /\ P(14) /\ P(15) /\ P(16)
  BY SMT
<1> HIDE DEF P
<1>5. \A k \in 1 .. 16 : P(k)
  BY <1>1, <1>2, <1>3, <1>4, SMT
<1> QED BY <1>5 DEF P

\* The leading bits of a code add up to its leading part.
LEMMA LeadingPart ==
    ASSUME NEW n \in 1 .. 16, NEW z \in Nat, z \div (2 ^ 16) = 0,
           NEW num, num[0] = 0,
           \A k \in 1 .. n : num[k] = 2 * num[k - 1] + Bits(z, n)[k]
    PROVE  num[n] = z \div (2 ^ (16 - n))
<1> DEFINE S == {k \in Nat : k <= n => num[k] = z \div (2 ^ (16 - k))}
<1>1. 0 \in S
  <2>1. z \div (2 ^ (16 - 0)) = 0
    BY SMT
  <2> QED BY <2>1
<1>2. ASSUME NEW k \in Nat, k \in S PROVE k + 1 \in S
  <2> SUFFICES ASSUME k + 1 <= n PROVE num[k + 1] = z \div (2 ^ (16 - (k + 1)))
    OBVIOUS
  <2> DEFINE p == 2 ^ (16 - (k + 1))
  <2>1. k + 1 \in 1 .. 16 /\ k + 1 \in 1 .. n /\ (k + 1) - 1 = k /\ 17 - (k + 1) = 16 - k
    OBVIOUS
  <2>2. p \in Nat \ {0} /\ 2 ^ (16 - k) = 2 * p
    BY <2>1, Powers
  <2>3. num[k] = z \div (2 * p)
    BY <1>2, <2>1, <2>2
  <2>4. num[k + 1] = 2 * num[k] + ((z \div p) % 2)
    BY <2>1 DEF Bits
  <2> HIDE DEF p
  <2>5. z \div p = 2 * (z \div (2 * p)) + ((z \div p) % 2)
    BY <2>2, Halving
  <2> QED BY <2>3, <2>4, <2>5 DEF p
<1> HIDE DEF S
<1>3. Nat \subseteq S
  BY <1>1, <1>2, AllNaturals
<1> QED BY <1>3 DEF S

------------------------------------------------------------------------------
(* The varint of the length.                                                *)

\* A quotient by the base is smaller than what is divided.
LEMMA Digits ==
    ASSUME NEW v \in Nat
    PROVE  /\ v \div VarintBase \in Nat /\ v % VarintBase \in 0 .. VarintBase - 1
           /\ v = VarintBase * (v \div VarintBase) + (v % VarintBase)
           /\ v > 0 => v \div VarintBase < v
<1> DEFINE b == VarintBase  q == v \div b  r == v % b
<1>1. b \in Nat /\ b >= 2
  BY VarintBaseAssumption
<1>2. q \in Int /\ r \in 0 .. b - 1 /\ v = b * q + r
  <2> HIDE DEF b
  <2> QED BY <1>1
<1>3. q >= 0
  <2> HIDE DEF b, q, r
  <2> SUFFICES ASSUME q <= -1 PROVE FALSE
    BY <1>2
  <2>1. b * q <= -b
    BY <1>1, <1>2
  <2> QED BY <1>1, <1>2, <2>1
<1>4. v > 0 => q < v
  <2> HIDE DEF b, q, r
  <2> SUFFICES ASSUME v > 0, q >= v PROVE FALSE
    BY <1>2
  <2>1. b * q >= 2 * q
    BY <1>1, <1>2, <1>3
  <2> QED BY <1>1, <1>2, <1>3, <2>1
<1> QED BY <1>2, <1>3, <1>4

\* What the varint of v is made of, given the varints f of smaller numbers.
Varint(f, v) == IF v < VarintBase THEN <<v>>
                ELSE <<(v % VarintBase) + VarintBase>> \o f[v \div VarintBase]
\* f holds the varints of the numbers up to n.
Varints(f, n) == f = [v \in 0 .. n |-> Varint(f, v)]

\* Smaller numbers are all it depends on.
LEMMA VarintOfSmaller ==
    ASSUME NEW f, NEW g, NEW v \in Nat, \A k \in Nat : k < v => f[k] = g[k]
    PROVE  Varint(f, v) = Varint(g, v)
<1>1. CASE v < VarintBase
  BY <1>1 DEF Varint
<1>2. CASE ~(v < VarintBase)
  <2>1. v > 0
    BY <1>2, VarintBaseAssumption
  <2>2. v \div VarintBase \in Nat /\ v \div VarintBase < v
    BY <2>1, Digits
  <2>3. f[v \div VarintBase] = g[v \div VarintBase]
    BY <2>2
  <2> QED BY <1>2, <2>3 DEF Varint
<1> QED BY <1>1, <1>2

\* There are such varints, whatever the number,
LEMMA VarintsExist == \A n \in Nat : \E f : Varints(f, n)
<1> DEFINE S == {n \in Nat : \E f : Varints(f, n)}
<1>1. 0 \in S
  <2> DEFINE f == [v \in 0 .. 0 |-> <<v>>]
  <2>1. \A v \in 0 .. 0 : Varint(f, v) = <<v>>
    BY VarintBaseAssumption DEF Varint
  <2>2. f = [v \in 0 .. 0 |-> Varint(f, v)]
    BY <2>1
  <2> HIDE DEF f
  <2>3. Varints(f, 0)
    BY <2>2 DEF Varints
  <2> QED BY <2>3
<1>2. ASSUME NEW n \in Nat, n \in S PROVE n + 1 \in S
  <2>1. PICK f : Varints(f, n)
    BY <1>2
  <2> DEFINE h == [v \in 0 .. n + 1 |-> IF v <= n THEN f[v] ELSE Varint(f, v)]
  <2>2. ASSUME NEW v \in 0 .. n + 1 PROVE h[v] = Varint(f, v)
    <3>1. CASE v <= n
      <4>1. v \in 0 .. n
        BY <3>1
      <4>2. f[v] = Varint(f, v)
        BY <2>1, <4>1 DEF Varints
      <4> QED BY <3>1, <4>2
    <3>2. CASE ~(v <= n)
      BY <3>2
    <3> QED BY <3>1, <3>2
  <2>3. ASSUME NEW v \in 0 .. n + 1 PROVE Varint(f, v) = Varint(h, v)
    <3>1. \A k \in Nat : k < v => f[k] = h[k]
      <4> SUFFICES ASSUME NEW k \in Nat, k < v PROVE f[k] = h[k]
        OBVIOUS
      <4>1. k \in 0 .. n + 1 /\ k <= n
        OBVIOUS
      <4> QED BY <4>1
    <3>2. v \in Nat
      OBVIOUS
    <3> HIDE DEF h
    <3> QED BY <3>1, <3>2, VarintOfSmaller
  <2>4. h = [v \in 0 .. n + 1 |-> Varint(h, v)]
    <3> DEFINE x(v) == IF v <= n THEN f[v] ELSE Varint(f, v)
    <3>1. h = [v \in 0 .. n + 1 |-> x(v)]
      OBVIOUS
    <3>2. \A v \in 0 .. n + 1 : x(v) = Varint(h, v)
      BY <2>2, <2>3
    <3> HIDE DEF x, h
    <3> QED BY <3>1, <3>2
  <2>5. Varints(h, n + 1)
    <3> HIDE DEF h
    <3> QED BY <2>4 DEF Varints
  <2> HIDE DEF h
  <2> QED BY <2>5
<1> HIDE DEF S
<1>3. Nat \subseteq S
  BY <1>1, <1>2, AllNaturals
<1> QED BY <1>3 DEF S

\* and only one for each number.
LEMMA VarintsAgree ==
    ASSUME NEW n \in Nat, NEW m \in Nat, NEW f, NEW g, Varints(f, n), Varints(g, m)
    PROVE  \A v \in Nat : v <= n /\ v <= m => f[v] = g[v]
<1> DEFINE T == {v \in Nat : v <= n /\ v <= m /\ f[v] # g[v]}
<1>1. T = {}
  <2> SUFFICES ASSUME T # {} PROVE FALSE
    OBVIOUS
  <2>1. PICK v \in T : \A k \in T : v <= k
    <3>1. T \in SUBSET Nat
      OBVIOUS
    <3> HIDE DEF T
    <3> QED BY <3>1, Least
  <2>2. \A k \in Nat : k < v => f[k] = g[k]
    <3> SUFFICES ASSUME NEW k \in Nat, k < v, f[k] # g[k] PROVE FALSE
      OBVIOUS
    <3>1. k \in T
      BY <2>1
    <3>2. v <= k
      BY <2>1, <3>1
    <3> QED BY <3>2
  <2>3. Varint(f, v) = Varint(g, v)
    BY <2>2, VarintOfSmaller
  <2>4. v \in 0 .. n /\ v \in 0 .. m
    OBVIOUS
  <2>5. f[v] = Varint(f, v) /\ g[v] = Varint(g, v)
    BY <2>4 DEF Varints
  <2> QED BY <2>1, <2>3, <2>5
<1> QED BY <1>1

\* encode_unsigned_varint writes the lowest digit and goes on with the others.
LEMMA VarintStep ==
    \A v \in Nat : encode_unsigned_varint[v] = Varint(encode_unsigned_varint, v)
<1> DEFINE F(v) == CHOOSE f : Varints(f, v)
           g == [v \in Nat |-> F(v)[v]]
<1>1. \A v \in Nat : Varints(F(v), v)
  BY VarintsExist
<1> HIDE DEF F
<1>2. ASSUME NEW v \in Nat PROVE F(v)[v] = Varint(g, v)
  <2>1. v \in 0 .. v
    OBVIOUS
  <2>2. F(v)[v] = Varint(F(v), v)
    BY <1>1, <2>1 DEF Varints
  <2>3. \A k \in Nat : k < v => F(v)[k] = g[k]
    <3> SUFFICES ASSUME NEW k \in Nat, k < v PROVE F(v)[k] = F(k)[k]
      OBVIOUS
    <3>1. Varints(F(v), v) /\ Varints(F(k), k)
      BY <1>1
    <3>2. k <= v /\ k <= k
      OBVIOUS
    <3> QED BY <3>1, <3>2, VarintsAgree
  <2> DEFINE h == F(v)
  <2>4. \A k \in Nat : k < v => h[k] = g[k]
    BY <2>3
  <2> HIDE DEF g, h
  <2>5. Varint(h, v) = Varint(g, v)
    BY <2>4, VarintOfSmaller
  <2> QED BY <2>2, <2>5 DEF h
<1>3. g = [v \in Nat |-> Varint(g, v)]
  <2> DEFINE x(v) == F(v)[v]
  <2>1. g = [v \in Nat |-> x(v)]
    OBVIOUS
  <2>2. \A v \in Nat : x(v) = Varint(g, v)
    BY <1>2
  <2> HIDE DEF x, g
  <2> QED BY <2>1, <2>2
<1> HIDE DEF g
<1>4. encode_unsigned_varint = (CHOOSE e : e = [v \in Nat |-> Varint(e, v)])
  BY DEF encode_unsigned_varint, Varint
<1>5. encode_unsigned_varint = [v \in Nat |-> Varint(encode_unsigned_varint, v)]
  BY <1>3, <1>4
<1> QED BY <1>5

\* It writes bytes, at least one.
LEMMA VarintBytes ==
    \A v \in Nat : /\ encode_unsigned_varint[v] \in Seq(0 .. 2 * VarintBase - 1)
                   /\ Len(encode_unsigned_varint[v]) \in Nat \ {0}
<1> DEFINE B == 0 .. 2 * VarintBase - 1
           Is(v) == /\ encode_unsigned_varint[v] \in Seq(B)
                    /\ Len(encode_unsigned_varint[v]) \in Nat \ {0}
           T == {v \in Nat : ~Is(v)}
<1>1. ASSUME NEW v \in Nat, \A k \in Nat : k < v => Is(k) PROVE Is(v)
  <2>1. CASE v < VarintBase
    <3>1. encode_unsigned_varint[v] = <<v>>
      BY <2>1, VarintStep DEF Varint
    <3>2. v \in B
      BY <2>1, VarintBaseAssumption
    <3> HIDE DEF B
    <3> QED BY <3>1, <3>2
  <2>2. CASE ~(v < VarintBase)
    <3> DEFINE x == (v % VarintBase) + VarintBase
               d == encode_unsigned_varint[v \div VarintBase]
    <3>1. encode_unsigned_varint[v] = <<x>> \o d
      BY <2>2, VarintStep DEF Varint
    <3>2. v > 0
      BY <2>2, VarintBaseAssumption
    <3>3. /\ v \div VarintBase \in Nat /\ v \div VarintBase < v
          /\ v % VarintBase \in 0 .. VarintBase - 1
      BY <3>2, Digits
    <3>4. x \in B
      BY <3>3, VarintBaseAssumption
    <3>5. Is(v \div VarintBase)
      BY <1>1, <3>3
    <3>6. d \in Seq(B) /\ Len(d) \in Nat
      BY <3>5
    <3> HIDE DEF B, x, d
    <3>7. <<x>> \o d \in Seq(B) /\ Len(<<x>> \o d) = 1 + Len(d)
      BY <3>4, <3>6
    <3> QED BY <3>1, <3>6, <3>7
  <2> QED BY <2>1, <2>2
<1> HIDE DEF Is
<1>2. T = {}
  <2> SUFFICES ASSUME T # {} PROVE FALSE
    OBVIOUS
  <2>1. T \in SUBSET Nat
    OBVIOUS
  <2>2. PICK v \in T : \A k \in T : v <= k
    <3> HIDE DEF T
    <3> QED BY <2>1, Least
  <2>3. \A k \in Nat : k < v => Is(k)
    BY <2>2
  <2> QED BY <1>1, <2>3
<1> QED BY <1>2 DEF Is

\* A byte in front of a number makes a number.
LEMMA WithByteIsNumber ==
    ASSUME NEW byte \in Nat, NEW rest \in Nat
    PROVE  WithByte(byte, rest) \in Nat
<1>1. VarintBase \in Nat
  BY VarintBaseAssumption
<1>2. byte % VarintBase \in Nat
  BY <1>1, Digits
<1>3. VarintBase * rest \in Nat
  BY <1>1
<1> QED BY <1>2, <1>3 DEF WithByte

\* What is decoded is built up from the last byte to the first.
LEMMA DecodedOf ==
    ASSUME NEW data \in Seq(Nat)
    PROVE  \E num \in [0 .. Len(data) -> Nat] :
              /\ num[0] = 0
              /\ \A k \in 1 .. Len(data) : num[k] = WithByte(data[Len(data) + 1 - k], num[k - 1])
              /\ decode_unsigned_varint(data) = num[Len(data)]
<1> DEFINE n == Len(data)
           byte(k) == data[n + 1 - k]
           Num(num) == num = [k \in 0 .. n |-> IF k = 0 THEN 0 ELSE WithByte(byte(k), num[k - 1])]
           step == [k \in 1 .. n |-> [x \in Nat |-> WithByte(byte(k), x)]]
<1>1. n \in Nat
  OBVIOUS
<1>2. \A k \in 1 .. n : byte(k) \in Nat
  <2> SUFFICES ASSUME NEW k \in 1 .. n PROVE byte(k) \in Nat
    OBVIOUS
  <2>1. n + 1 - k \in 1 .. n
    BY <1>1
  <2> QED BY <2>1
<1> HIDE DEF byte
<1>3. step \in [1 .. n -> [Nat -> Nat]]
  BY <1>2, WithByteIsNumber
<1>4. PICK f \in [0 .. n -> Nat] : Sequence(f, 0, step, n)
  <2> HIDE DEF step, n
  <2>1. 0 \in Nat
    OBVIOUS
  <2> QED BY <1>1, <1>3, <2>1, Iterated
<1>5. Num(f)
  <2>1. ASSUME NEW k \in 0 .. n, k # 0
        PROVE  step[k][f[k - 1]] = WithByte(byte(k), f[k - 1])
    <3>1. k \in 1 .. n /\ k - 1 \in 0 .. n
      BY <1>1, <2>1
    <3>2. f[k - 1] \in Nat
      BY <1>4, <3>1
    <3> QED BY <3>1, <3>2
  <2>2. f = [k \in 0 .. n |-> IF k = 0 THEN 0 ELSE step[k][f[k - 1]]]
    BY <1>4 DEF Sequence
  <2> HIDE DEF step
  <2> QED BY <2>1, <2>2
<1>6. PICK num : num = (CHOOSE g : Num(g))
  OBVIOUS
<1>7. Num(num)
  BY <1>5, <1>6
<1>8. decode_unsigned_varint(data) = num[n]
  <2> USE DEF byte
  <2> QED BY <1>6 DEF decode_unsigned_varint
<1>9. num[0] = 0 /\ \A k \in 1 .. n : num[k] = WithByte(byte(k), num[k - 1])
  <2>1. num[0] = 0
    BY <1>1, <1>7
  <2>2. ASSUME NEW k \in 1 .. n PROVE num[k] = WithByte(byte(k), num[k - 1])
    <3>1. k \in 0 .. n /\ k # 0
      BY <1>1
    <3> QED BY <1>7, <3>1, Zenon
  <2> QED BY <2>1, <2>2
<1>10. \A k \in Nat : k <= n => num[k] \in Nat
  <2> DEFINE S == {k \in Nat : k <= n => num[k] \in Nat}
  <2>1. 0 \in S
    BY <1>9
  <2>2. ASSUME NEW k \in Nat, k \in S PROVE k + 1 \in S
    <3> SUFFICES ASSUME k + 1 <= n PROVE num[k + 1] \in Nat
      OBVIOUS
    <3>1. k + 1 \in 1 .. n /\ (k + 1) - 1 = k /\ num[k] \in Nat
      BY <1>1, <2>2
    <3>2. num[k + 1] = WithByte(byte(k + 1), num[k]) /\ byte(k + 1) \in Nat
      BY <1>2, <1>9, <3>1
    <3> QED BY <3>1, <3>2, WithByteIsNumber
  <2> HIDE DEF S
  <2>3. Nat \subseteq S
    BY <2>1, <2>2, AllNaturals
  <2> QED BY <2>3 DEF S
<1>11. num \in [0 .. n -> Nat]
  <2>1. DOMAIN num = 0 .. n /\ num = [k \in DOMAIN num |-> num[k]]
    BY <1>7
  <2>2. \A k \in 0 .. n : num[k] \in Nat
    BY <1>1, <1>10
  <2> QED BY <2>1, <2>2
<1> USE DEF byte
<1> QED BY <1>8, <1>9, <1>11

\* One more byte in front.
LEMMA OneMoreByte ==
    ASSUME NEW d \in Seq(Nat), NEW x \in Nat
    PROVE  /\ decode_unsigned_varint(<<x>> \o d) = WithByte(x, decode_unsigned_varint(d))
           /\ decode_unsigned_varint(d) \in Nat
<1> DEFINE n == Len(d)  data == <<x>> \o d
<1>1. /\ data \in Seq(Nat) /\ Len(data) = n + 1 /\ n \in Nat /\ data[1] = x
      /\ \A k \in 1 .. n : data[n + 2 - k] = d[n + 1 - k]
  OBVIOUS
<1>2. PICK f \in [0 .. n -> Nat] :
        /\ f[0] = 0
        /\ \A k \in 1 .. n : f[k] = WithByte(d[n + 1 - k], f[k - 1])
        /\ decode_unsigned_varint(d) = f[n]
  BY DecodedOf
<1>3. PICK g \in [0 .. Len(data) -> Nat] :
        /\ g[0] = 0
        /\ \A k \in 1 .. Len(data) : g[k] = WithByte(data[Len(data) + 1 - k], g[k - 1])
        /\ decode_unsigned_varint(data) = g[Len(data)]
  <2> HIDE DEF data
  <2> QED BY <1>1, DecodedOf
<1> HIDE DEF data, n
<1>4. \A k \in Nat : k <= n => g[k] = f[k]
  <2> DEFINE S == {k \in Nat : k <= n => g[k] = f[k]}
  <2>1. 0 \in S
    BY <1>2, <1>3
  <2>2. ASSUME NEW k \in Nat, k \in S PROVE k + 1 \in S
    <3> SUFFICES ASSUME k + 1 <= n PROVE g[k + 1] = f[k + 1]
      OBVIOUS
    <3> DEFINE m == k + 1
    <3>1. /\ m \in 1 .. n /\ m \in 1 .. Len(data) /\ m - 1 = k /\ g[k] = f[k]
          /\ Len(data) + 1 - m = n + 2 - m
      BY <1>1, <2>2
    <3> HIDE DEF m
    <3>2. g[m] = WithByte(data[n + 2 - m], g[k])
      BY <1>3, <3>1
    <3>3. f[m] = WithByte(d[n + 1 - m], f[k])
      BY <1>2, <3>1
    <3>4. data[n + 2 - m] = d[n + 1 - m]
      BY <1>1, <3>1
    <3> QED BY <3>1, <3>2, <3>3, <3>4 DEF m
  <2> HIDE DEF S
  <2>3. Nat \subseteq S
    BY <2>1, <2>2, AllNaturals
  <2> QED BY <2>3 DEF S
<1>5. g[n + 1] = WithByte(data[1], g[n])
  <2> DEFINE m == n + 1
  <2>1. m \in 1 .. Len(data) /\ Len(data) + 1 - m = 1 /\ m - 1 = n
    BY <1>1
  <2> HIDE DEF m
  <2>2. g[m] = WithByte(data[1], g[n])
    BY <1>3, <2>1
  <2> QED BY <2>2 DEF m
<1>6. g[n] = f[n] /\ f[n] \in Nat
  <2>1. n <= n /\ n \in 0 .. n
    BY <1>1
  <2> QED BY <1>1, <1>2, <1>4, <2>1
<1>7. decode_unsigned_varint(data) = WithByte(x, decode_unsigned_varint(d))
  BY <1>1, <1>2, <1>3, <1>5, <1>6
<1>8. decode_unsigned_varint(d) \in Nat
  BY <1>2, <1>6
<1> QED BY <1>7, <1>8 DEF data

\* The varint of a number is decoded as that number.
LEMMA VarintDecoded ==
    \A v \in Nat : decode_unsigned_varint(encode_unsigned_varint[v]) = v
<1> DEFINE Is(v) == decode_unsigned_varint(encode_unsigned_varint[v]) = v
           T == {v \in Nat : ~Is(v)}
<1>1. ASSUME NEW v \in Nat, \A k \in Nat : k < v => Is(k) PROVE Is(v)
  <2>1. CASE v < VarintBase
    <3>1. encode_unsigned_varint[v] = <<v>>
      BY <2>1, VarintStep DEF Varint
    <3>2. << >> \in Seq(Nat) /\ Len(<< >>) = 0 /\ <<v>> = <<v>> \o << >>
      OBVIOUS
    <3>3. decode_unsigned_varint(<<v>>) = WithByte(v, decode_unsigned_varint(<< >>))
      BY <3>2, OneMoreByte
    <3> QED BY <2>1, <3>1, <3>3 DEF WithByte
  <2>2. CASE ~(v < VarintBase)
    <3> DEFINE r == v % VarintBase  q == v \div VarintBase  x == r + VarintBase
               d == encode_unsigned_varint[q]
    <3>1. encode_unsigned_varint[v] = <<x>> \o d
      BY <2>2, VarintStep DEF Varint
    <3>2. v > 0 /\ VarintBase \in Nat /\ VarintBase >= 2
      BY <2>2, VarintBaseAssumption
    <3>3. q \in Nat /\ q < v /\ r \in 0 .. VarintBase - 1 /\ v = VarintBase * q + r
      BY <3>2, Digits
    <3>4. x \in Nat /\ x % VarintBase = r /\ x >= VarintBase
      <4> HIDE DEF r
      <4> QED BY <3>2, <3>3
    <3>5. d \in Seq(Nat) /\ decode_unsigned_varint(d) = q
      <4>1. d \in Seq(0 .. 2 * VarintBase - 1)
        BY <3>3, VarintBytes
      <4>2. 0 .. 2 * VarintBase - 1 \subseteq Nat
        BY <3>2
      <4> HIDE DEF d, q
      <4>3. d \in Seq(Nat)
        <5> DEFINE S == 0 .. 2 * VarintBase - 1
        <5>1. S \subseteq Nat /\ d \in Seq(S)
          BY <4>1, <4>2
        <5> HIDE DEF S
        <5>2. /\ Len(d) \in Nat /\ d = [k \in 1 .. Len(d) |-> d[k]]
              /\ \A k \in 1 .. Len(d) : d[k] \in S
          BY <5>1
        <5> QED BY <5>1, <5>2
      <4> USE DEF d
      <4> QED BY <1>1, <3>3, <4>3
    <3> HIDE DEF x, d, q, r
    <3>6. decode_unsigned_varint(<<x>> \o d) = r + VarintBase * q
      BY <3>2, <3>4, <3>5, OneMoreByte DEF WithByte
    <3> QED BY <3>1, <3>2, <3>3, <3>6
  <2> QED BY <2>1, <2>2
<1> HIDE DEF Is
<1>2. T = {}
  <2> SUFFICES ASSUME T # {} PROVE FALSE
    OBVIOUS
  <2>1. T \in SUBSET Nat
    OBVIOUS
  <2>2. PICK v \in T : \A k \in T : v <= k
    <3> HIDE DEF T
    <3> QED BY <2>1, Least
  <2>3. \A k \in Nat : k < v => Is(k)
    BY <2>2
  <2> QED BY <1>1, <2>3
<1> QED BY <1>2 DEF Is

\* Quotients of a product.
LEMMA Products ==
    ASSUME NEW y \in Nat, NEW p \in Nat \ {0}, NEW q \in Nat, y < q
    PROVE  (y * p) \div p = y /\ (y * p) \div (p * q) = 0 /\ y * p \in Nat
<1>1. y * p \in Nat /\ p * q \in Nat
  OBVIOUS
<1>2. (y * p) \div p = y
  OBVIOUS
<1>3. y * p < p * q
  OBVIOUS
<1>4. ASSUME NEW a \in Nat, NEW b \in Nat, a < b PROVE a \div b = 0
  BY <1>4
<1>5. (y * p) \div (p * q) = 0
  BY <1>1, <1>3, <1>4
<1> QED BY <1>1, <1>2, <1>5

\* Two words are read one after the other, however they are joined.
LEMMA TwoIsConcatenation ==
    ASSUME NEW u \in Seq(Bit), NEW v \in Seq(Bit)
    PROVE  Two(u, v) = u \o v
<1> DEFINE w == u \o v
<1>1. /\ w \in Seq(Bit) /\ Len(w) = Len(u) + Len(v) /\ Len(u) \in Nat /\ Len(v) \in Nat
      /\ \A k \in 1 .. Len(w) : w[k] = IF k <= Len(u) THEN u[k] ELSE v[k - Len(u)]
  OBVIOUS
<1> HIDE DEF w
<1>2. w = [k \in 1 .. Len(w) |-> w[k]]
  BY <1>1
<1>3. w = Two(u, v)
  BY <1>1, <1>2 DEF Two
<1> QED BY <1>3 DEF w

\* So the number that is read is that of the word's bits.
LEMMA NumberOfWord ==
    ASSUME bits \in Seq(Bit), NEW at \in Nat, NEW w, Len(w) \in Nat, Reads(bits, at, w)
    PROVE  \E num \in [0 .. Len(w) -> Nat] :
              /\ num[0] = 0 /\ \A k \in 1 .. Len(w) : num[k] = 2 * num[k - 1] + w[k]
              /\ getNumFromBits(at, Len(w)) = num[Len(w)]
<1>1. at + Len(w) <= Len(bits) /\ \A k \in 1 .. Len(w) : bits[at + k] = w[k]
  BY DEF Reads
<1>2. PICK num \in [0 .. Len(w) -> Nat] :
          /\ num[0] = 0 /\ \A k \in 1 .. Len(w) : num[k] = 2 * num[k - 1] + bits[at + k]
          /\ getNumFromBits(at, Len(w)) = num[Len(w)]
  BY <1>1, NumberOf
<1>3. \A k \in 1 .. Len(w) : num[k] = 2 * num[k - 1] + w[k]
  BY <1>1, <1>2
<1> QED BY <1>2, <1>3

\* What is read as the leading bits of a code is its leading part.
LEMMA NumberRead ==
    ASSUME bits \in Seq(Bit), NEW at \in Nat, NEW n \in 1 .. 16, NEW y \in Nat,
           NEW p \in Nat \ {0}, NEW q \in Nat, p = 2 ^ (16 - n), y < q, p * q = 2 ^ 16,
           Reads(bits, at, Bits(y * 2 ^ (16 - n), n))
    PROVE  getNumFromBits(at, n) = y
<1> DEFINE z == y * 2 ^ (16 - n)
<1>1. z \in Nat /\ z \div (2 ^ 16) = 0 /\ z \div (2 ^ (16 - n)) = y
  BY Products
<1> HIDE DEF z
<1>2. Reads(bits, at, Bits(z, n)) /\ n \in Nat
  BY DEF z
<1>3. Len(Bits(z, n)) = n
  BY DEF Bits
<1>4. PICK num \in [0 .. n -> Nat] :
          /\ num[0] = 0 /\ \A k \in 1 .. n : num[k] = 2 * num[k - 1] + Bits(z, n)[k]
          /\ getNumFromBits(at, n) = num[n]
  <2> DEFINE w == Bits(z, n)
  <2>1. Len(w) = n /\ Len(w) \in Nat /\ Reads(bits, at, w)
    BY <1>2, <1>3
  <2> HIDE DEF w
  <2>2. \E num \in [0 .. Len(w) -> Nat] :
           /\ num[0] = 0 /\ \A k \in 1 .. Len(w) : num[k] = 2 * num[k - 1] + w[k]
           /\ getNumFromBits(at, Len(w)) = num[Len(w)]
    BY <2>1, NumberOfWord
  <2>3. \E num \in [0 .. n -> Nat] :
           /\ num[0] = 0 /\ \A k \in 1 .. n : num[k] = 2 * num[k - 1] + w[k]
           /\ getNumFromBits(at, n) = num[n]
    BY <2>1, <2>2, Zenon
  <2> QED BY <2>3 DEF w
<1>5. num[n] = z \div (2 ^ (16 - n))
  BY <1>1, <1>4, LeadingPart
<1> QED BY <1>1, <1>4, <1>5

\* Class i: its codeword's index, the bits behind it and the first count.
Class(i, code, bit_len, adder) ==
    /\ CountClass[i].code = hcode[code] /\ CountClass[i].bit_len = bit_len
    /\ CountClass[i].adder = adder

\* The classes follow one on another.
LEMMA Classes ==
    /\ Len(CountClass) = 6
    /\ Class(1, 2, 2, 0) /\ Class(2, 1, 5, 4) /\ Class(3, 3, 7, 36)
    /\ Class(4, 4, 9, 164) /\ Class(5, 5, 12, 676) /\ Class(6, 6, 16, 4772)
BY SMT DEF Class, CountClass, hcode

\* The first class that holds a count.
LEMMA ClassOf ==
    ASSUME NEW n \in 0 .. MaxCount
    PROVE  \E i \in 1 .. 6, y \in Nat :
              /\ n = CountClass[i].adder + y /\ y < 2 ^ CountClass[i].bit_len
              /\ encodeCount(n) = CountClass[i].code
                     \o Bits(y * 2 ^ (16 - CountClass[i].bit_len), CountClass[i].bit_len)
<1> DEFINE fits == {i \in 1 .. Len(CountClass) : Holds(CountClass[i], n)}
           first == Min(fits)
<1>1. n \in Nat /\ n < 70308
  BY SMT DEF MaxCount
<1>2. /\ Holds(CountClass[1], n) <=> n < 4
      /\ Holds(CountClass[2], n) <=> n < 36
      /\ Holds(CountClass[3], n) <=> n < 164
      /\ Holds(CountClass[4], n) <=> n < 676
      /\ Holds(CountClass[5], n) <=> n < 4772
      /\ Holds(CountClass[6], n) <=> n < 70308
  BY Classes, SMT DEF Class, Holds
<1>3. fits \in SUBSET Nat /\ 6 \in fits /\ \A i \in 1 .. 6 : i \in fits <=> Holds(CountClass[i], n)
  BY <1>1, <1>2, Classes, SMT
<1>4. first \in fits /\ \A i \in fits : first <= i
  <2> HIDE DEF fits
  <2> QED BY <1>3, LeastIsMin
<1>5. encodeCount(n) = CountClass[first].code
          \o Bits((n - CountClass[first].adder) * 2 ^ (16 - CountClass[first].bit_len),
                  CountClass[first].bit_len)
  BY <1>3 DEF encodeCount
<1>6. first \in 1 .. 6
  BY <1>4, Classes
<1> HIDE DEF fits, first
<1>7. \A i \in 1 .. 6 : i < first => ~Holds(CountClass[i], n)
  BY <1>3, <1>4, <1>6
<1>8. /\ n - CountClass[first].adder \in Nat
      /\ n - CountClass[first].adder < 2 ^ CountClass[first].bit_len
  <2>1. Holds(CountClass[first], n)
    BY <1>3, <1>4, <1>6
  <2>2. CASE first = 1
    BY <1>1, <1>2, <2>1, <2>2, Classes, SMT DEF Class
  <2>3. CASE first = 2
    BY <1>1, <1>2, <1>7, <2>1, <2>3, Classes, SMT DEF Class
  <2>4. CASE first = 3
    BY <1>1, <1>2, <1>7, <2>1, <2>4, Classes, SMT DEF Class
  <2>5. CASE first = 4
    BY <1>1, <1>2, <1>7, <2>1, <2>5, Classes, SMT DEF Class
  <2>6. CASE first = 5
    BY <1>1, <1>2, <1>7, <2>1, <2>6, Classes, SMT DEF Class
  <2>7. CASE first = 6
    BY <1>1, <1>2, <1>7, <2>1, <2>7, Classes, SMT DEF Class
  <2> QED BY <1>6, <2>2, <2>3, <2>4, <2>5, <2>6, <2>7
<1>9. PICK y : y = n - CountClass[first].adder
  OBVIOUS
<1>10. n = CountClass[first].adder + y
  BY <1>1, <1>6, <1>9, Classes, SMT DEF Class
<1> QED BY <1>5, <1>6, <1>8, <1>9, <1>10

\* Powers of two that a class divides the codes into.
LEMMA ClassPowers ==
    ASSUME NEW i \in 1 .. 6
    PROVE  /\ CountClass[i].bit_len \in 1 .. 16 /\ CountClass[i].adder \in Nat
           /\ 2 ^ (16 - CountClass[i].bit_len) \in Nat \ {0} /\ 2 ^ CountClass[i].bit_len \in Nat
           /\ 2 ^ (16 - CountClass[i].bit_len) * 2 ^ CountClass[i].bit_len = 2 ^ 16
<1> DEFINE P(bl) == /\ bl \in 1 .. 16 /\ 2 ^ (16 - bl) \in Nat \ {0} /\ 2 ^ bl \in Nat
                    /\ 2 ^ (16 - bl) * 2 ^ bl = 2 ^ 16
<1>1. P(2) /\ P(5) /\ P(7) /\ P(9) /\ P(12) /\ P(16)
  BY SMT
<1>2. CountClass[i].bit_len \in {2, 5, 7, 9, 12, 16}
  BY Classes, SMT DEF Class
<1>3. CountClass[i].adder \in Nat
  BY Classes, SMT DEF Class
<1> HIDE DEF P
<1>4. P(CountClass[i].bit_len)
  BY <1>1, <1>2
<1> QED BY <1>3, <1>4 DEF P

\* The leading bits of a code are a sequence of bits.
LEMMA BitsWord ==
    ASSUME NEW z \in Nat, NEW n \in 0 .. 16
    PROVE  Bits(z, n) \in Seq(Bit) /\ Len(Bits(z, n)) = n
<1>1. ASSUME NEW k \in 1 .. n PROVE (z \div 2 ^ (16 - k)) % 2 \in Bit
  <2>1. k \in 1 .. 16
    OBVIOUS
  <2>2. 2 ^ (16 - k) \in Nat \ {0}
    BY <2>1, Powers
  <2>3. z \div 2 ^ (16 - k) \in Nat
    BY <2>2
  <2> QED BY <2>3 DEF Bit
<1>2. n \in Nat
  OBVIOUS
<1> QED BY <1>1, <1>2 DEF Bits

\* A count is a codeword and bits.
LEMMA CountWord ==
    ASSUME NEW n \in 0 .. MaxCount
    PROVE  encodeCount(n) \in Seq(Bit) /\ Len(encodeCount(n)) \in Nat \ {0}
<1>1. PICK i \in 1 .. 6, y \in Nat :
          /\ y < 2 ^ CountClass[i].bit_len
          /\ encodeCount(n) = CountClass[i].code
                 \o Bits(y * 2 ^ (16 - CountClass[i].bit_len), CountClass[i].bit_len)
  BY ClassOf
<1> DEFINE c == CountClass[i].code  bl == CountClass[i].bit_len  z == y * 2 ^ (16 - bl)
<1>2. bl \in 1 .. 16 /\ z \in Nat
  <2>1. bl \in 1 .. 16 /\ 2 ^ (16 - bl) \in Nat
    BY ClassPowers
  <2> QED BY <2>1
<1>3. c \in Seq(Bit)
  <2>1. \E k \in 1 .. 7 : c = hcode[k]
    BY Classes, SMT DEF Class
  <2> QED BY <2>1, WordBits
<1> HIDE DEF c, bl, z
<1>4. Bits(z, bl) \in Seq(Bit) /\ Len(Bits(z, bl)) = bl
  <2>1. bl \in 0 .. 16
    BY <1>2
  <2> QED BY <1>2, <2>1, BitsWord
<1>5. c \o Bits(z, bl) \in Seq(Bit) /\ Len(c \o Bits(z, bl)) = Len(c) + bl
  BY <1>3, <1>4
<1>6. Len(c) + bl \in Nat \ {0}
  BY <1>2, <1>3
<1> QED BY <1>1, <1>5, <1>6 DEF c, bl, z

\* The decompressor reads the count that the compressor wrote.
LEMMA CountRead ==
    ASSUME bits \in Seq(Bit), NEW at \in Nat, NEW n \in 0 .. MaxCount,
           Reads(bits, at, encodeCount(n))
    PROVE  readCount(at) = [count |-> n, next |-> at + Len(encodeCount(n))]
<1>1. PICK i \in 1 .. 6, y \in Nat :
          /\ n = CountClass[i].adder + y /\ y < 2 ^ CountClass[i].bit_len
          /\ encodeCount(n) = CountClass[i].code
                 \o Bits(y * 2 ^ (16 - CountClass[i].bit_len), CountClass[i].bit_len)
  BY ClassOf
<1> DEFINE c == CountClass[i].code  bl == CountClass[i].bit_len  ad == CountClass[i].adder
           w == Bits(y * 2 ^ (16 - bl), bl)
<1>2. bl \in 1 .. 16 /\ ad \in Nat /\ 2 ^ (16 - bl) \in Nat \ {0} /\ 2 ^ bl \in Nat
      /\ 2 ^ (16 - bl) * 2 ^ bl = 2 ^ 16
  BY ClassPowers
<1>3. PICK k \in 1 .. 6 : /\ c = hcode[k]
                         /\ \/ i = 1 /\ k = 2
                            \/ i = 2 /\ k = 1
                            \/ i \in 3 .. 6 /\ k = i
  BY Classes, SMT DEF Class
<1>4. c \in Seq(Bit) /\ w \in Seq(Bit) /\ Len(w) = bl
  <2>1. c \in Seq(Bit)
    <3>1. c = hcode[k] /\ k \in 1 .. 7
      BY <1>3
    <3> HIDE DEF c, w, bl, ad
    <3>2. \A j \in 1 .. 7 : hcode[j] \in Seq(Bit)
      BY WordBits, Zenon
    <3> QED BY <3>1, <3>2, Zenon
  <2>2. bl \in 0 .. 16
    BY <1>2
  <2>3. y * 2 ^ (16 - bl) \in Nat
    <3>1. 2 ^ (16 - bl) \in Nat
      BY <1>2
    <3> QED BY <3>1
  <2> HIDE DEF c, bl
  <2> QED BY <2>1, <2>2, <2>3, BitsWord
<1>5. encodeCount(n) = Two(c, w) /\ Len(Two(c, w)) = Len(c) + bl
  <2>1. encodeCount(n) = c \o w
    BY <1>1
  <2> HIDE DEF c, w, bl
  <2>2. Two(c, w) = c \o w
    BY <1>4, TwoIsConcatenation
  <2>3. Len(Two(c, w)) = Len(c) + Len(w)
    BY <1>4, TwoWords
  <2> QED BY <1>4, <2>1, <2>2, <2>3
<1>6. Reads(bits, at, c) /\ Reads(bits, at + Len(c), w)
  <2>1. Reads(bits, at, Two(c, w))
    BY <1>5
  <2> HIDE DEF c, w
  <2> QED BY <1>4, <2>1, ReadsTwo
<1>7. at + Len(c) \in Nat
  BY <1>4
<1>8. getCodeIdx(hcode, at) = [idx |-> k - 1, next |-> at + Len(c)]
  <2>1. k \in 1 .. 7 /\ Reads(bits, at, hcode[k])
    BY <1>3, <1>6
  <2>2. getCodeIdx(hcode, at) = [idx |-> k - 1, next |-> at + Len(hcode[k])]
    BY <2>1, HFound
  <2> QED BY <1>3, <2>2
<1>9. getNumFromBits(at + Len(c), bl) = y
  <2>1. y < 2 ^ bl /\ Reads(bits, at + Len(c), Bits(y * 2 ^ (16 - bl), bl))
    BY <1>1, <1>6
  <2> DEFINE p == 2 ^ (16 - bl)  q == 2 ^ bl
  <2>2. p \in Nat \ {0} /\ q \in Nat /\ p = 2 ^ (16 - bl) /\ y < q /\ p * q = 2 ^ 16
    BY <1>2, <2>1
  <2> HIDE DEF c, bl, p, q
  <2> QED BY <1>2, <1>7, <2>1, <2>2, NumberRead
<1>10. /\ k - 1 # End /\ k - 1 # 6
       /\ i = CASE k - 1 = 0 -> 2 [] k - 1 = 1 -> 1 [] OTHER -> (k - 1) + 1
  BY <1>3, SMT DEF End
<1>11. readCount(at) = [count |-> y + ad, next |-> (at + Len(c)) + bl]
  BY <1>8, <1>9, <1>10 DEF readCount
<1>12. y + ad = n /\ (at + Len(c)) + bl = at + Len(encodeCount(n))
  <2>1. Len(c) \in Nat /\ bl \in Nat /\ ad \in Nat
    BY <1>2, <1>4
  <2>2. n = ad + y
    BY <1>1
  <2>3. Len(encodeCount(n)) = Len(c) + bl
    BY <1>5
  <2> HIDE DEF c, bl, ad, w
  <2> QED BY <2>1, <2>2, <2>3
<1> QED BY <1>11, <1>12

------------------------------------------------------------------------------
(* Common prefixes.                                                         *)

\* CommonPrefix is the length of an equal beginning, and of no shorter one than
\* any that is equal.
LEMMA PrefixIsCommon ==
    ASSUME NEW s, NEW t, Len(s) \in Nat, Len(t) \in Nat
    PROVE  /\ CommonPrefix(s, t) \in Nat
           /\ CommonPrefix(s, t) <= Len(s) /\ CommonPrefix(s, t) <= Len(t)
           /\ \A k \in 1 .. CommonPrefix(s, t) : s[k] = t[k]
           /\ \A m \in Nat : m <= Len(s) /\ m <= Len(t) /\ (\A k \in 1 .. m : s[k] = t[k])
                                => m <= CommonPrefix(s, t)
<1> DEFINE n == Min({Len(s), Len(t)})
           differ == {k \in 1 .. n : s[k] # t[k]}
<1>1. n \in Nat /\ n <= Len(s) /\ n <= Len(t) /\ (n = Len(s) \/ n = Len(t))
  <2>1. {Len(s), Len(t)} \in SUBSET Nat /\ {Len(s), Len(t)} # {}
    OBVIOUS
  <2>2. n \in {Len(s), Len(t)} /\ \A k \in {Len(s), Len(t)} : n <= k
    BY <2>1, LeastIsMin
  <2> HIDE DEF n
  <2> QED BY <2>2
<1>2. CommonPrefix(s, t) = IF differ = {} THEN n ELSE Min(differ) - 1
  BY DEF CommonPrefix
<1> HIDE DEF n
<1>3. CASE differ = {}
  <2>1. CommonPrefix(s, t) = n
    BY <1>2, <1>3
  <2>2. \A k \in 1 .. n : s[k] = t[k]
    BY <1>3
  <2> HIDE DEF differ
  <2> QED BY <1>1, <2>1, <2>2
<1>4. CASE differ # {}
  <2> DEFINE m == Min(differ)
  <2>1. m \in differ /\ \A k \in differ : m <= k
    <3>1. differ \in SUBSET Nat
      OBVIOUS
    <3> HIDE DEF differ
    <3> QED BY <1>4, <3>1, LeastIsMin
  <2>2. CommonPrefix(s, t) = m - 1
    BY <1>2, <1>4
  <2> HIDE DEF m
  <2>3. m \in 1 .. n /\ s[m] # t[m] /\ \A k \in 1 .. n : k < m => s[k] = t[k]
    BY <1>1, <2>1
  <2> HIDE DEF differ
  <2> QED BY <1>1, <2>2, <2>3
<1> QED BY <1>3, <1>4

\* What is left of the text from l on.
LEMMA RestOfText ==
    ASSUME text \in Seq(0 .. 127), l \in 0 .. Length
    PROVE  /\ Length \in Nat /\ Len(From(l)) = Length - l
           /\ \A k \in 1 .. Length - l : From(l)[k] = text[l + k]
BY DEF From, Length

\* A run is of four characters at least, all as the first, and within the text.
LEMMA RepeatFound ==
    ASSUME text \in Seq(0 .. 127), l \in 0 .. Length, Repeats
    PROVE  /\ rpt_count \in Nat /\ rpt_count >= 4 /\ l + rpt_count <= Length
           /\ \A k \in 1 .. rpt_count : text[l + k] = c_prev
<1> DEFINE s == From(l)  r == [k \in 1 .. Length |-> In(l)]
<1>1. /\ Length \in Nat /\ Len(s) = Length - l /\ Len(s) \in Nat
      /\ \A k \in 1 .. Length - l : s[k] = text[l + k]
  BY RestOfText
<1>2. Len(r) \in Nat /\ Len(r) = Length /\ \A k \in 1 .. Length : r[k] = In(l)
  BY <1>1
<1>3. rpt_count = CommonPrefix(s, r)
  BY DEF rpt_count
<1>4. /\ l < Length - 4 /\ In(l) = c_prev /\ text[l + 1] = In(l) /\ text[l + 2] = In(l)
      /\ text[l + 3] = In(l) /\ text[l + 4] = In(l)
  <2>1. /\ l < Length - 4 /\ In(l) = c_prev /\ In(l + 1) = In(l) /\ In(l + 2) = In(l)
        /\ In(l + 3) = In(l)
    BY DEF Repeats
  <2>2. /\ (l + 1) + 1 = l + 2 /\ (l + 2) + 1 = l + 3 /\ (l + 3) + 1 = l + 4
    OBVIOUS
  <2> QED BY <2>1, <2>2 DEF In
<1> HIDE DEF s, r
<1>5. /\ CommonPrefix(s, r) \in Nat /\ CommonPrefix(s, r) <= Len(s)
      /\ \A k \in 1 .. CommonPrefix(s, r) : s[k] = r[k]
      /\ \A m \in Nat : m <= Len(s) /\ m <= Len(r) /\ (\A k \in 1 .. m : s[k] = r[k])
                             => m <= CommonPrefix(s, r)
  <2>1. Len(s) \in Nat /\ Len(r) \in Nat
    BY <1>1, <1>2
  <2> QED BY <2>1, PrefixIsCommon
<1>6. 4 <= CommonPrefix(s, r)
  <2>1. \A k \in 1 .. 4 : s[k] = r[k]
    BY <1>1, <1>2, <1>4
  <2>2. 4 <= Len(s) /\ 4 <= Len(r)
    BY <1>1, <1>2, <1>4
  <2> QED BY <1>5, <2>1, <2>2
<1>7. ASSUME NEW k \in 1 .. rpt_count PROVE text[l + k] = c_prev
  <2>1. k \in 1 .. Length - l /\ k \in 1 .. Length
    BY <1>1, <1>3, <1>5
  <2>2. s[k] = r[k]
    BY <1>3, <1>5
  <2> QED BY <1>1, <1>2, <1>4, <2>1, <2>2
<1> QED BY <1>1, <1>3, <1>5, <1>6, <1>7

\* A repetition within the text ends before l.
LEMMA WithinFound ==
    ASSUME text \in Seq(0 .. 127), l \in 0 .. Length, NEW j \in 0 .. l - 1
    PROVE  /\ WithinLen(j) \in Nat /\ j + WithinLen(j) <= l /\ l + WithinLen(j) <= Length
           /\ \A k \in 1 .. WithinLen(j) : text[j + k] = text[l + k]
<1> DEFINE s == SubSeq(text, j + 1, l)  r == From(l)
<1>1. /\ Length \in Nat /\ Len(r) = Length - l /\ Len(r) \in Nat
      /\ \A k \in 1 .. Length - l : r[k] = text[l + k]
  BY RestOfText
<1>2. /\ Len(s) = l - j /\ Len(s) \in Nat /\ \A k \in 1 .. l - j : s[k] = text[j + k]
  BY DEF Length
<1>3. WithinLen(j) = CommonPrefix(s, r)
  BY DEF WithinLen
<1> HIDE DEF s, r
<1>4. /\ CommonPrefix(s, r) \in Nat /\ CommonPrefix(s, r) <= Len(s) /\ CommonPrefix(s, r) <= Len(r)
      /\ \A k \in 1 .. CommonPrefix(s, r) : s[k] = r[k]
  <2>1. Len(s) \in Nat /\ Len(r) \in Nat
    BY <1>1, <1>2
  <2> QED BY <2>1, PrefixIsCommon
<1>5. ASSUME NEW k \in 1 .. WithinLen(j) PROVE text[j + k] = text[l + k]
  <2>1. k \in 1 .. Length - l /\ k \in 1 .. l - j /\ s[k] = r[k]
    BY <1>1, <1>2, <1>3, <1>4
  <2> QED BY <1>1, <1>2, <2>1
<1>6. j + WithinLen(j) <= l /\ l + WithinLen(j) <= Length
  BY <1>1, <1>2, <1>3, <1>4
<1> QED BY <1>3, <1>4, <1>5, <1>6

\* A repetition of an earlier line ends within both.
LEMMA LineFound ==
    ASSUME text \in Seq(0 .. 127), l \in 0 .. Length, NEW line \in Seq(1 .. 127),
           NEW j \in 0 .. Len(line) - 1
    PROVE  /\ LineLen(line, j) \in Nat /\ j + LineLen(line, j) <= Len(line)
           /\ l + LineLen(line, j) <= Length
           /\ \A k \in 1 .. LineLen(line, j) : line[j + k] = text[l + k]
<1> DEFINE s == SubSeq(line, j + 1, Len(line))  r == From(l)
<1>1. /\ Length \in Nat /\ Len(r) = Length - l /\ Len(r) \in Nat
      /\ \A k \in 1 .. Length - l : r[k] = text[l + k]
  BY RestOfText
<1>2. /\ Len(line) \in Nat /\ Len(s) = Len(line) - j /\ Len(s) \in Nat
      /\ \A k \in 1 .. Len(line) - j : s[k] = line[j + k]
  OBVIOUS
<1>3. LineLen(line, j) = CommonPrefix(s, r)
  BY DEF LineLen
<1> HIDE DEF s, r
<1>4. /\ CommonPrefix(s, r) \in Nat /\ CommonPrefix(s, r) <= Len(s) /\ CommonPrefix(s, r) <= Len(r)
      /\ \A k \in 1 .. CommonPrefix(s, r) : s[k] = r[k]
  <2>1. Len(s) \in Nat /\ Len(r) \in Nat
    BY <1>1, <1>2
  <2> QED BY <2>1, PrefixIsCommon
<1>5. ASSUME NEW k \in 1 .. LineLen(line, j) PROVE line[j + k] = text[l + k]
  <2>1. k \in 1 .. CommonPrefix(s, r)
    BY <1>3
  <2>2. k \in 1 .. Length - l /\ k \in 1 .. Len(line) - j
    BY <1>1, <1>2, <1>4, <2>1
  <2>3. s[k] = r[k]
    BY <1>4, <2>1
  <2> QED BY <1>1, <1>2, <2>2, <2>3
<1>6. j + LineLen(line, j) <= Len(line) /\ l + LineLen(line, j) <= Length
  BY <1>1, <1>2, <1>3, <1>4
<1> QED BY <1>3, <1>4, <1>5, <1>6

------------------------------------------------------------------------------
(* Places.  The bits the compressor has written lead the decompressor from  *)
(* place to place: a place is a position in the blob, the one in the text,  *)
(* and the state that both ends have there.                                 *)

Place == {p \in [at : Nat, l : Nat, state : {1, 2}, upper : BOOLEAN] :
             p.state = 2 => p.upper = FALSE}
Start == [at |-> 0, l |-> 0, state |-> 1, upper |-> FALSE]

\* What the word w does from place p to place q: it changes the state of the
\* decompressor only,
Turns(p, q, st, up) == q.state = st /\ q.upper = up /\ q.l = p.l
Switch(p, q, w) ==
    \/ w = ToSet1 /\ p.state = 2 /\ Turns(p, q, 1, p.upper)
    \/ w = ToSet1 /\ p.state = 1 /\ p.upper = TRUE /\ Turns(p, q, 1, FALSE)
    \/ w = ToUpper /\ p.state = 1 /\ p.upper = FALSE /\ Turns(p, q, 1, TRUE)
    \/ w = ToSet2 /\ Turns(p, q, 2, p.upper)

\* or is an element that stands for the next of the text,
Stays(p, q, n) == q.state = p.state /\ q.upper = p.upper /\ q.l = p.l + n
StandsFor(h, v, upper, st) ==
    LET c == sets[h + 1][v + 1]
    IN  CASE IsLower(c) -> <<IF upper THEN c - 32 ELSE c>>
          [] ~IsLower(c) /\ h = SET1B /\ v = 6 -> <<CR, LF>>
          [] ~IsLower(c) /\ h = SET1B /\ v = 7 -> <<IF upper THEN CR ELSE LF>>
          [] OTHER -> <<IF upper /\ SetOf(st) = SET1 /\ v = 1 THEN TAB ELSE c>>
Element(t, p, q, w) ==
    \E h \in 0 .. 6, v \in 0 .. 10, upper \in BOOLEAN, n \in {1, 2} :
        /\ Coded(p.state, p.upper, h, v, upper, w)
        /\ ~(h = SET1B /\ v \in {8, 9, 10})
        /\ Stays(p, q, n)
        /\ Len(StandsFor(h, v, upper, p.state)) = n
        /\ \A k \in 1 .. n : StandsFor(h, v, upper, p.state)[k] = t[p.l + k]

\* or has the last character of the text repeated,
Repetition(t, p, q, w) ==
    \E n \in Nat :
        /\ n >= 4 /\ n - 4 \in 0 .. MaxCount /\ p.l >= 1
        /\ w = Two(Word(2, 9), encodeCount(n - 4))
        /\ Stays(p, q, n)
        /\ ~DelayedRun(t) => \A k \in 1 .. n : t[p.l + k] = t[p.l]

\* or a part of the text,
Within(t, p, q, w) ==
    \E n \in Nat \ {0}, j \in Nat :
        /\ n - NICE_LEN_FOR_PRIOR \in 0 .. MaxCount
        /\ p.l - j - NICE_LEN_FOR_PRIOR + 1 \in 0 .. MaxCount
        /\ w = Two(Two(Word(2, 8), <<1>>),
                   Two(encodeCount(n - NICE_LEN_FOR_PRIOR),
                       encodeCount(p.l - j - NICE_LEN_FOR_PRIOR + 1)))
        /\ Stays(p, q, n)
        /\ j + n <= p.l
        /\ \A k \in 1 .. n : t[j + k] = t[p.l + k]

\* or one of an earlier line.
Earlier(t, lines, p, q, w) ==
    \E n \in Nat \ {0}, j \in Nat, c \in 1 .. Len(lines) :
        /\ n - NICE_LEN_FOR_OTHER \in 0 .. MaxCount
        /\ j \in 0 .. MaxCount /\ c - 1 \in 0 .. MaxCount
        /\ w = Two(Two(Word(2, 8), <<0>>),
                   Two(encodeCount(n - NICE_LEN_FOR_OTHER),
                       Two(encodeCount(j), encodeCount(c - 1))))
        /\ Stays(p, q, n)
        /\ j + n <= Len(lines[c])
        /\ \A k \in 1 .. n : lines[c][j + k] = t[p.l + k]

Means(t, lines, p, q, w) ==
    Switch(p, q, w) \/ Element(t, p, q, w) \/ Repetition(t, p, q, w)
        \/ Within(t, p, q, w) \/ Earlier(t, lines, p, q, w)

\* A pass over the blob b from p to q.
Pass(b, t, lines, p, q) ==
    \E w \in Seq(Bit) : /\ Len(w) > 0 /\ Reads(b, p.at, w) /\ q.at = p.at + Len(w)
                        /\ Means(t, lines, p, q, w)
\* The passes over b lead from the start through the places M to e.
Path(b, t, lines, M, e) ==
    /\ M \subseteq {p \in Place : p.l <= Len(t)} /\ Start \in M /\ e \in M
    /\ \A p \in M : p.at <= e.at
    /\ \A p \in M : p = e \/ \E q \in M : Pass(b, t, lines, p, q)
LeadsTo(b, t, lines, e) == e.at = Len(b) /\ \E M : Path(b, t, lines, M, e)

\* The empty blob leads nowhere.
LEMMA EmptyPath ==
    ASSUME NEW t, Len(t) \in Nat, NEW lines
    PROVE  LeadsTo(<< >>, t, lines, Start)
<1>1. Start \in Place /\ Start.l = 0 /\ Start.at = 0
  BY DEF Start, Place
<1>2. Path(<< >>, t, lines, {Start}, Start)
  BY <1>1 DEF Path
<1>3. Len(<< >>) = 0
  OBVIOUS
<1> QED BY <1>1, <1>2, <1>3 DEF LeadsTo

\* A pass stays one when the blob grows.
LEMMA PassOn ==
    ASSUME NEW b \in Seq(Bit), NEW x \in Seq(Bit), NEW t, NEW lines, NEW p \in Place, NEW q,
           Pass(b, t, lines, p, q)
    PROVE  Pass(b \o x, t, lines, p, q)
<1>1. PICK w \in Seq(Bit) : /\ Len(w) > 0 /\ Reads(b, p.at, w) /\ q.at = p.at + Len(w)
                            /\ Means(t, lines, p, q, w)
  BY DEF Pass
<1>2. p.at \in Nat
  BY DEF Place
<1>3. Reads(b \o x, p.at, w)
  BY <1>1, <1>2, ReadsOn
<1> QED BY <1>1, <1>3 DEF Pass

\* A word that means something leads the path on.
LEMMA PathOn ==
    ASSUME NEW b \in Seq(Bit), NEW w \in Seq(Bit), Len(w) > 0, NEW t, NEW lines,
           NEW e, NEW q \in Place, LeadsTo(b, t, lines, e), Means(t, lines, e, q, w),
           q.at = Len(b) + Len(w), q.l <= Len(t)
    PROVE  LeadsTo(b \o w, t, lines, q)
<1>1. PICK M : Path(b, t, lines, M, e)
  BY DEF LeadsTo
<1>2. /\ M \subseteq Place /\ e \in Place /\ e.at = Len(b) /\ Start \in M /\ e \in M
      /\ \A p \in M : p.l <= Len(t) /\ p.at <= e.at
      /\ \A p \in M : p = e \/ \E r \in M : Pass(b, t, lines, p, r)
  BY <1>1 DEF Path, LeadsTo
<1>3. Reads(b \o w, e.at, w) /\ q.at = Len(b \o w)
  <2>1. Reads(b \o w, Len(b), w) /\ Len(b \o w) = Len(b) + Len(w)
    BY ReadsLast
  <2> QED BY <1>2, <2>1
<1>4. Pass(b \o w, t, lines, e, q)
  BY <1>2, <1>3 DEF Pass
<1>5. \A p \in M \cup {q} : p.at <= q.at
  <2>1. \A p \in M : p.at \in Nat
    BY <1>2 DEF Place
  <2>2. Len(b) \in Nat /\ Len(w) \in Nat
    OBVIOUS
  <2>3. \A p \in M : p.at <= Len(b)
    BY <1>2
  <2> QED BY <2>1, <2>2, <2>3
<1>6. ASSUME NEW p \in M \cup {q}, p # q
      PROVE  \E r \in M \cup {q} : Pass(b \o w, t, lines, p, r)
  <2>1. p \in M /\ p \in Place
    BY <1>2, <1>6
  <2>2. CASE p = e
    BY <1>4, <2>2
  <2>3. CASE p # e
    <3>1. PICK r \in M : Pass(b, t, lines, p, r)
      BY <1>2, <2>1, <2>3
    <3>2. Pass(b \o w, t, lines, p, r)
      BY <2>1, <3>1, PassOn
    <3> QED BY <3>2
  <2> QED BY <2>2, <2>3
<1>7. M \cup {q} \subseteq {p \in Place : p.l <= Len(t)}
  BY <1>2
<1>8. Path(b \o w, t, lines, M \cup {q}, q)
  BY <1>2, <1>5, <1>6, <1>7 DEF Path
<1> QED BY <1>3, <1>8 DEF LeadsTo

------------------------------------------------------------------------------
(* A pass of the decompressor.                                              *)

\* The decompressor stands at a place: it has put out as much as the place says,
\* and what the text has there unless a run was coded that is not one.
StandsAt(p) ==
    /\ p \in Place /\ bit_no = p.at /\ dstate = SetOf(p.state) /\ is_all_upper = p.upper
    /\ out \in Seq(0 .. 127) /\ Len(out) = p.l
    /\ ~DelayedRun(text) => \A k \in 1 .. p.l : out[k] = text[k]

\* The token says which of the branches is taken.
LEMMA OnlyControl ==
    ASSUME DecompressPass, bit_no < Len(bits), ~(bit_no >= Len(bits)),
           Token.kind \in {"upper_on", "upper_off", "set1", "set2"}
    PROVE  Control
BY DEF DecompressPass, Decodes, Emit, CopyWithin, CopyEarlier, CopyRepeat, DecompressEnd

\* An element is a function of set 1 or stands for a character.
LEMMA OnlySymbol ==
    ASSUME DecompressPass, bit_no < Len(bits), ~(bit_no >= Len(bits)), Token.kind = "symbol"
    PROVE  /\ ~IsFunction(8) /\ ~IsFunction(9) => Emit
           /\ IsFunction(8) /\ ~IsFunction(9) /\ IsWithin => CopyWithin
           /\ IsFunction(8) /\ ~IsFunction(9) /\ ~IsWithin => CopyEarlier
           /\ IsFunction(9) /\ ~IsFunction(8) => CopyRepeat
BY DEF DecompressPass, Decodes, Control, Emit, CopyWithin, CopyEarlier, CopyRepeat, DecompressEnd

\* What is put out is the text on to the next place.
LEMMA OutOn ==
    ASSUME NEW p \in Place, NEW q \in Place, StandsAt(p), NEW x \in Seq(0 .. 127),
           q.l = p.l + Len(x), ~DelayedRun(text) => \A k \in 1 .. Len(x) : x[k] = text[p.l + k],
           out' = out \o x, text' = text, bit_no' = q.at, dstate' = SetOf(q.state),
           is_all_upper' = q.upper
    PROVE  StandsAt(q)'
<1>1. out \in Seq(0 .. 127) /\ Len(out) = p.l /\ p.l \in Nat /\ Len(x) \in Nat
  BY DEF StandsAt, Place
<1>2. out' \in Seq(0 .. 127) /\ Len(out') = q.l
  BY <1>1
<1>3. ASSUME ~DelayedRun(text), NEW k \in 1 .. q.l PROVE out'[k] = text[k]
  <2>1. CASE k <= p.l
    <3>1. k \in 1 .. p.l /\ out'[k] = out[k]
      BY <1>1, <2>1
    <3> QED BY <1>3, <3>1 DEF StandsAt
  <2>2. CASE k > p.l
    <3>1. k - p.l \in 1 .. Len(x) /\ p.l + (k - p.l) = k
      BY <1>1, <2>2
    <3>2. out'[k] = x[k - p.l]
      BY <1>1, <2>2
    <3> QED BY <1>3, <3>1, <3>2
  <2> QED BY <1>1, <2>1, <2>2
<1>4. DelayedRun(text') = DelayedRun(text)
  OBVIOUS
<1> QED BY <1>2, <1>3, <1>4 DEF StandsAt

\* The words of the other switches.
LEMMA SwitchWordsRead ==
    ASSUME NEW b \in Seq(Bit), NEW at \in Nat
    PROVE  /\ ToUpper \in Seq(Bit) /\ Len(ToUpper) = 8 /\ ToSet2 \in Seq(Bit) /\ Len(ToSet2) = 7
           /\ Reads(b, at, ToUpper) => Reads(b, at, ToSet1) /\ Reads(b, at + 4, ToSet1)
           /\ Reads(b, at, ToSet2) => Reads(b, at, vcode[1]) /\ Reads(b, at + 2, hcode[SET2 + 1])
<1>1. ToUpper \in Seq(Bit) /\ Len(ToUpper) = 8
  <2>1. Two(ToSet1, ToSet1) \in Seq(Bit) /\ Len(Two(ToSet1, ToSet1)) = Len(ToSet1) + Len(ToSet1)
    BY SwitchWords, TwoWords
  <2> QED BY <2>1, SwitchWords DEF ToUpper
<1>2. hcode[SET2 + 1] \in Seq(Bit) /\ Len(hcode[SET2 + 1]) = 5
  <2>1. SET2 + 1 = 4 /\ 4 \in 1 .. 7
    BY DEF SET2
  <2> QED BY <2>1, WordBits, HWords
<1>3. ToSet2 \in Seq(Bit) /\ Len(ToSet2) = 7
  <2>1. /\ Two(vcode[1], hcode[SET2 + 1]) \in Seq(Bit)
        /\ Len(Two(vcode[1], hcode[SET2 + 1])) = Len(vcode[1]) + Len(hcode[SET2 + 1])
    BY <1>2, SwitchWords, TwoWords
  <2> QED BY <1>2, <2>1, SwitchWords DEF ToSet2
<1>4. ASSUME Reads(b, at, ToUpper) PROVE Reads(b, at, ToSet1) /\ Reads(b, at + 4, ToSet1)
  <2>1. Reads(b, at, ToSet1) /\ Reads(b, at + Len(ToSet1), ToSet1)
    BY <1>4, SwitchWords, ReadsTwo DEF ToUpper
  <2> QED BY <2>1, SwitchWords
<1>5. ASSUME Reads(b, at, ToSet2)
      PROVE  Reads(b, at, vcode[1]) /\ Reads(b, at + 2, hcode[SET2 + 1])
  <2>1. Reads(b, at, vcode[1]) /\ Reads(b, at + Len(vcode[1]), hcode[SET2 + 1])
    BY <1>2, <1>5, SwitchWords, ReadsTwo DEF ToSet2
  <2> QED BY <2>1, SwitchWords
<1> QED BY <1>1, <1>3, <1>4, <1>5

\* What a switch is taken for.
LEMMA SwitchTaken ==
    ASSUME bits \in Seq(Bit), NEW p \in Place, NEW q \in Place, NEW w, StandsAt(p),
           Switch(p, q, w), Reads(bits, p.at, w), q.at = p.at + Len(w)
    PROVE  \/ Token = Change("set1", q.at) /\ q.state = 1 /\ q.upper = p.upper
           \/ Token = Change("upper_off", q.at) /\ q.state = p.state /\ q.upper = FALSE
           \/ Token = Change("upper_on", q.at) /\ q.state = p.state /\ q.upper = TRUE
           \/ Token = Change("set2", q.at) /\ q.state = 2 /\ q.upper = p.upper
<1>1. /\ p.at \in Nat /\ p.upper \in BOOLEAN /\ p.state \in {1, 2}
      /\ bit_no = p.at /\ dstate = SetOf(p.state) /\ is_all_upper = p.upper
  BY DEF StandsAt, Place
<1>2. SET1 # SET2
  BY DEF SET1, SET2
<1>3. ASSUME w = ToSet1
      PROVE  Finds(vcode, bit_no, 0, bit_no + 2) /\ Finds(hcode, bit_no + 2, SET1, q.at)
  BY <1>1, <1>3, FoundToSet1, SwitchWords
<1>4. CASE w = ToSet1 /\ p.state = 2 /\ Turns(p, q, 1, p.upper)
  <2>1. dstate # SET1
    BY <1>1, <1>2, <1>4 DEF SetOf
  <2>2. Token = Change("set1", q.at)
    BY <1>3, <1>4, <2>1, TokenToSet1
  <2> QED BY <1>4, <2>2 DEF Turns
<1>5. CASE w = ToSet1 /\ p.state = 1 /\ p.upper = TRUE /\ Turns(p, q, 1, FALSE)
  <2>1. dstate = SET1 /\ is_all_upper = TRUE
    BY <1>1, <1>5 DEF SetOf
  <2>2. Token = Change("upper_off", q.at)
    BY <1>3, <1>5, <2>1, TokenUpperOff
  <2> QED BY <1>5, <2>2 DEF Turns
<1>6. CASE w = ToUpper /\ p.state = 1 /\ p.upper = FALSE /\ Turns(p, q, 1, TRUE)
  <2>1. dstate = SET1 /\ ~is_all_upper
    BY <1>1, <1>6 DEF SetOf
  <2>2. Reads(bits, bit_no, ToSet1) /\ Reads(bits, bit_no + 4, ToSet1) /\ Len(w) = 8
    BY <1>1, <1>6, SwitchWordsRead
  <2>3. bit_no \in Nat /\ bit_no + 4 \in Nat /\ (bit_no + 4) + 4 = q.at
    BY <1>1, <2>2
  <2>4. /\ Finds(vcode, bit_no, 0, bit_no + 2) /\ Finds(hcode, bit_no + 2, SET1, bit_no + 4)
        /\ Finds(vcode, bit_no + 4, 0, (bit_no + 4) + 2)
        /\ Finds(hcode, (bit_no + 4) + 2, SET1, (bit_no + 4) + 4)
    BY <2>2, <2>3, FoundToSet1
  <2>5. Token = Change("upper_on", q.at)
    BY <2>1, <2>3, <2>4, TokenUpperOn
  <2> QED BY <1>6, <2>5 DEF Turns
<1>7. CASE w = ToSet2 /\ Turns(p, q, 2, p.upper)
  <2>1. Reads(bits, bit_no, vcode[1]) /\ Reads(bits, bit_no + 2, hcode[SET2 + 1]) /\ Len(w) = 7
    BY <1>1, <1>7, SwitchWordsRead
  <2>2. bit_no \in Nat /\ bit_no + 2 \in Nat /\ 0 \in 0 .. 10 /\ 0 + 1 = 1 /\ SET2 \in 0 .. 6
    BY <1>1 DEF SET2
  <2>3. Len(hcode[SET2 + 1]) = 5 /\ Len(vcode[1]) = 2
    <3>1. SET2 + 1 = 4
      BY DEF SET2
    <3> QED BY <3>1, HWords, SwitchWords
  <2>4. Finds(vcode, bit_no, 0, bit_no + 2)
    BY <2>1, <2>2, <2>3, FoundV
  <2>5. Finds(hcode, bit_no + 2, SET2, (bit_no + 2) + 5)
    BY <2>1, <2>2, <2>3, FoundH
  <2>6. (bit_no + 2) + 5 = q.at
    BY <1>1, <2>1
  <2>7. Token = Change("set2", q.at)
    BY <2>4, <2>5, <2>6, TokenToSet2
  <2> QED BY <1>7, <2>7 DEF Turns
<1> QED BY <1>4, <1>5, <1>6, <1>7 DEF Switch

\* The pass of a switch.
LEMMA SwitchPass ==
    ASSUME bits \in Seq(Bit), NEW p \in Place, NEW q \in Place, NEW w, StandsAt(p),
           Switch(p, q, w), Reads(bits, p.at, w), q.at = p.at + Len(w), Len(w) \in Nat \ {0},
           DecompressPass
    PROVE  StandsAt(q)' /\ UnchangedInDecompress
<1>1. /\ bit_no = p.at /\ dstate = SetOf(p.state) /\ is_all_upper = p.upper
      /\ bit_no < Len(bits) /\ ~(bit_no >= Len(bits)) /\ p.l = q.l /\ p.state \in {1, 2}
      /\ p.upper \in BOOLEAN
  <2>1. p.at \in Nat /\ Len(bits) \in Nat /\ p.at + Len(w) <= Len(bits) /\ bit_no = p.at
    BY DEF StandsAt, Place, Reads
  <2>2. bit_no < Len(bits) /\ ~(bit_no >= Len(bits))
    BY <2>1
  <2>3. p.l = q.l
    BY DEF Switch, Turns
  <2> QED BY <2>2, <2>3 DEF StandsAt, Place
<1>2. \/ Token = Change("set1", q.at) /\ q.state = 1 /\ q.upper = p.upper
      \/ Token = Change("upper_off", q.at) /\ q.state = p.state /\ q.upper = FALSE
      \/ Token = Change("upper_on", q.at) /\ q.state = p.state /\ q.upper = TRUE
      \/ Token = Change("set2", q.at) /\ q.state = 2 /\ q.upper = p.upper
  BY SwitchTaken
<1>3. Token.kind \in {"upper_on", "upper_off", "set1", "set2"} /\ Token.next = q.at
  BY <1>2 DEF Change
<1>4. Control
  BY <1>1, <1>3, OnlyControl
<1>5. bit_no' = q.at /\ out' = out /\ UnchangedInDecompress
  BY <1>3, <1>4 DEF Control
<1>6. dstate' = SetOf(q.state) /\ is_all_upper' = q.upper
  <2>1. /\ is_all_upper' = CASE Token.kind = "upper_on" -> TRUE
                             [] Token.kind = "upper_off" -> FALSE
                             [] OTHER -> is_all_upper
        /\ dstate' = CASE Token.kind = "set1" -> SET1
                       [] Token.kind = "set2" -> SET2
                       [] OTHER -> dstate
    BY <1>4 DEF Control
  <2>2. CASE Token = Change("set1", q.at) /\ q.state = 1 /\ q.upper = p.upper
    BY <1>1, <2>1, <2>2 DEF Change, SetOf
  <2>3. CASE Token = Change("upper_off", q.at) /\ q.state = p.state /\ q.upper = FALSE
    BY <1>1, <2>1, <2>3 DEF Change, SetOf
  <2>4. CASE Token = Change("upper_on", q.at) /\ q.state = p.state /\ q.upper = TRUE
    BY <1>1, <2>1, <2>4 DEF Change, SetOf
  <2>5. CASE Token = Change("set2", q.at) /\ q.state = 2 /\ q.upper = p.upper
    BY <1>1, <2>1, <2>5 DEF Change, SetOf
  <2> QED BY <1>2, <2>2, <2>3, <2>4, <2>5
<1>7. text' = text
  BY <1>5 DEF UnchangedInDecompress, call
<1>8. DelayedRun(text') = DelayedRun(text)
  BY <1>7
<1> QED BY <1>1, <1>5, <1>6, <1>7, <1>8 DEF StandsAt

\* What a sequence is made of.
LEMMA ElementOf ==
    ASSUME NEW S, NEW s \in Seq(S)
    PROVE  \A k \in 1 .. Len(s) : s[k] \in S
OBVIOUS

\* A word for an element is taken for it where the decompressor stands.
LEMMA SymbolAt ==
    ASSUME bits \in Seq(Bit), bit_no \in Nat, NEW p \in Place, NEW upper \in BOOLEAN,
           NEW h \in 0 .. 6, NEW v \in 0 .. 10, NEW w, StandsAt(p),
           Coded(p.state, p.upper, h, v, upper, w), Reads(bits, bit_no, w)
    PROVE  Token = SymbolToken(h, v, upper, bit_no + Len(w))
<1>1. p.state \in {1, 2} /\ p.upper \in BOOLEAN
  BY DEF Place
<1>2. dstate = SetOf(p.state) /\ is_all_upper = p.upper
  BY DEF StandsAt
<1>3. \A st \in {1, 2}, up \in BOOLEAN :
         Coded(st, up, h, v, upper, w) /\ dstate = SetOf(st) /\ is_all_upper = up
             => Token = SymbolToken(h, v, upper, bit_no + Len(w))
  BY SymbolTaken, Zenon
<1> QED BY <1>1, <1>2, <1>3, Zenon

\* The pass of an element.
LEMMA ElementPass ==
    ASSUME bits \in Seq(Bit), text \in Seq(0 .. 127), NEW p \in Place, NEW q \in Place, NEW w,
           StandsAt(p), Element(text, p, q, w), Reads(bits, p.at, w), q.at = p.at + Len(w),
           Len(w) \in Nat \ {0}, q.l <= Length, DecompressPass
    PROVE  StandsAt(q)' /\ UnchangedInDecompress
<1>1. /\ bit_no = p.at /\ dstate = SetOf(p.state) /\ is_all_upper = p.upper
      /\ bit_no < Len(bits) /\ ~(bit_no >= Len(bits)) /\ p.state \in {1, 2}
      /\ p.upper \in BOOLEAN /\ bit_no \in Nat
  <2>1. p.at \in Nat /\ Len(bits) \in Nat /\ p.at + Len(w) <= Len(bits) /\ bit_no = p.at
    BY DEF StandsAt, Place, Reads
  <2>2. bit_no < Len(bits) /\ ~(bit_no >= Len(bits)) /\ bit_no \in Nat
    BY <2>1
  <2> QED BY <2>2 DEF StandsAt, Place
<1>2. PICK h \in 0 .. 6, v \in 0 .. 10, upper \in BOOLEAN, n \in {1, 2} :
        /\ Coded(p.state, p.upper, h, v, upper, w)
        /\ ~(h = SET1B /\ v \in {8, 9, 10})
        /\ Stays(p, q, n)
        /\ Len(StandsFor(h, v, upper, p.state)) = n
        /\ \A k \in 1 .. n : StandsFor(h, v, upper, p.state)[k] = text[p.l + k]
  BY DEF Element
<1>3. Token = SymbolToken(h, v, upper, q.at)
  <2>1. Reads(bits, bit_no, w) /\ q.at = bit_no + Len(w)
    BY <1>1
  <2>2. Token = SymbolToken(h, v, upper, bit_no + Len(w))
    BY <1>1, <1>2, <2>1, SymbolAt
  <2> QED BY <2>1, <2>2
<1>4. ~IsFunction(8) /\ ~IsFunction(9) /\ ~IsFunction(10) /\ Token.kind = "symbol"
      /\ Token.next = q.at
  BY <1>2, <1>3 DEF IsFunction, SymbolToken
<1>5. Emit
  BY <1>1, <1>4, OnlySymbol
<1>6. Emitted = StandsFor(h, v, upper, p.state)
  BY <1>1, <1>2, <1>3, <1>4 DEF Emitted, StandsFor, SymbolToken, IsFunction
<1>7. /\ out' = out \o Emitted /\ bit_no' = q.at /\ dstate' = dstate
      /\ is_all_upper' = is_all_upper /\ UnchangedInDecompress /\ text' = text
  BY <1>4, <1>5 DEF Emit, UnchangedInDecompress, call
<1>8. Emitted \in Seq(0 .. 127)
  <2>1. \A k \in 1 .. n : Emitted[k] \in 0 .. 127
    <3> SUFFICES ASSUME NEW k \in 1 .. n PROVE Emitted[k] \in 0 .. 127
      OBVIOUS
    <3>1. p.l + k \in 1 .. Len(text)
      <4>1. p.l \in Nat /\ q.l = p.l + n /\ Len(text) \in Nat
        BY <1>2 DEF Place, Stays
      <4> QED BY <4>1 DEF Length
    <3>2. \A i \in 1 .. Len(text) : text[i] \in 0 .. 127
      BY ElementOf
    <3>4. text[p.l + k] \in 0 .. 127
      BY <3>1, <3>2
    <3>3. Emitted[k] = text[p.l + k]
      BY <1>2, <1>6
    <3> QED BY <3>3, <3>4
  <2>2. \E x : Emitted = <<x>> \/ \E y : Emitted = <<x, y>>
    BY <1>6 DEF StandsFor
  <2>3. Len(Emitted) = n
    BY <1>2, <1>6
  <2> QED BY <2>1, <2>2, <2>3
<1>9. dstate' = SetOf(q.state) /\ is_all_upper' = q.upper /\ q.l = p.l + Len(Emitted)
  BY <1>1, <1>2, <1>6, <1>7 DEF Stays
<1>10. \A k \in 1 .. Len(Emitted) : Emitted[k] = text[p.l + k]
  BY <1>2, <1>6
<1>11. StandsAt(q)'
  BY <1>7, <1>8, <1>9, <1>10, OutOn
<1> QED BY <1>7, <1>11

\* The words of the functions are sequences of bits.
LEMMA FunctionWord ==
    ASSUME NEW v \in 0 .. 10
    PROVE  Word(2, v) \in Seq(Bit) /\ Len(Word(2, v)) \in Nat \ {0}
<1>1. 2 \notin {SET1, SET2} /\ 2 \in 0 .. 6
  BY DEF SET1, SET2
<1>2. Coded(1, FALSE, 2, v, FALSE, Word(2, v))
  BY <1>1 DEF Coded
<1> QED BY <1>1, <1>2, CodedWord

\* A function is read where its word is.
LEMMA FunctionAt ==
    ASSUME bits \in Seq(Bit), NEW p \in Place, StandsAt(p), NEW v \in 0 .. 10,
           Reads(bits, p.at, Word(2, v))
    PROVE  /\ Token.kind = "symbol" /\ Token.h = SET1B /\ Token.v = v
           /\ Token.next = p.at + Len(Word(2, v)) /\ bit_no < Len(bits)
<1>1. p.at \in Nat /\ bit_no = p.at /\ bit_no \in Nat /\ p.upper \in BOOLEAN
  BY DEF StandsAt, Place
<1>2. 2 \notin {SET1, SET2} /\ 2 \in 0 .. 6 /\ SET1B = 2
  BY DEF SET1, SET2, SET1B
<1>3. Coded(p.state, p.upper, 2, v, p.upper, Word(2, v)) /\ Reads(bits, bit_no, Word(2, v))
  BY <1>1, <1>2 DEF Coded
<1>4. Token = SymbolToken(2, v, p.upper, bit_no + Len(Word(2, v)))
  BY <1>1, <1>2, <1>3, SymbolAt
<1>5. bit_no < Len(bits)
  <2>1. Len(Word(2, v)) \in Nat \ {0}
    BY FunctionWord
  <2>2. Len(bits) \in Nat
    OBVIOUS
  <2>3. bit_no + Len(Word(2, v)) <= Len(bits)
    BY <1>3 DEF Reads
  <2> QED BY <1>1, <2>1, <2>2, <2>3
<1> QED BY <1>1, <1>2, <1>4, <1>5 DEF SymbolToken

\* The pass of a run.
LEMMA RepetitionPass ==
    ASSUME bits \in Seq(Bit), text \in Seq(0 .. 127), NEW p \in Place, NEW q \in Place, NEW w,
           StandsAt(p), Repetition(text, p, q, w), Reads(bits, p.at, w),
           q.at = p.at + Len(w), q.l <= Length, DecompressPass
    PROVE  StandsAt(q)' /\ UnchangedInDecompress
<1>1. PICK n \in Nat :
        /\ n >= 4 /\ n - 4 \in 0 .. MaxCount /\ p.l >= 1
        /\ w = Two(Word(2, 9), encodeCount(n - 4))
        /\ Stays(p, q, n)
        /\ ~DelayedRun(text) => \A k \in 1 .. n : text[p.l + k] = text[p.l]
  BY DEF Repetition
<1> DEFINE c == encodeCount(n - 4)  u == Word(2, 9)
<1>2. u \in Seq(Bit) /\ c \in Seq(Bit) /\ Len(u) \in Nat /\ Len(c) \in Nat /\ p.at \in Nat
  <2>1. u \in Seq(Bit) /\ Len(u) \in Nat
    BY FunctionWord
  <2>2. c \in Seq(Bit) /\ Len(c) \in Nat
    BY <1>1, CountWord
  <2> QED BY <2>1, <2>2 DEF Place
<1>3. /\ Reads(bits, p.at, u) /\ Reads(bits, p.at + Len(u), c) /\ p.at + Len(u) \in Nat
      /\ (p.at + Len(u)) + Len(c) = q.at
  <2> HIDE DEF c, u
  <2>1. w = Two(u, c)
    BY <1>1 DEF c, u
  <2>2. Len(w) = Len(u) + Len(c)
    BY <1>2, <2>1, TwoWords
  <2>3. Reads(bits, p.at, u) /\ Reads(bits, p.at + Len(u), c)
    BY <1>2, <2>1, ReadsTwo
  <2> QED BY <1>2, <2>2, <2>3
<1>4. /\ Token.kind = "symbol" /\ Token.h = SET1B /\ Token.v = 9
      /\ Token.next = p.at + Len(u) /\ bit_no < Len(bits)
  BY <1>3, FunctionAt
<1>5. readCount(Token.next) = [count |-> n - 4, next |-> q.at]
  BY <1>1, <1>3, <1>4, CountRead
<1>6. CopyRepeat
  <2>1. IsFunction(9) /\ ~IsFunction(8) /\ ~(bit_no >= Len(bits))
    <3>1. bit_no \in Nat /\ Len(bits) \in Nat
      BY DEF StandsAt, Place
    <3> QED BY <1>4, <3>1 DEF IsFunction
  <2> QED BY <1>4, <2>1, OnlySymbol
<1> DEFINE r == Copy(out, Len(out) - 1, 1)[1]  x == [k \in 1 .. n |-> r]
<1>7. /\ out \in Seq(0 .. 127) /\ Len(out) = p.l /\ p.l \in Nat /\ p.l >= 1
      /\ dstate = SetOf(p.state) /\ is_all_upper = p.upper
  BY <1>1 DEF StandsAt, Place
<1>8. r = out[p.l] /\ r \in 0 .. 127
  <2>1. (Len(out) - 1) + 1 = p.l /\ p.l \in 1 .. Len(out)
    BY <1>7
  <2>2. r = out[p.l]
    BY <2>1 DEF Copy
  <2>3. out[p.l] \in 0 .. 127
    BY <1>7, <2>1, ElementOf
  <2> QED BY <2>2, <2>3
<1>9. /\ out' = out \o x /\ bit_no' = q.at /\ dstate' = dstate /\ is_all_upper' = is_all_upper
      /\ UnchangedInDecompress /\ text' = text
  <2>1. (n - 4) + 4 = n
    OBVIOUS
  <2>2. /\ out' = out \o [k \in 1 .. (n - 4) + 4 |-> r] /\ bit_no' = q.at
        /\ dstate' = dstate /\ is_all_upper' = is_all_upper /\ UnchangedInDecompress
    BY <1>5, <1>6 DEF CopyRepeat
  <2> QED BY <2>1, <2>2 DEF UnchangedInDecompress, call
<1> HIDE DEF r
<1>10. x \in Seq(0 .. 127) /\ Len(x) = n /\ \A k \in 1 .. n : x[k] = r
  BY <1>8
<1> HIDE DEF x
<1>11. q.l = p.l + Len(x) /\ dstate' = SetOf(q.state) /\ is_all_upper' = q.upper
  BY <1>1, <1>7, <1>9, <1>10 DEF Stays
<1>12. ASSUME ~DelayedRun(text), NEW k \in 1 .. Len(x) PROVE x[k] = text[p.l + k]
  <2>1. x[k] = out[p.l] /\ text[p.l + k] = text[p.l]
    BY <1>1, <1>8, <1>10, <1>12
  <2>2. p.l \in 1 .. p.l
    BY <1>7
  <2>3. out[p.l] = text[p.l]
    BY <1>12, <2>2 DEF StandsAt
  <2> QED BY <2>1, <2>3
<1>13. StandsAt(q)'
  BY <1>9, <1>10, <1>11, <1>12, OutOn
<1> QED BY <1>9, <1>13

\* The words of the two copies.
LEMMA CopyWord ==
    ASSUME NEW x \in Bit
    PROVE  /\ Two(Word(2, 8), <<x>>) \in Seq(Bit)
           /\ Len(Two(Word(2, 8), <<x>>)) = Len(Word(2, 8)) + 1
           /\ Len(Two(Word(2, 8), <<x>>)) \in Nat \ {0}
<1>1. Word(2, 8) \in Seq(Bit) /\ Len(Word(2, 8)) \in Nat \ {0}
  BY FunctionWord
<1>2. <<x>> \in Seq(Bit) /\ Len(<<x>>) = 1
  OBVIOUS
<1>3. /\ Two(Word(2, 8), <<x>>) \in Seq(Bit)
      /\ Len(Two(Word(2, 8), <<x>>)) = Len(Word(2, 8)) + Len(<<x>>)
  BY <1>1, <1>2, TwoWords
<1> QED BY <1>1, <1>2, <1>3

\* A copy is read where its word is, and which one.
LEMMA CopyAt ==
    ASSUME bits \in Seq(Bit), NEW p \in Place, StandsAt(p), NEW x \in Bit,
           Reads(bits, p.at, Two(Word(2, 8), <<x>>))
    PROVE  /\ Token.kind = "symbol" /\ IsFunction(8) /\ ~IsFunction(9)
           /\ Token.next + 1 = p.at + Len(Two(Word(2, 8), <<x>>))
           /\ IsWithin <=> x = 1
           /\ ~(bit_no >= Len(bits)) /\ bit_no < Len(bits)
<1> DEFINE u == Word(2, 8)
<1>1. /\ p.at \in Nat /\ bit_no = p.at /\ u \in Seq(Bit) /\ Len(u) \in Nat /\ Len(bits) \in Nat
      /\ <<x>> \in Seq(Bit)
  <2>1. u \in Seq(Bit) /\ Len(u) \in Nat
    BY FunctionWord
  <2> QED BY <2>1 DEF StandsAt, Place
<1>2. Reads(bits, p.at, u) /\ Reads(bits, p.at + Len(u), <<x>>)
  <2> HIDE DEF u
  <2>1. Reads(bits, p.at, Two(u, <<x>>))
    BY DEF u
  <2> QED BY <1>1, <2>1, ReadsTwo
<1>3. /\ Token.kind = "symbol" /\ Token.h = SET1B /\ Token.v = 8
      /\ Token.next = p.at + Len(u) /\ bit_no < Len(bits)
  BY <1>2, FunctionAt
<1>4. Token.next < Len(bits) /\ bits[Token.next + 1] = x
  <2>1. p.at + Len(u) + 1 <= Len(bits) /\ bits[(p.at + Len(u)) + 1] = x
    <3>1. Len(<<x>>) = 1 /\ 1 \in 1 .. 1 /\ <<x>>[1] = x
      OBVIOUS
    <3> QED BY <1>2, <3>1 DEF Reads
  <2> HIDE DEF u
  <2> QED BY <1>1, <1>3, <2>1
<1>5. IsWithin <=> x = 1
  BY <1>4 DEF IsWithin
<1>6. Token.next + 1 = p.at + Len(Two(u, <<x>>))
  <2>1. Len(Two(u, <<x>>)) = Len(u) + 1
    BY CopyWord
  <2> HIDE DEF u
  <2> QED BY <1>1, <1>3, <2>1
<1>7. IsFunction(8) /\ ~IsFunction(9)
  BY <1>3 DEF IsFunction
<1>8. ~(bit_no >= Len(bits))
  BY <1>1, <1>3
<1> QED BY <1>3, <1>5, <1>6, <1>7, <1>8

\* A copy of what lies within the sequence.
LEMMA CopyOf ==
    ASSUME NEW s \in Seq(0 .. 127), NEW j \in Nat, NEW n \in Nat, j + n <= Len(s)
    PROVE  /\ Copy(s, j, n) \in Seq(0 .. 127) /\ Len(Copy(s, j, n)) = n
           /\ \A k \in 1 .. n : Copy(s, j, n)[k] = s[j + k]
<1>1. ASSUME NEW k \in 1 .. n PROVE j + k \in 1 .. Len(s) /\ s[j + k] \in 0 .. 127
  <2>1. j + k \in 1 .. Len(s)
    OBVIOUS
  <2> QED BY <2>1, ElementOf
<1>2. Copy(s, j, n) = [k \in 1 .. n |-> s[j + k]]
  BY <1>1 DEF Copy
<1>3. [k \in 1 .. n |-> s[j + k]] \in Seq(0 .. 127) /\ Len([k \in 1 .. n |-> s[j + k]]) = n
  <2>1. PICK S : S = 0 .. 127
    OBVIOUS
  <2>2. \A k \in 1 .. n : s[j + k] \in S
    BY <1>1, <2>1
  <2>3. [k \in 1 .. n |-> s[j + k]] \in Seq(S) /\ Len([k \in 1 .. n |-> s[j + k]]) = n
    BY <2>2
  <2> QED BY <2>1, <2>3
<1> QED BY <1>2, <1>3

\* The pass of a repetition within the text.
LEMMA WithinPass ==
    ASSUME bits \in Seq(Bit), text \in Seq(0 .. 127), NEW p \in Place, NEW q \in Place, NEW w,
           StandsAt(p), Within(text, p, q, w), Reads(bits, p.at, w),
           q.at = p.at + Len(w), q.l <= Length, DecompressPass
    PROVE  StandsAt(q)' /\ UnchangedInDecompress
<1>1. PICK n \in Nat \ {0}, j \in Nat :
        /\ n - NICE_LEN_FOR_PRIOR \in 0 .. MaxCount
        /\ p.l - j - NICE_LEN_FOR_PRIOR + 1 \in 0 .. MaxCount
        /\ w = Two(Two(Word(2, 8), <<1>>),
                   Two(encodeCount(n - NICE_LEN_FOR_PRIOR),
                       encodeCount(p.l - j - NICE_LEN_FOR_PRIOR + 1)))
        /\ Stays(p, q, n)
        /\ j + n <= p.l
        /\ \A k \in 1 .. n : text[j + k] = text[p.l + k]
  BY DEF Within
<1> DEFINE m == n - NICE_LEN_FOR_PRIOR  d == p.l - j - NICE_LEN_FOR_PRIOR + 1
           u == Two(Word(2, 8), <<1>>)  c == encodeCount(m)  e == encodeCount(d)
<1>2. /\ u \in Seq(Bit) /\ c \in Seq(Bit) /\ e \in Seq(Bit)
      /\ Len(u) \in Nat /\ Len(c) \in Nat /\ Len(e) \in Nat
  <2>1. u \in Seq(Bit) /\ Len(u) \in Nat
    BY CopyWord DEF Bit
  <2>2. c \in Seq(Bit) /\ Len(c) \in Nat /\ e \in Seq(Bit) /\ Len(e) \in Nat
    <3> HIDE DEF m, d
    <3>1. m \in 0 .. MaxCount /\ d \in 0 .. MaxCount
      BY <1>1 DEF m, d
    <3> QED BY <3>1, CountWord
  <2> QED BY <2>1, <2>2
<1>3. /\ p.at \in Nat /\ p.l \in Nat /\ bit_no = p.at /\ out \in Seq(0 .. 127) /\ Len(out) = p.l
      /\ dstate = SetOf(p.state) /\ is_all_upper = p.upper
  BY DEF StandsAt, Place
<1>4. /\ Reads(bits, p.at, u) /\ Reads(bits, p.at + Len(u), c)
      /\ Reads(bits, (p.at + Len(u)) + Len(c), e)
      /\ p.at + Len(u) \in Nat /\ (p.at + Len(u)) + Len(c) \in Nat
      /\ ((p.at + Len(u)) + Len(c)) + Len(e) = q.at
  <2>1. w = Two(u, Two(c, e))
    BY <1>1
  <2> HIDE DEF u, c, e
  <2>2. Two(c, e) \in Seq(Bit) /\ Len(Two(c, e)) = Len(c) + Len(e)
    BY <1>2, TwoWords
  <2>3. Len(w) = Len(u) + Len(Two(c, e))
    BY <1>2, <2>1, <2>2, TwoWords
  <2>4. Reads(bits, p.at, u) /\ Reads(bits, p.at + Len(u), Two(c, e)) /\ p.at + Len(u) \in Nat
    BY <1>2, <1>3, <2>1, <2>2, ReadsTwo
  <2>5. Reads(bits, p.at + Len(u), c) /\ Reads(bits, (p.at + Len(u)) + Len(c), e)
    BY <1>2, <2>4, ReadsTwo
  <2> QED BY <1>2, <1>3, <2>2, <2>3, <2>4, <2>5
<1>5. /\ Token.kind = "symbol" /\ IsFunction(8) /\ ~IsFunction(9)
      /\ Token.next + 1 = p.at + Len(u) /\ IsWithin
      /\ ~(bit_no >= Len(bits)) /\ bit_no < Len(bits)
  <2>1. 1 \in Bit
    BY DEF Bit
  <2> QED BY <1>4, <2>1, CopyAt
<1>6. readCount(Token.next + 1) = [count |-> m, next |-> (p.at + Len(u)) + Len(c)]
  <2>1. m \in 0 .. MaxCount
    BY <1>1
  <2> HIDE DEF m, u
  <2> QED BY <1>4, <1>5, <2>1, CountRead
<1>7. readCount((p.at + Len(u)) + Len(c)) = [count |-> d, next |-> q.at]
  <2>1. d \in 0 .. MaxCount
    BY <1>1
  <2> HIDE DEF d, u, c
  <2> QED BY <1>4, <2>1, CountRead
<1>8. CopyWithin
  BY <1>5, OnlySymbol
<1> DEFINE x == Copy(out, j, n)
<1>9. /\ out' = out \o x /\ bit_no' = q.at /\ dstate' = dstate /\ is_all_upper' = is_all_upper
      /\ UnchangedInDecompress /\ text' = text
  <2>1. /\ out' = out \o Copy(out, Len(out) - Distance(d), m + NICE_LEN_FOR_PRIOR)
        /\ bit_no' = q.at /\ dstate' = dstate /\ is_all_upper' = is_all_upper
        /\ UnchangedInDecompress
    <3> DEFINE a == readCount(Token.next + 1)  b == readCount(a.next)
    <3>1. a.count = m /\ b.count = d /\ b.next = q.at
      <4> HIDE DEF m, d, u, c, e
      <4> QED BY <1>6, <1>7
    <3>2. /\ out' = out \o Copy(out, Len(out) - Distance(b.count), a.count + NICE_LEN_FOR_PRIOR)
          /\ bit_no' = b.next /\ dstate' = dstate /\ is_all_upper' = is_all_upper
          /\ UnchangedInDecompress
      BY <1>8 DEF CopyWithin
    <3> HIDE DEF a, b, m, d
    <3> QED BY <3>1, <3>2
  <2>2. Len(out) - Distance(d) = j /\ m + NICE_LEN_FOR_PRIOR = n
    <3>1. NICE_LEN_FOR_PRIOR \in Nat
      BY NiceLenAssumption
    <3>2. Distance(d) = d + NICE_LEN_FOR_PRIOR - 1
      BY DEF Distance
    <3>3. Distance(d) = p.l - j
      <4>1. p.l \in Nat /\ j \in Nat /\ d = p.l - j - NICE_LEN_FOR_PRIOR + 1
        BY <1>1, <1>3
      <4> HIDE DEF d
      <4> QED BY <3>1, <3>2, <4>1
    <3>4. Len(out) - Distance(d) = j
      BY <1>1, <1>3, <3>3
    <3> QED BY <1>1, <3>1, <3>4
  <2> HIDE DEF m, d
  <2> QED BY <2>1, <2>2 DEF UnchangedInDecompress, call
<1>10. /\ x \in Seq(0 .. 127) /\ Len(x) = n /\ \A k \in 1 .. n : x[k] = out[j + k]
  BY <1>1, <1>3, CopyOf
<1> HIDE DEF x
<1>11. q.l = p.l + Len(x) /\ dstate' = SetOf(q.state) /\ is_all_upper' = q.upper
  BY <1>1, <1>3, <1>9, <1>10 DEF Stays
<1>12. ASSUME ~DelayedRun(text), NEW k \in 1 .. Len(x) PROVE x[k] = text[p.l + k]
  <2>1. k \in 1 .. n /\ j + k \in 1 .. p.l
    BY <1>1, <1>3, <1>10
  <2>2. out[j + k] = text[j + k]
    BY <1>12, <2>1 DEF StandsAt
  <2> QED BY <1>1, <1>10, <2>1, <2>2
<1>13. StandsAt(q)'
  BY <1>9, <1>10, <1>11, <1>12, OutOn
<1> QED BY <1>9, <1>13

\* Four words stand at a position, one after the other.
FourWords(b, at, u, c, d, e, w) ==
    /\ Reads(b, at, u) /\ Reads(b, at + Len(u), c)
    /\ Reads(b, (at + Len(u)) + Len(c), d)
    /\ Reads(b, ((at + Len(u)) + Len(c)) + Len(d), e)
    /\ at + Len(u) \in Nat /\ (at + Len(u)) + Len(c) \in Nat
    /\ ((at + Len(u)) + Len(c)) + Len(d) \in Nat
    /\ (((at + Len(u)) + Len(c)) + Len(d)) + Len(e) = at + Len(w)

\* Four words are read one after the other.
LEMMA ReadsFour ==
    ASSUME NEW b \in Seq(Bit), NEW u \in Seq(Bit), NEW c \in Seq(Bit), NEW d \in Seq(Bit),
           NEW e \in Seq(Bit), NEW at \in Nat, NEW w, w = Two(u, Two(c, Two(d, e))),
           Reads(b, at, w)
    PROVE  FourWords(b, at, u, c, d, e, w)
<1>1. Len(u) \in Nat /\ Len(c) \in Nat /\ Len(d) \in Nat /\ Len(e) \in Nat
  OBVIOUS
<1>2. Reads(b, at, Two(u, Two(c, Two(d, e))))
  OBVIOUS
<1>3. Two(d, e) \in Seq(Bit) /\ Len(Two(d, e)) = Len(d) + Len(e)
  BY <1>1, TwoWords
<1>4. Two(c, Two(d, e)) \in Seq(Bit) /\ Len(Two(c, Two(d, e))) = Len(c) + Len(Two(d, e))
  BY <1>1, <1>3, TwoWords
<1>5. Len(w) = Len(u) + Len(Two(c, Two(d, e)))
  BY <1>1, <1>2, <1>4, TwoWords
<1>6. /\ Reads(b, at, u) /\ Reads(b, at + Len(u), Two(c, Two(d, e)))
      /\ at + Len(u) \in Nat
  BY <1>1, <1>2, <1>4, ReadsTwo
<1>7. at + Len(u) \in Nat /\ (at + Len(u)) + Len(c) \in Nat
  BY <1>1, <1>3
<1>8. Reads(b, at + Len(u), c) /\ Reads(b, (at + Len(u)) + Len(c), Two(d, e))
  BY <1>1, <1>3, <1>6, <1>7, ReadsTwo
<1>9. /\ Reads(b, (at + Len(u)) + Len(c), d)
      /\ Reads(b, ((at + Len(u)) + Len(c)) + Len(d), e)
  BY <1>1, <1>8, <1>7, ReadsTwo
<1>10. ((at + Len(u)) + Len(c)) + Len(d) \in Nat
  BY <1>1, <1>7
<1>11. (((at + Len(u)) + Len(c)) + Len(d)) + Len(e) = at + Len(w)
  BY <1>1, <1>3, <1>4, <1>5
<1> QED BY <1>6, <1>7, <1>8, <1>9, <1>10, <1>11 DEF FourWords

\* The pass of a repetition of an earlier line.
LEMMA EarlierPass ==
    ASSUME bits \in Seq(Bit), text \in Seq(0 .. 127), Len(prev_lines) \in Nat,
           \A i \in 1 .. Len(prev_lines) : prev_lines[i] \in Seq(0 .. 127),
           NEW p \in Place, NEW q \in Place, NEW w,
           StandsAt(p), Earlier(text, prev_lines, p, q, w), Reads(bits, p.at, w),
           q.at = p.at + Len(w), q.l <= Length, DecompressPass
    PROVE  StandsAt(q)' /\ UnchangedInDecompress
<1>1. PICK n \in Nat \ {0}, j \in Nat, i \in 1 .. Len(prev_lines) :
        /\ n - NICE_LEN_FOR_OTHER \in 0 .. MaxCount
        /\ j \in 0 .. MaxCount /\ i - 1 \in 0 .. MaxCount
        /\ w = Two(Two(Word(2, 8), <<0>>),
                   Two(encodeCount(n - NICE_LEN_FOR_OTHER),
                       Two(encodeCount(j), encodeCount(i - 1))))
        /\ Stays(p, q, n)
        /\ j + n <= Len(prev_lines[i])
        /\ \A k \in 1 .. n : prev_lines[i][j + k] = text[p.l + k]
  BY DEF Earlier
<1> DEFINE m == n - NICE_LEN_FOR_OTHER  h == i - 1
           u == Two(Word(2, 8), <<0>>)  c == encodeCount(m)  d == encodeCount(j)
           e == encodeCount(h)
<1>2. /\ u \in Seq(Bit) /\ c \in Seq(Bit) /\ d \in Seq(Bit) /\ e \in Seq(Bit)
      /\ Len(u) \in Nat /\ Len(c) \in Nat /\ Len(d) \in Nat /\ Len(e) \in Nat
  <2>1. u \in Seq(Bit) /\ Len(u) \in Nat
    BY CopyWord DEF Bit
  <2>2. /\ c \in Seq(Bit) /\ Len(c) \in Nat /\ d \in Seq(Bit) /\ Len(d) \in Nat
        /\ e \in Seq(Bit) /\ Len(e) \in Nat
    <3> HIDE DEF m, h
    <3>1. m \in 0 .. MaxCount /\ j \in 0 .. MaxCount /\ h \in 0 .. MaxCount
      BY <1>1 DEF m, h
    <3> QED BY <3>1, CountWord
  <2> QED BY <2>1, <2>2
<1>3. /\ p.at \in Nat /\ p.l \in Nat /\ bit_no = p.at /\ out \in Seq(0 .. 127) /\ Len(out) = p.l
      /\ dstate = SetOf(p.state) /\ is_all_upper = p.upper
  BY DEF StandsAt, Place
<1>4. /\ Reads(bits, p.at, u) /\ Reads(bits, p.at + Len(u), c)
      /\ Reads(bits, (p.at + Len(u)) + Len(c), d)
      /\ Reads(bits, ((p.at + Len(u)) + Len(c)) + Len(d), e)
      /\ p.at + Len(u) \in Nat /\ (p.at + Len(u)) + Len(c) \in Nat
      /\ ((p.at + Len(u)) + Len(c)) + Len(d) \in Nat
      /\ (((p.at + Len(u)) + Len(c)) + Len(d)) + Len(e) = q.at
  <2>1. w = Two(u, Two(c, Two(d, e)))
    BY <1>1
  <2> HIDE DEF u, c, d, e
  <2>2. u \in Seq(Bit) /\ c \in Seq(Bit) /\ d \in Seq(Bit) /\ e \in Seq(Bit) /\ p.at \in Nat
    BY <1>2, <1>3
  <2>3. FourWords(bits, p.at, u, c, d, e, w)
    BY <2>1, <2>2, ReadsFour
  <2>4. q.at = p.at + Len(w)
    OBVIOUS
  <2> QED BY <2>3, <2>4 DEF FourWords
<1>5. /\ Token.kind = "symbol" /\ IsFunction(8) /\ ~IsFunction(9)
      /\ Token.next + 1 = p.at + Len(u) /\ ~IsWithin
      /\ ~(bit_no >= Len(bits)) /\ bit_no < Len(bits)
  <2>1. 0 \in Bit /\ 0 # 1
    BY DEF Bit
  <2> QED BY <1>4, <2>1, CopyAt
<1>6. readCount(Token.next + 1) = [count |-> m, next |-> (p.at + Len(u)) + Len(c)]
  <2>1. m \in 0 .. MaxCount
    BY <1>1
  <2> HIDE DEF m, u
  <2> QED BY <1>4, <1>5, <2>1, CountRead
<1>7. readCount((p.at + Len(u)) + Len(c)) =
          [count |-> j, next |-> ((p.at + Len(u)) + Len(c)) + Len(d)]
  <2>1. j \in 0 .. MaxCount
    BY <1>1
  <2> HIDE DEF u, c
  <2> QED BY <1>4, <2>1, CountRead
<1>8. readCount(((p.at + Len(u)) + Len(c)) + Len(d)) = [count |-> h, next |-> q.at]
  <2>1. h \in 0 .. MaxCount
    BY <1>1
  <2> HIDE DEF h, u, c, d
  <2> QED BY <1>4, <2>1, CountRead
<1>9. CopyEarlier
  BY <1>5, OnlySymbol
<1>10. prev_lines[i] \in Seq(0 .. 127)
  OBVIOUS
<1> DEFINE x == Copy(prev_lines[i], j, n)
<1>11. /\ out' = out \o x /\ bit_no' = q.at /\ dstate' = dstate /\ is_all_upper' = is_all_upper
       /\ UnchangedInDecompress /\ text' = text
  <2> DEFINE a == readCount(Token.next + 1)  b == readCount(a.next)  g == readCount(b.next)
             line == IF g.count < Len(prev_lines) THEN prev_lines[g.count + 1] ELSE << >>
  <2>1. a.count = m /\ b.count = j /\ g.count = h /\ g.next = q.at
    <3> HIDE DEF m, h, u, c, d, e
    <3> QED BY <1>6, <1>7, <1>8
  <2>2. /\ out' = out \o Copy(line, b.count, a.count + NICE_LEN_FOR_OTHER)
        /\ bit_no' = g.next /\ dstate' = dstate /\ is_all_upper' = is_all_upper
        /\ UnchangedInDecompress
    BY <1>9 DEF CopyEarlier
  <2>3. h + 1 = i /\ h < Len(prev_lines) /\ m + NICE_LEN_FOR_OTHER = n
    <3>1. NICE_LEN_FOR_OTHER \in Nat
      BY NiceLenAssumption
    <3> QED BY <1>1, <3>1
  <2> HIDE DEF a, b, g, m, h
  <2>4. line = prev_lines[i]
    BY <2>1, <2>3
  <2> HIDE DEF line
  <2> QED BY <2>1, <2>2, <2>3, <2>4 DEF UnchangedInDecompress, call
<1>12. /\ x \in Seq(0 .. 127) /\ Len(x) = n /\ \A k \in 1 .. n : x[k] = prev_lines[i][j + k]
  <2> DEFINE s == prev_lines[i]
  <2>1. s \in Seq(0 .. 127) /\ j + n <= Len(s) /\ n \in Nat
    BY <1>1, <1>10
  <2> HIDE DEF s
  <2>2. /\ Copy(s, j, n) \in Seq(0 .. 127) /\ Len(Copy(s, j, n)) = n
        /\ \A k \in 1 .. n : Copy(s, j, n)[k] = s[j + k]
    BY <1>1, <2>1, CopyOf
  <2> QED BY <2>2 DEF s
<1> HIDE DEF x
<1>13. q.l = p.l + Len(x) /\ dstate' = SetOf(q.state) /\ is_all_upper' = q.upper
  BY <1>1, <1>3, <1>11, <1>12 DEF Stays
<1>14. \A k \in 1 .. Len(x) : x[k] = text[p.l + k]
  BY <1>1, <1>12
<1>15. StandsAt(q)'
  BY <1>11, <1>12, <1>13, <1>14, OutOn
<1> QED BY <1>11, <1>15

\* A pass over the bits is one of the decompressor.
LEMMA PassTaken ==
    ASSUME bits \in Seq(Bit), text \in Seq(0 .. 127), Len(prev_lines) \in Nat,
           \A i \in 1 .. Len(prev_lines) : prev_lines[i] \in Seq(0 .. 127),
           NEW p \in Place, NEW q \in Place, StandsAt(p), Pass(bits, text, prev_lines, p, q),
           q.l <= Length, DecompressPass
    PROVE  StandsAt(q)' /\ UnchangedInDecompress /\ q.at > p.at
<1>1. PICK w \in Seq(Bit) : /\ Len(w) > 0 /\ Reads(bits, p.at, w) /\ q.at = p.at + Len(w)
                            /\ Means(text, prev_lines, p, q, w)
  BY DEF Pass
<1>2. Len(w) \in Nat \ {0} /\ p.at \in Nat
  <2>1. Len(w) \in Nat
    OBVIOUS
  <2> QED BY <1>1, <2>1 DEF Place
<1>3. q.at > p.at
  BY <1>1, <1>2
<1>4. CASE Switch(p, q, w)
  BY <1>1, <1>2, <1>3, <1>4, SwitchPass
<1>5. CASE Element(text, p, q, w)
  BY <1>1, <1>2, <1>3, <1>5, ElementPass
<1>6. CASE Repetition(text, p, q, w)
  BY <1>1, <1>3, <1>6, RepetitionPass
<1>7. CASE Within(text, p, q, w)
  BY <1>1, <1>3, <1>7, WithinPass
<1>8. CASE Earlier(text, prev_lines, p, q, w)
  BY <1>1, <1>3, <1>8, EarlierPass
<1> QED BY <1>1, <1>4, <1>5, <1>6, <1>7, <1>8 DEF Means

\* No codeword is found that would end behind the blob, nor one that is not read.
LEMMA NotFound ==
    ASSUME bits \in Seq(Bit), NEW at \in Nat,
           NEW table \in {vcode, hcode}, \A i \in 1 .. Len(table) : ~Reads(bits, at, table[i])
    PROVE  getCodeIdx(table, at).idx = End
<1>1. {i \in 1 .. Len(table) : /\ at + Len(table[i]) <= Len(bits)
                               /\ \A k \in 1 .. Len(table[i]) : bits[at + k] = table[i][k]} = {}
  BY DEF Reads
<1> QED BY <1>1 DEF getCodeIdx

\* The bits that fill up the last byte.
Filling(c, at, n) ==
    /\ n >= 1 => c[at + 1] = 0
    /\ n >= 2 => c[at + 2] = 0
    /\ n >= 3 => c[at + 3] = 1
    /\ n >= 4 => c[at + 4] = 1
    /\ n >= 5 => c[at + 5] = 0
    /\ n >= 6 => c[at + 6] = 1
    /\ n >= 7 => c[at + 7] = 1

\* The head of the code for nothing.
FillingWord(n) == Bits(14272, n)

\* Its bits, written out.
LEMMA FillingBits ==
    ASSUME NEW b \in Seq(Bit), NEW c \in Seq(Bit), NEW n \in 0 .. 7, c = b \o FillingWord(n)
    PROVE  /\ Len(c) = Len(b) + n
           /\ Filling(c, Len(b), n)
<1> DEFINE m == Len(b)  x(k) == c[m + k]
<1>1. m \in Nat /\ Len(c) = m + n /\ n \in {0, 1, 2, 3, 4, 5, 6, 7}
  BY DEF Bits, FillingWord
<1> DEFINE f(k) == (14272 \div 2 ^ (16 - k)) % 2
<1>2. f(1) = 0 /\ f(2) = 0 /\ f(3) = 1 /\ f(4) = 1 /\ f(5) = 0 /\ f(6) = 1 /\ f(7) = 1
  BY SMT
<1>3. \A k \in 1 .. n : x(k) = f(k)
  <2>1. FillingWord(n) = [k \in 1 .. n |-> f(k)]
    BY DEF Bits, FillingWord
  <2> HIDE DEF f
  <2> QED BY <1>1, <2>1
<1> HIDE DEF f, x
<1>4. /\ n >= 1 => x(1) = 0
      /\ n >= 2 => x(2) = 0
      /\ n >= 3 => x(3) = 1
      /\ n >= 4 => x(4) = 1
      /\ n >= 5 => x(5) = 0
      /\ n >= 6 => x(6) = 1
      /\ n >= 7 => x(7) = 1
  BY <1>1, <1>2, <1>3
<1> QED BY <1>1, <1>4 DEF x, Filling

\* No codeword is found in the last bit, nor in the last two if they are not 0 0.
LEMMA NothingLeft ==
    ASSUME bits \in Seq(Bit), NEW at \in Nat,
           at + 1 >= Len(bits) \/ (at + 2 >= Len(bits) /\ bits[at + 1] = 1)
    PROVE  getCodeIdx(vcode, at).idx = End
<1> DEFINE Is(k) == Reads(bits, at, vcode[k])
<1>1. /\ Is(1) => at + 2 <= Len(bits) /\ bits[at + 1] = 0
      /\ Is(2) => at + 3 <= Len(bits)
      /\ Is(3) => at + 3 <= Len(bits)
      /\ Is(4) => at + 3 <= Len(bits)
      /\ Is(5) => at + 4 <= Len(bits)
      /\ Is(6) => at + 4 <= Len(bits)
      /\ Is(7) => at + 4 <= Len(bits)
      /\ Is(8) => at + 4 <= Len(bits)
      /\ Is(9) => at + 4 <= Len(bits)
      /\ Is(10) => at + 5 <= Len(bits)
      /\ Is(11) => at + 5 <= Len(bits)
  BY VRead
<1> HIDE DEF Is
<1>2. Len(bits) \in Nat
  OBVIOUS
<1>3. /\ ~Is(1) /\ ~Is(2) /\ ~Is(3) /\ ~Is(4) /\ ~Is(5) /\ ~Is(6) /\ ~Is(7) /\ ~Is(8)
      /\ ~Is(9) /\ ~Is(10) /\ ~Is(11)
  BY <1>1, <1>2
<1>4. \A i \in 1 .. 11 : ~Is(i)
  BY <1>3
<1>5. \A i \in 1 .. 11 : ~Reads(bits, at, vcode[i])
  BY <1>4 DEF Is
<1> QED BY <1>5, NotFound, VWords

\* They stand for nothing.
LEMMA FillingIsEnd ==
    ASSUME bits \in Seq(Bit), bit_no \in Nat, NEW n \in 1 .. 7, Len(bits) = bit_no + n,
           Filling(bits, bit_no, n)
    PROVE  Token.kind = "end"
<1>1. CASE n = 1
  <2>1. getCodeIdx(vcode, bit_no).idx = End
    <3>1. bit_no + 1 >= Len(bits) \/ (bit_no + 2 >= Len(bits) /\ bits[bit_no + 1] = 1)
      BY <1>1
    <3> QED BY <3>1, NothingLeft
  <2> QED BY <2>1 DEF Token, Symbol, End
<1>2. ASSUME n >= 2 PROVE Finds(vcode, bit_no, 0, bit_no + 2)
  <2>1. bit_no + 2 <= Len(bits) /\ bits[bit_no + 1] = 0 /\ bits[bit_no + 2] = 0
    BY <1>2 DEF Filling
  <2>2. Reads(bits, bit_no, vcode[1])
    BY <2>1, VRead
  <2>3. 0 \in 0 .. 10 /\ 0 + 1 = 1
    OBVIOUS
  <2> QED BY <2>2, <2>3, FoundV, SwitchWords
<1>3. CASE n \in 2 .. 4
  <2>1. \A i \in 1 .. 7 : ~Reads(bits, bit_no + 2, hcode[i])
    <3> DEFINE Is(k) == Reads(bits, bit_no + 2, hcode[k])
               x(k) == bits[(bit_no + 2) + k]
    <3>1. bit_no + 2 \in Nat
      OBVIOUS
    <3>2. /\ Is(1) => (bit_no + 2) + 2 <= Len(bits) /\ x(1) = 1 /\ x(2) = 0
          /\ Is(2) => (bit_no + 2) + 1 <= Len(bits) /\ x(1) = 0
          /\ Is(3) => (bit_no + 2) + 3 <= Len(bits)
          /\ Is(4) => (bit_no + 2) + 5 <= Len(bits)
          /\ Is(5) => (bit_no + 2) + 5 <= Len(bits)
          /\ Is(6) => (bit_no + 2) + 5 <= Len(bits)
          /\ Is(7) => (bit_no + 2) + 5 <= Len(bits)
      BY <3>1, HRead
    <3>3. (n >= 3 => x(1) = 1) /\ (n >= 4 => x(2) = 1)
      BY DEF Filling
    <3> HIDE DEF Is, x
    <3>4. ~Is(1) /\ ~Is(2) /\ ~Is(3) /\ ~Is(4) /\ ~Is(5) /\ ~Is(6) /\ ~Is(7)
      BY <1>3, <3>2, <3>3
    <3>5. \A i \in 1 .. 7 : ~Is(i)
      BY <3>4
    <3> QED BY <3>5 DEF Is
  <2>2. getCodeIdx(hcode, bit_no + 2).idx = End
    <3>1. bit_no + 2 \in Nat
      OBVIOUS
    <3> QED BY <2>1, <3>1, NotFound, HWords
  <2>3. Finds(vcode, bit_no, 0, bit_no + 2)
    BY <1>2, <1>3
  <2>4. End # SET1 /\ End # SET2
    BY DEF End, SET1, SET2
  <2>5. Token = Change("end", bit_no)
    BY <2>2, <2>3, <2>4 DEF Token, Finds
  <2> QED BY <2>5 DEF Change
<1>4. CASE n \in 5 .. 7
  <2>1. Finds(vcode, bit_no, 0, bit_no + 2)
    BY <1>2, <1>4
  <2>2. Finds(hcode, bit_no + 2, 2, bit_no + 5)
    <3>1. /\ (bit_no + 2) + 3 <= Len(bits) /\ bits[(bit_no + 2) + 1] = 1
          /\ bits[(bit_no + 2) + 2] = 1 /\ bits[(bit_no + 2) + 3] = 0
      BY <1>4 DEF Filling
    <3>2. bit_no + 2 \in Nat /\ 2 \in 0 .. 6 /\ 2 + 1 = 3 /\ (bit_no + 2) + 3 = bit_no + 5
      OBVIOUS
    <3>3. Reads(bits, bit_no + 2, hcode[3])
      BY <3>1, <3>2, HRead
    <3>4. Len(hcode[3]) = 3
      BY HWords
    <3> QED BY <3>2, <3>3, <3>4, FoundH
  <2>3. getCodeIdx(vcode, bit_no + 5).idx = End
    <3> DEFINE at == bit_no + 5
    <3>1. at \in Nat
      OBVIOUS
    <3>2. at + 1 >= Len(bits) \/ (at + 2 >= Len(bits) /\ bits[at + 1] = 1)
      BY <1>4 DEF Filling
    <3> HIDE DEF at
    <3>3. getCodeIdx(vcode, at).idx = End
      BY <3>1, <3>2, NothingLeft
    <3> QED BY <3>3 DEF at
  <2>4. Token = Symbol(2, getCodeIdx(vcode, bit_no + 5), is_all_upper)
    <3>1. 2 # End /\ 2 # SET1 /\ 2 # SET2
      BY DEF End, SET1, SET2
    <3> QED BY <2>1, <2>2, <3>1 DEF Token, Finds
  <2> QED BY <2>3, <2>4 DEF Symbol
<1> QED BY <1>1, <1>3, <1>4

------------------------------------------------------------------------------
(* A pass of the compressor.                                                *)

\* The text and the earlier lines are within the limits.
Limits ==
    /\ text \in Seq(0 .. 127) /\ Length \in Nat /\ Length <= MaxCount
    /\ \A k \in 1 .. Length : text[k] \in Characters
    /\ Len(prev_lines) \in Nat /\ Len(prev_lines) <= MaxCount
    /\ \A i \in 1 .. Len(prev_lines) :
           /\ prev_lines[i] \in Seq(1 .. 127) /\ Len(prev_lines[i]) \in Nat
           /\ Len(prev_lines[i]) <= MaxCount

\* The place behind the blob b.
PlaceOf(b, i, st, up) == [at |-> Len(b), l |-> i, state |-> st, upper |-> up]

\* c_prev is the character before l, or the one before that.
Previous(c, i, t) ==
    /\ i = 0 => c = 0
    /\ i > 0 => c = t[i] \/ (i >= 2 /\ c = t[i - 1])

\* What the compressor has written leads to where it stands.
Coding ==
    /\ bits \in Seq(Bit) /\ l \in 0 .. Length /\ c_prev \in 0 .. 127
    /\ state \in {1, 2} /\ is_all_upper \in BOOLEAN
    /\ state = 2 => is_all_upper = FALSE
    /\ Previous(c_prev, l, text)
    /\ LeadsTo(bits, text, prev_lines, PlaceOf(bits, l, state, is_all_upper))

\* A word that is appended leads on.
LEMMA PlaceOn ==
    ASSUME NEW b \in Seq(Bit), NEW w \in Seq(Bit), Len(w) > 0, NEW t, NEW lines,
           NEW i, NEW st, NEW up, NEW j \in Nat, NEW st2 \in {1, 2}, NEW up2 \in BOOLEAN,
           st2 = 2 => up2 = FALSE, j <= Len(t),
           LeadsTo(b, t, lines, PlaceOf(b, i, st, up)),
           Means(t, lines, PlaceOf(b, i, st, up), PlaceOf(b \o w, j, st2, up2), w)
    PROVE  LeadsTo(b \o w, t, lines, PlaceOf(b \o w, j, st2, up2))
<1> DEFINE e == PlaceOf(b, i, st, up)  q == PlaceOf(b \o w, j, st2, up2)
<1>1. Len(b \o w) = Len(b) + Len(w) /\ Len(b \o w) \in Nat
  OBVIOUS
<1>2. q \in Place /\ q.at = Len(b) + Len(w) /\ q.l = j
  BY <1>1 DEF PlaceOf, Place
<1> HIDE DEF e, q
<1>3. LeadsTo(b, t, lines, e) /\ Means(t, lines, e, q, w)
  BY DEF e, q
<1>4. q.l <= Len(t)
  BY <1>2
<1>5. LeadsTo(b \o w, t, lines, q)
  BY <1>2, <1>3, <1>4, PathOn
<1> QED BY <1>5 DEF q

\* Appending one word after the other appends them as one.
LEMMA Appended ==
    ASSUME NEW b \in Seq(Bit), NEW u \in Seq(Bit), NEW v \in Seq(Bit)
    PROVE  (b \o u) \o v = b \o Two(u, v)
<1>1. Two(u, v) = u \o v
  BY TwoIsConcatenation
<1>2. (b \o u) \o v = b \o (u \o v)
  OBVIOUS
<1> QED BY <1>1, <1>2

\* Three words joined, whichever two first.
LEMMA TwoAssociates ==
    ASSUME NEW u \in Seq(Bit), NEW v \in Seq(Bit), NEW w \in Seq(Bit)
    PROVE  Two(Two(u, v), w) = Two(u, Two(v, w))
<1>1. Two(u, v) = u \o v /\ Two(v, w) = v \o w
  BY TwoIsConcatenation
<1>2. u \o v \in Seq(Bit) /\ v \o w \in Seq(Bit)
  OBVIOUS
<1>3. Two(u \o v, w) = (u \o v) \o w /\ Two(u, v \o w) = u \o (v \o w)
  BY <1>2, TwoIsConcatenation
<1>4. (u \o v) \o w = u \o (v \o w)
  OBVIOUS
<1> QED BY <1>1, <1>3, <1>4

\* The largest count is a number.
LEMMA MaxCountIsNumber == MaxCount \in Nat
BY SMT DEF MaxCount

\* A repeat.
LEMMA RepeatCoded ==
    ASSUME Limits, Coding, Repeat
    PROVE  Coding' /\ l' > l
<1> DEFINE n == rpt_count  u == Word(2, 9)  c == encodeCount(n - 4)  w == Two(u, c)
<1>1. /\ text \in Seq(0 .. 127) /\ l \in 0 .. Length /\ Length \in Nat /\ Length <= MaxCount
      /\ bits \in Seq(Bit) /\ l \in Nat
  BY DEF Limits, Coding
<1>2. /\ n \in Nat /\ n >= 4 /\ l + n <= Length /\ \A k \in 1 .. n : text[l + k] = c_prev
  BY <1>1, RepeatFound DEF Repeat
<1>3. n - 4 \in 0 .. MaxCount
  <2> HIDE DEF n
  <2> QED BY <1>1, <1>2, MaxCountIsNumber
<1>4. u \in Seq(Bit) /\ Len(u) \in Nat \ {0} /\ c \in Seq(Bit) /\ Len(c) \in Nat
  <2>1. u \in Seq(Bit) /\ Len(u) \in Nat \ {0}
    BY FunctionWord
  <2>2. c \in Seq(Bit) /\ Len(c) \in Nat
    BY <1>3, CountWord
  <2> QED BY <2>1, <2>2
<1>5. w \in Seq(Bit) /\ Len(w) > 0
  <2> HIDE DEF u, c
  <2>1. Two(u, c) \in Seq(Bit) /\ Len(Two(u, c)) = Len(u) + Len(c)
    BY <1>4, TwoWords
  <2> QED BY <1>4, <2>1
<1>6. /\ bits' = bits \o w /\ l' = l + n /\ c_prev' = c_prev /\ state' = state
      /\ is_all_upper' = is_all_upper /\ text' = text /\ prev_lines' = prev_lines
  <2>1. bits' = (bits \o u) \o c
    <3>1. Bits(14208, 10) = u
      BY FixedCodes, SMT
    <3>2. bits' = (bits \o Bits(14208, 10)) \o c
      BY SMT DEF Repeat
    <3> HIDE DEF u, c
    <3> QED BY <3>1, <3>2, SMT
  <2>2. bits' = bits \o Two(u, c)
    <3> HIDE DEF u, c
    <3> QED BY <1>1, <1>4, <2>1, Appended
  <2>3. /\ l' = l + n /\ c_prev' = c_prev /\ state' = state
        /\ is_all_upper' = is_all_upper /\ text' = text /\ prev_lines' = prev_lines
    BY SMT DEF Repeat, UnchangedInCompress, call
  <2>4. bits' = bits \o w
    BY <2>2
  <2> HIDE DEF w, n
  <2> QED BY <2>3, <2>4
<1>7. l >= 1
  <2> SUFFICES ASSUME l = 0 PROVE FALSE
    BY <1>1
  <2>1. c_prev = 0
    BY DEF Coding, Previous
  <2>2. text[l + 1] = 0 /\ 1 \in 1 .. Length /\ l + 1 = 1
    BY <1>1, <1>2, <2>1
  <2>3. text[1] \in Characters
    BY <2>2 DEF Limits
  <2> QED BY <2>2, <2>3 DEF Characters, TAB, LF, CR
<1>8. ASSUME ~DelayedRun(text), NEW k \in 1 .. n PROVE text[l + k] = text[l]
  <2>1. c_prev = text[l] \/ (l >= 2 /\ c_prev = text[l - 1])
    BY <1>1, <1>7 DEF Coding, Previous
  <2>2. CASE l >= 2 /\ c_prev = text[l - 1] /\ c_prev # text[l]
    <3> DEFINE i == l - 1
    <3>1. i \in 1 .. Len(text) - 5
      BY <1>1, <1>2, <2>2 DEF Length
    <3>2. i + 1 = l /\ \A m \in 2 .. 5 : i + m = l + (m - 1) /\ m - 1 \in 1 .. n
      BY <1>1, <1>2
    <3>3. text[i + 1] # text[i] /\ \A m \in 2 .. 5 : text[i + m] = text[i]
      BY <1>2, <2>2, <3>2
    <3> HIDE DEF i
    <3> QED BY <1>8, <3>1, <3>3 DEF DelayedRun
  <2> QED BY <1>2, <2>1, <2>2
<1>9. Repetition(text, PlaceOf(bits, l, state, is_all_upper),
                 PlaceOf(bits \o w, l + n, state, is_all_upper), w)
  <2> HIDE DEF n
  <2>1. w = Two(Word(2, 9), encodeCount(n - 4))
    OBVIOUS
  <2> HIDE DEF w
  <2> QED BY <1>2, <1>3, <1>7, <1>8, <2>1 DEF Repetition, PlaceOf, Stays
<1>10. LeadsTo(bits \o w, text, prev_lines, PlaceOf(bits \o w, l + n, state, is_all_upper))
  <2>1. Means(text, prev_lines, PlaceOf(bits, l, state, is_all_upper),
              PlaceOf(bits \o w, l + n, state, is_all_upper), w)
    BY <1>9 DEF Means
  <2>2. l + n \in Nat /\ l + n <= Len(text)
    <3> HIDE DEF n
    <3> QED BY <1>1, <1>2 DEF Length
  <2>4. /\ state \in {1, 2} /\ is_all_upper \in BOOLEAN
        /\ state = 2 => is_all_upper = FALSE
    BY DEF Coding
  <2>3. LeadsTo(bits, text, prev_lines, PlaceOf(bits, l, state, is_all_upper))
    BY DEF Coding
  <2> HIDE DEF w, n
  <2> QED BY <1>1, <1>5, <2>1, <2>2, <2>3, <2>4, PlaceOn
<1>11. Previous(c_prev, l + n, text)
  <2>1. l + n > 0 /\ n \in 1 .. n
    BY <1>1, <1>2
  <2>2. text[l + n] = c_prev
    BY <1>2, <2>1
  <2> QED BY <1>1, <1>2, <2>1, <2>2 DEF Previous
<1>12. bits \o w \in Seq(Bit) /\ l + n \in 0 .. Length
  <2> HIDE DEF w
  <2> QED BY <1>1, <1>2, <1>5
<1>13. Coding'
  <2> HIDE DEF w, n
  <2> QED BY <1>6, <1>10, <1>11, <1>12 DEF Coding, Length
<1>14. l' > l
  <2> HIDE DEF n
  <2> QED BY <1>1, <1>2, <1>6
<1> QED BY <1>13, <1>14

\* A match of n characters, in the text or in an earlier line.
LEMMA MatchCoded ==
    ASSUME Limits, Coding, NEW w \in Seq(Bit), Len(w) > 0, NEW n \in Nat \ {0},
           l + n >= 2, l + n <= Length, AfterMatch(n), bits' = bits \o w,
           Means(text, prev_lines, PlaceOf(bits, l, state, is_all_upper),
                 PlaceOf(bits \o w, l + n, state, is_all_upper), w)
    PROVE  Coding' /\ l' > l
<1>1. /\ text \in Seq(0 .. 127) /\ l \in 0 .. Length /\ Length \in Nat /\ bits \in Seq(Bit)
      /\ l \in Nat
  BY DEF Limits, Coding
<1>2. /\ l' = l + n /\ state' = state /\ is_all_upper' = is_all_upper /\ text' = text
      /\ prev_lines' = prev_lines
  BY DEF AfterMatch, UnchangedInCompress, call
<1>3. c_prev' = text[(l + n) - 1] /\ (l + n) - 1 \in 1 .. Len(text)
  <2>1. c_prev' = text[((l + n) - 2) + 1]
    BY <1>1 DEF AfterMatch, In, UnchangedInCompress, call
  <2> QED BY <1>1, <2>1 DEF Length
<1>4. c_prev' \in 0 .. 127
  BY <1>1, <1>3, ElementOf
<1>5. Previous(c_prev', l + n, text)
  <2>1. l + n # 0
    BY <1>1
  <2> QED BY <1>3, <2>1 DEF Previous
<1>6. LeadsTo(bits \o w, text, prev_lines, PlaceOf(bits \o w, l + n, state, is_all_upper))
  <2>1. l + n \in Nat /\ l + n <= Len(text)
    BY <1>1 DEF Length
  <2>2. /\ state \in {1, 2} /\ is_all_upper \in BOOLEAN
        /\ state = 2 => is_all_upper = FALSE
    BY DEF Coding
  <2>3. LeadsTo(bits, text, prev_lines, PlaceOf(bits, l, state, is_all_upper))
    BY DEF Coding
  <2> QED BY <1>1, <2>1, <2>2, <2>3, PlaceOn
<1>7. bits \o w \in Seq(Bit) /\ l + n \in 0 .. Length
  BY <1>1
<1>8. /\ state \in {1, 2} /\ is_all_upper \in BOOLEAN
      /\ state = 2 => is_all_upper = FALSE
  BY DEF Coding
<1>9. Coding'
  BY <1>2, <1>4, <1>5, <1>6, <1>7, <1>8 DEF Coding, Length
<1>10. l' > l
  BY <1>1, <1>2
<1> QED BY <1>9, <1>10

\* A part of the text.
LEMMA WithinCoded ==
    ASSUME Limits, Coding, MatchWithin
    PROVE  Coding' /\ l' > l
<1> DEFINE j == Min(Earliest)  n == WithinLen(j)
           d == l - j - NICE_LEN_FOR_PRIOR + 1
           u == Two(Word(2, 8), <<1>>)
           c == encodeCount(n - NICE_LEN_FOR_PRIOR)  e == encodeCount(d)
           w == Two(u, Two(c, e))
<1>1. /\ text \in Seq(0 .. 127) /\ l \in 0 .. Length /\ Length \in Nat /\ Length <= MaxCount
      /\ bits \in Seq(Bit) /\ l \in Nat
  BY DEF Limits, Coding
<1>2. j \in 0 .. l - 1 /\ n >= NICE_LEN_FOR_PRIOR
  <2>1. Earliest \in SUBSET Nat /\ Earliest # {}
    BY <1>1 DEF Earliest, MatchWithin, MatchesWithin
  <2>2. Min(Earliest) \in Earliest
    BY <2>1, LeastIsMin
  <2> QED BY <2>2 DEF Earliest
<1>3. /\ n \in Nat /\ j + n <= l /\ l + n <= Length
      /\ \A k \in 1 .. n : text[j + k] = text[l + k]
  <2> HIDE DEF j
  <2> QED BY <1>1, <1>2, WithinFound
<1>4. NICE_LEN_FOR_PRIOR \in Nat \ {0}
  BY NiceLenAssumption
<1>5. /\ n \in Nat \ {0} /\ j \in Nat /\ n - NICE_LEN_FOR_PRIOR \in 0 .. MaxCount
      /\ d \in 0 .. MaxCount /\ l + n >= 2
  <2> HIDE DEF j, n
  <2> QED BY <1>1, <1>2, <1>3, <1>4, MaxCountIsNumber
<1>6. /\ u \in Seq(Bit) /\ Len(u) \in Nat \ {0} /\ c \in Seq(Bit) /\ Len(c) \in Nat
      /\ e \in Seq(Bit) /\ Len(e) \in Nat
  <2>1. c \in Seq(Bit) /\ Len(c) \in Nat /\ e \in Seq(Bit) /\ Len(e) \in Nat
    <3> HIDE DEF j, n, d
    <3> QED BY <1>5, CountWord
  <2>2. u \in Seq(Bit) /\ Len(u) \in Nat \ {0}
    <3>1. Word(2, 8) \in Seq(Bit) /\ Len(Word(2, 8)) \in Nat \ {0}
      BY FunctionWord
    <3>2. <<1>> \in Seq(Bit) /\ Len(<<1>>) = 1
      BY DEF Bit
    <3>3. /\ Two(Word(2, 8), <<1>>) \in Seq(Bit)
          /\ Len(Two(Word(2, 8), <<1>>)) = Len(Word(2, 8)) + Len(<<1>>)
      BY <3>1, <3>2, TwoWords
    <3> QED BY <3>1, <3>2, <3>3
  <2> QED BY <2>1, <2>2
<1>7. w \in Seq(Bit) /\ Len(w) > 0
  <2> HIDE DEF u, c, e
  <2>1. Two(c, e) \in Seq(Bit) /\ Len(Two(c, e)) \in Nat
    BY <1>6, TwoWords
  <2>2. Two(u, Two(c, e)) \in Seq(Bit) /\ Len(Two(u, Two(c, e))) = Len(u) + Len(Two(c, e))
    BY <1>6, <2>1, TwoWords
  <2> QED BY <1>6, <2>1, <2>2
<1>8. bits' = bits \o w /\ AfterMatch(n)
  <2>1. /\ bits' = ((bits \o Bits(14144, 10)) \o c) \o e
        /\ AfterMatch(n)
    BY SMT DEF MatchWithin
  <2>2. Bits(14144, 10) = u
    BY FixedCodes, SMT
  <2>3. bits' = ((bits \o u) \o c) \o e
    <3> HIDE DEF u, c, e
    <3> QED BY <2>1, <2>2, SMT
  <2>4. bits' = bits \o w
    <3> HIDE DEF u, c, e
    <3>1. (bits \o u) \o c = bits \o Two(u, c)
      BY <1>1, <1>6, Appended
    <3>2. Two(u, c) \in Seq(Bit)
      BY <1>6, TwoWords
    <3>3. (bits \o Two(u, c)) \o e = bits \o Two(Two(u, c), e)
      BY <1>1, <1>6, <3>2, Appended
    <3>4. Two(Two(u, c), e) = Two(u, Two(c, e))
      BY <1>6, TwoAssociates
    <3> QED BY <2>3, <3>1, <3>3, <3>4
  <2> HIDE DEF u, c, e, w
  <2> QED BY <2>1, <2>4
<1>9. Within(text, PlaceOf(bits, l, state, is_all_upper),
             PlaceOf(bits \o w, l + n, state, is_all_upper), w)
  <2>1. w = Two(Two(Word(2, 8), <<1>>),
                Two(encodeCount(n - NICE_LEN_FOR_PRIOR),
                    encodeCount(l - j - NICE_LEN_FOR_PRIOR + 1)))
    OBVIOUS
  <2>2. l - j - NICE_LEN_FOR_PRIOR + 1 \in 0 .. MaxCount
    BY <1>5
  <2> HIDE DEF w, n, j
  <2> QED BY <1>3, <1>5, <2>1, <2>2 DEF Within, PlaceOf, Stays
<1>10. Means(text, prev_lines, PlaceOf(bits, l, state, is_all_upper),
             PlaceOf(bits \o w, l + n, state, is_all_upper), w)
  <2> HIDE DEF w, n
  <2> QED BY <1>9 DEF Means
<1> HIDE DEF w, n
<1> QED BY <1>3, <1>5, <1>7, <1>8, <1>10, MatchCoded

\* The match that is coded: in a line there is, at a place there is, with what
\* follows in the text.
LEMMA EarlierMatch ==
    ASSUME Limits, Coding, MatchEarlier
    PROVE  LET first == [x \in HitLines |-> Min(LineHits(x))]
               j == Min({first[x] : x \in HitLines})
               ctx == Max({x \in HitLines : first[x] = j})
               line == prev_lines[ctx]
               n == LineLen(line, j)
           IN  /\ ctx \in 1 .. Len(prev_lines)
               /\ line \in Seq(1 .. 127) /\ Len(line) \in Nat /\ Len(line) <= MaxCount
               /\ j \in 0 .. Len(line) - 1 /\ n >= NICE_LEN_FOR_OTHER
               /\ n \in Nat /\ j + n <= Len(line) /\ l + n <= Length
               /\ \A k \in 1 .. n : line[j + k] = text[l + k]
<1> DEFINE first == [x \in HitLines |-> Min(LineHits(x))]
           j == Min({first[x] : x \in HitLines})
           ctx == Max({x \in HitLines : first[x] = j})
           line == prev_lines[ctx]
           n == LineLen(line, j)
<1>1. /\ text \in Seq(0 .. 127) /\ l \in 0 .. Length /\ Length \in Nat /\ Length <= MaxCount
      /\ bits \in Seq(Bit) /\ l \in Nat
  BY DEF Limits, Coding
<1>2. Len(prev_lines) \in Nat /\ Len(prev_lines) <= MaxCount
  BY DEF Limits
<1>3. ctx \in 1 .. Len(prev_lines) /\ j \in LineHits(ctx)
  <2>1. HitLines # {} /\ HitLines \in SUBSET (1 .. Len(prev_lines))
    <3>1. HitLines # {}
      BY SMT DEF MatchEarlier, MatchesEarlier
    <3> QED BY <3>1 DEF HitLines
  <2>2. ASSUME NEW x \in HitLines PROVE first[x] \in LineHits(x) /\ first[x] \in Nat
    <3>1. LineHits(x) # {} /\ x \in 1 .. Len(prev_lines)
      BY <2>2 DEF HitLines
    <3>2. LineHits(x) \in SUBSET Nat
      BY DEF LineHits
    <3>3. Min(LineHits(x)) \in LineHits(x)
      BY <3>1, <3>2, LeastIsMin
    <3> QED BY <2>2, <3>2, <3>3
  <2>3. j \in {first[x] : x \in HitLines}
    <3> DEFINE T == {first[x] : x \in HitLines}
    <3>1. T \in SUBSET Nat /\ T # {}
      BY <2>1, <2>2
    <3> HIDE DEF T, first
    <3>2. Min(T) \in T
      BY <3>1, LeastIsMin
    <3> QED BY <3>2 DEF T
  <2>4. ctx \in {x \in HitLines : first[x] = j}
    <3> HIDE DEF first, j
    <3> DEFINE T == {x \in HitLines : first[x] = j}  z == Len(prev_lines)
    <3>1. z \in Nat /\ T \in SUBSET (0 .. z) /\ T # {}
      BY <1>2, <2>1, <2>3
    <3> HIDE DEF T, z
    <3>2. Max(T) \in T
      BY <3>1, GreatestIsMax
    <3> QED BY <3>2 DEF T
  <2> HIDE DEF first, j, ctx
  <2> QED BY <2>1, <2>2, <2>4
<1>4. /\ line \in Seq(1 .. 127) /\ Len(line) \in Nat /\ Len(line) <= MaxCount
  <2> HIDE DEF ctx
  <2> QED BY <1>3 DEF Limits
<1>5. j \in 0 .. Len(line) - 1 /\ n >= NICE_LEN_FOR_OTHER
  <2> HIDE DEF j, ctx
  <2> QED BY <1>3 DEF LineHits
<1>6. /\ n \in Nat /\ j + n <= Len(line) /\ l + n <= Length
      /\ \A k \in 1 .. n : line[j + k] = text[l + k]
  <2> HIDE DEF j, line
  <2> QED BY <1>1, <1>4, <1>5, LineFound
<1> HIDE DEF ctx, j, line, n
<1> QED BY <1>3, <1>4, <1>5, <1>6 DEF ctx, j, line, n

\* A part of an earlier line.
LEMMA EarlierCoded ==
    ASSUME Limits, Coding, MatchEarlier
    PROVE  Coding' /\ l' > l
<1> DEFINE first == [x \in HitLines |-> Min(LineHits(x))]
           j == Min({first[x] : x \in HitLines})
           ctx == Max({x \in HitLines : first[x] = j})
           line == prev_lines[ctx]
           n == LineLen(line, j)
           u == Two(Word(2, 8), <<0>>)
           c == encodeCount(n - NICE_LEN_FOR_OTHER)  e == encodeCount(j)
           f == encodeCount(ctx - 1)
           w == Two(u, Two(c, Two(e, f)))
<1>1. /\ text \in Seq(0 .. 127) /\ l \in 0 .. Length /\ Length \in Nat /\ Length <= MaxCount
      /\ bits \in Seq(Bit) /\ l \in Nat
  BY DEF Limits, Coding
<1>2. Len(prev_lines) \in Nat /\ Len(prev_lines) <= MaxCount
  BY DEF Limits
<1>3. ctx \in 1 .. Len(prev_lines)
  BY EarlierMatch
<1>4. line \in Seq(1 .. 127) /\ Len(line) \in Nat /\ Len(line) <= MaxCount
  BY EarlierMatch
<1>5. j \in 0 .. Len(line) - 1 /\ n >= NICE_LEN_FOR_OTHER
  BY EarlierMatch
<1>6. /\ n \in Nat /\ j + n <= Len(line) /\ l + n <= Length
      /\ \A k \in 1 .. n : line[j + k] = text[l + k]
  BY EarlierMatch
<1>7. NICE_LEN_FOR_OTHER \in Nat \ {0, 1}
  BY NiceLenAssumption
<1>8. /\ n \in Nat \ {0} /\ j \in Nat /\ n - NICE_LEN_FOR_OTHER \in 0 .. MaxCount
      /\ j \in 0 .. MaxCount /\ ctx - 1 \in 0 .. MaxCount /\ l + n >= 2
  <2> HIDE DEF j, n, ctx, line
  <2> QED BY <1>1, <1>2, <1>3, <1>4, <1>5, <1>6, <1>7, MaxCountIsNumber
<1>9. /\ u \in Seq(Bit) /\ Len(u) \in Nat \ {0} /\ c \in Seq(Bit) /\ Len(c) \in Nat
      /\ e \in Seq(Bit) /\ Len(e) \in Nat /\ f \in Seq(Bit) /\ Len(f) \in Nat
  <2>1. /\ c \in Seq(Bit) /\ Len(c) \in Nat /\ e \in Seq(Bit) /\ Len(e) \in Nat
        /\ f \in Seq(Bit) /\ Len(f) \in Nat
    <3> HIDE DEF j, n, ctx
    <3> QED BY <1>8, CountWord
  <2>2. u \in Seq(Bit) /\ Len(u) \in Nat \ {0}
    <3>1. Word(2, 8) \in Seq(Bit) /\ Len(Word(2, 8)) \in Nat \ {0}
      BY FunctionWord
    <3>2. <<0>> \in Seq(Bit) /\ Len(<<0>>) = 1
      BY DEF Bit
    <3>3. /\ Two(Word(2, 8), <<0>>) \in Seq(Bit)
          /\ Len(Two(Word(2, 8), <<0>>)) = Len(Word(2, 8)) + Len(<<0>>)
      BY <3>1, <3>2, TwoWords
    <3> QED BY <3>1, <3>2, <3>3
  <2> HIDE DEF u, c, e, f
  <2> QED BY <2>1, <2>2
<1>10. /\ w \in Seq(Bit) /\ Len(w) > 0
       /\ (((bits \o u) \o c) \o e) \o f = bits \o w
  <2> HIDE DEF u, c, e, f
  <2>1. Two(e, f) \in Seq(Bit) /\ Len(Two(e, f)) \in Nat
    BY <1>9, TwoWords
  <2>2. Two(c, Two(e, f)) \in Seq(Bit) /\ Len(Two(c, Two(e, f))) \in Nat
    BY <1>9, <2>1, TwoWords
  <2>3. w \in Seq(Bit) /\ Len(w) = Len(u) + Len(Two(c, Two(e, f)))
    BY <1>9, <2>2, TwoWords
  <2>4. (bits \o u) \o c \in Seq(Bit) /\ bits \o u \in Seq(Bit)
    BY <1>1, <1>9
  <2>5. (((bits \o u) \o c) \o e) \o f = ((bits \o u) \o c) \o Two(e, f)
    BY <1>9, <2>4, Appended
  <2>6. ((bits \o u) \o c) \o Two(e, f) = (bits \o u) \o Two(c, Two(e, f))
    BY <1>9, <2>1, <2>4, Appended
  <2>7. (bits \o u) \o Two(c, Two(e, f)) = bits \o Two(u, Two(c, Two(e, f)))
    BY <1>1, <1>9, <2>2, Appended
  <2> QED BY <1>9, <2>2, <2>3, <2>5, <2>6, <2>7
<1>11. bits' = bits \o w /\ AfterMatch(n)
  <2>1. /\ bits' = (((bits \o Bits(14080, 10)) \o c) \o e) \o f
        /\ AfterMatch(n)
    BY SMT DEF MatchEarlier
  <2>2. Bits(14080, 10) = u
    BY FixedCodes, SMT
  <2> HIDE DEF u, c, e, f, w, n
  <2>3. bits' = (((bits \o u) \o c) \o e) \o f
    BY <2>1, <2>2, SMT
  <2>4. bits' = bits \o w
    BY <1>10, <2>3
  <2> QED BY <2>1, <2>4
<1>12. Earlier(text, prev_lines, PlaceOf(bits, l, state, is_all_upper),
               PlaceOf(bits \o w, l + n, state, is_all_upper), w)
  <2>1. w = Two(Two(Word(2, 8), <<0>>),
                Two(encodeCount(n - NICE_LEN_FOR_OTHER),
                    Two(encodeCount(j), encodeCount(ctx - 1))))
    OBVIOUS
  <2>2. j + n <= Len(prev_lines[ctx]) /\ \A k \in 1 .. n : prev_lines[ctx][j + k] = text[l + k]
    BY <1>6
  <2> HIDE DEF w, n, j, line, ctx
  <2> QED BY <1>3, <1>8, <2>1, <2>2 DEF Earlier, PlaceOf, Stays
<1>13. Means(text, prev_lines, PlaceOf(bits, l, state, is_all_upper),
             PlaceOf(bits \o w, l + n, state, is_all_upper), w)
  <2> HIDE DEF w, n
  <2> QED BY <1>12 DEF Means
<1> HIDE DEF w, n
<1> QED BY <1>6, <1>8, <1>10, <1>11, <1>13, MatchCoded

\* A switch that may be needed or not.
LEMMA SwitchOn ==
    ASSUME NEW b \in Seq(Bit), NEW s \in Seq(Bit), NEW t, NEW lines, NEW i \in Nat, i <= Len(t),
           NEW st, NEW up, NEW st2 \in {1, 2}, NEW up2 \in BOOLEAN, st2 = 2 => up2 = FALSE,
           LeadsTo(b, t, lines, PlaceOf(b, i, st, up)),
           \/ s = << >> /\ st2 = st /\ up2 = up
           \/ Len(s) > 0 /\ Switch(PlaceOf(b, i, st, up), PlaceOf(b \o s, i, st2, up2), s)
    PROVE  /\ b \o s \in Seq(Bit)
           /\ LeadsTo(b \o s, t, lines, PlaceOf(b \o s, i, st2, up2))
<1>1. CASE s = << >> /\ st2 = st /\ up2 = up
  <2>1. b \o s = b
    BY <1>1
  <2> QED BY <1>1, <2>1
<1>2. CASE Len(s) > 0 /\ Switch(PlaceOf(b, i, st, up), PlaceOf(b \o s, i, st2, up2), s)
  <2>1. Means(t, lines, PlaceOf(b, i, st, up), PlaceOf(b \o s, i, st2, up2), s)
    BY <1>2 DEF Means
  <2>2. LeadsTo(b \o s, t, lines, PlaceOf(b \o s, i, st2, up2))
    BY <1>2, <2>1, PlaceOn
  <2> QED BY <2>2
<1> QED BY <1>1, <1>2

\* The words of the switches.
LEMMA SwitchesAreWords ==
    /\ ToSet1 \in Seq(Bit) /\ Len(ToSet1) > 0 /\ ToSet2 \in Seq(Bit) /\ Len(ToSet2) > 0
    /\ ToUpper \in Seq(Bit) /\ Len(ToUpper) > 0 /\ << >> \in Seq(Bit)
<1>1. << >> \in Seq(Bit) /\ 0 \in Nat
  OBVIOUS
<1>2. /\ ToUpper \in Seq(Bit) /\ Len(ToUpper) = 8 /\ ToSet2 \in Seq(Bit) /\ Len(ToSet2) = 7
  BY <1>1, SwitchWordsRead
<1>3. ToSet1 \in Seq(Bit) /\ Len(ToSet1) = 4
  BY SwitchWords
<1> QED BY <1>1, <1>2, <1>3

\* When which switch is needed.
LEMMA SwitchesNeeded ==
    ASSUME Limits, Coding, l < Length
    PROVE  /\ LeavesSet2 => state = 2 /\ is_all_upper = FALSE
           /\ LeavesUpper => state = 1 /\ StateBefore = 1 /\ is_all_upper = TRUE
           /\ EntersUpper => StateBefore = 1 /\ is_all_upper = FALSE /\ ~EntersSet2
           /\ EntersSet2 => StateBefore = 1 /\ UpperNow = FALSE
           /\ StateBefore \in {1, 2} /\ (StateBefore = 2 => is_all_upper = FALSE)
           /\ StateNow \in {1, 2} /\ (StateNow = 2 => UpperNow = FALSE)
<1>1. /\ state \in {1, 2} /\ is_all_upper \in BOOLEAN
      /\ state = 2 => is_all_upper = FALSE
  BY DEF Coding
<1>2. IsUpper(c_in) => c_in # SPACE /\ c_in \notin Set2Chars /\ ~IsDigit(c_in)
  BY DEF IsUpper, SPACE, Set2Chars, IsDigit
<1>3. LeavesSet2 => state = 2 /\ is_all_upper = FALSE
  BY <1>1 DEF LeavesSet2
<1>4. state = 1 => ~LeavesSet2 /\ StateBefore = 1
  BY DEF LeavesSet2, StateBefore
<1>5. IsUpper(c_in) => StateBefore = 1
  BY <1>1, <1>2, <1>4 DEF LeavesSet2, StateBefore
<1>6. EntersSet2 => StateBefore = 1 /\ ~IsUpper(c_in)
  BY <1>2 DEF EntersSet2
<1>7. EntersUpper => IsUpper(c_in) /\ is_all_upper = FALSE
  BY <1>1 DEF EntersUpper
<1>8. LeavesUpper => is_all_upper = TRUE
  BY <1>1 DEF LeavesUpper
<1>9. ~IsUpper(c_in) => UpperNow = FALSE
  BY <1>7 DEF UpperNow
<1>10. StateBefore \in {1, 2} /\ (StateBefore = 2 => state = 2)
  BY <1>1 DEF StateBefore
<1>11. StateNow \in {1, 2} /\ (StateNow = 2 => EntersSet2 \/ StateBefore = 2)
  BY <1>10 DEF StateNow
<1>12. StateBefore = 2 => ~IsUpper(c_in)
  BY <1>5
<1> QED BY <1>1, <1>3, <1>4, <1>5, <1>6, <1>7, <1>8, <1>9, <1>10, <1>11, <1>12

\* The switches before a character.
LEMMA SwitchesCoded ==
    ASSUME Limits, Coding, l < Length
    PROVE  /\ Switches \in Seq(Bit) /\ bits \o Switches \in Seq(Bit)
           /\ LeadsTo(bits \o Switches, text, prev_lines,
                      PlaceOf(bits \o Switches, l, StateNow, UpperNow))
<1> DEFINE s1 == IF LeavesSet2 THEN ToSet1 ELSE << >>
           s2 == IF LeavesUpper THEN ToSet1 ELSE << >>
           s3 == IF EntersUpper THEN ToUpper ELSE << >>
           s4 == IF EntersSet2 THEN ToSet2 ELSE << >>
           up1 == IF LeavesUpper THEN FALSE ELSE is_all_upper
           b1 == bits \o s1  b2 == b1 \o s2  b3 == b2 \o s3  b4 == b3 \o s4
           to(b, st, up) == LeadsTo(b, text, prev_lines, PlaceOf(b, l, st, up))
<1>1. /\ LeavesSet2 => state = 2 /\ is_all_upper = FALSE
      /\ LeavesUpper => state = 1 /\ StateBefore = 1 /\ is_all_upper = TRUE
      /\ EntersUpper => StateBefore = 1 /\ is_all_upper = FALSE /\ ~EntersSet2
      /\ EntersSet2 => StateBefore = 1 /\ UpperNow = FALSE
      /\ StateBefore \in {1, 2} /\ (StateBefore = 2 => is_all_upper = FALSE)
      /\ StateNow \in {1, 2} /\ (StateNow = 2 => UpperNow = FALSE)
  BY SwitchesNeeded
<1>2. /\ bits \in Seq(Bit) /\ l \in Nat /\ l <= Len(text) /\ is_all_upper \in BOOLEAN
      /\ state \in {1, 2} /\ to(bits, state, is_all_upper)
  BY DEF Limits, Coding, Length
<1>3. s1 \in Seq(Bit) /\ s2 \in Seq(Bit) /\ s3 \in Seq(Bit) /\ s4 \in Seq(Bit)
  BY SwitchesAreWords
<1>4. b1 \in Seq(Bit) /\ to(b1, StateBefore, is_all_upper)
  <2>1. \/ s1 = << >> /\ StateBefore = state /\ is_all_upper = is_all_upper
        \/ /\ Len(s1) > 0
           /\ Switch(PlaceOf(bits, l, state, is_all_upper),
                     PlaceOf(bits \o s1, l, StateBefore, is_all_upper), s1)
    <3>1. CASE LeavesSet2
      <4>1. StateBefore = 1 /\ s1 = ToSet1 /\ state = 2
        BY <1>1, <3>1 DEF StateBefore
      <4> HIDE DEF s1
      <4> QED BY <4>1, SwitchesAreWords DEF Switch, PlaceOf, Turns
    <3>2. CASE ~LeavesSet2
      BY <3>2 DEF StateBefore
    <3> QED BY <3>1, <3>2
  <2> HIDE DEF s1
  <2> QED BY <1>1, <1>2, <1>3, <2>1, SwitchOn
<1>5. b2 \in Seq(Bit) /\ to(b2, StateBefore, up1)
  <2>1. \/ s2 = << >> /\ StateBefore = StateBefore /\ up1 = is_all_upper
        \/ /\ Len(s2) > 0
           /\ Switch(PlaceOf(b1, l, StateBefore, is_all_upper),
                     PlaceOf(b1 \o s2, l, StateBefore, up1), s2)
    <3>1. CASE LeavesUpper
      <4>1. StateBefore = 1 /\ s2 = ToSet1 /\ up1 = FALSE /\ is_all_upper = TRUE
        BY <1>1, <3>1
      <4> HIDE DEF s2, b1, up1
      <4> QED BY <4>1, SwitchesAreWords DEF Switch, PlaceOf, Turns
    <3>2. CASE ~LeavesUpper
      BY <3>2
    <3> QED BY <3>1, <3>2
  <2>2. up1 \in BOOLEAN /\ (StateBefore = 2 => up1 = FALSE)
    BY <1>1, <1>2
  <2> HIDE DEF s2, b1, up1
  <2> QED BY <1>1, <1>2, <1>3, <1>4, <2>1, <2>2, SwitchOn
<1>6. b3 \in Seq(Bit) /\ to(b3, StateBefore, UpperNow)
  <2>1. UpperNow \in BOOLEAN /\ (EntersUpper => UpperNow = TRUE)
        /\ (~EntersUpper => UpperNow = up1)
    BY <1>2 DEF UpperNow, LeavesUpper
  <2>2. EntersUpper => up1 = FALSE
    BY <1>1
  <2>3. \/ s3 = << >> /\ StateBefore = StateBefore /\ UpperNow = up1
        \/ /\ Len(s3) > 0
           /\ Switch(PlaceOf(b2, l, StateBefore, up1),
                     PlaceOf(b2 \o s3, l, StateBefore, UpperNow), s3)
    <3>1. CASE EntersUpper
      <4>1. StateBefore = 1 /\ s3 = ToUpper /\ up1 = FALSE /\ UpperNow = TRUE
        BY <1>1, <2>1, <2>2, <3>1
      <4> HIDE DEF s3, b2, up1
      <4> QED BY <4>1, SwitchesAreWords DEF Switch, PlaceOf, Turns
    <3>2. CASE ~EntersUpper
      BY <2>1, <3>2
    <3> QED BY <3>1, <3>2
  <2>4. StateBefore = 2 => UpperNow = FALSE
    BY <1>1, <2>1
  <2> HIDE DEF s3, b2, up1
  <2> QED BY <1>1, <1>2, <1>3, <1>5, <2>1, <2>3, <2>4, SwitchOn
<1>7. b4 \in Seq(Bit) /\ to(b4, StateNow, UpperNow)
  <2>1. UpperNow \in BOOLEAN
    BY <1>2 DEF UpperNow, EntersUpper
  <2>2. \/ s4 = << >> /\ StateNow = StateBefore /\ UpperNow = UpperNow
        \/ /\ Len(s4) > 0
           /\ Switch(PlaceOf(b3, l, StateBefore, UpperNow),
                     PlaceOf(b3 \o s4, l, StateNow, UpperNow), s4)
    <3>1. CASE EntersSet2
      <4>1. s4 = ToSet2 /\ StateNow = 2
        BY <3>1 DEF StateNow
      <4> HIDE DEF s4, b3
      <4> QED BY <4>1, SwitchesAreWords DEF Switch, PlaceOf, Turns
    <3>2. CASE ~EntersSet2
      BY <3>2 DEF StateNow
    <3> QED BY <3>1, <3>2
  <2> HIDE DEF s4, b3
  <2> QED BY <1>1, <1>2, <1>3, <1>6, <2>1, <2>2, SwitchOn
<1>8. Switches = ((s1 \o s2) \o s3) \o s4
  <2>1. Bits(8192, 4) = ToSet1 /\ Bits(8704, 8) = ToUpper /\ Bits(14336, 7) = ToSet2
    BY FixedCodes, SMT
  <2> DEFINE x == Bits(8192, 4)  y == Bits(8704, 8)  z == Bits(14336, 7)
  <2>2. Switches = (((IF LeavesSet2 THEN x ELSE << >>)
                     \o (IF LeavesUpper THEN x ELSE << >>))
                     \o (IF EntersUpper THEN y ELSE << >>))
                     \o (IF EntersSet2 THEN z ELSE << >>)
    BY SMT DEF Switches
  <2>3. x = ToSet1 /\ y = ToUpper /\ z = ToSet2
    BY <2>1, SMT
  <2> HIDE DEF x, y, z
  <2> QED BY <2>2, <2>3
<1>9. Switches \in Seq(Bit) /\ bits \o Switches = b4
  <2> HIDE DEF s1, s2, s3, s4
  <2>1. s1 \o s2 \in Seq(Bit) /\ bits \o (s1 \o s2) = b2
    BY <1>2, <1>3
  <2>2. (s1 \o s2) \o s3 \in Seq(Bit) /\ bits \o ((s1 \o s2) \o s3) = b3
    <3>1. bits \o ((s1 \o s2) \o s3) = (bits \o (s1 \o s2)) \o s3
      BY <1>2, <1>3, <2>1
    <3> QED BY <1>3, <2>1, <3>1
  <2> DEFINE s == (s1 \o s2) \o s3
  <2>3. s \in Seq(Bit) /\ bits \o s = b3
    BY <2>2
  <2>4. Switches = s \o s4
    BY <1>8
  <2> HIDE DEF s, b3
  <2>5. s \o s4 \in Seq(Bit) /\ bits \o (s \o s4) = (bits \o s) \o s4
    <3>1. bits \in Seq(Bit) /\ s \in Seq(Bit) /\ s4 \in Seq(Bit)
      BY <1>2, <1>3, <2>3
    <3>2. Two(s, s4) = s \o s4
      BY <3>1, TwoIsConcatenation
    <3>3. (bits \o s) \o s4 = bits \o Two(s, s4)
      BY <3>1, Appended
    <3>4. s \o s4 \in Seq(Bit)
      BY <3>1
    <3> QED BY <3>2, <3>3, <3>4
  <2> QED BY <2>3, <2>4, <2>5
<1> HIDE DEF b4
<1> QED BY <1>7, <1>9

------------------------------------------------------------------------------
(* The character itself.                                                    *)

\* The code of the character is element v of set h, with a shift to capitals if
\* `upper` says so, and that element stands for the characters passed over.
CharIs(h, v, upper) ==
    /\ Coded(StateNow, UpperNow, h, v, upper, CharCode)
    /\ ~(h = SET1B /\ v \in {8, 9, 10})
    /\ StandsFor(h, v, upper, StateNow) = IF Taken = 2 THEN <<CR, LF>> ELSE <<c_in>>

\* The state a character is coded in.
LEMMA StateOf ==
    ASSUME Limits, Coding, l < Length
    PROVE  /\ c_in \in 0 .. 127 /\ c_in \in Characters
           /\ StateNow \in {1, 2} /\ UpperNow \in BOOLEAN
           /\ StateNow = 2 => UpperNow = FALSE
           /\ (c_in \notin Set2Chars => StateNow = 1)
           /\ (~IsUpper(c_in) => UpperNow = FALSE)
           /\ (IsDigit(c_in) => StateNow = 2)
<1>1. /\ text \in Seq(0 .. 127) /\ l \in 0 .. Length /\ Length \in Nat /\ l \in Nat
  BY DEF Limits, Coding
<1>2. l + 1 \in 1 .. Len(text) /\ l + 1 \in 1 .. Length /\ c_in = text[l + 1]
  BY <1>1 DEF Length, c_in, In
<1>3. c_in \in 0 .. 127
  BY <1>1, <1>2, ElementOf
<1>4. c_in \in Characters
  BY <1>2 DEF Limits
<1>5. /\ StateBefore \in {1, 2} /\ StateNow \in {1, 2} /\ (StateNow = 2 => UpperNow = FALSE)
  BY SwitchesNeeded
<1>6. is_all_upper \in BOOLEAN /\ state \in {1, 2}
  BY DEF Coding
<1>7. UpperNow \in BOOLEAN
  BY <1>6 DEF UpperNow, EntersUpper
<1>8. c_in \notin Set2Chars => StateNow = 1
  <2>1. c_in \notin Set2Chars => c_in # SPACE /\ ~IsDigit(c_in)
    BY DEF Set2Chars, SPACE, IsDigit
  <2>2. c_in \notin Set2Chars => StateBefore = 1
    BY <1>6, <2>1 DEF StateBefore, LeavesSet2
  <2> QED BY <2>1, <2>2 DEF StateNow, EntersSet2
<1>9. ~IsUpper(c_in) => UpperNow = FALSE
  BY <1>7 DEF UpperNow, EntersUpper
<1>10. IsDigit(c_in) => StateNow = 2
  BY <1>5 DEF StateNow, EntersSet2
<1> QED BY <1>3, <1>4, <1>5, <1>7, <1>8, <1>9, <1>10

\* The code of a visible character.
LEMMA VisibleCode ==
    ASSUME c_in \in 32 .. 126, ~(c_in = SPACE /\ StateNow = 2),
           NEW k, k = c_in - 31 + (IF UpperNow THEN 32 ELSE 0)
    PROVE  CharCode = append_bits(c_95[k], l_95[k], StateNow) /\ Taken = 1
<1>1. c_in # CR
  BY DEF CR
<1>2. Taken = 1
  BY <1>1 DEF Taken
<1>3. CharCode = append_bits(c_95[k], l_95[k], StateNow)
  <2> DEFINE a == c_in = SPACE /\ StateNow = 2
             d == c_in \in 32 .. 126 /\ ~(c_in = SPACE /\ StateNow = 2)
             e == c_in = CR /\ c_next = LF
             f == c_in = CR /\ c_next # LF
             g == c_in = LF
             i == c_in = TAB
             j == c_in - 31 + (IF UpperNow THEN 32 ELSE 0)
  <2>1. ~a /\ d /\ ~e /\ ~f /\ ~g /\ ~i
    BY DEF CR, LF, TAB
  <2> DEFINE y == append_bits(c_95[j], l_95[j], StateNow)
             z1 == Bits(15232, 11)  z2 == Bits(13824, 9)  z3 == Bits(9064, 13)
             z4 == Bits(13952, 9)  z5 == Bits(9216, 7)
  <2>2. CharCode = (CASE a -> z1 [] d -> y [] e -> z2 [] f -> z3 [] g -> z4 [] i -> z5
                      [] OTHER -> << >>)
    BY SMT DEF CharCode
  <2> HIDE DEF a, d, e, f, g, i, y, z1, z2, z3, z4, z5
  <2>3. CharCode = y
    BY <2>1, <2>2
  <2> QED BY <2>3 DEF y
<1> QED BY <1>2, <1>3

\* A small letter.
LEMMA SmallLetter ==
    ASSUME Limits, Coding, l < Length, IsLower(c_in)
    PROVE  \E h \in 0 .. 6, v \in 0 .. 10, upper \in BOOLEAN : CharIs(h, v, upper)
<1> DEFINE c == c_in
<1>1. c \in 97 .. 122
  BY DEF IsLower
<1>2. StateNow = 1 /\ UpperNow = FALSE
  <2>1. c \notin Set2Chars /\ ~IsUpper(c)
    BY <1>1 DEF Set2Chars, IsUpper
  <2> QED BY <2>1, StateOf
<1>3. PICK h \in 0 .. 2, v \in 0 .. 10 : Letter(c, h, v)
  <2> HIDE DEF c
  <2> QED BY <1>1, LetterCodes
<1>4. CharCode = append_bits(c_95[c - 31], l_95[c - 31], 1) /\ Taken = 1
  <2>1. c_in \in 32 .. 126 /\ ~(c_in = SPACE /\ StateNow = 2)
    BY <1>1, <1>2
  <2>2. c - 31 = c_in - 31 + (IF UpperNow THEN 32 ELSE 0)
    BY <1>1, <1>2
  <2> HIDE DEF c
  <2> QED BY <1>2, <2>1, <2>2, VisibleCode
<1>5. CharCode = Code(h, v)
  <2> HIDE DEF c
  <2>1. append_bits(c_95[c - 31], l_95[c - 31], 1) = Bits(c_95[c - 31], l_95[c - 31])
    BY DEF append_bits
  <2> QED BY <1>3, <1>4, <2>1 DEF Letter
<1>6. sets[h + 1][v + 1] = c /\ (h = SET1 => v # 0) /\ (h = SET1B => v \in 0 .. 5)
  BY <1>3 DEF Letter
<1>7. Coded(1, FALSE, h, v, FALSE, CharCode)
  BY <1>5, <1>6 DEF Coded, Code, SetOf, SET1, SET2
<1>8. StandsFor(h, v, FALSE, 1) = <<c>>
  BY <1>6 DEF StandsFor
<1>9. CharIs(h, v, FALSE)
  <2>1. ~(h = SET1B /\ v \in {8, 9, 10})
    BY <1>6
  <2> HIDE DEF c
  <2>2. StandsFor(h, v, FALSE, StateNow) = <<c_in>>
    BY <1>2, <1>8 DEF c
  <2>3. Coded(StateNow, UpperNow, h, v, FALSE, CharCode)
    BY <1>2, <1>7
  <2>4. Taken # 2
    BY <1>4
  <2> QED BY <2>1, <2>2, <2>3, <2>4 DEF CharIs
<1>10. h \in 0 .. 6 /\ FALSE \in BOOLEAN
  OBVIOUS
<1> QED BY <1>9, <1>10

\* A code that stands for one character.
LEMMA OneCharacter ==
    ASSUME NEW h \in 0 .. 6, NEW v \in 0 .. 10, NEW upper \in BOOLEAN, NEW st, NEW up,
           StateNow = st, UpperNow = up, Coded(st, up, h, v, upper, CharCode),
           ~(h = SET1B /\ v \in {8, 9, 10}), StandsFor(h, v, upper, st) = <<c_in>>, Taken = 1
    PROVE  \E h1 \in 0 .. 6, v1 \in 0 .. 10, upper1 \in BOOLEAN : CharIs(h1, v1, upper1)
<1>1. Taken # 2
  OBVIOUS
<1>2. CharIs(h, v, upper)
  BY <1>1 DEF CharIs
<1> QED BY <1>2

\* A capital in a run of capitals: the code of the small letter.
LEMMA RunLetter ==
    ASSUME Limits, Coding, l < Length, IsUpper(c_in), UpperNow = TRUE
    PROVE  \E h \in 0 .. 6, v \in 0 .. 10, upper \in BOOLEAN : CharIs(h, v, upper)
<1> DEFINE c == c_in + 32
<1>1. c_in \in 65 .. 90 /\ c \in 97 .. 122 /\ c - 32 = c_in
  BY DEF IsUpper
<1>2. StateNow = 1
  <2>1. c_in \notin Set2Chars
    BY <1>1 DEF Set2Chars
  <2> QED BY <2>1, StateOf
<1>3. PICK h \in 0 .. 2, v \in 0 .. 10 : Letter(c, h, v)
  <2> HIDE DEF c
  <2> QED BY <1>1, LetterCodes
<1>4. CharCode = append_bits(c_95[c - 31], l_95[c - 31], 1) /\ Taken = 1
  <2>1. c_in \in 32 .. 126 /\ ~(c_in = SPACE /\ StateNow = 2)
    BY <1>1, <1>2
  <2>2. c - 31 = c_in - 31 + (IF UpperNow THEN 32 ELSE 0)
    <3>1. (IF UpperNow THEN 32 ELSE 0) = 32
      OBVIOUS
    <3> QED BY <1>1, <3>1
  <2> HIDE DEF c
  <2> QED BY <1>2, <2>1, <2>2, VisibleCode
<1>5. CharCode = Code(h, v)
  <2> HIDE DEF c
  <2>1. append_bits(c_95[c - 31], l_95[c - 31], 1) = Bits(c_95[c - 31], l_95[c - 31])
    BY DEF append_bits
  <2> QED BY <1>3, <1>4, <2>1 DEF Letter
<1>6. sets[h + 1][v + 1] = c /\ (h = SET1 => v # 0) /\ (h = SET1B => v \in 0 .. 5)
  BY <1>3 DEF Letter
<1>7. Coded(1, TRUE, h, v, TRUE, CharCode)
  BY <1>5, <1>6 DEF Coded, Code, SetOf, SET1, SET2
<1>8. StandsFor(h, v, TRUE, 1) = <<c_in>>
  <2> HIDE DEF c
  <2>1. IsLower(c)
    BY <1>1 DEF IsLower
  <2>2. StandsFor(h, v, TRUE, 1) = <<c - 32>>
    BY <1>6, <2>1 DEF StandsFor
  <2> QED BY <1>1, <2>2
<1>9. ~(h = SET1B /\ v \in {8, 9, 10}) /\ h \in 0 .. 6
  BY <1>6
<1> QED BY <1>2, <1>4, <1>7, <1>8, <1>9, OneCharacter

\* A capital of its own: with a shift.
LEMMA OneCapital ==
    ASSUME Limits, Coding, l < Length, IsUpper(c_in), UpperNow = FALSE
    PROVE  \E h \in 0 .. 6, v \in 0 .. 10, upper \in BOOLEAN : CharIs(h, v, upper)
<1> DEFINE c == c_in + 32
<1>1. c_in \in 65 .. 90 /\ c \in 97 .. 122 /\ c - 32 = c_in
  BY DEF IsUpper
<1>2. StateNow = 1
  <2>1. c_in \notin Set2Chars
    BY <1>1 DEF Set2Chars
  <2> QED BY <2>1, StateOf
<1>3. PICK h \in 0 .. 2, v \in 0 .. 10 : Letter(c, h, v)
  <2> HIDE DEF c
  <2> QED BY <1>1, LetterCodes
<1>4. CharCode = append_bits(c_95[c - 63], l_95[c - 63], 1) /\ Taken = 1
  <2>1. c_in \in 32 .. 126 /\ ~(c_in = SPACE /\ StateNow = 2)
    BY <1>1, <1>2
  <2>2. c - 63 = c_in - 31 + (IF UpperNow THEN 32 ELSE 0)
    <3>1. (IF UpperNow THEN 32 ELSE 0) = 0
      OBVIOUS
    <3> QED BY <1>1, <3>1
  <2> HIDE DEF c
  <2> QED BY <1>2, <2>1, <2>2, VisibleCode
<1>5. CharCode = Two(ToSet1, Code(h, v))
  <2> HIDE DEF c
  <2>1. append_bits(c_95[c - 63], l_95[c - 63], 1) = Bits(c_95[c - 63], l_95[c - 63])
    BY DEF append_bits
  <2> QED BY <1>3, <1>4, <2>1 DEF Letter
<1>6. sets[h + 1][v + 1] = c /\ (h = SET1 => v # 0) /\ (h = SET1B => v \in 0 .. 5)
  BY <1>3 DEF Letter
<1>7. Coded(1, FALSE, h, v, TRUE, CharCode)
  BY <1>5, <1>6 DEF Coded, Code, SetOf, SET1, SET2
<1>8. StandsFor(h, v, TRUE, 1) = <<c_in>>
  <2> HIDE DEF c
  <2>1. IsLower(c)
    BY <1>1 DEF IsLower
  <2>2. StandsFor(h, v, TRUE, 1) = <<c - 32>>
    BY <1>6, <2>1 DEF StandsFor
  <2> QED BY <1>1, <2>2
<1>9. ~(h = SET1B /\ v \in {8, 9, 10}) /\ h \in 0 .. 6
  BY <1>6
<1> QED BY <1>2, <1>4, <1>7, <1>8, <1>9, OneCharacter

\* A digit, in state 2.
LEMMA DigitCharacter ==
    ASSUME Limits, Coding, l < Length, IsDigit(c_in)
    PROVE  \E h \in 0 .. 6, v \in 0 .. 10, upper \in BOOLEAN : CharIs(h, v, upper)
<1> DEFINE c == c_in
<1>1. c \in 48 .. 57
  BY DEF IsDigit
<1>2. StateNow = 2 /\ UpperNow = FALSE
  BY StateOf
<1>3. PICK v \in 1 .. 10 : Digit(c, v)
  <2> HIDE DEF c
  <2> QED BY <1>1, DigitCodes
<1>4. CharCode = append_bits(c_95[c - 31], l_95[c - 31], 2) /\ Taken = 1
  <2>1. c_in \in 32 .. 126 /\ ~(c_in = SPACE /\ StateNow = 2)
    BY <1>1 DEF SPACE
  <2>2. c - 31 = c_in - 31 + (IF UpperNow THEN 32 ELSE 0)
    <3>1. (IF UpperNow THEN 32 ELSE 0) = 0
      BY <1>2
    <3> QED BY <1>1, <3>1
  <2> HIDE DEF c
  <2> QED BY <1>2, <2>1, <2>2, VisibleCode
<1>5. CharCode = vcode[v + 1]
  <2> HIDE DEF c
  <2>1. /\ c_95[c - 31] \div 512 = 28
        /\ Bits(c_95[c - 31] * 128, l_95[c - 31] - 7) = vcode[v + 1]
    BY <1>3, SMT DEF Digit
  <2>2. append_bits(c_95[c - 31], l_95[c - 31], 2)
            = Bits(c_95[c - 31] * 128, l_95[c - 31] - 7)
    BY <2>1, SMT DEF append_bits
  <2> QED BY <1>4, <2>1, <2>2, SMT
<1>6. sets[SET2 + 1][v + 1] = c
  BY <1>3, SMT DEF Digit
<1>7. Coded(2, FALSE, SET2, v, FALSE, CharCode)
  BY <1>5 DEF Coded, SetOf
<1>8. StandsFor(SET2, v, FALSE, 2) = <<c>>
  <2> HIDE DEF c
  <2>1. ~IsLower(c)
    BY <1>1 DEF IsLower
  <2> QED BY <1>6, <2>1 DEF StandsFor, SET2, SET1B, SET1, SetOf
<1>9. ~(SET2 = SET1B /\ v \in {8, 9, 10}) /\ SET2 \in 0 .. 6 /\ v \in 0 .. 10
  BY DEF SET2, SET1B
<1> QED BY <1>2, <1>4, <1>7, <1>8, <1>9, OneCharacter

\* Any other visible character.
LEMMA MarkCharacter ==
    ASSUME Limits, Coding, l < Length,
           c_in \in (33 .. 47) \cup (58 .. 64) \cup (91 .. 96) \cup (123 .. 126)
    PROVE  \E h \in 0 .. 6, v \in 0 .. 10, upper \in BOOLEAN : CharIs(h, v, upper)
<1> DEFINE c == c_in
<1>1. c \in (33 .. 47) \cup (58 .. 64) \cup (91 .. 96) \cup (123 .. 126)
  OBVIOUS
<1>2. StateNow \in {1, 2} /\ UpperNow = FALSE
  <2>1. ~IsUpper(c_in)
    BY DEF IsUpper
  <2> QED BY <2>1, StateOf
<1>3. PICK h \in 4 .. 6, v \in 0 .. 10 : Mark(c, h, v)
  <2> HIDE DEF c
  <2> QED BY <1>1, MarkCodes
<1>4. CharCode = append_bits(c_95[c - 31], l_95[c - 31], StateNow) /\ Taken = 1
  <2>1. c_in \in 32 .. 126 /\ ~(c_in = SPACE /\ StateNow = 2)
    BY <1>1 DEF SPACE
  <2>2. c - 31 = c_in - 31 + (IF UpperNow THEN 32 ELSE 0)
    <3>1. (IF UpperNow THEN 32 ELSE 0) = 0
      BY <1>2
    <3> QED BY <1>1, <3>1
  <2> HIDE DEF c
  <2> QED BY <2>1, <2>2, VisibleCode
<1>5. CharCode = Word(h, v)
  <2> HIDE DEF c
  <2>1. /\ c_95[c - 31] \div 512 # 28 /\ Bits(c_95[c - 31], l_95[c - 31]) = Word(h, v)
    BY <1>3, SMT DEF Mark
  <2>2. append_bits(c_95[c - 31], l_95[c - 31], StateNow) = Bits(c_95[c - 31], l_95[c - 31])
    BY <2>1, SMT DEF append_bits
  <2> QED BY <1>4, <2>1, <2>2, SMT
<1>6. sets[h + 1][v + 1] = c
  BY <1>3, SMT DEF Mark
<1>7. Coded(StateNow, FALSE, h, v, FALSE, CharCode)
  BY <1>5 DEF Coded, SET1, SET2
<1>8. StandsFor(h, v, FALSE, StateNow) = <<c>>
  <2> HIDE DEF c
  <2>1. ~IsLower(c)
    BY <1>1 DEF IsLower
  <2>2. h # SET1B
    BY DEF SET1B
  <2> QED BY <1>6, <2>1, <2>2 DEF StandsFor
<1>9. ~(h = SET1B /\ v \in {8, 9, 10}) /\ h \in 0 .. 6
  BY DEF SET1B
<1> QED BY <1>2, <1>4, <1>7, <1>8, <1>9, OneCharacter

\* The codes of the characters that are not in c_95, and of a space in state 2.
LEMMA OtherCodes ==
    /\ c_in = SPACE /\ StateNow = 2 => CharCode = Word(4, 6) /\ Taken = 1
    /\ c_in = CR /\ c_next = LF => CharCode = Word(2, 6) /\ Taken = 2
    /\ c_in = CR /\ c_next # LF => CharCode = Two(ToSet1, Word(2, 7)) /\ Taken = 1
    /\ c_in = LF => CharCode = Word(2, 7) /\ Taken = 1
    /\ c_in = TAB => CharCode = Two(ToSet1, vcode[2]) /\ Taken = 1
<1> DEFINE a == c_in = SPACE /\ StateNow = 2
           d == c_in \in 32 .. 126 /\ ~(c_in = SPACE /\ StateNow = 2)
           e == c_in = CR /\ c_next = LF
           f == c_in = CR /\ c_next # LF
           g == c_in = LF
           i == c_in = TAB
           y == append_bits(c_95[c_in - 31 + (IF UpperNow THEN 32 ELSE 0)],
                            l_95[c_in - 31 + (IF UpperNow THEN 32 ELSE 0)], StateNow)
           z1 == Bits(15232, 11)  z2 == Bits(13824, 9)  z3 == Bits(9064, 13)
           z4 == Bits(13952, 9)  z5 == Bits(9216, 7)
<1>1. CharCode = (CASE a -> z1 [] d -> y [] e -> z2 [] f -> z3 [] g -> z4 [] i -> z5
                    [] OTHER -> << >>)
  BY SMT DEF CharCode
<1>2. /\ z1 = Word(4, 6) /\ z2 = Word(2, 6) /\ z3 = Two(ToSet1, Word(2, 7)) /\ z4 = Word(2, 7)
      /\ z5 = Two(ToSet1, vcode[2])
  BY FixedCodes, SMT
<1>3. /\ a => ~d /\ ~e /\ ~f /\ ~g /\ ~i
      /\ e => ~a /\ ~d /\ ~f /\ ~g /\ ~i
      /\ f => ~a /\ ~d /\ ~e /\ ~g /\ ~i
      /\ g => ~a /\ ~d /\ ~e /\ ~f /\ ~i
      /\ i => ~a /\ ~d /\ ~e /\ ~f /\ ~g
  BY DEF CR, LF, TAB, SPACE
<1>4. (e => Taken = 2) /\ (~e => Taken = 1)
  BY DEF Taken
<1>5. /\ a => CharCode = Word(4, 6) /\ Taken = 1
      /\ e => CharCode = Word(2, 6) /\ Taken = 2
      /\ f => CharCode = Two(ToSet1, Word(2, 7)) /\ Taken = 1
      /\ g => CharCode = Word(2, 7) /\ Taken = 1
      /\ i => CharCode = Two(ToSet1, vcode[2]) /\ Taken = 1
  <2> HIDE DEF a, d, e, f, g, i, y, z1, z2, z3, z4, z5
  <2> QED BY <1>1, <1>2, <1>3, <1>4
<1> HIDE DEF y, z1, z2, z3, z4, z5
<1> QED BY <1>5

\* A space.
LEMMA SpaceCharacter ==
    ASSUME Limits, Coding, l < Length, c_in = SPACE
    PROVE  \E h \in 0 .. 6, v \in 0 .. 10, upper \in BOOLEAN : CharIs(h, v, upper)
<1>1. StateNow \in {1, 2} /\ UpperNow = FALSE
  <2>1. ~IsUpper(c_in)
    BY DEF IsUpper, SPACE
  <2> QED BY <2>1, StateOf
<1>2. CASE StateNow = 2
  <2>1. CharCode = Word(4, 6) /\ Taken = 1
    BY <1>2, OtherCodes
  <2>2. Coded(2, FALSE, 4, 6, FALSE, CharCode)
    BY <2>1 DEF Coded, SET1, SET2
  <2>3. StandsFor(4, 6, FALSE, 2) = <<c_in>>
    BY DEF StandsFor, sets, IsLower, SET1B, SPACE
  <2>4. 4 \in 0 .. 6 /\ 6 \in 0 .. 10 /\ FALSE \in BOOLEAN /\ ~(4 = SET1B /\ 6 \in {8, 9, 10})
    BY DEF SET1B
  <2> QED BY <1>1, <1>2, <2>1, <2>2, <2>3, <2>4, OneCharacter
<1>3. CASE StateNow = 1
  <2>1. CharCode = append_bits(c_95[1], l_95[1], 1) /\ Taken = 1
    <3>1. c_in \in 32 .. 126 /\ ~(c_in = SPACE /\ StateNow = 2)
      BY <1>3 DEF SPACE
    <3>2. 1 = c_in - 31 + (IF UpperNow THEN 32 ELSE 0)
      <4>1. (IF UpperNow THEN 32 ELSE 0) = 0
        BY <1>1
      <4> QED BY <4>1 DEF SPACE
    <3> QED BY <1>3, <3>1, <3>2, VisibleCode
  <2>2. append_bits(c_95[1], l_95[1], 1) = vcode[2]
    <3>1. append_bits(c_95[1], l_95[1], 1) = Bits(c_95[1], l_95[1])
      BY DEF append_bits
    <3>2. c_95[1] = 16384 /\ l_95[1] = 3
      BY SMT DEF c_95, l_95
    <3>3. Bits(16384, 3) = vcode[2]
      BY SMT DEF Bits, vcode
    <3> QED BY <3>1, <3>2, <3>3, SMT
  <2>3. CharCode = vcode[1 + 1]
    BY <2>1, <2>2
  <2>4. Coded(1, FALSE, 0, 1, FALSE, CharCode)
    BY <2>3 DEF Coded, SetOf, SET1
  <2>5. StandsFor(0, 1, FALSE, 1) = <<c_in>>
    BY DEF StandsFor, sets, IsLower, SET1B, SPACE
  <2>6. 0 \in 0 .. 6 /\ 1 \in 0 .. 10 /\ FALSE \in BOOLEAN /\ ~(0 = SET1B /\ 1 \in {8, 9, 10})
    BY DEF SET1B
  <2> QED BY <1>1, <1>3, <2>1, <2>4, <2>5, <2>6, OneCharacter
<1> QED BY <1>1, <1>2, <1>3

\* A line break or a tab.
LEMMA ControlCharacter ==
    ASSUME Limits, Coding, l < Length, c_in \in {TAB, LF, CR}
    PROVE  \E h \in 0 .. 6, v \in 0 .. 10, upper \in BOOLEAN : CharIs(h, v, upper)
<1>1. StateNow = 1 /\ UpperNow = FALSE
  <2>1. c_in \notin Set2Chars /\ ~IsUpper(c_in)
    BY DEF Set2Chars, IsUpper, TAB, LF, CR
  <2> QED BY <2>1, StateOf
<1>2. /\ 2 \in 0 .. 6 /\ 6 \in 0 .. 10 /\ 7 \in 0 .. 10 /\ 0 \in 0 .. 6 /\ 1 \in 0 .. 10
      /\ FALSE \in BOOLEAN /\ TRUE \in BOOLEAN
      /\ ~(2 = SET1B /\ 6 \in {8, 9, 10}) /\ ~(2 = SET1B /\ 7 \in {8, 9, 10})
      /\ ~(0 = SET1B /\ 1 \in {8, 9, 10})
  BY DEF SET1B
<1>3. CASE c_in = CR /\ c_next = LF
  <2>1. CharCode = Word(2, 6) /\ Taken = 2
    BY <1>3, OtherCodes
  <2>2. Coded(1, FALSE, 2, 6, FALSE, CharCode)
    BY <2>1 DEF Coded, SET1, SET2
  <2>3. StandsFor(2, 6, FALSE, 1) = <<CR, LF>>
    BY DEF StandsFor, sets, IsLower, SET1B
  <2>4. CharIs(2, 6, FALSE)
    BY <1>1, <1>2, <2>1, <2>2, <2>3 DEF CharIs
  <2> QED BY <1>2, <2>4
<1>4. CASE c_in = CR /\ c_next # LF
  <2>1. CharCode = Two(ToSet1, Word(2, 7)) /\ Taken = 1
    BY <1>4, OtherCodes
  <2>2. Coded(1, FALSE, 2, 7, TRUE, CharCode)
    BY <2>1 DEF Coded, SET1, SET2
  <2>3. StandsFor(2, 7, TRUE, 1) = <<c_in>>
    BY <1>4 DEF StandsFor, sets, IsLower, SET1B
  <2> QED BY <1>1, <1>2, <2>1, <2>2, <2>3, OneCharacter
<1>5. CASE c_in = LF
  <2>1. CharCode = Word(2, 7) /\ Taken = 1
    BY <1>5, OtherCodes
  <2>2. Coded(1, FALSE, 2, 7, FALSE, CharCode)
    BY <2>1 DEF Coded, SET1, SET2
  <2>3. StandsFor(2, 7, FALSE, 1) = <<c_in>>
    BY <1>5 DEF StandsFor, sets, IsLower, SET1B
  <2> QED BY <1>1, <1>2, <2>1, <2>2, <2>3, OneCharacter
<1>6. CASE c_in = TAB
  <2>1. CharCode = Two(ToSet1, vcode[1 + 1]) /\ Taken = 1
    BY <1>6, OtherCodes
  <2>2. Coded(1, FALSE, 0, 1, TRUE, CharCode)
    BY <2>1 DEF Coded, SET1, SET2
  <2>3. StandsFor(0, 1, TRUE, 1) = <<c_in>>
    BY <1>6 DEF StandsFor, sets, IsLower, SET1B, SetOf
  <2> QED BY <1>1, <1>2, <2>1, <2>2, <2>3, OneCharacter
<1> QED BY <1>3, <1>4, <1>5, <1>6

\* Whatever the character, its code stands for it.
LEMMA CharacterCoded ==
    ASSUME Limits, Coding, l < Length
    PROVE  \E h \in 0 .. 6, v \in 0 .. 10, upper \in BOOLEAN : CharIs(h, v, upper)
<1>1. c_in \in Characters /\ UpperNow \in BOOLEAN
  BY StateOf
<1>2. \/ IsLower(c_in) \/ IsUpper(c_in) \/ IsDigit(c_in) \/ c_in = SPACE
      \/ c_in \in {TAB, LF, CR}
      \/ c_in \in (33 .. 47) \cup (58 .. 64) \cup (91 .. 96) \cup (123 .. 126)
  BY <1>1 DEF Characters, IsLower, IsUpper, IsDigit, SPACE
<1>3. CASE IsLower(c_in)
  BY <1>3, SmallLetter
<1>4. CASE IsUpper(c_in)
  <2>1. CASE UpperNow = TRUE
    BY <1>4, <2>1, RunLetter
  <2>2. CASE UpperNow = FALSE
    BY <1>4, <2>2, OneCapital
  <2> QED BY <1>1, <2>1, <2>2
<1>5. CASE IsDigit(c_in)
  BY <1>5, DigitCharacter
<1>6. CASE c_in = SPACE
  BY <1>6, SpaceCharacter
<1>7. CASE c_in \in {TAB, LF, CR}
  BY <1>7, ControlCharacter
<1>8. CASE c_in \in (33 .. 47) \cup (58 .. 64) \cup (91 .. 96) \cup (123 .. 126)
  BY <1>8, MarkCharacter
<1> QED BY <1>2, <1>3, <1>4, <1>5, <1>6, <1>7, <1>8

\* Its code is a sequence of bits, and not empty.
LEMMA CodeIsWord ==
    ASSUME Limits, Coding, l < Length
    PROVE  CharCode \in Seq(Bit) /\ Len(CharCode) > 0
<1>1. PICK h \in 0 .. 6, v \in 0 .. 10, upper \in BOOLEAN : CharIs(h, v, upper)
  BY CharacterCoded
<1> DEFINE st == StateNow  up == UpperNow  w == CharCode
<1>2. Coded(st, up, h, v, upper, w) /\ h \in 0 .. 6 /\ v \in 0 .. 10
  BY <1>1 DEF CharIs
<1> HIDE DEF w, st, up
<1>3. w \in Seq(Bit) /\ Len(w) \in Nat \ {0}
  BY <1>2, CodedWord, Zenon
<1> QED BY <1>3 DEF w

\* The characters it stands for are in the text.
LEMMA TakenInText ==
    ASSUME Limits, Coding, l < Length
    PROVE  /\ Taken \in {1, 2} /\ l + Taken <= Length /\ c_in = text[l + 1]
           /\ Taken = 2 => text[l + 1] = CR /\ text[l + 2] = LF
<1>1. Length \in Nat /\ l \in Nat
  BY DEF Limits, Coding
<1>2. c_in = text[l + 1]
  BY DEF c_in, In
<1> DEFINE n == Taken
<1>3. CASE c_in = CR /\ c_next = LF
  <2>1. n = 2
    BY <1>3 DEF Taken
  <2>2. l + 1 < Length /\ c_next = text[(l + 1) + 1]
    BY <1>3 DEF c_next, LF, In
  <2>3. (l + 1) + 1 = l + 2 /\ l + 2 <= Length
    BY <1>1, <2>2
  <2> HIDE DEF n
  <2> QED BY <1>2, <1>3, <2>1, <2>2, <2>3 DEF n
<1>4. CASE ~(c_in = CR /\ c_next = LF)
  <2>1. n = 1
    BY <1>4 DEF Taken
  <2> HIDE DEF n
  <2> QED BY <1>1, <1>2, <2>1 DEF n
<1> QED BY <1>3, <1>4

\* A character.
LEMMA LiteralCoded ==
    ASSUME Limits, Coding, Literal
    PROVE  Coding' /\ l' > l
<1>1. /\ text \in Seq(0 .. 127) /\ l \in 0 .. Length /\ Length \in Nat /\ l \in Nat
      /\ bits \in Seq(Bit)
  BY DEF Limits, Coding
<1>2. l < Length
  BY SMT DEF Literal, Compressing
<1> DEFINE b == bits \o Switches  w == CharCode  n == Taken
<1>3. /\ Switches \in Seq(Bit) /\ b \in Seq(Bit)
      /\ LeadsTo(b, text, prev_lines, PlaceOf(b, l, StateNow, UpperNow))
  BY <1>2, SwitchesCoded
<1>4. PICK h \in 0 .. 6, v \in 0 .. 10, upper \in BOOLEAN : CharIs(h, v, upper)
  BY <1>2, CharacterCoded
<1>5. w \in Seq(Bit) /\ Len(w) > 0
  BY <1>2, CodeIsWord
<1>6. /\ StateNow \in {1, 2} /\ UpperNow \in BOOLEAN
      /\ StateNow = 2 => UpperNow = FALSE
  BY <1>2, StateOf
<1>7. /\ n \in {1, 2} /\ l + n <= Length /\ c_in = text[l + 1]
      /\ n = 2 => text[l + 1] = CR /\ text[l + 2] = LF
  BY <1>2, TakenInText
<1>8. /\ bits' = (bits \o Switches) \o CharCode
      /\ state' = StateNow /\ is_all_upper' = UpperNow /\ l' = l + n
      /\ c_prev' = In(l + n - 1) /\ text' = text /\ prev_lines' = prev_lines
  BY SMT DEF Literal, UnchangedInCompress, call
<1>9. bits' = b \o w
  BY <1>8
<1>10. Element(text, PlaceOf(b, l, StateNow, UpperNow),
               PlaceOf(b \o w, l + n, StateNow, UpperNow), w)
  <2>1. StandsFor(h, v, upper, StateNow) = IF n = 2 THEN <<CR, LF>> ELSE <<c_in>>
    BY <1>4 DEF CharIs
  <2> DEFINE s == StandsFor(h, v, upper, StateNow)
  <2>2. Len(s) = n /\ \A k \in 1 .. n : s[k] = text[l + k]
    <3> HIDE DEF n
    <3>1. CASE n = 2
      <4>1. s = <<CR, LF>>
        BY <2>1, <3>1
      <4>2. Len(s) = 2 /\ s[1] = text[l + 1] /\ s[2] = text[l + 2]
        BY <1>7, <3>1, <4>1
      <4> HIDE DEF s
      <4> QED BY <3>1, <4>2
    <3>2. CASE n = 1
      <4>1. s = <<c_in>>
        BY <2>1, <3>2
      <4>2. Len(s) = 1 /\ s[1] = text[l + 1]
        BY <1>7, <4>1
      <4> HIDE DEF s
      <4> QED BY <3>2, <4>2
    <3> QED BY <1>7, <3>1, <3>2
  <2>3. /\ Coded(StateNow, UpperNow, h, v, upper, w)
        /\ ~(h = SET1B /\ v \in {8, 9, 10})
    BY <1>4 DEF CharIs
  <2>4. /\ Stays(PlaceOf(b, l, StateNow, UpperNow),
                 PlaceOf(b \o w, l + n, StateNow, UpperNow), n)
        /\ PlaceOf(b, l, StateNow, UpperNow).state = StateNow
        /\ PlaceOf(b, l, StateNow, UpperNow).upper = UpperNow
        /\ PlaceOf(b, l, StateNow, UpperNow).l = l
    BY DEF Stays, PlaceOf
  <2> DEFINE p == PlaceOf(b, l, StateNow, UpperNow)
             q == PlaceOf(b \o w, l + n, StateNow, UpperNow)
  <2>5. /\ Coded(p.state, p.upper, h, v, upper, w)
        /\ Len(StandsFor(h, v, upper, p.state)) = n
        /\ \A k \in 1 .. n : StandsFor(h, v, upper, p.state)[k] = text[p.l + k]
        /\ Stays(p, q, n)
    BY <2>2, <2>3, <2>4
  <2> HIDE DEF p, q, n, w
  <2>6. Element(text, p, q, w)
    BY <1>7, <2>3, <2>5 DEF Element
  <2> QED BY <2>6 DEF p, q
<1>11. Means(text, prev_lines, PlaceOf(b, l, StateNow, UpperNow),
             PlaceOf(b \o w, l + n, StateNow, UpperNow), w)
  <2> HIDE DEF w, n, b
  <2> QED BY <1>10 DEF Means
<1>12. LeadsTo(b \o w, text, prev_lines, PlaceOf(b \o w, l + n, StateNow, UpperNow))
  <2>1. l + n \in Nat /\ l + n <= Len(text)
    <3> HIDE DEF n
    <3> QED BY <1>1, <1>7 DEF Length
  <2> HIDE DEF w, n, b
  <2> QED BY <1>3, <1>5, <1>6, <1>11, <2>1, PlaceOn
<1>13. c_prev' \in 0 .. 127 /\ Previous(c_prev', l + n, text)
  <2> HIDE DEF n
  <2>1. /\ c_prev' = text[((l + n) - 1) + 1] /\ ((l + n) - 1) + 1 = l + n
        /\ l + n \in 1 .. Len(text) /\ l + n > 0
    BY <1>1, <1>7, <1>8 DEF In, Length
  <2>2. c_prev' = text[l + n]
    BY <2>1
  <2>3. c_prev' \in 0 .. 127
    BY <1>1, <2>1, <2>2, ElementOf
  <2>4. l + n # 0
    BY <2>1
  <2> QED BY <2>1, <2>2, <2>3, <2>4 DEF Previous
<1>14. b \o w \in Seq(Bit) /\ l + n \in 0 .. Length /\ l + n > l
  <2>1. b \o w \in Seq(Bit)
    <3> HIDE DEF b, w
    <3> QED BY <1>3, <1>5
  <2>2. l + n \in 0 .. Length /\ l + n > l
    <3> HIDE DEF n
    <3> QED BY <1>1, <1>7
  <2> QED BY <2>1, <2>2
<1>15. Length' = Length
  BY <1>8 DEF Length
<1> HIDE DEF b, w, n
<1>16. Coding'
  BY <1>6, <1>8, <1>9, <1>12, <1>13, <1>14, <1>15 DEF Coding
<1> QED BY <1>8, <1>14, <1>16

------------------------------------------------------------------------------
(* The whole blob.                                                          *)

\* The passes over the blob lead through the places M to e, where the text ends
\* and the filling starts.
Blob(M, e) ==
    /\ bits \in Seq(Bit) /\ Len(bits) % 8 = 0
    /\ M \subseteq {p \in Place : p.l <= Length} /\ Start \in M /\ e \in M
    /\ \A p \in M : p.at <= e.at
    /\ \A p \in M : p = e \/ \E q \in M : Pass(bits, text, prev_lines, p, q)
    /\ e.l = Length
    /\ Len(bits) - e.at \in 0 .. 7 /\ Filling(bits, e.at, Len(bits) - e.at)

\* A text and earlier lines that are given are within the limits.
LEMMA GivenLimits ==
    ASSUME WithinLimits, text \in Texts, prev_lines \in EarlierLines
    PROVE  Limits
<1>1. text \in Seq(0 .. 127) /\ prev_lines \in Seq(Seq(1 .. 127))
  BY TextsAssumption, EarlierLinesAssumption
<1>2. Length \in Nat
  BY <1>1 DEF Length
<1>3. Length <= MaxCount /\ \A k \in 1 .. Length : text[k] \in Characters
  BY DEF WithinLimits, Length
<1>4. /\ Len(prev_lines) <= MaxCount
      /\ \A i \in 1 .. Len(prev_lines) : Len(prev_lines[i]) <= MaxCount
  BY DEF WithinLimits
<1>5. Len(prev_lines) \in Nat
  BY <1>1
<1>6. ASSUME NEW i \in 1 .. Len(prev_lines)
      PROVE  prev_lines[i] \in Seq(1 .. 127) /\ Len(prev_lines[i]) \in Nat
  <2>1. PICK S : S = Seq(1 .. 127)
    OBVIOUS
  <2>2. prev_lines[i] \in S
    BY <1>1, <2>1
  <2> QED BY <2>1, <2>2
<1> QED BY <1>1, <1>2, <1>3, <1>4, <1>5, <1>6 DEF Limits

\* The end of the compressor's loop gives such a blob.
LEMMA BlobEnded ==
    ASSUME Limits, Coding, CompressEnd
    PROVE  \E M, e : Blob(M, e)'
<1>1. PICK e : e = PlaceOf(bits, l, state, is_all_upper)
  OBVIOUS
<1>2. PICK M : Path(bits, text, prev_lines, M, e)
  BY <1>1 DEF Coding, LeadsTo
<1>3. /\ bits \in Seq(Bit) /\ l = Length /\ e.at = Len(bits) /\ e.l = Length
  BY <1>1 DEF Coding, CompressEnd, PlaceOf
<1> DEFINE n == (8 - (Len(bits) % 8)) % 8
<1>4. n \in 0 .. 7 /\ (Len(bits) + n) % 8 = 0 /\ Len(bits) \in Nat
  <2>1. Len(bits) \in Nat
    BY <1>3
  <2> QED BY <2>1
<1>5. /\ bits' = bits \o FillingWord(n) /\ text' = text /\ prev_lines' = prev_lines
  BY SMT DEF CompressEnd, call, FillingWord
<1>6. FillingWord(n) \in Seq(Bit) /\ Len(FillingWord(n)) = n
  <2> HIDE DEF n
  <2>1. n \in Nat
    BY <1>4
  <2> QED BY <2>1, SMT DEF Bits, Bit, FillingWord
<1>7. bits' \in Seq(Bit)
  <2> DEFINE x == FillingWord(n)
  <2>1. bits' = bits \o x /\ x \in Seq(Bit)
    BY <1>5, <1>6
  <2> HIDE DEF x
  <2> QED BY <1>3, <2>1
<1>8. Len(bits') = Len(bits) + n /\ Filling(bits', Len(bits), n)
  <2> HIDE DEF n
  <2>1. PICK b, c : b = bits /\ c = bits'
    OBVIOUS
  <2>2. b \in Seq(Bit) /\ c \in Seq(Bit) /\ n \in 0 .. 7
    BY <1>3, <1>4, <1>7, <2>1
  <2>3. c = b \o FillingWord(n)
    BY <1>5, <2>1
  <2>4. Len(c) = Len(b) + n /\ Filling(c, Len(b), n)
    BY <2>2, <2>3, FillingBits
  <2> QED BY <2>1, <2>4
<1> HIDE DEF n
<1>9. /\ Len(bits') % 8 = 0 /\ Len(bits') - e.at = n
  BY <1>3, <1>4, <1>8
<1>10. ASSUME NEW p \in M, p # e PROVE \E q \in M : Pass(bits', text', prev_lines', p, q)
  <2>1. p \in Place
    BY <1>2 DEF Path
  <2>2. PICK q \in M : Pass(bits, text, prev_lines, p, q)
    BY <1>2, <1>10 DEF Path
  <2> DEFINE x == FillingWord(n)
  <2>3. bits' = bits \o x /\ x \in Seq(Bit)
    BY <1>5, <1>6
  <2> HIDE DEF x
  <2>4. Pass(bits \o x, text, prev_lines, p, q)
    BY <1>3, <2>1, <2>2, <2>3, PassOn
  <2>6. text' = text /\ prev_lines' = prev_lines
    BY <1>5, SMT
  <2>5. Pass(bits', text', prev_lines', p, q)
    BY <2>3, <2>4, <2>6
  <2> QED BY <2>5
<1>11. Length' = Length /\ Length = Len(text)
  BY <1>5 DEF Length
<1>12. /\ M \subseteq {p \in Place : p.l <= Length} /\ Start \in M /\ e \in M
       /\ \A p \in M : p.at <= e.at
  BY <1>2, <1>11 DEF Path
<1>13. Blob(M, e)'
  BY <1>3, <1>4, <1>7, <1>8, <1>9, <1>10, <1>11, <1>12 DEF Blob
<1> QED BY <1>13

\* A pass of the decompressor goes from one of the places to the next; at the
\* last one the decompressor ends.
LEMMA PassOfBlob ==
    ASSUME Limits, NEW M, NEW e, Blob(M, e), NEW p \in M, StandsAt(p), DecompressPass
    PROVE  \/ (\E q \in M : StandsAt(q)') /\ UnchangedInDecompress /\ bit_no' > bit_no
           \/ p = e /\ DecompressEnd
<1>1. /\ bits \in Seq(Bit) /\ Len(bits) \in Nat /\ p \in Place /\ e \in Place
      /\ p.at \in Nat /\ e.at \in Nat /\ bit_no = p.at
  <2>1. bits \in Seq(Bit) /\ p \in Place /\ e \in Place /\ bit_no = p.at
    BY DEF Blob, StandsAt
  <2>2. p.at \in Nat /\ e.at \in Nat
    BY <2>1 DEF Place
  <2> QED BY <2>1, <2>2
<1>2. CASE p # e
  <2>1. PICK q \in M : Pass(bits, text, prev_lines, p, q)
    BY <1>2 DEF Blob
  <2>2. q \in Place /\ q.l <= Length /\ q.at \in Nat
    BY DEF Blob, Place
  <2>3. text \in Seq(0 .. 127) /\ Len(prev_lines) \in Nat
    BY DEF Limits
  <2>4. \A i \in 1 .. Len(prev_lines) : prev_lines[i] \in Seq(0 .. 127)
    <3>1. Seq(1 .. 127) \subseteq Seq(0 .. 127)
      <4>1. 1 .. 127 \subseteq 0 .. 127
        OBVIOUS
      <4> QED BY <4>1
    <3>2. \A i \in 1 .. Len(prev_lines) : prev_lines[i] \in Seq(1 .. 127)
      BY DEF Limits
    <3> QED BY <3>1, <3>2, Zenon
  <2>5. StandsAt(q)' /\ UnchangedInDecompress /\ q.at > p.at
    BY <1>1, <2>1, <2>2, <2>3, <2>4, PassTaken
  <2>6. bit_no' = q.at
    BY <2>5 DEF StandsAt
  <2> QED BY <1>1, <2>2, <2>5, <2>6
<1>3. CASE p = e
  <2> DEFINE n == Len(bits) - e.at
  <2>1. n \in 0 .. 7 /\ Filling(bits, bit_no, n) /\ Len(bits) = bit_no + n /\ bit_no \in Nat
    BY <1>1, <1>3 DEF Blob
  <2>2. n = 0 => bit_no >= Len(bits)
    BY <2>1
  <2>3. n # 0 => Token.kind = "end"
    <3> HIDE DEF n
    <3> SUFFICES ASSUME n # 0 PROVE Token.kind = "end"
      OBVIOUS
    <3>1. n \in 1 .. 7
      BY <2>1
    <3> QED BY <1>1, <2>1, <3>1, FillingIsEnd
  <2>4. ~(bit_no < Len(bits)) \/ Token.kind = "end"
    BY <2>1, <2>2, <2>3
  <2>5. ASSUME NEW kinds, "end" \notin kinds PROVE ~Decodes(kinds)
    BY <2>4, <2>5 DEF Decodes
  <2>6. ~Decodes({"upper_on", "upper_off", "set1", "set2"}) /\ ~Decodes({"symbol"})
    BY <2>5
  <2>7. DecompressEnd
    BY <2>6 DEF DecompressPass, Control, Emit, CopyWithin, CopyEarlier, CopyRepeat
  <2> QED BY <1>3, <2>7
<1> QED BY <1>2, <1>3

------------------------------------------------------------------------------
(* The inductive invariant.                                                 *)

\* The varint is that of the length.
HeaderIs ==
    /\ header \in Seq(0 .. 2 * VarintBase - 1)
    /\ pc # "idle" => header = encode_unsigned_varint[Length]
NotStarted == bit_no = 0 /\ dstate = SET1 /\ out = << >>

\* The stages of a call: the compressor, its blob, the decompressor, its text.
InCompressor == pc \in {"idle", "compress"} /\ NotStarted /\ Coding
HasBlob == /\ pc \in {"compressed", "null"} /\ NotStarted /\ \E M, e : Blob(M, e)
           /\ (pc = "null" => text = << >>)
InDecompressor == /\ pc = "decompress"
                  /\ \E M, e : Blob(M, e) /\ \E p \in M : StandsAt(p)
Decoded == pc = "done" /\ \E M, e : Blob(M, e) /\ StandsAt(e)

Given == text \in Texts /\ prev_lines \in EarlierLines
Coder == /\ l \in 0 .. Length /\ c_prev \in 0 .. 127 /\ state \in {1, 2}
         /\ is_all_upper \in BOOLEAN
InStep ==
    /\ Given /\ Coder /\ HeaderIs
    /\ InCompressor \/ HasBlob \/ InDecompressor \/ Decoded

\* What is given stays as it is.
LEMMA GivenStays ==
    ASSUME Given, text' = text, prev_lines' = prev_lines
    PROVE  Given' /\ Length' = Length
BY DEF Given, Length

\* So does a blob.
LEMMA BlobStays ==
    ASSUME NEW M, NEW e, Blob(M, e), bits' = bits, text' = text, prev_lines' = prev_lines
    PROVE  Blob(M, e)'
<1>1. Length' = Length
  BY DEF Length
<1> QED BY <1>1 DEF Blob

\* Before the first character nothing has been written.
LEMMA PathStarts ==
    ASSUME NEW t, Len(t) \in Nat, NEW lines
    PROVE  LeadsTo(<< >>, t, lines, PlaceOf(<< >>, 0, 1, FALSE))
<1>1. LeadsTo(<< >>, t, lines, Start)
  BY EmptyPath
<1>2. Start = PlaceOf(<< >>, 0, 1, FALSE)
  BY DEF Start, PlaceOf
<1> QED BY <1>1, <1>2

\* So the compressor starts in step.
LEMMA CodingStarts ==
    ASSUME Limits, bits = << >>, l = 0, c_prev = 0, state = 1, is_all_upper = FALSE
    PROVE  Coding
<1>1. Length \in Nat /\ Len(text) = Length
  BY DEF Limits, Length
<1>2. LeadsTo(bits, text, prev_lines, PlaceOf(bits, l, state, is_all_upper))
  BY <1>1, PathStarts
<1>3. /\ bits \in Seq(Bit) /\ l \in 0 .. Length /\ c_prev \in 0 .. 127 /\ state \in {1, 2}
      /\ is_all_upper \in BOOLEAN /\ (state = 2 => is_all_upper = FALSE)
  <2>1. bits \in Seq(Bit) /\ l \in 0 .. Length /\ c_prev \in 0 .. 127 /\ state \in {1, 2}
    BY <1>1
  <2>2. is_all_upper \in BOOLEAN /\ (state = 2 => is_all_upper = FALSE)
    OBVIOUS
  <2> QED BY <2>1, <2>2
<1>4. Previous(c_prev, l, text)
  BY DEF Previous
<1> QED BY <1>2, <1>3, <1>4 DEF Coding

\* The invariant holds before the first call.
LEMMA InStepStarts ==
    ASSUME WithinLimits, Init
    PROVE  InStep
<1>1. Given /\ Limits
  BY GivenLimits DEF Given, Init
<1>2. Coding
  BY <1>1, CodingStarts DEF Init
<1>3. Coder /\ InCompressor
  BY <1>2 DEF Init, Coder, InCompressor, Coding, NotStarted
<1>4. HeaderIs
  BY DEF Init, HeaderIs
<1> QED BY <1>1, <1>3, <1>4 DEF InStep

\* The compressor.
LEMMA CallKept ==
    ASSUME WithinLimits, InStep, shox96_0_2c
    PROVE  InStep'
<1>1. /\ pc = "idle" /\ pc' = "compress" /\ header' = encode_unsigned_varint[Length]
      /\ UNCHANGED <<text, prev_lines, coder, is_all_upper, bits, decoder>>
  BY DEF shox96_0_2c
<1>2. Given /\ Given' /\ Length' = Length /\ Limits
  BY <1>1, GivenStays, GivenLimits DEF InStep, Given
<1>3. Coding /\ NotStarted
  BY <1>1 DEF InStep, InCompressor, HasBlob, InDecompressor, Decoded
<1>4. Coding' /\ NotStarted' /\ Coder'
  BY <1>1, <1>2, <1>3 DEF Coding, NotStarted, Coder, coder, decoder
<1>5. HeaderIs'
  <2>1. Length \in Nat
    BY <1>2 DEF Limits
  <2> QED BY <1>1, <1>2, <2>1, VarintBytes DEF HeaderIs
<1>6. InCompressor'
  BY <1>1, <1>4 DEF InCompressor
<1> QED BY <1>2, <1>4, <1>5, <1>6 DEF InStep

\* A pass of the compressor gets on in the text and keeps the path.
LEMMA CompressPassTaken ==
    ASSUME WithinLimits, InStep, CompressPass, ~CompressEnd
    PROVE  /\ Coding' /\ l' > l /\ pc = "compress" /\ Given /\ InCompressor
           /\ UnchangedInCompress
<1>1. Repeat \/ MatchWithin \/ MatchEarlier \/ Literal
  BY DEF CompressPass
<1>2. pc = "compress" /\ UnchangedInCompress
  BY <1>1, SMT DEF Repeat, MatchWithin, MatchEarlier, Literal, Compressing, AfterMatch
<1>3. Given /\ InCompressor /\ Limits
  BY <1>2, GivenLimits DEF InStep, InCompressor, HasBlob, InDecompressor, Decoded, Given
<1>4. Coding' /\ l' > l
  BY <1>1, <1>3, RepeatCoded, WithinCoded, EarlierCoded, LiteralCoded DEF InCompressor
<1> QED BY <1>2, <1>3, <1>4

\* So it keeps the invariant.
LEMMA CompressPassKept ==
    ASSUME WithinLimits, InStep, CompressPass, ~CompressEnd
    PROVE  InStep'
<1>1. /\ Coding' /\ pc = "compress" /\ Given /\ InCompressor /\ UnchangedInCompress
  BY CompressPassTaken
<1>2. UNCHANGED <<pc, text, prev_lines, header, bit_no, dstate, out>>
  BY <1>1 DEF UnchangedInCompress, call, decoder
<1>3. Given' /\ Length' = Length
  BY <1>1, <1>2, GivenStays
<1>4. NotStarted' /\ HeaderIs'
  BY <1>1, <1>2, <1>3 DEF InCompressor, NotStarted, HeaderIs, InStep
<1>5. Coder' /\ InCompressor'
  BY <1>1, <1>2, <1>4 DEF Coding, Coder, InCompressor
<1> QED BY <1>3, <1>4, <1>5 DEF InStep

\* The filling of the last byte makes the path a blob.
LEMMA CompressEndKept ==
    ASSUME WithinLimits, InStep, CompressEnd
    PROVE  InStep'
<1>1. /\ pc = "compress" /\ pc' = "compressed"
      /\ UNCHANGED <<call, coder, is_all_upper, decoder>>
  BY SMT DEF CompressEnd
<1>2. Given /\ InCompressor /\ Limits
  BY <1>1, GivenLimits DEF InStep, InCompressor, HasBlob, InDecompressor, Decoded, Given
<1>3. \E M, e : Blob(M, e)'
  BY <1>2, BlobEnded DEF InCompressor
<1>4. Given' /\ Length' = Length
  BY <1>1, <1>2, GivenStays DEF call
<1>5. NotStarted' /\ HeaderIs' /\ Coder'
  BY <1>1, <1>2, <1>4 DEF InCompressor, NotStarted, HeaderIs, InStep, Coder, call, coder, decoder
<1>6. HasBlob'
  BY <1>1, <1>3, <1>5 DEF HasBlob
<1> QED BY <1>4, <1>5, <1>6 DEF InStep

\* The decompressor.
LEMMA StandsAtStart ==
    ASSUME bit_no' = 0, dstate' = SET1, is_all_upper' = FALSE, out' = << >>
    PROVE  StandsAt(Start)'
<1>1. Start \in Place /\ Start.at = 0 /\ Start.l = 0 /\ Start.state = 1 /\ Start.upper = FALSE
  BY DEF Start, Place
<1>2. << >> \in Seq(0 .. 127) /\ Len(<< >>) = 0 /\ 1 .. 0 = {}
  OBVIOUS
<1>3. \A k \in 1 .. Start.l : out'[k] = text'[k]
  BY <1>1
<1>4. /\ bit_no' = Start.at /\ dstate' = SetOf(Start.state) /\ is_all_upper' = Start.upper
      /\ out' \in Seq(0 .. 127) /\ Len(out') = Start.l
  <2>1. bit_no' = Start.at /\ dstate' = SetOf(Start.state)
    BY <1>1 DEF SetOf
  <2>2. is_all_upper' = Start.upper
    BY <1>1
  <2>3. out' \in Seq(0 .. 127) /\ Len(out') = Start.l
    BY <1>1, <1>2
  <2> QED BY <2>1, <2>2, <2>3
<1> QED BY <1>1, <1>3, <1>4 DEF StandsAt

\* Only the empty text gives an empty blob.
LEMMA EmptyBlob ==
    ASSUME text \in Seq(0 .. 127), NEW M, NEW e, Blob(M, e), Len(bits) < 8
    PROVE  text = << >>
<1>1. bits \in Seq(Bit) /\ Len(bits) % 8 = 0
  BY DEF Blob
<1>2. Len(bits) = 0
  BY <1>1
<1>3. Start = e
  <2> SUFFICES ASSUME Start # e PROVE FALSE
    OBVIOUS
  <2>1. PICK q \in M : Pass(bits, text, prev_lines, Start, q)
    BY DEF Blob
  <2>2. PICK w \in Seq(Bit) : Len(w) > 0 /\ Reads(bits, Start.at, w)
    BY <2>1 DEF Pass
  <2>3. 0 + Len(w) <= Len(bits)
    BY <2>2 DEF Reads, Start
  <2> QED BY <1>2, <2>2, <2>3
<1>4. Length = 0
  BY <1>3 DEF Blob, Start
<1> QED BY <1>4 DEF Length

\* The decompressor starts at the first place of the blob; it returns nothing for
\* an empty one.
LEMMA DecodeCallKept ==
    ASSUME WithinLimits, InStep, shox96_0_2d
    PROVE  InStep'
<1>1. /\ pc = "compressed"
      /\ pc' = IF Len(header) + Len(bits) \div 8 < 2 THEN "null" ELSE "decompress"
      /\ bit_no' = 0 /\ dstate' = SET1 /\ is_all_upper' = FALSE /\ out' = << >>
      /\ UNCHANGED <<text, prev_lines, header, l, c_prev, state, bits>>
  BY DEF shox96_0_2d, call, coder
<1>2. Given /\ HasBlob /\ Limits /\ HeaderIs /\ Coder
  BY <1>1, GivenLimits DEF InStep, InCompressor, HasBlob, InDecompressor, Decoded, Given
<1>3. PICK M, e : Blob(M, e)
  BY <1>2 DEF HasBlob
<1>4. Blob(M, e)'
  BY <1>1, <1>3, BlobStays
<1>5. Given' /\ Length' = Length
  BY <1>1, <1>2, GivenStays
<1>6. Coder' /\ HeaderIs'
  BY <1>1, <1>2, <1>5 DEF Coder, HeaderIs
<1>7. NotStarted' /\ StandsAt(Start)'
  BY <1>1, StandsAtStart DEF NotStarted
<1>8. CASE Len(header) + Len(bits) \div 8 < 2
  <2>1. Len(header) \in Nat \ {0}
    <3>1. Length \in Nat /\ header = encode_unsigned_varint[Length]
      BY <1>1, <1>2 DEF Limits, HeaderIs
    <3> QED BY <3>1, VarintBytes
  <2>2. Len(bits) \in Nat
    BY <1>3 DEF Blob
  <2>3. Len(bits) < 8
    BY <1>8, <2>1, <2>2
  <2>4. text = << >>
    BY <1>2, <1>3, <2>3, EmptyBlob DEF Limits
  <2>5. HasBlob'
    BY <1>1, <1>4, <1>7, <1>8, <2>4 DEF HasBlob
  <2> QED BY <1>5, <1>6, <2>5 DEF InStep
<1>9. CASE ~(Len(header) + Len(bits) \div 8 < 2)
  <2>1. Start \in M
    BY <1>3 DEF Blob
  <2>2. InDecompressor'
    BY <1>1, <1>4, <1>7, <1>9, <2>1 DEF InDecompressor
  <2> QED BY <1>5, <1>6, <2>2 DEF InStep
<1> QED BY <1>8, <1>9

\* A pass of the decompressor moves to another place, or ends at the last one.
LEMMA DecompressPassTaken ==
    ASSUME WithinLimits, InStep, DecompressPass
    PROVE  /\ pc = "decompress" /\ Given
           /\ \E M, e : /\ Blob(M, e)
                        /\ \/ /\ \E q \in M : StandsAt(q)'
                              /\ UnchangedInDecompress /\ bit_no' > bit_no
                           \/ StandsAt(e) /\ DecompressEnd
<1>1. pc = "decompress"
  BY DEF DecompressPass, Control, Emit, CopyWithin, CopyEarlier, CopyRepeat, DecompressEnd, Decodes
<1>2. Given /\ InDecompressor /\ Limits
  BY <1>1, GivenLimits DEF InStep, InCompressor, HasBlob, InDecompressor, Decoded, Given
<1>3. PICK M, e : Blob(M, e) /\ \E p \in M : StandsAt(p)
  BY <1>2 DEF InDecompressor
<1>4. PICK p \in M : StandsAt(p)
  BY <1>3
<1>5. \/ (\E q \in M : StandsAt(q)') /\ UnchangedInDecompress /\ bit_no' > bit_no
      \/ p = e /\ DecompressEnd
  BY <1>2, <1>3, <1>4, PassOfBlob
<1>6. \/ (\E q \in M : StandsAt(q)') /\ UnchangedInDecompress /\ bit_no' > bit_no
      \/ StandsAt(e) /\ DecompressEnd
  BY <1>4, <1>5
<1> QED BY <1>1, <1>2, <1>3, <1>6

\* So it keeps the invariant.
LEMMA DecompressPassKept ==
    ASSUME WithinLimits, InStep, DecompressPass
    PROVE  InStep'
<1>1. pc = "decompress" /\ Given
  BY DecompressPassTaken
<1>2. PICK M, e : /\ Blob(M, e)
                  /\ \/ /\ \E q \in M : StandsAt(q)'
                        /\ UnchangedInDecompress /\ bit_no' > bit_no
                     \/ StandsAt(e) /\ DecompressEnd
  BY DecompressPassTaken
<1>3. Coder /\ HeaderIs
  BY DEF InStep
<1>4. CASE (\E q \in M : StandsAt(q)') /\ UnchangedInDecompress
  <2>1. UNCHANGED <<pc, text, prev_lines, header, l, c_prev, state, bits>>
    BY <1>4 DEF UnchangedInDecompress, call, coder
  <2>2. PICK q \in M : StandsAt(q)'
    BY <1>4
  <2>3. is_all_upper' \in BOOLEAN
    BY <2>2 DEF StandsAt, Place
  <2>4. Given' /\ Length' = Length
    BY <1>1, <2>1, GivenStays
  <2>5. Coder' /\ HeaderIs'
    BY <1>3, <2>1, <2>3, <2>4 DEF Coder, HeaderIs
  <2>6. Blob(M, e)'
    BY <1>2, <2>1, BlobStays
  <2>7. InDecompressor'
    BY <1>1, <2>1, <2>2, <2>6 DEF InDecompressor
  <2> QED BY <2>4, <2>5, <2>7 DEF InStep
<1>5. CASE StandsAt(e) /\ DecompressEnd
  <2>1. /\ pc' = "done"
        /\ UNCHANGED <<text, prev_lines, header, l, c_prev, state, is_all_upper, bits, bit_no,
                       dstate, out>>
    BY <1>5 DEF DecompressEnd, call, coder, decoder
  <2>2. Given' /\ Length' = Length
    BY <1>1, <2>1, GivenStays
  <2>3. Coder' /\ HeaderIs'
    BY <1>1, <1>3, <2>1, <2>2 DEF Coder, HeaderIs
  <2>4. Blob(M, e)' /\ StandsAt(e)'
    <3>1. Blob(M, e)'
      BY <1>2, <2>1, BlobStays
    <3>2. StandsAt(e)'
      BY <1>5, <2>1 DEF StandsAt, DelayedRun
    <3> QED BY <3>1, <3>2
  <2>5. Decoded'
    BY <2>1, <2>4 DEF Decoded
  <2> QED BY <2>2, <2>3, <2>5 DEF InStep
<1> QED BY <1>2, <1>4, <1>5

\* The next row.
LEMMA FinishKept ==
    ASSUME WithinLimits, InStep, Finish
    PROVE  InStep'
<1>1. /\ pc' = "idle" /\ l' = 0 /\ c_prev' = 0 /\ state' = 1 /\ is_all_upper' = FALSE
      /\ bits' = << >> /\ header' = << >> /\ bit_no' = 0 /\ dstate' = SET1 /\ out' = << >>
      /\ text' = text /\ prev_lines' = prev_lines
  BY DEF Finish
<1>2. Given' /\ Length' = Length
  BY <1>1, GivenStays DEF InStep
<1>3. Length' \in Nat /\ Len(text') = Length'
  <2>1. Limits
    BY GivenLimits DEF InStep, Given
  <2> QED BY <1>1, <2>1 DEF Limits, Length
<1>4. Coding'
  <2>1. LeadsTo(bits', text', prev_lines', PlaceOf(bits', l', state', is_all_upper'))
    BY <1>1, <1>3, PathStarts
  <2>2. /\ bits' \in Seq(Bit) /\ l' \in 0 .. Length' /\ c_prev' \in 0 .. 127 /\ state' \in {1, 2}
        /\ is_all_upper' \in BOOLEAN /\ (state' = 2 => is_all_upper' = FALSE)
    <3>1. /\ bits' \in Seq(Bit) /\ l' \in 0 .. Length' /\ c_prev' \in 0 .. 127
          /\ state' \in {1, 2}
      BY <1>1, <1>3
    <3>2. is_all_upper' \in BOOLEAN /\ (state' = 2 => is_all_upper' = FALSE)
      BY <1>1
    <3> QED BY <3>1, <3>2
  <2>3. Previous(c_prev', l', text')
    BY <1>1 DEF Previous
  <2> QED BY <2>1, <2>2, <2>3 DEF Coding
<1>5. Coder' /\ NotStarted' /\ HeaderIs' /\ InCompressor'
  BY <1>1, <1>4 DEF Coder, NotStarted, HeaderIs, InCompressor, Coding
<1> QED BY <1>2, <1>5 DEF InStep

\* Every step keeps the invariant.
LEMMA InStepKept ==
    ASSUME WithinLimits, InStep, [Next]_vars
    PROVE  InStep'
<1>1. CASE Next
  BY <1>1, CallKept, CompressPassKept, CompressEndKept, DecodeCallKept, DecompressPassKept,
     FinishKept DEF Next
<1>2. CASE UNCHANGED vars
  <2>1. UNCHANGED <<pc, text, prev_lines, header, l, c_prev, state, is_all_upper, bits, bit_no,
                    dstate, out>>
    BY <1>2 DEF vars
  <2>2. Given' /\ Length' = Length
    BY <2>1, GivenStays DEF InStep
  <2>3. Coder' /\ HeaderIs'
    BY <2>1, <2>2 DEF InStep, Coder, HeaderIs
  <2>4. CASE InCompressor
    <3>1. InCompressor'
      BY <2>1, <2>2, <2>4 DEF InCompressor, NotStarted, Coding
    <3> QED BY <2>2, <2>3, <3>1 DEF InStep
  <2>5. CASE HasBlob
    <3>1. \E M, e : Blob(M, e)'
      BY <2>1, <2>5, BlobStays DEF HasBlob
    <3>2. HasBlob'
      BY <2>1, <2>5, <3>1 DEF HasBlob, NotStarted
    <3> QED BY <2>2, <2>3, <3>2 DEF InStep
  <2>6. ASSUME NEW p, StandsAt(p) PROVE StandsAt(p)'
    BY <2>1, <2>6 DEF StandsAt, DelayedRun
  <2>7. CASE InDecompressor
    <3>1. InDecompressor'
      BY <2>1, <2>6, <2>7, BlobStays DEF InDecompressor
    <3> QED BY <2>2, <2>3, <3>1 DEF InStep
  <2>8. CASE Decoded
    <3>1. Decoded'
      BY <2>1, <2>6, <2>8, BlobStays DEF Decoded
    <3> QED BY <2>2, <2>3, <3>1 DEF InStep
  <2> QED BY <2>4, <2>5, <2>7, <2>8 DEF InStep
<1> QED BY <1>1, <1>2

\* The types of both functions' variables.
LEMMA InStepTypes ==
    ASSUME WithinLimits, InStep
    PROVE  TypeOK
<1>1. text \in Seq(0 .. 127) /\ prev_lines \in Seq(Seq(1 .. 127)) /\ Limits
  BY TextsAssumption, EarlierLinesAssumption, GivenLimits DEF InStep, Given
<1>2. pc \in {"idle", "compress", "compressed", "decompress", "done", "null"}
  BY DEF InStep, InCompressor, HasBlob, InDecompressor, Decoded
<1>3. bits \in Seq(Bit) /\ Len(bits) \in Nat
  <2>1. bits \in Seq(Bit)
    BY DEF InStep, InCompressor, HasBlob, InDecompressor, Decoded, Coding, Blob
  <2> QED BY <2>1
<1>4. \A k \in DOMAIN bits : bits[k] \in {0, 1}
  BY <1>3 DEF Bit
<1>5. \A k \in DOMAIN header : header[k] \in 0 .. 2 * VarintBase - 1
  <2> DEFINE B == 0 .. 2 * VarintBase - 1
  <2>1. header \in Seq(B)
    BY DEF InStep, HeaderIs
  <2> HIDE DEF B
  <2>2. \A k \in DOMAIN header : header[k] \in B
    BY <2>1
  <2> QED BY <2>2 DEF B
<1>6. /\ bit_no \in 0 .. Len(bits) /\ dstate \in {SET1, SET2} /\ out \in Seq(0 .. 127)
  <2>1. CASE NotStarted
    <3>1. << >> \in Seq(0 .. 127)
      OBVIOUS
    <3> QED BY <1>3, <2>1, <3>1 DEF NotStarted
  <2>2. ASSUME NEW M, NEW e, Blob(M, e), NEW p \in M, StandsAt(p)
        PROVE  /\ bit_no \in 0 .. Len(bits) /\ dstate \in {SET1, SET2} /\ out \in Seq(0 .. 127)
    <3>1. p.at \in Nat /\ e.at \in Nat /\ p.at <= e.at /\ Len(bits) - e.at \in 0 .. 7
      BY <2>2 DEF Blob, Place
    <3>2. bit_no = p.at /\ dstate = SetOf(p.state) /\ out \in Seq(0 .. 127)
      BY <2>2 DEF StandsAt
    <3>3. bit_no \in 0 .. Len(bits)
      BY <1>3, <3>1, <3>2
    <3> QED BY <3>2, <3>3 DEF SetOf
  <2>3. CASE InDecompressor
    BY <2>2, <2>3 DEF InDecompressor
  <2>4. CASE Decoded
    <3>1. PICK M, e : Blob(M, e) /\ StandsAt(e)
      BY <2>4 DEF Decoded
    <3>2. e \in M
      BY <3>1 DEF Blob
    <3> QED BY <2>2, <3>1, <3>2
  <2> QED BY <2>1, <2>3, <2>4 DEF InStep, InCompressor, HasBlob
<1>7. \A k \in DOMAIN out : out[k] \in 0 .. 127
  <2>1. PICK S : S = 0 .. 127
    OBVIOUS
  <2>2. out \in Seq(S)
    BY <1>6, <2>1
  <2>3. \A k \in DOMAIN out : out[k] \in S
    BY <2>2
  <2> QED BY <2>1, <2>3
<1>8. l \in 0 .. Length /\ c_prev \in 0 .. 127 /\ state \in {1, 2} /\ is_all_upper \in BOOLEAN
  BY DEF InStep, Coder
<1> QED BY <1>1, <1>2, <1>4, <1>5, <1>6, <1>7, <1>8 DEF TypeOK

\* The text, as far as it has been decoded.
LEMMA InStepDecoded ==
    ASSUME WithinLimits, InStep, pc \in {"decompress", "done"}
    PROVE  /\ out \in Seq(0 .. 127) /\ Len(out) \in Nat /\ Len(out) <= Length /\ Length \in Nat
           /\ pc = "done" => Len(out) = Length
           /\ ~DelayedRun(text) => \A k \in 1 .. Len(out) : out[k] = text[k]
<1>1. PICK M, e : Blob(M, e) /\ \E p \in M : StandsAt(p) /\ (pc = "done" => p = e)
  <2>1. CASE InDecompressor
    BY <2>1 DEF InDecompressor
  <2>2. CASE Decoded
    BY <2>2 DEF Decoded, Blob
  <2> QED BY <2>1, <2>2 DEF InStep, InCompressor, HasBlob
<1>2. PICK p \in M : StandsAt(p) /\ (pc = "done" => p = e)
  BY <1>1
<1>3. /\ out \in Seq(0 .. 127) /\ Len(out) = p.l
      /\ ~DelayedRun(text) => \A k \in 1 .. p.l : out[k] = text[k]
  BY <1>2 DEF StandsAt
<1>4. p.l <= Length /\ p.l \in Nat /\ e.l = Length
  BY <1>1 DEF Blob, Place
<1>5. Length \in Nat
  BY GivenLimits DEF InStep, Given, Limits
<1> QED BY <1>2, <1>3, <1>4, <1>5

\* OutputFits follows from it.
LEMMA InStepFits ==
    ASSUME WithinLimits, InStep
    PROVE  OutputFits
<1> SUFFICES ASSUME pc \in {"decompress", "done"}
             PROVE  Len(out) <= decode_unsigned_varint(header)
  BY DEF OutputFits
<1>1. Len(out) <= Length /\ Length \in Nat
  BY InStepDecoded
<1>2. header = encode_unsigned_varint[Length]
  BY DEF InStep, HeaderIs
<1>3. decode_unsigned_varint(header) = Length
  BY <1>1, <1>2, VarintDecoded
<1> QED BY <1>1, <1>3

\* DecodedPrefix follows from it.
LEMMA InStepPrefix ==
    ASSUME WithinLimits, NoDelayedRuns, InStep
    PROVE  DecodedPrefix
<1> SUFFICES ASSUME pc = "decompress" PROVE out = SubSeq(text, 1, Len(out))
  BY DEF DecodedPrefix
<1>1. ~DelayedRun(text)
  BY DEF NoDelayedRuns, InStep, Given
<1>2. /\ out \in Seq(0 .. 127) /\ Len(out) \in Nat /\ Len(out) <= Length
      /\ \A k \in 1 .. Len(out) : out[k] = text[k]
  BY <1>1, InStepDecoded
<1>3. text \in Seq(0 .. 127)
  BY TextsAssumption DEF InStep, Given
<1>4. PICK S : text \in Seq(S) /\ out \in Seq(S)
  BY <1>2, <1>3
<1>5. Len(out) <= Len(text)
  BY <1>2 DEF Length
<1> DEFINE m == Len(out)  s == SubSeq(text, 1, m)
<1>6. m \in Nat /\ m <= Len(text)
  BY <1>2, <1>5
<1>7. s \in Seq(S) /\ Len(s) = m /\ \A k \in 1 .. m : s[k] = text[k]
  <2> HIDE DEF m
  <2>1. \A k \in 1 .. m : 1 + k - 1 = k
    OBVIOUS
  <2> QED BY <1>4, <1>6, <2>1
<1> HIDE DEF s
<1>8. out = s
  BY <1>2, <1>4, <1>7
<1> QED BY <1>8 DEF s

\* RoundTrip follows from it.
LEMMA InStepRoundTrip ==
    ASSUME WithinLimits, NoDelayedRuns, InStep
    PROVE  RoundTrip
<1>1. pc = "null" => text = << >>
  BY DEF InStep, InCompressor, HasBlob, InDecompressor, Decoded
<1>2. ASSUME pc = "done" PROVE out = text
  <2>1. ~DelayedRun(text)
    BY DEF NoDelayedRuns, InStep, Given
  <2>2. /\ out \in Seq(0 .. 127) /\ Len(out) = Len(text)
        /\ \A k \in 1 .. Len(out) : out[k] = text[k]
    BY <1>2, <2>1, InStepDecoded DEF Length
  <2>3. text \in Seq(0 .. 127)
    BY TextsAssumption DEF InStep, Given
  <2> QED BY <2>2, <2>3
<1> QED BY <1>1, <1>2 DEF RoundTrip

------------------------------------------------------------------------------
(* How many bits a text is coded as.                                        *)

\* A count has 21 bits at most, and a small one 7.
LEMMA CountCost ==
    ASSUME NEW n \in 0 .. MaxCount
    PROVE  Len(encodeCount(n)) <= 21 /\ (n < 36 => Len(encodeCount(n)) <= 7)
<1>1. PICK i \in 1 .. 6, y \in Nat :
          /\ n = CountClass[i].adder + y /\ y < 2 ^ CountClass[i].bit_len
          /\ encodeCount(n) = CountClass[i].code
                 \o Bits(y * 2 ^ (16 - CountClass[i].bit_len), CountClass[i].bit_len)
  BY ClassOf
<1> DEFINE c == CountClass[i].code  bl == CountClass[i].bit_len  ad == CountClass[i].adder
           w == Bits(y * 2 ^ (16 - bl), bl)
<1>2. n \in Nat
  BY MaxCountIsNumber
<1>3. /\ c \in Seq(Bit) /\ bl \in 1 .. 16 /\ ad \in Nat /\ Len(c) + bl <= 21
      /\ (ad < 36 => Len(c) + bl <= 7)
  <2>1. \/ c = hcode[2] /\ bl = 2 /\ ad = 0
        \/ c = hcode[1] /\ bl = 5 /\ ad = 4
        \/ c = hcode[3] /\ bl = 7 /\ ad = 36
        \/ c = hcode[4] /\ bl = 9 /\ ad = 164
        \/ c = hcode[5] /\ bl = 12 /\ ad = 676
        \/ c = hcode[6] /\ bl = 16 /\ ad = 4772
    BY Classes, SMT DEF Class
  <2>2. /\ Len(hcode[1]) = 2 /\ Len(hcode[2]) = 1 /\ Len(hcode[3]) = 3 /\ Len(hcode[4]) = 5
        /\ Len(hcode[5]) = 5 /\ Len(hcode[6]) = 5
    BY HWords
  <2>3. /\ hcode[1] \in Seq(Bit) /\ hcode[2] \in Seq(Bit) /\ hcode[3] \in Seq(Bit)
        /\ hcode[4] \in Seq(Bit) /\ hcode[5] \in Seq(Bit) /\ hcode[6] \in Seq(Bit)
    BY WordBits
  <2> HIDE DEF c, bl, ad
  <2>4. c \in Seq(Bit)
    BY <2>1, <2>3, SMT
  <2>5. bl \in 1 .. 16 /\ ad \in Nat
    BY <2>1, SMT
  <2>6. Len(c) + bl <= 21 /\ (ad < 36 => Len(c) + bl <= 7)
    <3> DEFINE m == Len(c)
    <3>1. \/ m = 1 /\ bl = 2 /\ ad = 0
          \/ m = 2 /\ bl = 5 /\ ad = 4
          \/ m = 3 /\ bl = 7 /\ ad = 36
          \/ m = 5 /\ bl = 9 /\ ad = 164
          \/ m = 5 /\ bl = 12 /\ ad = 676
          \/ m = 5 /\ bl = 16 /\ ad = 4772
      BY <2>1, <2>2
    <3> HIDE DEF m
    <3>2. m + bl <= 21 /\ (ad < 36 => m + bl <= 7)
      BY <3>1, SMT
    <3> QED BY <3>2 DEF m
  <2> QED BY <2>4, <2>5, <2>6
<1>4. w \in Seq(Bit) /\ Len(w) = bl
  <2> DEFINE z == y * 2 ^ (16 - bl)
  <2>1. z \in Nat /\ bl \in 0 .. 16
    <3>1. 2 ^ (16 - bl) \in Nat
      BY ClassPowers
    <3> DEFINE p == 2 ^ (16 - bl)
    <3> HIDE DEF p, bl
    <3>2. y * p \in Nat
      BY <3>1 DEF p
    <3> QED BY <1>3, <3>2 DEF p
  <2> HIDE DEF z, bl
  <2>2. Bits(z, bl) \in Seq(Bit) /\ Len(Bits(z, bl)) = bl
    BY <2>1, BitsWord
  <2> QED BY <2>2 DEF z
<1>5. Len(encodeCount(n)) = Len(c) + bl
  <2>1. encodeCount(n) = c \o w
    BY <1>1
  <2> HIDE DEF w, c, bl
  <2> QED BY <1>3, <1>4, <2>1
<1> HIDE DEF c, bl, ad, w
<1>6. n < 36 => ad < 36
  BY <1>1, <1>2, <1>3 DEF ad
<1> QED BY <1>3, <1>5, <1>6

\* The lengths in l_95: all of them, those of small letters, those of what has a
\* code in state 2.
LEMMA CodeLengths ==
    /\ \A k \in 1 .. 95 : l_95[k] \in 3 .. 13
    /\ \A k \in 66 .. 91 : l_95[k] <= 9
    /\ \A k \in (1 .. 34) \cup (60 .. 64) \cup (92 .. 95) : l_95[k] <= 12
<1>1. \A k \in 1 .. 95 : l_95[k] \in 3 .. 13
  BY SMT DEF l_95
<1>2. \A k \in 66 .. 91 : l_95[k] <= 9
  BY SMT DEF l_95
<1>3. \A k \in (1 .. 34) \cup (60 .. 64) \cup (92 .. 95) : l_95[k] <= 12
  BY SMT DEF l_95
<1> QED BY <1>1, <1>2, <1>3

\* The codes that append_bits cuts are longer than what it cuts off; those of the
\* digits are among them.
LEMMA CutCodes ==
    /\ \A k \in 1 .. 95 : c_95[k] \in Nat /\ (c_95[k] \div 512 = 28 => l_95[k] >= 7)
    /\ \A k \in 17 .. 26 : c_95[k] \div 512 = 28
<1>1. \A k \in 1 .. 95 : c_95[k] \in Nat
  BY SMT DEF c_95
<1>2. \A k \in 1 .. 95 : c_95[k] \div 512 = 28 => l_95[k] >= 7
  BY SMT DEF c_95, l_95
<1>3. \A k \in 17 .. 26 : c_95[k] \div 512 = 28
  BY SMT DEF c_95
<1> QED BY <1>1, <1>2, <1>3

\* What append_bits adds is no longer than the code.
LEMMA AppendedLength ==
    ASSUME NEW k \in 1 .. 95, NEW st
    PROVE  /\ Len(append_bits(c_95[k], l_95[k], st)) <= l_95[k]
           /\ (st = 2 /\ c_95[k] \div 512 = 28
                  => Len(append_bits(c_95[k], l_95[k], st)) <= l_95[k] - 7)
<1> DEFINE c == c_95[k]  n == l_95[k]
<1>1. c \in Nat /\ n \in 3 .. 13 /\ (c \div 512 = 28 => n >= 7)
  BY CodeLengths, CutCodes
<1> HIDE DEF c, n
<1>2. \A x \in Nat, m \in 0 .. 16 : Len(Bits(x, m)) = m
  BY BitsWord
<1>3. CASE st = 2 /\ c \div 512 = 28
  <2>1. append_bits(c, n, st) = Bits(c * 128, n - 7)
    BY <1>3 DEF append_bits
  <2>2. c * 128 \in Nat /\ n - 7 \in 0 .. 16
    BY <1>1, <1>3
  <2>3. Len(append_bits(c, n, st)) = n - 7
    BY <1>2, <2>1, <2>2
  <2> QED BY <1>1, <2>3 DEF c, n
<1>4. CASE ~(st = 2 /\ c \div 512 = 28)
  <2>1. append_bits(c, n, st) = Bits(c, n)
    BY <1>4 DEF append_bits
  <2>2. n \in 0 .. 16
    BY <1>1
  <2>3. Len(append_bits(c, n, st)) = n
    BY <1>1, <1>2, <2>1, <2>2
  <2> QED BY <1>1, <1>4, <2>3 DEF c, n
<1> QED BY <1>3, <1>4

\* The lengths of the codes that do not depend on a character.
LEMMA FixedLengths ==
    /\ Len(Bits(8192, 4)) = 4 /\ Len(Bits(8704, 8)) = 8 /\ Len(Bits(14336, 7)) = 7
    /\ Len(Word(4, 6)) = 11 /\ Len(Word(2, 6)) = 9 /\ Len(Word(2, 7)) = 9
    /\ Len(Two(ToSet1, Word(2, 7))) = 13 /\ Len(Two(ToSet1, vcode[2])) = 7
<1>1. /\ Len(Bits(8192, 4)) = 4 /\ Len(Bits(8704, 8)) = 8 /\ Len(Bits(14336, 7)) = 7
  BY SMT DEF Bits
<1>2. /\ Len(Bits(15232, 11)) = 11 /\ Len(Bits(13824, 9)) = 9 /\ Len(Bits(13952, 9)) = 9
      /\ Len(Bits(9064, 13)) = 13 /\ Len(Bits(9216, 7)) = 7
  BY SMT DEF Bits
<1> QED BY <1>1, <1>2, FixedCodes, SMT

\* The code of a character: in a run of capitals, in state 2, when a digit enters
\* it, and in general.
LEMMA CodeCost ==
    ASSUME Limits, Coding, l < Length
    PROVE  /\ Len(CharCode) <= 13
           /\ (UpperNow => Len(CharCode) <= 9)
           /\ (StateNow = 2 => Len(CharCode) <= 12)
           /\ (EntersSet2 => Len(CharCode) <= 5)
<1>1. /\ c_in \in Characters /\ UpperNow \in BOOLEAN
      /\ StateNow \in {1, 2} /\ (StateNow = 2 => UpperNow = FALSE)
      /\ (c_in \notin Set2Chars => StateNow = 1) /\ (~IsUpper(c_in) => UpperNow = FALSE)
  BY StateOf
<1>2. EntersSet2 => IsDigit(c_in) /\ StateNow = 2
  BY DEF EntersSet2, StateNow
<1> DEFINE w == CharCode
<1>3. CASE c_in = SPACE /\ StateNow = 2
  <2>1. Len(w) = 11
    BY <1>3, OtherCodes, FixedLengths
  <2>2. ~IsDigit(c_in)
    BY <1>3 DEF SPACE, IsDigit
  <2> HIDE DEF w
  <2>3. UpperNow = FALSE /\ ~EntersSet2
    BY <1>1, <1>2, <1>3, <2>2
  <2> QED BY <2>1, <2>3 DEF w
<1>4. CASE c_in \in 32 .. 126 /\ ~(c_in = SPACE /\ StateNow = 2)
  <2> DEFINE k == c_in - 31 + (IF UpperNow THEN 32 ELSE 0)
  <2>1. w = append_bits(c_95[k], l_95[k], StateNow)
    BY <1>4, VisibleCode
  <2>2. UpperNow => k \in 66 .. 91 /\ k \in 1 .. 95
    BY <1>1 DEF IsUpper
  <2>3. ~UpperNow => k = c_in - 31 /\ k \in 1 .. 95
    BY <1>4
  <2>4. StateNow = 2 => k \in (1 .. 34) \cup (60 .. 64) \cup (92 .. 95)
    BY <1>1, <2>3 DEF Set2Chars
  <2>5. EntersSet2 => k \in 17 .. 26
    BY <1>1, <1>2, <2>3 DEF IsDigit
  <2>6. k \in 1 .. 95
    BY <2>2, <2>3
  <2> HIDE DEF k
  <2>7. /\ Len(w) <= l_95[k]
        /\ (StateNow = 2 /\ c_95[k] \div 512 = 28 => Len(w) <= l_95[k] - 7)
    BY <2>1, <2>6, AppendedLength
  <2>8. Len(w) \in Nat
    BY CodeIsWord
  <2> HIDE DEF w
  <2>9. l_95[k] \in 3 .. 13
    BY <2>6, CodeLengths
  <2>10. Len(w) <= 13
    BY <2>7, <2>8, <2>9
  <2>11. UpperNow => Len(w) <= 9
    <3>1. UpperNow => l_95[k] <= 9
      BY <2>2, CodeLengths
    <3> QED BY <2>7, <2>8, <2>9, <3>1
  <2>12. StateNow = 2 => Len(w) <= 12
    <3>1. StateNow = 2 => l_95[k] <= 12
      BY <2>4, CodeLengths
    <3> QED BY <2>7, <2>8, <2>9, <3>1
  <2>13. EntersSet2 => Len(w) <= 5
    <3> SUFFICES ASSUME EntersSet2 PROVE Len(w) <= 5
      OBVIOUS
    <3>1. k \in 17 .. 26 /\ StateNow = 2
      BY <1>2, <2>5
    <3>2. c_95[k] \div 512 = 28
      BY <3>1, CutCodes
    <3>3. l_95[k] <= 12
      BY <2>4, <3>1, CodeLengths
    <3> QED BY <2>7, <2>8, <2>9, <3>1, <3>2, <3>3
  <2> QED BY <2>10, <2>11, <2>12, <2>13 DEF w
<1>5. CASE c_in \in {TAB, LF, CR}
  <2>1. Len(w) <= 13
    <3>1. \/ w = Word(2, 6) \/ w = Two(ToSet1, Word(2, 7))
          \/ w = Word(2, 7) \/ w = Two(ToSet1, vcode[2])
      BY <1>5, OtherCodes
    <3> HIDE DEF w
    <3> DEFINE m == Len(w)
    <3>2. m = 7 \/ m = 9 \/ m = 13
      BY <3>1, FixedLengths
    <3> HIDE DEF m
    <3>3. m <= 13
      BY <3>2
    <3> QED BY <3>3 DEF m
  <2>2. c_in \notin Set2Chars /\ ~IsUpper(c_in)
    BY <1>5 DEF Set2Chars, IsUpper, TAB, LF, CR
  <2> HIDE DEF w
  <2>3. StateNow = 1 /\ UpperNow = FALSE /\ ~EntersSet2
    BY <1>1, <1>2, <2>2
  <2> QED BY <2>1, <2>3 DEF w
<1> QED BY <1>1, <1>3, <1>4, <1>5 DEF Characters

\* The switches before it.
LEMMA SwitchesCost ==
    ASSUME Limits, Coding, l < Length
    PROVE  /\ Switches \in Seq(Bit)
           /\ Len(Switches) = (IF LeavesSet2 THEN 4 ELSE 0) + (IF LeavesUpper THEN 4 ELSE 0)
                  + (IF EntersUpper THEN 8 ELSE 0) + (IF EntersSet2 THEN 7 ELSE 0)
<1> DEFINE s1 == IF LeavesSet2 THEN Bits(8192, 4) ELSE << >>
           s2 == IF LeavesUpper THEN Bits(8192, 4) ELSE << >>
           s3 == IF EntersUpper THEN Bits(8704, 8) ELSE << >>
           s4 == IF EntersSet2 THEN Bits(14336, 7) ELSE << >>
<1>1. /\ Bits(8192, 4) \in Seq(Bit) /\ Bits(8704, 8) \in Seq(Bit) /\ Bits(14336, 7) \in Seq(Bit)
      /\ << >> \in Seq(Bit) /\ Len(<< >>) = 0
  BY FixedCodes, SwitchesAreWords, SMT
<1>2. s1 \in Seq(Bit) /\ Len(s1) = IF LeavesSet2 THEN 4 ELSE 0
  <2>1. CASE LeavesSet2
    BY <1>1, <2>1, FixedLengths
  <2>2. CASE ~LeavesSet2
    BY <1>1, <2>2
  <2> QED BY <2>1, <2>2
<1>3. s2 \in Seq(Bit) /\ Len(s2) = IF LeavesUpper THEN 4 ELSE 0
  <2>1. CASE LeavesUpper
    BY <1>1, <2>1, FixedLengths
  <2>2. CASE ~LeavesUpper
    BY <1>1, <2>2
  <2> QED BY <2>1, <2>2
<1>4. s3 \in Seq(Bit) /\ Len(s3) = IF EntersUpper THEN 8 ELSE 0
  <2>1. CASE EntersUpper
    BY <1>1, <2>1, FixedLengths
  <2>2. CASE ~EntersUpper
    BY <1>1, <2>2
  <2> QED BY <2>1, <2>2
<1>5. s4 \in Seq(Bit) /\ Len(s4) = IF EntersSet2 THEN 7 ELSE 0
  <2>1. CASE EntersSet2
    BY <1>1, <2>1, FixedLengths
  <2>2. CASE ~EntersSet2
    BY <1>1, <2>2
  <2> QED BY <2>1, <2>2
<1>6. Switches = ((s1 \o s2) \o s3) \o s4
  BY SMT DEF Switches
<1> HIDE DEF s1, s2, s3, s4
<1>c. \A x, y \in Seq(Bit) : x \o y \in Seq(Bit) /\ Len(x \o y) = Len(x) + Len(y)
  OBVIOUS
<1>m. s1 \in Seq(Bit) /\ s2 \in Seq(Bit) /\ s3 \in Seq(Bit) /\ s4 \in Seq(Bit)
  BY <1>2, <1>3, <1>4, <1>5
<1>7. (s1 \o s2) \in Seq(Bit) /\ Len(s1 \o s2) = Len(s1) + Len(s2)
  BY <1>c, <1>m
<1>8. ((s1 \o s2) \o s3) \in Seq(Bit) /\ Len((s1 \o s2) \o s3) = Len(s1 \o s2) + Len(s3)
  BY <1>c, <1>m, <1>7
<1>9. Switches \in Seq(Bit) /\ Len(Switches) = Len((s1 \o s2) \o s3) + Len(s4)
  BY <1>c, <1>m, <1>6, <1>8
<1> DEFINE n1 == Len(s1)  n2 == Len(s2)  n3 == Len(s3)  n4 == Len(s4)
<1>10. /\ n1 = (IF LeavesSet2 THEN 4 ELSE 0) /\ n2 = (IF LeavesUpper THEN 4 ELSE 0)
       /\ n3 = (IF EntersUpper THEN 8 ELSE 0) /\ n4 = (IF EntersSet2 THEN 7 ELSE 0)
       /\ Len(Switches) = ((n1 + n2) + n3) + n4
  BY <1>2, <1>3, <1>4, <1>5, <1>7, <1>8, <1>9
<1> HIDE DEF n1, n2, n3, n4
<1>11. Len(Switches) = n1 + n2 + n3 + n4
  BY <1>10
<1> QED BY <1>9, <1>10, <1>11

\* The state of the compressor by one name.
Mode(st, up) == IF up THEN "upper" ELSE IF st = 2 THEN "set2" ELSE "plain"
\* What a character may cost, with its switches, between two of them.
Price(m, next) ==
    CASE next = "upper" -> (IF m = "upper" THEN 9 ELSE IF m = "set2" THEN 21 ELSE 17)
      [] next = "set2" -> (IF m = "upper" THEN 16 ELSE 12)
      [] next = "plain" -> (IF m = "plain" THEN 13 ELSE 17)

\* A character costs no more than that; a run of capitals begins only with six
\* characters to come.
LEMMA LiteralCost ==
    ASSUME Limits, Coding, l < Length
    PROVE  LET m == Mode(state, is_all_upper)
               next == Mode(StateNow, UpperNow)
           IN  /\ Len((bits \o Switches) \o CharCode) <= Len(bits) + Price(m, next)
               /\ (next = "upper" /\ m # "upper" => Length - l >= 6)
<1> DEFINE m == Mode(state, is_all_upper)  next == Mode(StateNow, UpperNow)
           s == Switches  w == CharCode
<1>1. /\ bits \in Seq(Bit) /\ l \in Nat /\ Length \in Nat /\ state \in {1, 2}
      /\ is_all_upper \in BOOLEAN /\ (state = 2 => is_all_upper = FALSE)
  BY DEF Limits, Coding
<1>2. /\ s \in Seq(Bit) /\ w \in Seq(Bit)
      /\ Len(s) = (IF LeavesSet2 THEN 4 ELSE 0) + (IF LeavesUpper THEN 4 ELSE 0)
                      + (IF EntersUpper THEN 8 ELSE 0) + (IF EntersSet2 THEN 7 ELSE 0)
  BY SwitchesCost, CodeIsWord
<1>3. /\ Len(w) <= 13 /\ (UpperNow => Len(w) <= 9) /\ (StateNow = 2 => Len(w) <= 12)
      /\ (EntersSet2 => Len(w) <= 5)
  BY CodeCost
<1>4. /\ LeavesSet2 => state = 2 /\ is_all_upper = FALSE
      /\ LeavesUpper => state = 1 /\ is_all_upper = TRUE
      /\ EntersUpper => is_all_upper = FALSE /\ ~EntersSet2
      /\ EntersSet2 => UpperNow = FALSE
      /\ StateNow \in {1, 2} /\ (StateNow = 2 => UpperNow = FALSE)
  BY SwitchesNeeded
<1>5. UpperNow \in BOOLEAN
  BY StateOf
<1>6. /\ (LeavesSet2 <=> state = 2 /\ StateBefore = 1)
      /\ (StateNow = 2 => (StateBefore = 2 \/ EntersSet2)) /\ (StateNow = 1 => StateBefore = 1)
      /\ (EntersSet2 => StateNow = 2 /\ StateBefore = 1)
      /\ StateBefore \in {1, 2} /\ (StateBefore = 2 => state = 2)
  BY <1>1 DEF StateNow, StateBefore, EntersSet2, LeavesSet2
<1>7. /\ (LeavesUpper <=> is_all_upper /\ ~IsUpper(c_in))
      /\ (UpperNow <=> (is_all_upper /\ IsUpper(c_in)) \/ EntersUpper)
      /\ (EntersUpper => Length - l >= 6)
  BY <1>1 DEF LeavesUpper, UpperNow, EntersUpper
<1>8. (next = "upper" /\ m # "upper") => (EntersUpper /\ Length - l >= 6)
  BY <1>1, <1>5, <1>7 DEF Mode
<1> DEFINE n == Len(bits)  ns == Len(s)  nw == Len(w)
<1>9. Len((bits \o s) \o w) = (n + ns) + nw /\ n \in Nat /\ ns \in Nat /\ nw \in Nat
  <2> HIDE DEF s, w
  <2>1. \A x, y \in Seq(Bit) : /\ x \o y \in Seq(Bit) /\ Len(x \o y) = Len(x) + Len(y)
                              /\ Len(x) \in Nat
    OBVIOUS
  <2>2. (bits \o s) \in Seq(Bit) /\ Len(bits \o s) = Len(bits) + Len(s)
    BY <1>1, <1>2, <2>1
  <2> QED BY <1>1, <1>2, <2>1, <2>2
<1>10. ns + nw <= Price(m, next)
  <2> HIDE DEF s, w, ns, nw
  <2>1. CASE next = "upper"
    <3>1. UpperNow = TRUE /\ StateNow = 1 /\ ~EntersSet2 /\ ~LeavesUpper /\ nw <= 9
      BY <1>3, <1>4, <1>5, <1>7, <2>1 DEF Mode, nw
    <3>2. /\ (EntersUpper <=> m # "upper") /\ (LeavesSet2 <=> m = "set2")
      BY <1>1, <1>4, <1>6, <1>7, <2>1, <3>1 DEF Mode
    <3>3. ns = (IF m = "set2" THEN 4 ELSE 0) + (IF m # "upper" THEN 8 ELSE 0)
      BY <1>2, <3>1, <3>2 DEF ns
    <3> QED BY <1>9, <2>1, <3>1, <3>3 DEF Price
  <2>2. CASE next = "set2"
    <3>1. UpperNow = FALSE /\ StateNow = 2 /\ ~EntersUpper /\ ~LeavesSet2
      <4>1. EntersSet2 => ~LeavesSet2
        <5>1. IsDigit(c_in) => c_in # SPACE /\ c_in \in Set2Chars
          BY DEF IsDigit, SPACE, Set2Chars
        <5> QED BY <5>1 DEF EntersSet2, LeavesSet2
      <4> QED BY <1>4, <1>5, <1>6, <1>7, <2>2, <4>1 DEF Mode
    <3>2. (LeavesUpper <=> m = "upper") /\ (EntersSet2 <=> m # "set2")
      BY <1>1, <1>4, <1>6, <1>7, <2>2, <3>1 DEF Mode
    <3>3. ns = (IF m = "upper" THEN 4 ELSE 0) + (IF m # "set2" THEN 7 ELSE 0)
      BY <1>2, <3>1, <3>2 DEF ns
    <3>4. nw <= 12 /\ (m # "set2" => nw <= 5)
      BY <1>3, <3>1, <3>2 DEF nw
    <3> QED BY <1>9, <2>2, <3>3, <3>4 DEF Price
  <2>3. CASE next = "plain"
    <3>1. UpperNow = FALSE /\ StateNow = 1 /\ ~EntersUpper /\ ~EntersSet2 /\ nw <= 13
      BY <1>3, <1>4, <1>5, <1>6, <1>7, <2>3 DEF Mode, nw
    <3>2. (LeavesUpper <=> m = "upper") /\ (LeavesSet2 <=> m = "set2")
      BY <1>1, <1>4, <1>6, <1>7, <2>3, <3>1 DEF Mode
    <3>3. ns = (IF m = "upper" THEN 4 ELSE 0) + (IF m = "set2" THEN 4 ELSE 0)
      BY <1>2, <3>1, <3>2 DEF ns
    <3> QED BY <1>9, <2>3, <3>1, <3>3 DEF Price
  <2> QED BY <2>1, <2>2, <2>3 DEF Mode
<1> HIDE DEF m, next, s, w
<1>11. Len((bits \o s) \o w) <= Len(bits) + Price(m, next)
  <2> DEFINE p == Price(m, next)
  <2>1. p \in Nat
    BY DEF Price, m, next, Mode
  <2> HIDE DEF p, n, ns, nw
  <2>2. (n + ns) + nw <= n + p
    BY <1>9, <1>10, <2>1 DEF p
  <2> QED BY <1>9, <2>2 DEF p, n
<1> QED BY <1>8, <1>11 DEF m, next, s, w

\* Twice the bits that r characters to come may take.
Room(r, m) ==
    IF r <= 5 THEN 30 * r + (IF m = "upper" THEN 8 ELSE IF m = "set2" THEN 5 ELSE 0)
              ELSE 37 * r - 30 + (IF m = "upper" THEN 3 ELSE IF m = "set2" THEN 8 ELSE 0)
Modes == {"plain", "set2", "upper"}

\* It pays for a character, or two, that one code stands for, with the switches
\* before it.
LEMMA PricePaid ==
    ASSUME NEW r \in Nat, NEW n \in {1, 2}, n <= r, NEW m \in Modes, NEW next \in Modes,
           (next = "upper" /\ m # "upper") => r >= 6
    PROVE  2 * Price(m, next) + Room(r - n, next) <= Room(r, m)
<1>1. CASE next = "upper"
  BY <1>1 DEF Price, Room, Modes
<1>2. CASE next = "set2"
  BY <1>2 DEF Price, Room, Modes
<1>3. CASE next = "plain"
  BY <1>3 DEF Price, Room, Modes
<1> QED BY <1>1, <1>2, <1>3 DEF Modes

\* It pays for a match of three characters, for a longer word and one of four, and
\* for any word and a long match.
LEMMA MatchPaid ==
    ASSUME NEW r \in Nat, NEW n \in Nat, n <= r, NEW m \in Modes, NEW c \in Nat,
           (n >= 3 /\ c <= 38) \/ (n >= 4 /\ c <= 59) \/ (n >= 36 /\ c <= 73)
    PROVE  2 * c + Room(r - n, m) <= Room(r, m)
<1>1. CASE m = "upper"
  BY <1>1 DEF Room
<1>2. CASE m = "set2"
  BY <1>2 DEF Room
<1>3. CASE m = "plain"
  BY <1>3 DEF Room
<1> QED BY <1>1, <1>2, <1>3 DEF Modes

\* What has been paid for is within the bound, filled up to a byte or not.
LEMMA RoomFits ==
    ASSUME Length \in Nat, NEW n \in Nat, NEW r \in Nat, NEW m \in Modes,
           2 * n + Room(r, m) <= Room(Length, "plain")
    PROVE  2 * (n + ((8 - (n % 8)) % 8)) <= 37 * Length + 14 /\ 2 * n <= 37 * Length + 14
<1>1. Room(r, m) \in Nat
  BY DEF Room, Modes
<1>2. Room(Length, "plain") \in Nat /\ Room(Length, "plain") <= 37 * Length
  BY DEF Room
<1> DEFINE x == Room(r, m)  h == Room(Length, "plain")  d == (8 - (n % 8)) % 8
<1>3. d \in 0 .. 7
  BY SMT
<1> HIDE DEF x, h, d
<1>4. 2 * n <= h
  BY <1>1, <1>2 DEF x, h
<1>5. 2 * n <= 37 * Length
  BY <1>2, <1>4 DEF h
<1>6. 2 * (n + d) <= 37 * Length + 14
  BY <1>3, <1>5
<1> QED BY <1>5, <1>6 DEF d

\* What is coded so far and what may come do not take more than was to be expected.
Thrifty == 2 * Len(bits) + Room(Length - l, Mode(state, is_all_upper)) <= Room(Length, "plain")

\* A pass that pays for itself leaves it so.
LEMMA PassPaid ==
    ASSUME Thrifty, Length \in Nat, l \in Nat, l <= Length, bits \in Seq(Bit),
           Length' = Length, NEW n \in Nat, l + n <= Length, l' = l + n,
           NEW c \in Nat, Len(bits') \in Nat, Len(bits') <= Len(bits) + c,
           NEW m \in Modes, NEW next \in Modes,
           m = Mode(state, is_all_upper), next = Mode(state', is_all_upper'),
           2 * c + Room((Length - l) - n, next) <= Room(Length - l, m)
    PROVE  Thrifty'
<1> DEFINE r == Length - l  x == Room(r, m)  y == Room(r - n, next)  z == Room(Length, "plain")
           k == Len(bits)  k2 == Len(bits')
<1>1. /\ \A i \in Nat, a \in Modes : Room(i, a) \in Int
      /\ r \in Nat /\ r - n \in Nat /\ "plain" \in Modes
  BY DEF Room, Modes
<1>2. x \in Int /\ y \in Int /\ z \in Int
  <2> HIDE DEF r
  <2> QED BY <1>1
<1>3. k \in Nat /\ k2 \in Nat /\ k2 <= k + c /\ 2 * c + y <= x /\ 2 * k + x <= z
  BY DEF Thrifty
<1>4. Length' - l' = r - n
  OBVIOUS
<1> HIDE DEF x, y, z, k, k2, r
<1>5. 2 * k2 + y <= z
  BY <1>2, <1>3
<1>6. 2 * Len(bits') + Room(Length' - l', Mode(state', is_all_upper')) <= Room(Length', "plain")
  BY <1>4, <1>5 DEF k2, y, z
<1> QED BY <1>6 DEF Thrifty

\* The state is one of the modes.
LEMMA ModeOf ==
    ASSUME NEW st, NEW up
    PROVE  Mode(st, up) \in Modes
BY DEF Mode, Modes

\* The words that announce a match have ten bits.
LEMMA MatchWords ==
    /\ Bits(14208, 10) \in Seq(Bit) /\ Len(Bits(14208, 10)) = 10
    /\ Bits(14144, 10) \in Seq(Bit) /\ Len(Bits(14144, 10)) = 10
    /\ Bits(14080, 10) \in Seq(Bit) /\ Len(Bits(14080, 10)) = 10
<1>1. 14208 \in Nat /\ 14144 \in Nat /\ 14080 \in Nat /\ 10 \in 0 .. 16
  BY SMT
<1>2. \A x \in Nat, m \in 0 .. 16 : Bits(x, m) \in Seq(Bit) /\ Len(Bits(x, m)) = m
  BY BitsWord
<1> QED BY <1>1, <1>2, SMT

\* A count is a word of 21 bits at most, a small one of 7.
LEMMA CountBits ==
    ASSUME NEW x \in 0 .. MaxCount
    PROVE  /\ encodeCount(x) \in Seq(Bit) /\ Len(encodeCount(x)) \in Nat
           /\ Len(encodeCount(x)) <= 21 /\ (x < 36 => Len(encodeCount(x)) <= 7)
<1>1. encodeCount(x) \in Seq(Bit)
  BY CountWord
<1> QED BY <1>1, CountCost

\* The length of what is joined.
LEMMA Joined ==
    ASSUME NEW b \in Seq(Bit), NEW u \in Seq(Bit), NEW v \in Seq(Bit), NEW w \in Seq(Bit),
           Len(u) = 10
    PROVE  /\ ((b \o u) \o v) \in Seq(Bit) /\ Len((b \o u) \o v) = Len(b) + (10 + Len(v))
           /\ (((b \o u) \o v) \o w) \in Seq(Bit)
           /\ Len(((b \o u) \o v) \o w) = Len(b) + (10 + Len(v) + Len(w))
           /\ Len(b) \in Nat
<1>1. \A x, y \in Seq(Bit) : /\ x \o y \in Seq(Bit) /\ Len(x \o y) = Len(x) + Len(y)
                            /\ Len(x) \in Nat
  OBVIOUS
<1>2. /\ (b \o u) \in Seq(Bit) /\ Len(b \o u) = Len(b) + Len(u)
      /\ Len(b) \in Nat /\ Len(v) \in Nat /\ Len(w) \in Nat
  BY <1>1
<1>3. ((b \o u) \o v) \in Seq(Bit) /\ Len((b \o u) \o v) = Len(b \o u) + Len(v)
  BY <1>1, <1>2
<1>4. /\ (((b \o u) \o v) \o w) \in Seq(Bit)
      /\ Len(((b \o u) \o v) \o w) = Len((b \o u) \o v) + Len(w)
  BY <1>1, <1>3
<1> DEFINE k == Len(b)  i == Len(v)  m == Len(w)  n1 == Len(b \o u)  n2 == Len((b \o u) \o v)
           n3 == Len(((b \o u) \o v) \o w)
<1>5. /\ k \in Nat /\ i \in Nat /\ m \in Nat /\ n1 = k + 10 /\ n2 = n1 + i /\ n3 = n2 + m
  BY <1>2, <1>3, <1>4
<1> HIDE DEF k, i, m, n1, n2, n3
<1>6. n2 = k + (10 + i) /\ n3 = k + (10 + i + m)
  BY <1>5
<1> QED BY <1>2, <1>3, <1>4, <1>6 DEF k, i, m, n2, n3

\* A match of n characters is coded by c bits, few enough.
Matched(n, c) ==
    /\ (n >= 3 /\ c <= 38) \/ (n >= 4 /\ c <= 59) \/ (n >= 36 /\ c <= 73)
    /\ l + n <= Length /\ l' = l + n
    /\ Len(bits') = Len(bits) + c
    /\ text' = text /\ state' = state /\ is_all_upper' = is_all_upper

\* A run is coded by few enough bits: ten and a count.
LEMMA RepeatCost ==
    ASSUME Limits, Coding, Repeat
    PROVE  \E n \in Nat, c \in Nat : Matched(n, c)
<1> DEFINE n == rpt_count  u == Bits(14208, 10)  c == encodeCount(n - 4)
<1>1. /\ text \in Seq(0 .. 127) /\ l \in 0 .. Length /\ Length \in Nat /\ bits \in Seq(Bit)
  BY DEF Limits, Coding
<1>2. n \in Nat /\ n >= 4 /\ l + n <= Length
  BY <1>1, RepeatFound DEF Repeat
<1>3. n - 4 \in 0 .. MaxCount
  <2>1. l \in Nat /\ Length \in Nat /\ Length <= MaxCount /\ MaxCount \in Nat
    BY <1>1, MaxCountIsNumber DEF Limits
  <2> HIDE DEF n
  <2> QED BY <1>2, <2>1
<1>4. c \in Seq(Bit) /\ Len(c) \in Nat /\ Len(c) <= 21
  <2> HIDE DEF n
  <2> QED BY <1>3, CountBits
<1>5. u \in Seq(Bit) /\ Len(u) = 10
  BY MatchWords
<1>6. /\ bits' = (bits \o u) \o c /\ l' = l + n
      /\ text' = text /\ state' = state /\ is_all_upper' = is_all_upper
  BY SMT DEF Repeat, UnchangedInCompress, call
<1>7. Len(bits') = Len(bits) + (10 + Len(c))
  <2> HIDE DEF u, c
  <2> QED BY <1>1, <1>4, <1>5, <1>6, Joined
<1> DEFINE k == 10 + Len(c)
<1>8. k \in Nat /\ k <= 31
  <2> HIDE DEF c
  <2> QED BY <1>4
<1> HIDE DEF n, c
<1>9. Len(bits') = Len(bits) + k
  BY <1>7
<1> HIDE DEF k
<1>10. Matched(n, k)
  <2>1. n >= 4 /\ k <= 59
    BY <1>2, <1>8
  <2> QED BY <1>2, <1>6, <1>9, <2>1 DEF Matched
<1>11. n \in Nat /\ k \in Nat
  BY <1>2, <1>8, Zenon
<1> QED BY <1>10, <1>11, Zenon

\* So is a part of the text before: ten bits and two counts.
LEMMA WithinCost ==
    ASSUME Limits, Coding, MatchesPay, MatchWithin
    PROVE  \E n \in Nat, c \in Nat : Matched(n, c)
<1> DEFINE j == Min(Earliest)  n == WithinLen(j)
           d == l - j - NICE_LEN_FOR_PRIOR + 1
           u == Bits(14144, 10)
           c == encodeCount(n - NICE_LEN_FOR_PRIOR)  e == encodeCount(d)
<1>1. /\ text \in Seq(0 .. 127) /\ l \in 0 .. Length /\ Length \in Nat /\ bits \in Seq(Bit)
      /\ l \in Nat /\ Length <= MaxCount /\ MaxCount \in Nat
  BY MaxCountIsNumber DEF Limits, Coding
<1>2. j \in 0 .. l - 1 /\ n >= NICE_LEN_FOR_PRIOR
  <2>1. Earliest \in SUBSET Nat /\ Earliest # {}
    BY <1>1 DEF Earliest, MatchWithin, MatchesWithin
  <2>2. Min(Earliest) \in Earliest
    BY <2>1, LeastIsMin
  <2> QED BY <2>2 DEF Earliest
<1>3. n \in Nat /\ j + n <= l /\ l + n <= Length
  <2> HIDE DEF j
  <2> QED BY <1>1, <1>2, WithinFound
<1>4. NICE_LEN_FOR_PRIOR \in Nat /\ NICE_LEN_FOR_PRIOR >= 3
  BY NiceLenAssumption DEF MatchesPay
<1>5. n - NICE_LEN_FOR_PRIOR \in 0 .. MaxCount /\ d \in 0 .. MaxCount /\ n >= 3
      /\ (n < 36 => n - NICE_LEN_FOR_PRIOR < 36)
  <2> HIDE DEF j, n
  <2> QED BY <1>1, <1>2, <1>3, <1>4
<1>6. \A x \in 0 .. MaxCount : /\ encodeCount(x) \in Seq(Bit) /\ Len(encodeCount(x)) \in Nat
                               /\ Len(encodeCount(x)) <= 21
                               /\ (x < 36 => Len(encodeCount(x)) <= 7)
  BY CountBits
<1>7. /\ c \in Seq(Bit) /\ Len(c) \in Nat /\ Len(c) <= 21 /\ (n < 36 => Len(c) <= 7)
      /\ e \in Seq(Bit) /\ Len(e) \in Nat /\ Len(e) <= 21
  <2> HIDE DEF j, n, d
  <2> QED BY <1>5, <1>6
<1>8. u \in Seq(Bit) /\ Len(u) = 10
  BY MatchWords
<1>9. /\ bits' = ((bits \o u) \o c) \o e /\ l' = l + n
      /\ text' = text /\ state' = state /\ is_all_upper' = is_all_upper
  BY SMT DEF MatchWithin, AfterMatch, UnchangedInCompress, call
<1> DEFINE k == 10 + Len(c) + Len(e)
<1>10. k \in Nat /\ k <= 52 /\ (n < 36 => k <= 38)
  <2> HIDE DEF c, e, n
  <2> QED BY <1>7
<1>11. Len(bits') = Len(bits) + k
  <2> HIDE DEF u, c, e, n
  <2>1. bits' = ((bits \o u) \o c) \o e
    BY <1>9
  <2>2. Len(((bits \o u) \o c) \o e) = Len(bits) + (10 + Len(c) + Len(e))
    BY <1>1, <1>7, <1>8, Joined
  <2> QED BY <2>1, <2>2
<1> HIDE DEF n, k
<1>12. Matched(n, k)
  <2>1. (n >= 3 /\ k <= 38) \/ (n >= 36 /\ k <= 73)
    BY <1>3, <1>5, <1>10
  <2> QED BY <1>3, <1>9, <1>11, <2>1 DEF Matched
<1>13. n \in Nat /\ k \in Nat
  BY <1>3, <1>10, Zenon
<1> QED BY <1>12, <1>13, Zenon
\* So is a part of an earlier line: three counts, two of them of any size.
LEMMA EarlierCost ==
    ASSUME Limits, Coding, MatchesPay, MatchEarlier
    PROVE  \E n \in Nat, c \in Nat : Matched(n, c)
<1> DEFINE first == [x \in HitLines |-> Min(LineHits(x))]
           j == Min({first[x] : x \in HitLines})
           ctx == Max({x \in HitLines : first[x] = j})
           line == prev_lines[ctx]
           n == LineLen(line, j)
           u == Bits(14080, 10)
           c == encodeCount(n - NICE_LEN_FOR_OTHER)  e == encodeCount(j)
           f == encodeCount(ctx - 1)
<1>1. /\ text \in Seq(0 .. 127) /\ l \in 0 .. Length /\ Length \in Nat /\ bits \in Seq(Bit)
      /\ l \in Nat /\ Length <= MaxCount
  BY DEF Limits, Coding
<1>2. Len(prev_lines) \in Nat /\ Len(prev_lines) <= MaxCount /\ MaxCount \in Nat
  BY MaxCountIsNumber DEF Limits
<1>3. ctx \in 1 .. Len(prev_lines)
  BY EarlierMatch
<1>4. /\ Len(line) \in Nat /\ Len(line) <= MaxCount /\ j \in 0 .. Len(line) - 1
      /\ n \in Nat /\ n >= NICE_LEN_FOR_OTHER /\ l + n <= Length
  BY EarlierMatch
<1>5. NICE_LEN_FOR_OTHER \in Nat /\ NICE_LEN_FOR_OTHER >= 4
  BY NiceLenAssumption DEF MatchesPay
<1>6. /\ n - NICE_LEN_FOR_OTHER \in 0 .. MaxCount /\ n >= 4
      /\ (n < 36 => n - NICE_LEN_FOR_OTHER < 36)
      /\ j \in 0 .. MaxCount /\ ctx - 1 \in 0 .. MaxCount
  <2> HIDE DEF j, n, ctx, line
  <2> QED BY <1>1, <1>2, <1>3, <1>4, <1>5
<1>7. \A x \in 0 .. MaxCount : /\ encodeCount(x) \in Seq(Bit) /\ Len(encodeCount(x)) \in Nat
                               /\ Len(encodeCount(x)) <= 21
                               /\ (x < 36 => Len(encodeCount(x)) <= 7)
  BY CountBits
<1>8. /\ c \in Seq(Bit) /\ Len(c) \in Nat /\ Len(c) <= 21 /\ (n < 36 => Len(c) <= 7)
      /\ e \in Seq(Bit) /\ Len(e) \in Nat /\ Len(e) <= 21
      /\ f \in Seq(Bit) /\ Len(f) \in Nat /\ Len(f) <= 21
  <2> HIDE DEF j, n, ctx
  <2> QED BY <1>6, <1>7
<1>9. u \in Seq(Bit) /\ Len(u) = 10
  BY MatchWords
<1>10. /\ bits' = (((bits \o u) \o c) \o e) \o f /\ l' = l + n
       /\ text' = text /\ state' = state /\ is_all_upper' = is_all_upper
  BY SMT DEF MatchEarlier, AfterMatch, UnchangedInCompress, call
<1> DEFINE k == 10 + Len(c) + Len(e) + Len(f)
<1>11. k \in Nat /\ k <= 73 /\ (n < 36 => k <= 59)
  <2> HIDE DEF c, e, f, n
  <2> QED BY <1>8
<1>12. Len(bits') = Len(bits) + k
  <2> HIDE DEF u, c, e, f, n
  <2> DEFINE s == ((bits \o u) \o c) \o e
  <2>1. /\ s \in Seq(Bit) /\ Len(s) = Len(bits) + (10 + Len(c) + Len(e)) /\ Len(bits) \in Nat
    BY <1>1, <1>8, <1>9, Joined
  <2>2. bits' = s \o f
    BY <1>10
  <2> HIDE DEF s
  <2>c. \A x, y \in Seq(Bit) : Len(x \o y) = Len(x) + Len(y)
    OBVIOUS
  <2>f. f \in Seq(Bit)
    BY <1>8
  <2>3. Len(s \o f) = Len(s) + Len(f)
    BY <2>1, <2>c, <2>f, Zenon
  <2> QED BY <1>8, <2>1, <2>2, <2>3
<1> HIDE DEF n, k, j, ctx, line
<1>a. (n >= 4 /\ k <= 59) \/ (n >= 36 /\ k <= 73)
  BY <1>4, <1>6, <1>11
<1>13. Matched(n, k)
  BY <1>4, <1>10, <1>12, <1>a DEF Matched
<1>14. n \in Nat /\ k \in Nat
  BY <1>4, <1>11, Zenon
<1> QED BY <1>13, <1>14, Zenon

\* A match pays for itself.
LEMMA MatchedPaid ==
    ASSUME Limits, Coding, Thrifty, NEW n \in Nat, NEW c \in Nat, Matched(n, c)
    PROVE  Thrifty'
<1>1. /\ l \in Nat /\ l <= Length /\ Length \in Nat /\ bits \in Seq(Bit)
  BY DEF Limits, Coding
<1> DEFINE m == Mode(state, is_all_upper)
<1>2. m \in Modes /\ m = Mode(state', is_all_upper') /\ Length' = Length
  BY ModeOf DEF Matched, Length
<1>3. /\ Length - l \in Nat /\ n <= Length - l /\ l + n <= Length /\ l' = l + n
      /\ (n >= 3 /\ c <= 38) \/ (n >= 4 /\ c <= 59) \/ (n >= 36 /\ c <= 73)
  BY <1>1 DEF Matched
<1> HIDE DEF m
<1>4. 2 * c + Room((Length - l) - n, m) <= Room(Length - l, m)
  BY <1>2, <1>3, MatchPaid
<1>5. Len(bits) \in Nat
  BY <1>1
<1>6. Len(bits') \in Nat /\ Len(bits') <= Len(bits) + c
  BY <1>5 DEF Matched
<1> QED BY <1>1, <1>2, <1>3, <1>4, <1>6, PassPaid DEF m

\* So does a character of its own.
LEMMA LiteralPaid ==
    ASSUME Limits, Coding, Thrifty, Literal
    PROVE  Thrifty'
<1>1. /\ l \in Nat /\ l <= Length /\ Length \in Nat /\ bits \in Seq(Bit) /\ l < Length
  BY DEF Limits, Coding, Literal, Compressing
<1> DEFINE m == Mode(state, is_all_upper)  next == Mode(StateNow, UpperNow)  n == Taken
           c == Price(m, next)
<1>2. /\ bits' = (bits \o Switches) \o CharCode /\ text' = text
      /\ state' = StateNow /\ is_all_upper' = UpperNow /\ l' = l + n
  BY SMT DEF Literal, UnchangedInCompress, call
<1>3. m \in Modes /\ next \in Modes /\ next = Mode(state', is_all_upper') /\ Length' = Length
  BY <1>2, ModeOf DEF Length
<1>4. n \in {1, 2} /\ l + n <= Length
  BY <1>1, TakenInText
<1>5. /\ Len((bits \o Switches) \o CharCode) <= Len(bits) + c
      /\ ((next = "upper" /\ m # "upper") => Length - l >= 6)
  BY <1>1, LiteralCost
<1>6. c \in Nat
  BY DEF Price, Mode
<1>7. Switches \in Seq(Bit) /\ CharCode \in Seq(Bit)
  BY <1>1, SwitchesCost, CodeIsWord
<1>8. ((bits \o Switches) \o CharCode) \in Seq(Bit)
  BY <1>1, <1>7
<1>9. Len(bits') \in Nat
  BY <1>2, <1>8
<1>10. Length - l \in Nat /\ n \in Nat /\ n <= Length - l
  <2> HIDE DEF n
  <2> QED BY <1>1, <1>4
<1> HIDE DEF m, next, n
<1>11. 2 * Price(m, next) + Room((Length - l) - n, next) <= Room(Length - l, m)
  BY <1>3, <1>4, <1>5, <1>10, PricePaid
<1>12. /\ Len(bits') <= Len(bits) + c
       /\ 2 * c + Room((Length - l) - n, next) <= Room(Length - l, m)
  BY <1>2, <1>5, <1>11
<1> HIDE DEF c
<1> QED BY <1>1, <1>2, <1>3, <1>4, <1>6, <1>9, <1>10, <1>12, PassPaid DEF m

\* The invariant: while a text is coded, what is coded pays for itself; when it has
\* been, it is within the bound.
Economical ==
    /\ pc \in {"idle", "compress"} => Thrifty
    /\ pc \notin {"idle", "compress"} => 2 * Len(bits) <= 37 * Length + 14

\* Before the first character nothing has been spent.
LEMMA ThriftyAtFirst ==
    ASSUME Length \in Nat, l = 0, state = 1, is_all_upper = FALSE, bits = << >>
    PROVE  Thrifty
<1>1. Mode(state, is_all_upper) = "plain" /\ Len(bits) = 0 /\ Length - l = Length
  BY DEF Mode
<1>2. Room(Length, "plain") \in Int
  BY DEF Room
<1> QED BY <1>1, <1>2 DEF Thrifty

\* Economical holds before the first call.
LEMMA EconomicalStarts ==
    ASSUME WithinLimits, Init
    PROVE  Economical
<1>1. Length \in Nat
  BY TextsAssumption DEF Init, Length
<1>2. Thrifty
  BY <1>1, ThriftyAtFirst DEF Init
<1> QED BY <1>2 DEF Economical, Init

\* Every step keeps it.
LEMMA EconomicalKept ==
    ASSUME WithinLimits, MatchesPay, InStep, Economical, [Next]_vars
    PROVE  Economical'
<1>1. Limits
  BY GivenLimits DEF InStep, Given
<1>2. Length \in Nat
  BY <1>1 DEF Limits
<1> SUFFICES /\ pc' \in {"idle", "compress"} => Thrifty'
             /\ pc' \notin {"idle", "compress"} => 2 * Len(bits') <= 37 * Length' + 14
  BY Zenon DEF Economical
<1>3. ASSUME text' = text PROVE Length' = Length
  BY <1>3 DEF Length
<1>4. CASE shox96_0_2c
  <2>1. pc = "idle" /\ pc' = "compress" /\ UNCHANGED <<text, coder, is_all_upper, bits>>
    BY <1>4 DEF shox96_0_2c
  <2>2. Thrifty
    BY <1>3, <2>1 DEF Economical
  <2>3. Thrifty'
    BY <1>3, <2>1, <2>2 DEF Thrifty, coder
  <2> QED BY <2>1, <2>3
<1>5. CASE CompressPass /\ ~CompressEnd
  <2>1. pc = "compress" /\ pc' = pc /\ text' = text /\ Coding
    <3>1. pc = "compress" /\ InCompressor /\ UnchangedInCompress
      BY <1>5, CompressPassTaken
    <3> QED BY <3>1 DEF InCompressor, UnchangedInCompress, call
  <2>2. Thrifty
    BY <2>1 DEF Economical
  <2>3. CASE Repeat
    BY <1>1, <2>1, <2>2, <2>3, RepeatCost, MatchedPaid
  <2>4. CASE MatchWithin
    BY <1>1, <2>1, <2>2, <2>4, WithinCost, MatchedPaid
  <2>5. CASE MatchEarlier
    BY <1>1, <2>1, <2>2, <2>5, EarlierCost, MatchedPaid
  <2>6. CASE Literal
    BY <1>1, <2>1, <2>2, <2>6, LiteralPaid
  <2> QED BY <1>5, <2>3, <2>4, <2>5, <2>6 DEF CompressPass
<1>6. CASE CompressEnd
  <2> DEFINE n == Len(bits)  d == (8 - (n % 8)) % 8
  <2>1. /\ pc = "compress" /\ pc' = "compressed" /\ text' = text
        /\ bits' = bits \o Bits(14272, d)
    BY <1>6, SMT DEF CompressEnd, call
  <2>2. bits \in Seq(Bit) /\ n \in Nat /\ d \in 0 .. 16
    <3>1. bits \in Seq(Bit)
      BY <2>1 DEF InStep, InCompressor, HasBlob, InDecompressor, Decoded, Coding
    <3>2. n \in Nat
      BY <3>1
    <3> HIDE DEF n
    <3> QED BY <3>1, <3>2, SMT
  <2>3. Bits(14272, d) \in Seq(Bit) /\ Len(Bits(14272, d)) = d
    <3> DEFINE h == 14272
    <3>1. h \in Nat
      BY SMT
    <3> HIDE DEF d, h
    <3>2. Bits(h, d) \in Seq(Bit) /\ Len(Bits(h, d)) = d
      BY <2>2, <3>1, BitsWord
    <3> QED BY <3>2 DEF h
  <2>4. Thrifty
    BY <2>1 DEF Economical
  <2> DEFINE r == Length - l  m == Mode(state, is_all_upper)
  <2>5. r \in Nat /\ m \in Modes
    <3>1. l \in 0 .. Length
      BY DEF InStep, Coder
    <3> QED BY <1>2, <3>1, ModeOf
  <2>6. 2 * (n + d) <= 37 * Length + 14
    <3>1. 2 * n + Room(r, m) <= Room(Length, "plain")
      BY <2>4 DEF Thrifty
    <3> HIDE DEF r, m, n
    <3> QED BY <1>2, <2>2, <2>4, <2>5, <3>1, RoomFits
  <2>7. Len(bits') = n + d
    <3> HIDE DEF d
    <3> QED BY <2>1, <2>2, <2>3
  <2>8. 2 * Len(bits') <= 37 * Length' + 14
    <3>1. Length' = Length
      BY <1>3, <2>1
    <3> HIDE DEF n, d
    <3> QED BY <2>6, <2>7, <3>1, Zenon
  <2>9. pc' = "compressed"
    BY <2>1
  <2> HIDE DEF n, d, r, m
  <2> QED BY <2>8, <2>9 DEF Economical
<1>7. CASE shox96_0_2d
  <2>1. pc = "compressed" /\ pc' \in {"null", "decompress"} /\ text' = text /\ bits' = bits
    BY <1>7 DEF shox96_0_2d, call
  <2> QED BY <1>3, <2>1 DEF Economical
<1>8. CASE DecompressPass
  <2>1. pc = "decompress" /\ pc' \in {"decompress", "done"} /\ text' = text /\ bits' = bits
    BY <1>8 DEF DecompressPass, Control, Emit, CopyWithin, CopyEarlier, CopyRepeat,
                DecompressEnd, Decodes, UnchangedInDecompress, call
  <2> QED BY <1>3, <2>1 DEF Economical
<1>9. CASE Finish
  <2>1. /\ pc' = "idle" /\ l' = 0 /\ state' = 1 /\ is_all_upper' = FALSE
        /\ bits' = << >> /\ text' = text
    BY <1>9 DEF Finish
  <2>2. Length' = Length /\ Length' \in Nat
    BY <1>2, <1>3, <2>1
  <2>3. Mode(state', is_all_upper') = "plain" /\ Len(bits') = 0 /\ Length' - l' = Length
    BY <1>2, <2>1, <2>2 DEF Mode
  <2>4. Room(Length, "plain") \in Int
    BY <1>2 DEF Room
  <2>5. Thrifty'
    BY <2>2, <2>3, <2>4 DEF Thrifty
  <2> QED BY <2>1, <2>5
<1>10. CASE UNCHANGED vars
  <2>1. UNCHANGED <<pc, text, l, state, is_all_upper, bits>>
    BY <1>10 DEF vars
  <2> QED BY <1>3, <2>1 DEF Economical, Thrifty
<1> QED BY <1>4, <1>5, <1>6, <1>7, <1>8, <1>9, <1>10 DEF Next, CompressPass

\* CompressedBounded follows from it.
LEMMA EconomicalBounded ==
    ASSUME WithinLimits, InStep, Economical
    PROVE  CompressedBounded
<1> SUFFICES ASSUME pc # "idle" PROVE 2 * Len(bits) <= 37 * Length + 14
  BY DEF CompressedBounded
<1>1. CASE pc \notin {"idle", "compress"}
  BY <1>1 DEF Economical
<1>2. CASE pc = "compress"
  <2>1. bits \in Seq(Bit) /\ Length \in Nat /\ l \in 0 .. Length /\ Thrifty
    BY <1>2, GivenLimits DEF InStep, InCompressor, HasBlob, InDecompressor, Decoded, Coding,
       Given, Limits, Coder, Economical
  <2> DEFINE n == Len(bits)  r == Length - l  m == Mode(state, is_all_upper)
  <2>2. n \in Nat /\ r \in Nat /\ m \in Modes /\ 2 * n + Room(r, m) <= Room(Length, "plain")
    BY <2>1, ModeOf DEF Thrifty
  <2>3. 2 * n <= 37 * Length + 14
    <3> HIDE DEF n, r, m
    <3> QED BY <2>1, <2>2, RoomFits
  <2> QED BY <2>3
<1> QED BY <1>1, <1>2

------------------------------------------------------------------------------
(* Theorems.                                                                *)

\* Both ends of the codec are in step in every reachable state.
LEMMA AlwaysInStep ==
    ASSUME WithinLimits
    PROVE  Spec => []InStep
<1>1. Init => InStep
  BY InStepStarts
<1>2. InStep /\ [Next]_vars => InStep'
  BY InStepKept
<1> QED BY <1>1, <1>2, PTL DEF Spec

\* The variables of both functions keep their types, l stays in the text and
\* bit_no in the blob: shox96_0_2_compress and shox96_0_2_decompress read no
\* character and no bit that is not there.
THEOREM TypeCorrect ==
    ASSUME WithinLimits
    PROVE  Spec => []TypeOK
<1>1. InStep => TypeOK
  BY InStepTypes
<1> QED BY <1>1, AlwaysInStep, PTL

\* No pass of the compressor's or the decompressor's loop stays where it is.
THEOREM AlwaysAdvances ==
    ASSUME WithinLimits
    PROVE  Spec => PassesAdvance
<1>1. InStep /\ [Next]_vars
          => [/\ CompressPass /\ pc' = pc => l' > l
              /\ DecompressPass /\ pc' = pc => bit_no' > bit_no]_vars
  <2> SUFFICES ASSUME InStep
               PROVE  /\ CompressPass /\ pc' = pc => l' > l
                      /\ DecompressPass /\ pc' = pc => bit_no' > bit_no
    OBVIOUS
  <2>1. ASSUME CompressPass, pc' = pc PROVE l' > l
    <3>1. ~CompressEnd
      BY <2>1, SMT DEF CompressEnd
    <3> QED BY <2>1, <3>1, CompressPassTaken
  <2>2. ASSUME DecompressPass, pc' = pc PROVE bit_no' > bit_no
    <3>1. ~DecompressEnd
      BY <2>2 DEF DecompressEnd
    <3> QED BY <2>2, <3>1, DecompressPassTaken
  <2> QED BY <2>1, <2>2
<1>2. Spec => []InStep
  BY AlwaysInStep
<1> QED BY <1>1, <1>2, PTL DEF Spec, PassesAdvance

\* What shox96_0_2d decodes fits into the buffer it allocates by the varint.
THEOREM OutputAlwaysFits ==
    ASSUME WithinLimits
    PROVE  Spec => []OutputFits
<1>1. InStep => OutputFits
  BY InStepFits
<1> QED BY <1>1, AlwaysInStep, PTL

\* shox96_0_2d returns the text shox96_0_2c was given.
THEOREM RoundTrips ==
    ASSUME WithinLimits, NoDelayedRuns
    PROVE  Spec => []RoundTrip
<1>1. InStep => RoundTrip
  BY InStepRoundTrip
<1> QED BY <1>1, AlwaysInStep, PTL

\* What the decompressor has put out is at every pass a prefix of the text.
THEOREM AlwaysPrefix ==
    ASSUME WithinLimits, NoDelayedRuns
    PROVE  Spec => []DecodedPrefix
<1>1. InStep => DecodedPrefix
  BY InStepPrefix
<1> QED BY <1>1, AlwaysInStep, PTL

\* No text is coded as more than 18.5 bits a character and the filling of the last
\* byte by shox96_0_2_compress, of whatever length, whatever its characters and the
\* switches between them, if matches are as long as the code's (MatchesPay).
THEOREM AlwaysBounded ==
    ASSUME WithinLimits, MatchesPay
    PROVE  Spec => []CompressedBounded
<1>1. Init => Economical
  BY EconomicalStarts
<1>2. InStep /\ Economical /\ [Next]_vars => Economical'
  BY EconomicalKept
<1>3. InStep /\ Economical => CompressedBounded
  BY EconomicalBounded
<1> QED BY <1>1, <1>2, <1>3, AlwaysInStep, PTL DEF Spec

=============================================================================
