
--------------------------- MODULE FsMessageProofs ---------------------------
(***************************************************************************)
(* What FsMessage promises for any number of messages in any number of     *)
(* pieces.  From the lines of a text (LinesMarked) and the fold over them  *)
(* (FoldRuns) follows what parse makes of every beginning of every message *)
(* (ParseOutcome) and that a message which can no longer complete never    *)
(* does (StuckStays, OverfullStays, JunkStays).  The invariant (Holding)   *)
(* ties this to the stream: d messages were understood, and the next one   *)
(* is waiting, being filled, or lost.                                      *)
(***************************************************************************)
EXTENDS FsMessage, FiniteSetTheorems, SequenceTheorems, WellFoundedInduction, TLAPS

\* A sequence, of whatever values.
IsSeq(s) == Len(s) \in Nat /\ s = [i \in 1..Len(s) |-> s[i]]

-----------------------------------------------------------------------------
(* Lines *)

\* A part of s.  (The provers are spared its definition.)
Part(s, m, n) == SubSeq(s, m, n)

\* What SubSeq is, for a part that is not empty.
LEMMA PartIs ==
    ASSUME NEW s, NEW m \in Int, NEW n \in Int, m <= n
    PROVE  Part(s, m, n) = [i \in 1..(n - m + 1) |-> s[m + i - 1]]
  BY SubSeqProperties DEF Part

\* b and e are where the N lines of s begin and end.
Marks(s, N, b, e) ==
    /\ \A n \in 1..N : /\ b[n] \in Nat /\ e[n] \in Nat
                       /\ 1 <= b[n] /\ b[n] <= e[n] /\ e[n] <= Len(s)
                       /\ \A k \in b[n]..e[n] : s[k] # nl
                       /\ b[n] # 1 => s[b[n] - 1] = nl
                       /\ e[n] < Len(s) => s[e[n] + 1] = nl
    /\ \A m, n \in 1..N : m < n => e[m] < b[n]
    /\ \A k \in 1..Len(s) : s[k] # nl => \E n \in 1..N : k \in b[n]..e[n]

\* Lines finds them all, in order.
LEMMA LinesMarked ==
    ASSUME NEW s, Len(s) \in Nat, NEW N \in Nat, NEW b, NEW e, Marks(s, N, b, e)
    PROVE  Lines(s) = [n \in 1..N |-> Part(s, b[n], e[n])]
<1> DEFINE starts == {i \in 1..Len(s) : s[i] # nl /\ (i = 1 \/ s[i - 1] = nl)}
           upto(i) == {j \in starts : j <= i}
           end(i) == CHOOSE j \in i..Len(s) : /\ \A k \in i..j : s[k] # nl
                                              /\ j < Len(s) => s[j + 1] = nl
           nth(n) == CHOOSE i \in starts : Cardinality(upto(i)) = n
<1>1. \A n \in 1..N : /\ b[n] \in Nat /\ e[n] \in Nat
                      /\ 1 <= b[n] /\ b[n] <= e[n] /\ e[n] <= Len(s)
                      /\ \A k \in b[n]..e[n] : s[k] # nl
                      /\ b[n] # 1 => s[b[n] - 1] = nl
                      /\ e[n] < Len(s) => s[e[n] + 1] = nl
  BY DEF Marks
<1>2. \A m, n \in 1..N : m < n => b[m] < b[n]
  <2> SUFFICES ASSUME NEW m \in 1..N, NEW n \in 1..N, m < n PROVE b[m] < b[n]
    OBVIOUS
  <2>1. e[m] < b[n]
    BY DEF Marks
  <2> QED BY <1>1, <2>1
<1>3. starts = {b[n] : n \in 1..N}
  <2>1. ASSUME NEW i \in starts PROVE i \in {b[n] : n \in 1..N}
    <3>1. PICK n \in 1..N : i \in b[n]..e[n]
      BY DEF Marks
    <3>2. CASE i # b[n]
      <4>1. i - 1 \in b[n]..e[n] /\ i # 1
        BY <1>1, <3>1, <3>2
      <4>2. s[i - 1] # nl
        BY <1>1, <4>1
      <4> QED BY <4>1, <4>2
    <3> QED BY <3>2
  <2>2. ASSUME NEW n \in 1..N PROVE b[n] \in starts
    <3>1. b[n] \in 1..Len(s) /\ b[n] \in b[n]..e[n]
      BY <1>1
    <3> QED BY <1>1, <3>1
  <2> QED BY <2>1, <2>2
<1>4. ASSUME NEW n \in 1..N PROVE Cardinality(upto(b[n])) = n
  <2> HIDE DEF starts
  <2> DEFINE h == [k \in 1..n |-> b[k]]
  <2>1. \A k \in 1..n : k \in 1..N
    OBVIOUS
  <2>2. \A k \in 1..N : b[k] <= b[n] <=> k <= n
    <3> SUFFICES ASSUME NEW k \in 1..N PROVE b[k] <= b[n] <=> k <= n
      OBVIOUS
    <3>1. b[k] \in Nat /\ b[n] \in Nat
      BY <1>1
    <3>2. k < n => b[k] < b[n]
      BY <1>2
    <3>3. n < k => b[n] < b[k]
      BY <1>2
    <3>4. k < n \/ k = n \/ n < k
      OBVIOUS
    <3> QED BY <3>1, <3>2, <3>3, <3>4
  <2>3. upto(b[n]) = {b[k] : k \in 1..n}
    <3>1. ASSUME NEW j \in upto(b[n]) PROVE j \in {b[k] : k \in 1..n}
      <4>1. PICK k \in 1..N : j = b[k]
        BY <1>3
      <4>2. k \in 1..n
        BY <2>2, <4>1
      <4> QED BY <4>1, <4>2
    <3>2. ASSUME NEW k \in 1..n PROVE b[k] \in upto(b[n])
      BY <1>3, <2>1, <2>2
    <3> QED BY <3>1, <3>2
  <2>4. h \in Bijection(1..n, upto(b[n]))
    <3>1. h \in [1..n -> upto(b[n])]
      BY <2>3
    <3>2. \A j, k \in 1..n : h[j] = h[k] => j = k
      <4> SUFFICES ASSUME NEW j \in 1..n, NEW k \in 1..n, b[j] = b[k] PROVE j = k
        OBVIOUS
      <4>1. b[j] \in Nat /\ b[k] \in Nat
        BY <1>1, <2>1
      <4>2. (j < k => b[j] < b[k]) /\ (k < j => b[k] < b[j])
        BY <1>2, <2>1
      <4> QED BY <4>1, <4>2
    <3>3. \A x \in upto(b[n]) : \E k \in 1..n : h[k] = x
      BY <2>3
    <3> HIDE DEF h, upto
    <3> QED BY <3>1, <3>2, <3>3 DEF Bijection, Injection, Surjection, IsInjective
  <2>5. ExistsBijection(1..n, upto(b[n]))
    BY <2>4 DEF ExistsBijection
  <2>6. IsFiniteSet(1..n) /\ Cardinality(1..n) = n
    <3>1. 1 \in Int /\ n \in Int /\ ~(1 > n) /\ n - 1 + 1 = n
      OBVIOUS
    <3> QED BY <3>1, FS_Interval
  <2> HIDE DEF upto
  <2> QED BY <2>5, <2>6, FS_Bijection
<1>5. ASSUME NEW n \in 1..N PROVE nth(n) = b[n]
  <2> HIDE DEF starts, upto
  <2>1. \A i \in starts : Cardinality(upto(i)) = n => i = b[n]
    BY <1>3, <1>4
  <2>2. b[n] \in starts /\ Cardinality(upto(b[n])) = n
    BY <1>3, <1>4
  <2> QED BY <2>1, <2>2, Zenon
<1>6. ASSUME NEW n \in 1..N PROVE end(b[n]) = e[n]
  <2> DEFINE IsEnd(j) == /\ \A k \in b[n]..j : s[k] # nl
                         /\ j < Len(s) => s[j + 1] = nl
  <2>1. e[n] \in b[n]..Len(s) /\ IsEnd(e[n])
    BY <1>1
  <2>2. ASSUME NEW j \in b[n]..Len(s), IsEnd(j) PROVE j = e[n]
    <3>0. j \in Nat /\ b[n] \in Nat /\ e[n] \in Nat /\ b[n] <= e[n] /\ e[n] <= Len(s)
      BY <1>1
    <3>1. CASE j < e[n]
      <4>1. j + 1 \in b[n]..e[n] /\ j < Len(s)
        BY <3>0, <3>1
      <4> QED BY <1>1, <2>2, <4>1
    <3>2. CASE e[n] < j
      <4>1. e[n] + 1 \in b[n]..j /\ e[n] < Len(s)
        BY <3>0, <3>2
      <4> QED BY <1>1, <2>2, <4>1
    <3> QED BY <3>0, <3>1, <3>2
  <2> HIDE DEF IsEnd
  <2>3. (CHOOSE j \in b[n]..Len(s) : IsEnd(j)) = e[n]
    BY <2>1, <2>2, Zenon
  <2> QED BY <2>3 DEF IsEnd
<1>7. Cardinality(starts) = N
  <2>1. CASE N = 0
    <3>1. starts = {}
      BY <1>3, <2>1
    <3> QED BY <2>1, <3>1, FS_EmptySet
  <2>2. CASE N # 0
    <3>1. N \in 1..N
      BY <2>2
    <3>2. \A n \in 1..N : b[n] <= b[N]
      <4> SUFFICES ASSUME NEW n \in 1..N PROVE b[n] <= b[N]
        OBVIOUS
      <4>1. b[n] \in Nat /\ b[N] \in Nat /\ (n < N => b[n] < b[N]) /\ (n < N \/ n = N)
        BY <1>1, <1>2, <3>1
      <4> QED BY <4>1
    <3> HIDE DEF starts
    <3>3. upto(b[N]) = starts
      BY <1>3, <3>2
    <3> QED BY <1>4, <3>1, <3>3
  <2> QED BY <2>1, <2>2
<1>8. Lines(s) = [n \in 1..Cardinality(starts) |-> SubSeq(s, nth(n), end(nth(n)))]
  BY Zenon DEF Lines
<1> HIDE DEF starts, end, nth
<1>9. \A n \in 1..N : SubSeq(s, nth(n), end(nth(n))) = Part(s, b[n], e[n])
  BY <1>5, <1>6 DEF Part
<1> QED BY <1>7, <1>8, <1>9

\* r is the first q atoms of text, after newlines of the text before.
Prefixed(r, text, q) ==
    /\ q \in 0..Len(text) /\ Len(r) \in Nat /\ q <= Len(r)
    /\ \A x \in 1..(Len(r) - q) : r[x] = nl
    /\ \A y \in 1..q : r[Len(r) - q + y] = text[y]

\* Places b to f of text are found in r, j places further.
Shifted(r, text, j, b, f) == \A k \in b..f : r[j + k] = text[k]

\* A part that is found elsewhere is the same part.
LEMMA PartShifted ==
    ASSUME NEW r, NEW text, NEW j \in Nat, NEW b \in Nat, NEW f \in Nat, b <= f,
           Shifted(r, text, j, b, f), NEW b2, NEW f2, b2 = j + b, f2 = j + f
    PROVE  Part(r, b2, f2) = Part(text, b, f)
<1>1. ASSUME NEW i \in 1..(f - b + 1) PROVE r[j + b + i - 1] = text[b + i - 1]
  <2>1. b + i - 1 \in b..f /\ j + (b + i - 1) = j + b + i - 1
    OBVIOUS
  <2> QED BY <2>1 DEF Shifted
<1>2. f2 - b2 + 1 = f - b + 1 /\ b2 <= f2 /\ b2 \in Int /\ f2 \in Int /\ b2 = j + b
  OBVIOUS
<1>3. Part(text, b, f) = [i \in 1..(f - b + 1) |-> text[b + i - 1]]
  BY PartIs
<1>4. Part(r, b2, f2) = [i \in 1..(f2 - b2 + 1) |-> r[b2 + i - 1]]
  BY <1>2, PartIs
<1>5. Part(r, b2, f2) = [i \in 1..(f - b + 1) |-> r[j + b + i - 1]]
  BY <1>2, <1>4
<1> QED BY <1>1, <1>3, <1>5

\* Arithmetic of places that are j further.
Further(j, b, f, e, q, b2, e2) ==
    /\ b2 \in Nat /\ e2 \in Nat /\ 1 <= b2 /\ b2 <= e2 /\ e2 <= j + q
    /\ \A k \in b2..e2 : k - j \in 1..q /\ k - j \in b..e /\ j + (k - j) = k
    /\ j + (b - 1) = b2 - 1 /\ j + (f + 1) = e2 + 1
    /\ b = 1 /\ b2 # 1 => b2 - 1 \in 1..j
    /\ b # 1 => b - 1 \in 1..q
    /\ e2 < j + q => f < q /\ f + 1 \in 1..q

\* They are j further, so this holds of them.
LEMMA ShiftedPlaces ==
    ASSUME NEW j, NEW b, NEW f, NEW e, NEW q, NEW b2, NEW e2,
           /\ j \in Nat /\ b \in Nat /\ f \in Nat /\ e \in Nat /\ q \in Nat
           /\ 1 <= b /\ b <= f /\ f <= q /\ f <= e /\ b2 = j + b /\ e2 = j + f
    PROVE  Further(j, b, f, e, q, b2, e2)
  BY DEF Further

\* N of the M lines are there, or their beginnings.
Come(N, M, b, q) == \A n \in 1..M : n <= N <=> b[n] <= q

\* The lines of r are those of text that have come, the last cut off at q.
LEMMA PrefixLines ==
    ASSUME NEW text, Len(text) \in Nat, NEW M \in Nat, NEW b, NEW e, Marks(text, M, b, e),
           NEW r, NEW q, Prefixed(r, text, q),
           NEW N \in 0..M, Come(N, M, b, q)
    PROVE  Lines(r) = [n \in 1..N |-> Part(text, b[n], IF e[n] <= q THEN e[n] ELSE q)]
<1> DEFINE j == Len(r) - q
           f == [n \in 1..N |-> IF e[n] <= q THEN e[n] ELSE q]
           b2 == [n \in 1..N |-> j + b[n]]
           e2 == [n \in 1..N |-> j + f[n]]
<1>1. /\ q \in Nat /\ j \in Nat /\ Len(r) = j + q /\ q <= Len(text)
      /\ \A x \in 1..j : r[x] = nl
      /\ \A y \in 1..q : r[j + y] = text[y]
  BY DEF Prefixed
<1>0. q \in Nat /\ j \in Nat /\ Len(r) = j + q /\ q <= Len(text)
  BY <1>1
<1> HIDE DEF j
<1>2. \A n \in 1..N : n \in 1..M
  OBVIOUS
<1>3. ASSUME NEW n \in 1..N
      PROVE  /\ b[n] \in Nat /\ f[n] \in Nat /\ e[n] \in Nat
             /\ 1 <= b[n] /\ b[n] <= q /\ b[n] <= f[n] /\ f[n] <= q /\ f[n] <= e[n]
             /\ b2[n] = j + b[n] /\ e2[n] = j + f[n]
             /\ \A k \in b[n]..e[n] : k \in 1..Len(text) /\ text[k] # nl
             /\ b[n] # 1 => text[b[n] - 1] = nl
             /\ e[n] < Len(text) => text[e[n] + 1] = nl
  <2>1. n \in 1..M /\ b[n] <= q
    BY <1>2 DEF Come
  <2>2. /\ b[n] \in Nat /\ e[n] \in Nat
        /\ 1 <= b[n] /\ b[n] <= e[n] /\ e[n] <= Len(text)
        /\ \A k \in b[n]..e[n] : text[k] # nl
        /\ b[n] # 1 => text[b[n] - 1] = nl
        /\ e[n] < Len(text) => text[e[n] + 1] = nl
    BY <2>1 DEF Marks
  <2> QED BY <1>1, <2>1, <2>2
<1>4. ASSUME NEW n \in 1..N
      PROVE  /\ b2[n] \in Nat /\ e2[n] \in Nat
             /\ 1 <= b2[n] /\ b2[n] <= e2[n] /\ e2[n] <= Len(r)
             /\ \A k \in b2[n]..e2[n] : r[k] # nl
             /\ b2[n] # 1 => r[b2[n] - 1] = nl
             /\ e2[n] < Len(r) => r[e2[n] + 1] = nl
  <2> HIDE DEF b2, e2, f
  <2>0. /\ b[n] \in Nat /\ f[n] \in Nat /\ e[n] \in Nat
        /\ 1 <= b[n] /\ b[n] <= q /\ b[n] <= f[n] /\ f[n] <= q /\ f[n] <= e[n]
        /\ b2[n] = j + b[n] /\ e2[n] = j + f[n]
    BY <1>3, Zenon
  <2>s. Further(j, b[n], f[n], e[n], q, b2[n], e2[n])
    BY <1>0, <2>0, ShiftedPlaces, Zenon
  <2>1. /\ b2[n] \in Nat /\ e2[n] \in Nat
        /\ 1 <= b2[n] /\ b2[n] <= e2[n] /\ e2[n] <= Len(r)
    BY <1>0, <2>s, Zenon DEF Further
  <2>2. ASSUME NEW k \in b2[n]..e2[n] PROVE r[k] # nl
    <3>1. k - j \in 1..q /\ k - j \in b[n]..e[n] /\ j + (k - j) = k
      BY <2>s, Zenon DEF Further
    <3>2. r[j + (k - j)] = text[k - j] /\ text[k - j] # nl
      BY <1>1, <1>3, <3>1, Zenon
    <3> QED BY <3>1, <3>2, Zenon
  <2>3. ASSUME b2[n] # 1 PROVE r[b2[n] - 1] = nl
    <3>1. CASE b[n] = 1
      <4>1. b2[n] - 1 \in 1..j
        BY <2>s, <2>3, <3>1, Zenon DEF Further
      <4> QED BY <1>1, <4>1, Zenon
    <3>2. CASE b[n] # 1
      <4>1. b[n] - 1 \in 1..q /\ j + (b[n] - 1) = b2[n] - 1
        BY <2>s, <3>2, Zenon DEF Further
      <4>2. r[j + (b[n] - 1)] = text[b[n] - 1] /\ text[b[n] - 1] = nl
        BY <1>1, <1>3, <3>2, <4>1, Zenon
      <4> QED BY <4>1, <4>2, Zenon
    <3> QED BY <3>1, <3>2
  <2>4. ASSUME e2[n] < Len(r) PROVE r[e2[n] + 1] = nl
    <3>1. f[n] < q /\ f[n] \in Nat /\ f[n] + 1 \in 1..q
      BY <1>0, <2>0, <2>s, <2>4, Zenon DEF Further
    <3>2. f[n] = e[n] /\ e[n] < Len(text)
      BY <1>0, <2>0, <3>1 DEF f
    <3>3. e[n] + 1 \in 1..q /\ j + (e[n] + 1) = e2[n] + 1
      BY <2>s, <3>1, <3>2, Zenon DEF Further
    <3>4. r[j + (e[n] + 1)] = text[e[n] + 1] /\ text[e[n] + 1] = nl
      BY <1>1, <1>3, <3>2, <3>3, Zenon
    <3> QED BY <3>3, <3>4, Zenon
  <2> QED BY <2>1, <2>2, <2>3, <2>4
<1>5. ASSUME NEW m \in 1..N, NEW n \in 1..N, m < n PROVE e2[m] < b2[n]
  <2>1. e[m] < b[n]
    BY <1>2, <1>5 DEF Marks
  <2> HIDE DEF b2, e2, f
  <2>2. b[n] \in Nat /\ b2[n] = j + b[n]
    BY <1>0, <1>3
  <2>3. e[m] \in Nat /\ f[m] \in Nat /\ f[m] <= e[m] /\ e2[m] = j + f[m]
    BY <1>0, <1>3
  <2> QED BY <1>0, <2>1, <2>2, <2>3
<1>6. ASSUME NEW k \in 1..Len(r), r[k] # nl PROVE \E n \in 1..N : k \in b2[n]..e2[n]
  <2>1. k - j \in 1..q /\ j + (k - j) = k
    <3>1. k \notin 1..j
      BY <1>1, <1>6
    <3> QED BY <1>1, <3>1
  <2>2. text[k - j] # nl /\ k - j \in 1..Len(text)
    BY <1>1, <1>6, <2>1
  <2>3. PICK n \in 1..M : k - j \in b[n]..e[n]
    BY <2>2 DEF Marks
  <2>4. b[n] \in Nat /\ e[n] \in Nat
    BY DEF Marks
  <2>5. n \in 1..N
    BY <1>0, <2>1, <2>3, <2>4 DEF Come
  <2>6. k \in b2[n]..e2[n]
    BY <1>1, <1>3, <2>1, <2>3, <2>4, <2>5
  <2> QED BY <2>5, <2>6
<1>7. Marks(r, N, b2, e2)
  <2> HIDE DEF b2, e2
  <2> QED BY <1>4, <1>5, <1>6 DEF Marks
<1>8. Lines(r) = [n \in 1..N |-> Part(r, b2[n], e2[n])]
  <2> HIDE DEF b2, e2
  <2> QED BY <1>1, <1>7, LinesMarked
<1>9. ASSUME NEW n \in 1..N PROVE Part(r, b2[n], e2[n]) = Part(text, b[n], f[n])
  <2> HIDE DEF b2, e2, f
  <2>1. /\ b[n] \in Nat /\ f[n] \in Nat /\ b[n] <= f[n] /\ 1 <= b[n] /\ f[n] <= q
        /\ b2[n] = j + b[n] /\ e2[n] = j + f[n]
    BY <1>0, <1>3
  <2>2. \A k \in b[n]..f[n] : r[j + k] = text[k]
    <3> SUFFICES ASSUME NEW k \in b[n]..f[n] PROVE r[j + k] = text[k]
      OBVIOUS
    <3>1. k \in 1..q
      BY <1>0, <2>1
    <3> QED BY <1>1, <3>1
  <2>3. Shifted(r, text, j, b[n], f[n])
    BY <2>2 DEF Shifted
  <2> QED BY <1>0, <2>1, <2>3, PartShifted
<1> QED BY <1>8, <1>9

-----------------------------------------------------------------------------
(* The fold over the lines *)

\* A set of natural numbers has a least element.
LEMMA LeastOf ==
    ASSUME NEW S, S \subseteq Nat, S # {}
    PROVE  \E i \in S : \A j \in S : i <= j
<1> DEFINE R == OpToRel(<, Nat)
<1>1. IsWellFoundedOn(R, Nat)
  BY NatLessThanWellFounded
<1>2. \A i, j \in Nat : i < j => <<i, j>> \in R
  BY DEF OpToRel
<1> HIDE DEF R
<1>3. PICK x \in S : \A y \in S : ~ (<<y, x>> \in R)
  BY <1>1, WFMin
<1>4. \A y \in S : y \in Nat /\ x \in Nat /\ ~(y < x)
  BY <1>2, <1>3
<1>5. \A y \in S : x <= y
  BY <1>4
<1> QED BY <1>5

\* Max, of a set with a greatest element.
LEMMA MaxIs ==
    ASSUME NEW s, NEW x \in s, s \subseteq Nat, \A y \in s : y <= x
    PROVE  Max(s) = x
<1>1. x >= x /\ \A y \in s : x >= y
  OBVIOUS
<1>2. \A z \in s : (\A y \in s : z >= y) => z = x
  OBVIOUS
<1> QED BY <1>1, <1>2, Zenon DEF Max

\* h is what FoldLeft computes: by the places of the lines that have been parsed.
IsFold(h, m, lines, N) ==
    h = [s \in SUBSET (1..N) |->
            IF s = {} THEN Ok(m) ELSE ParseLine(h[s \ {Max(s)}], lines[Max(s)])]

\* There is one, for any number of lines: by a least number without.
LEMMA FoldExists ==
    ASSUME NEW lines, NEW N \in Nat, NEW m
    PROVE  \E h : IsFold(h, m, lines, N)
<1> DEFINE bad == {n \in Nat : ~\E h : IsFold(h, m, lines, n)}
<1>1. bad = {}
  <2> SUFFICES ASSUME bad # {} PROVE FALSE
    OBVIOUS
  <2>1. PICK n \in bad : \A k \in bad : n <= k
    <3>1. bad \subseteq Nat
      OBVIOUS
    <3> HIDE DEF bad
    <3> QED BY <3>1, LeastOf
  <2>2. CASE n = 0
    <3> DEFINE g == [s \in SUBSET (1..n) |-> Ok(m)]
    <3>1. 1..n = {}
      BY <2>2
    <3>2. IsFold(g, m, lines, n)
      BY <3>1, Zenon DEF IsFold
    <3> HIDE DEF g
    <3> QED BY <2>1, <3>2
  <2>3. CASE n # 0
    <3>1. n \in Nat /\ n - 1 \in Nat /\ ~(n <= n - 1)
      BY <2>1, <2>3
    <3>2. n - 1 \notin bad
      <4> HIDE DEF bad
      <4> QED BY <2>1, <3>1
    <3>3. PICK h : IsFold(h, m, lines, n - 1)
      BY <3>1, <3>2
    <3> DEFINE g == [s \in SUBSET (1..n) |->
                       IF n \in s THEN ParseLine(h[s \ {n}], lines[n]) ELSE h[s]]
    <3>4. \A i : i \in 1..n <=> i \in 1..(n - 1) \/ i = n
      BY <3>1
    <3>5. n \notin 1..(n - 1)
      BY <3>1
    <3>6. ASSUME NEW s \in SUBSET (1..n)
          PROVE  g[s] = IF s = {} THEN Ok(m) ELSE ParseLine(g[s \ {Max(s)}], lines[Max(s)])
      <4>1. CASE n \in s
        <5>1. Max(s) = n
          <6>1. s \subseteq Nat /\ \A y \in s : y <= n
            BY <3>1
          <6> QED BY <4>1, <6>1, MaxIs
        <5>2. s \ {n} \in SUBSET (1..n) /\ n \notin s \ {n}
          OBVIOUS
        <5>3. g[s \ {n}] = h[s \ {n}]
          BY <5>2
        <5>4. g[s] = ParseLine(h[s \ {n}], lines[n])
          BY <4>1
        <5> QED BY <4>1, <5>1, <5>3, <5>4
      <4>2. CASE n \notin s
        <5>1. s \in SUBSET (1..(n - 1))
          BY <3>4, <4>2
        <5>2. g[s] = h[s]
          BY <4>2
        <5>3. h[s] = IF s = {} THEN Ok(m) ELSE ParseLine(h[s \ {Max(s)}], lines[Max(s)])
          BY <3>3, <5>1, Zenon DEF IsFold
        <5>4. g[s \ {Max(s)}] = h[s \ {Max(s)}]
          <6>1. s \ {Max(s)} \in SUBSET (1..n) /\ n \notin s \ {Max(s)}
            BY <4>2
          <6> QED BY <6>1
        <5> QED BY <5>2, <5>3, <5>4
      <4> QED BY <4>1, <4>2
    <3>7. g = [s \in SUBSET (1..n) |-> g[s]]
      BY Zenon
    <3> HIDE DEF g
    <3>8. IsFold(g, m, lines, n)
      BY <3>6, <3>7, Zenon DEF IsFold
    <3> QED BY <2>1, <3>8
  <2> QED BY <2>2, <2>3
<1> QED BY <1>1

\* The lines are parsed one after the other.
ParseAll(m, lines) == FoldLeft(ParseLine, Ok(m), lines)

\* The states that the fold goes through.
FoldRun(g, m, lines, N) ==
    /\ g[0] = Ok(m) /\ g[N] = ParseAll(m, lines)
    /\ \A i \in 1..N : g[i] = ParseLine(g[i - 1], lines[i])

\* There are such states.
LEMMA FoldRuns ==
    ASSUME NEW lines, NEW N \in Nat, DOMAIN lines = 1..N, NEW m
    PROVE  \E g : FoldRun(g, m, lines, N)
<1> DEFINE h == CHOOSE f : IsFold(f, m, lines, N)
           g == [i \in 0..N |-> h[1..i]]
<1>1. ParseAll(m, lines) =
        (CHOOSE f : f = [s \in SUBSET DOMAIN lines |->
            IF s = {} THEN Ok(m) ELSE ParseLine(f[s \ {Max(s)}], lines[Max(s)])])[DOMAIN lines]
  BY Zenon DEF ParseAll, FoldLeft, MapThenFoldSet
<1>2. ParseAll(m, lines) = h[1..N]
  BY <1>1, Zenon DEF IsFold
<1>3. IsFold(h, m, lines, N)
  BY FoldExists, Zenon
<1> HIDE DEF h
<1>4. ASSUME NEW s \in SUBSET (1..N)
      PROVE  h[s] = IF s = {} THEN Ok(m) ELSE ParseLine(h[s \ {Max(s)}], lines[Max(s)])
  BY <1>3, Zenon DEF IsFold
<1>5. ASSUME NEW i \in 1..N PROVE h[1..i] = ParseLine(h[1..(i - 1)], lines[i])
  <2>1. 1..i \in SUBSET (1..N) /\ i \in 1..i /\ 1..i \subseteq Nat /\ \A y \in 1..i : y <= i
    OBVIOUS
  <2>2. Max(1..i) = i
    BY <2>1, MaxIs
  <2>3. (1..i) \ {i} = 1..(i - 1)
    OBVIOUS
  <2> QED BY <1>4, <2>1, <2>2, <2>3
<1>6. h[1..0] = Ok(m)
  <2>1. 1..0 = {} /\ {} \in SUBSET (1..N)
    OBVIOUS
  <2>2. h[{}] = Ok(m)
    BY <1>4, <2>1
  <2> QED BY <2>1, <2>2
<1>7. g[0] = Ok(m) /\ g[N] = h[1..N]
  <2>1. 0 \in 0..N /\ N \in 0..N
    OBVIOUS
  <2> QED BY <1>6, <2>1, Zenon
<1>8. ASSUME NEW i \in 1..N PROVE g[i] = ParseLine(g[i - 1], lines[i])
  <2>1. i \in 0..N /\ i - 1 \in 0..N
    OBVIOUS
  <2>2. g[i] = h[1..i] /\ g[i - 1] = h[1..(i - 1)]
    BY <2>1, Zenon
  <2> HIDE DEF g
  <2> QED BY <1>5, <2>2
<1> HIDE DEF g
<1> QED BY <1>2, <1>7, <1>8, Zenon DEF FoldRun

-----------------------------------------------------------------------------
(* The texts of the messages, atom by atom *)

\* Every sequence over a set is one.
LEMMA IsSeqOf ==
    ASSUME NEW s, IsSeq(s), NEW S, \A i \in 1..Len(s) : s[i] \in S
    PROVE  s \in Seq(S)
<1>1. s \in [1..Len(s) -> S]
  BY DEF IsSeq
<1> QED BY <1>1, IsASeq DEF IsSeq

\* j is s and then t.
IsJoin(j, s, t) ==
    /\ IsSeq(j) /\ Len(j) \in Nat /\ Len(j) = Len(s) + Len(t)
    /\ \A i \in 1..Len(j) : j[i] = IF i <= Len(s) THEN s[i] ELSE t[i - Len(s)]

\* What \o makes of two sequences.
LEMMA Joined ==
    ASSUME NEW s, NEW t, IsSeq(s), IsSeq(t)
    PROVE  IsJoin(s \o t, s, t)
<1> DEFINE S == {s[i] : i \in 1..Len(s)} \cup {t[i] : i \in 1..Len(t)}
<1>1. s \in Seq(S) /\ t \in Seq(S)
  <2>1. (\A i \in 1..Len(s) : s[i] \in S) /\ (\A i \in 1..Len(t) : t[i] \in S)
    OBVIOUS
  <2> HIDE DEF S
  <2> QED BY <2>1, IsSeqOf
<1> HIDE DEF S
<1>0. Len(s) \in Nat /\ Len(t) \in Nat
  BY DEF IsSeq
<1>2. /\ s \o t \in Seq(S) /\ Len(s \o t) = Len(s) + Len(t)
      /\ \A i \in 1..(Len(s) + Len(t)) : (s \o t)[i] = IF i <= Len(s) THEN s[i] ELSE t[i - Len(s)]
  BY <1>1, ConcatProperties
<1>3. IsSeq(s \o t)
  <2>1. s \o t \in [1..Len(s \o t) -> S] /\ Len(s \o t) \in Nat
    BY <1>2, LenProperties
  <2> QED BY <2>1 DEF IsSeq
<1>4. Len(s \o t) \in Nat
  BY <1>3, Zenon DEF IsSeq
<1> QED BY <1>2, <1>3, <1>4, Zenon DEF IsJoin

\* j, of n atoms, is the first a of s and then t.
Spans(j, s, a, t, n) ==
    /\ IsSeq(j) /\ Len(j) = n
    /\ \A i \in 1..n : j[i] = IF i <= a THEN s[i] ELSE t[i - a]

\* The second of two joined sequences is found after the first.
LEMMA JoinSpans ==
    ASSUME NEW s, NEW t, NEW a, NEW b, NEW n, IsSeq(s), IsSeq(t), Len(s) = a, Len(t) = b, n = a + b
    PROVE  Spans(s \o t, s, a, t, n)
<1>1. IsJoin(s \o t, s, t)
  BY Joined
<1>2. Len(s \o t) = n
  BY <1>1, Zenon DEF IsJoin
<1> QED BY <1>1, <1>2, Zenon DEF IsJoin, Spans

\* A text of n atoms begins with the line of its category c and type ty.
Headed(t, c, ty, n) ==
    /\ IsSeq(t) /\ Len(t) = n
    /\ t[1] = "Content-Type: " /\ t[2] = c /\ t[3] = "half a type" /\ t[4] = ty /\ t[5] = nl

\* The first line of every message.
LEMMA FirstLineIs == ASSUME NEW c, NEW ty PROVE Headed(FirstLine(c, ty), c, ty, 5)
  BY DEF FirstLine, IsSeq, Headed

\* The request to authenticate.
AuthIs(t) == Headed(t, "auth", "request", 6) /\ t[6] = nl

\* Its text.
LEMMA AuthText == AuthIs(Text["auth"])
<1> DEFINE h == FirstLine("auth", "request")
           u == <<nl>>
           t == Text["auth"]
<1>h. Headed(h, "auth", "request", 5)
  BY FirstLineIs, Zenon
<1>1. /\ IsSeq(h) /\ Len(h) = 5 /\ h[1] = "Content-Type: " /\ h[2] = "auth"
      /\ h[3] = "half a type" /\ h[4] = "request" /\ h[5] = nl
  BY <1>h, Zenon DEF Headed
<1>2. IsSeq(u) /\ Len(u) = 1 /\ u[1] = nl
  BY DEF IsSeq
<1>3. t = h \o u
  BY Zenon DEF Text
<1>s. 6 = 5 + 1
  OBVIOUS
<1> HIDE DEF h, u, t
<1>4. Spans(t, h, 5, u, 6)
  BY <1>1, <1>2, <1>3, <1>s, JoinSpans, Zenon
<1>5. \A i \in 1..6 : t[i] = IF i <= 5 THEN h[i] ELSE u[i - 5]
  BY <1>4 DEF Spans
<1>6. t[1] = h[1] /\ t[2] = h[2] /\ t[3] = h[3] /\ t[4] = h[4] /\ t[5] = h[5] /\ t[6] = u[1]
  BY <1>5
<1>7. AuthIs(t)
  BY <1>1, <1>2, <1>4, <1>6, Zenon DEF AuthIs, Headed, Spans
<1> QED BY <1>7, Zenon DEF t

\* The reply to a command.
ReplyIs(t, status) ==
    /\ Headed(t, "command", "reply", 10)
    /\ t[6] = "Reply-Text: " /\ t[7] = status /\ t[8] = " accepted" /\ t[9] = nl /\ t[10] = nl

\* Its text.
LEMMA ReplyTextIs == ASSUME NEW status PROVE ReplyIs(ReplyText(status), status)
<1> DEFINE h == FirstLine("command", "reply")
           u == <<"Reply-Text: ", status, " accepted", nl, nl>>
           t == ReplyText(status)
<1>h. Headed(h, "command", "reply", 5)
  BY FirstLineIs, Zenon
<1>1. /\ IsSeq(h) /\ Len(h) = 5 /\ h[1] = "Content-Type: " /\ h[2] = "command"
      /\ h[3] = "half a type" /\ h[4] = "reply" /\ h[5] = nl
  BY <1>h, Zenon DEF Headed
<1>2. /\ IsSeq(u) /\ Len(u) = 5 /\ u[1] = "Reply-Text: " /\ u[2] = status
      /\ u[3] = " accepted" /\ u[4] = nl /\ u[5] = nl
  BY DEF IsSeq
<1>3. t = h \o u
  BY Zenon DEF ReplyText
<1>s. 10 = 5 + 5
  OBVIOUS
<1> HIDE DEF h, u, t
<1>4. Spans(t, h, 5, u, 10)
  BY <1>1, <1>2, <1>3, <1>s, JoinSpans, Zenon
<1>5. \A i \in 1..10 : t[i] = IF i <= 5 THEN h[i] ELSE u[i - 5]
  BY <1>4 DEF Spans
<1>6. t[1] = h[1] /\ t[2] = h[2] /\ t[3] = h[3] /\ t[4] = h[4] /\ t[5] = h[5]
  BY <1>5
<1>7. t[6] = u[1] /\ t[7] = u[2] /\ t[8] = u[3] /\ t[9] = u[4] /\ t[10] = u[5]
  BY <1>5
<1>8. ReplyIs(t, status)
  BY <1>1, <1>2, <1>4, <1>6, <1>7, Zenon DEF ReplyIs, Headed, Spans
<1> QED BY <1>8, Zenon DEF t

\* A text with a length, whose digits D end at place v, an empty line and a body after k.
Completed(t, c, ty, D, v, body, k, n) ==
    /\ Headed(t, c, ty, n) /\ t[6] = "Content-Length: "
    /\ \A i \in 1..n : /\ i > 6 /\ i <= v => t[i] = D[i - 6]
                       /\ i > v /\ i <= k => t[i] = nl
                       /\ i > k => t[i] = body[i - k]

\* What WithBody makes: w digits, after the six atoms before them.
LEMMA WithBodyIs ==
    ASSUME NEW c, NEW ty, NEW body, NEW l \in Nat, NEW D, NEW w \in Nat,
           IsSeq(body), Len(body) = l, IsSeq(D), Len(D) = w, Digits(l) = D,
           NEW v, v = 6 + w, NEW k \in Nat, k = 8 + w, NEW n \in Nat, n = k + l,
           NEW t, t = WithBody(c, ty, body)
    PROVE  Completed(t, c, ty, D, v, body, k, n)
<1> DEFINE h == FirstLine(c, ty)
           a == <<"Content-Length: ">>
           z == <<nl, nl>>
           t1 == h \o a
           t2 == t1 \o D
           t3 == t2 \o z
<1>h. Headed(h, c, ty, 5)
  BY FirstLineIs, Zenon
<1>1. /\ IsSeq(h) /\ Len(h) = 5 /\ h[1] = "Content-Type: " /\ h[2] = c
      /\ h[3] = "half a type" /\ h[4] = ty /\ h[5] = nl
  BY <1>h, Zenon DEF Headed
<1>2. /\ IsSeq(a) /\ Len(a) = 1 /\ a[1] = "Content-Length: "
      /\ IsSeq(z) /\ Len(z) = 2 /\ z[1] = nl /\ z[2] = nl
  BY DEF IsSeq
<1>3. t = t3 \o body
  BY Zenon DEF WithBody
<1> HIDE DEF h, a, z
<1>4. Spans(t1, h, 5, a, 6)
  <2>1. 6 = 5 + 1
    OBVIOUS
  <2> QED BY <1>1, <1>2, <2>1, JoinSpans, Zenon
<1> HIDE DEF t1
<1>5. Spans(t2, t1, 6, D, 6 + w)
  <2>1. IsSeq(t1) /\ Len(t1) = 6
    BY <1>4, Zenon DEF Spans
  <2> QED BY <2>1, JoinSpans, Zenon
<1> HIDE DEF t2
<1>6. Spans(t3, t2, 6 + w, z, k)
  <2>1. k = (6 + w) + 2
    OBVIOUS
  <2>2. IsSeq(t2) /\ Len(t2) = 6 + w
    BY <1>5, Zenon DEF Spans
  <2> QED BY <1>2, <2>1, <2>2, JoinSpans, Zenon
<1> HIDE DEF t3
<1>7. Spans(t, t3, k, body, n)
  <2>1. IsSeq(t3) /\ Len(t3) = k
    BY <1>6, Zenon DEF Spans
  <2> QED BY <1>3, <2>1, JoinSpans, Zenon
<1>8. \A i \in 1..n : i <= k => t[i] = t3[i]
  BY <1>7 DEF Spans
<1>9. \A i \in 1..n : i > k => t[i] = body[i - k]
  BY <1>7 DEF Spans
<1>10. \A i \in 1..k : i <= 6 + w => t3[i] = t2[i]
  BY <1>6 DEF Spans
<1>11. ASSUME NEW i \in 1..k, i > 6 + w PROVE t3[i] = nl
  <2>1. t3[i] = z[i - (6 + w)]
    BY <1>6, <1>11 DEF Spans
  <2>2. i - (6 + w) = 1 \/ i - (6 + w) = 2
    BY <1>11
  <2> QED BY <1>2, <2>1, <2>2
<1>12. \A i \in 1..(6 + w) : i <= 6 => t2[i] = t1[i]
  BY <1>5 DEF Spans
<1>13. \A i \in 1..(6 + w) : i > 6 => t2[i] = D[i - 6]
  BY <1>5 DEF Spans
<1>14. \A i \in 1..6 : t1[i] = IF i <= 5 THEN h[i] ELSE a[i - 5]
  BY <1>4 DEF Spans
<1>15. \A i \in 1..6 : t[i] = t1[i]
  <2> SUFFICES ASSUME NEW i \in 1..6 PROVE t[i] = t1[i]
    OBVIOUS
  <2>1. i \in 1..n /\ i \in 1..k /\ i <= k /\ i \in 1..(6 + w) /\ i <= 6 + w /\ i <= 6
    OBVIOUS
  <2> QED BY <1>8, <1>10, <1>12, <2>1
<1>16. t[1] = h[1] /\ t[2] = h[2] /\ t[3] = h[3] /\ t[4] = h[4] /\ t[5] = h[5] /\ t[6] = a[1]
  BY <1>14, <1>15
<1>17. ASSUME NEW i \in 1..n, i > 6, i <= 6 + w PROVE t[i] = D[i - 6]
  <2>1. i \in 1..k /\ i <= k /\ i \in 1..(6 + w)
    BY <1>17
  <2> QED BY <1>8, <1>10, <1>13, <1>17, <2>1
<1>18. ASSUME NEW i \in 1..n, i > 6 + w, i <= k PROVE t[i] = nl
  <2>1. i \in 1..k
    BY <1>18
  <2> QED BY <1>8, <1>11, <1>18, <2>1
<1>19. Headed(t, c, ty, n) /\ t[6] = "Content-Length: "
  BY <1>1, <1>2, <1>7, <1>16, Zenon DEF Headed, Spans
<1> QED BY <1>9, <1>17, <1>18, <1>19, Zenon DEF Completed

\* The response with the SIP address.
ProfileIs(t) ==
    /\ Headed(t, "api", "response", 14)
    /\ t[6] = "Content-Length: " /\ t[7] = "5" /\ t[8] = nl /\ t[9] = nl /\ t[10] = "x"
    /\ t[11] = nl /\ t[12] = "internal" /\ t[13] = "address" /\ t[14] = nl

\* Its text.
LEMMA ProfileText == ProfileIs(Text["profile"])
<1> DEFINE body == ProfileBody
           D == <<"5">>
           t == Text["profile"]
<1>1. IsSeq(body) /\ Len(body) = 5
  BY DEF IsSeq, ProfileBody
<1>2. /\ body[1] = "x" /\ body[2] = nl /\ body[3] = "internal" /\ body[4] = "address"
      /\ body[5] = nl
  BY DEF ProfileBody
<1>3. IsSeq(D) /\ Len(D) = 1 /\ D[1] = "5"
  BY DEF IsSeq
<1>4. t = WithBody("api", "response", body)
  BY Zenon DEF Text
<1>5. Digits(5) = D
  BY DEF Digits, Numeral
<1>6. 5 \in Nat /\ 1 \in Nat /\ 9 \in Nat /\ 9 = 8 + 1 /\ 7 = 6 + 1 /\ 14 \in Nat /\ 14 = 9 + 5
  OBVIOUS
<1> HIDE DEF body, D, t
<1>c. Completed(t, "api", "response", D, 7, body, 9, 14)
  BY <1>1, <1>3, <1>4, <1>5, <1>6, WithBodyIs, Zenon
<1>7. Headed(t, "api", "response", 14) /\ t[6] = "Content-Length: "
  BY <1>c, Zenon DEF Completed
<1>d. \A i \in 1..14 : i > 6 /\ i <= 7 => t[i] = D[i - 6]
  BY <1>c, Zenon DEF Completed
<1>e. \A i \in 1..14 : i > 7 /\ i <= 9 => t[i] = nl
  BY <1>c, Zenon DEF Completed
<1>f. \A i \in 1..14 : i > 9 => t[i] = body[i - 9]
  BY <1>c, Zenon DEF Completed
<1>8. t[7] = D[1] /\ t[8] = nl /\ t[9] = nl
  BY <1>d, <1>e
<1>9. /\ t[10] = body[1] /\ t[11] = body[2] /\ t[12] = body[3] /\ t[13] = body[4]
      /\ t[14] = body[5]
  BY <1>f
<1>10. ProfileIs(t)
  BY <1>2, <1>3, <1>7, <1>8, <1>9, Zenon DEF ProfileIs
<1> QED BY <1>10, Zenon DEF t

\* The response with the counts of sessions.
StatusIs(t) ==
    /\ Headed(t, "api", "response", 20)
    /\ t[6] = "Content-Length: " /\ t[7] = "1" /\ t[8] = "0" /\ t[9] = nl /\ t[10] = nl
    /\ t[11] = "x" /\ t[12] = nl /\ t[13] = "x" /\ t[14] = nl /\ t[15] = "x"
    /\ t[16] = nl /\ t[17] = "4" /\ t[18] = nl /\ t[19] = "9" /\ t[20] = nl

\* Its text.
LEMMA StatusText == StatusIs(Text["status"])
<1> DEFINE body == StatusBody
           D == <<"1", "0">>
           t == Text["status"]
<1>1. IsSeq(body) /\ Len(body) = 10
  BY DEF IsSeq, StatusBody
<1>2. /\ body[1] = "x" /\ body[2] = nl /\ body[3] = "x" /\ body[4] = nl /\ body[5] = "x"
      /\ body[6] = nl /\ body[7] = "4" /\ body[8] = nl /\ body[9] = "9" /\ body[10] = nl
  BY DEF StatusBody
<1>3. IsSeq(D) /\ Len(D) = 2 /\ D[1] = "1" /\ D[2] = "0"
  BY DEF IsSeq
<1>4. t = WithBody("api", "response", body)
  BY Zenon DEF Text
<1>5. Digits(10) = D
  <2>1. 10 \div 10 = 1
    OBVIOUS
  <2> QED BY <2>1 DEF Digits, Numeral
<1>6. 10 \in Nat /\ 2 \in Nat /\ 10 \in Nat /\ 10 = 8 + 2 /\ 8 = 6 + 2 /\ 20 \in Nat /\ 20 = 10 + 10
  OBVIOUS
<1> HIDE DEF body, D, t
<1>c. Completed(t, "api", "response", D, 8, body, 10, 20)
  BY <1>1, <1>3, <1>4, <1>5, <1>6, WithBodyIs, Zenon
<1>7. Headed(t, "api", "response", 20) /\ t[6] = "Content-Length: "
  BY <1>c, Zenon DEF Completed
<1>d. \A i \in 1..20 : i > 6 /\ i <= 8 => t[i] = D[i - 6]
  BY <1>c, Zenon DEF Completed
<1>e. \A i \in 1..20 : i > 8 /\ i <= 10 => t[i] = nl
  BY <1>c, Zenon DEF Completed
<1>f. \A i \in 1..20 : i > 10 => t[i] = body[i - 10]
  BY <1>c, Zenon DEF Completed
<1>8. t[7] = D[1] /\ t[8] = D[2] /\ t[9] = nl /\ t[10] = nl
  BY <1>d, <1>e
<1>9. /\ t[11] = body[1] /\ t[12] = body[2] /\ t[13] = body[3] /\ t[14] = body[4]
      /\ t[15] = body[5] /\ t[16] = body[6] /\ t[17] = body[7] /\ t[18] = body[8]
      /\ t[19] = body[9] /\ t[20] = body[10]
  BY <1>f
<1>10. StatusIs(t)
  BY <1>2, <1>3, <1>7, <1>8, <1>9, Zenon DEF StatusIs
<1> QED BY <1>10, Zenon DEF t

\* The notice of a shutdown.
NoticeIs(t) ==
    /\ Headed(t, "text", "disconnect_notice", 11)
    /\ t[6] = "Content-Length: " /\ t[7] = "2" /\ t[8] = nl /\ t[9] = nl /\ t[10] = "x"
    /\ t[11] = nl

\* Its text.
LEMMA NoticeText == NoticeIs(Text["notice"])
<1> DEFINE body == <<"x", nl>>
           D == <<"2">>
           t == Text["notice"]
<1>1. IsSeq(body) /\ Len(body) = 2
  BY DEF IsSeq
<1>2. /\ body[1] = "x" /\ body[2] = nl
  OBVIOUS
<1>3. IsSeq(D) /\ Len(D) = 1 /\ D[1] = "2"
  BY DEF IsSeq
<1>4. t = WithBody("text", "disconnect_notice", body)
  BY Zenon DEF Text
<1>5. Digits(2) = D
  BY DEF Digits, Numeral
<1>6. 2 \in Nat /\ 1 \in Nat /\ 9 \in Nat /\ 9 = 8 + 1 /\ 7 = 6 + 1 /\ 11 \in Nat /\ 11 = 9 + 2
  OBVIOUS
<1> HIDE DEF body, D, t
<1>c. Completed(t, "text", "disconnect_notice", D, 7, body, 9, 11)
  BY <1>1, <1>3, <1>4, <1>5, <1>6, WithBodyIs, Zenon
<1>7. Headed(t, "text", "disconnect_notice", 11) /\ t[6] = "Content-Length: "
  BY <1>c, Zenon DEF Completed
<1>d. \A i \in 1..11 : i > 6 /\ i <= 7 => t[i] = D[i - 6]
  BY <1>c, Zenon DEF Completed
<1>e. \A i \in 1..11 : i > 7 /\ i <= 9 => t[i] = nl
  BY <1>c, Zenon DEF Completed
<1>f. \A i \in 1..11 : i > 9 => t[i] = body[i - 9]
  BY <1>c, Zenon DEF Completed
<1>8. t[7] = D[1] /\ t[8] = nl /\ t[9] = nl
  BY <1>d, <1>e
<1>9. /\ t[10] = body[1] /\ t[11] = body[2]
  BY <1>f
<1>10. NoticeIs(t)
  BY <1>2, <1>3, <1>7, <1>8, <1>9, Zenon DEF NoticeIs
<1> QED BY <1>10, Zenon DEF t

-----------------------------------------------------------------------------
(* Where their lines begin and end *)

\* The beginnings and ends of the lines of each text.
AuthB == <<1>>
AuthE == <<4>>

\* They mark the lines of the request to authenticate,
LEMMA AuthMarks == ASSUME NEW t, AuthIs(t) PROVE Marks(t, 1, AuthB, AuthE)
<1> DEFINE b == AuthB
           e == AuthE
<1>1. /\ b[1] = 1 /\ e[1] = 4
  BY DEF AuthB, AuthE
<1>2. Len(t) = 6
  BY Zenon DEF AuthIs, Headed
<1>3. /\ t[1] # nl /\ t[2] # nl /\ t[3] # nl /\ t[4] # nl
  BY DEF AuthIs, Headed, nl
<1>4. /\ t[5] = nl /\ t[6] = nl
  BY DEF AuthIs, Headed
<1>5. \A n \in 1..1 : n = 1
  OBVIOUS
<1>6. \A k \in 1..6 :
         \/ k = 1 \/ k = 2 \/ k = 3 \/ k = 4 \/ k = 5 \/ k = 6
  OBVIOUS
<1> HIDE DEF b, e
<1>7. ASSUME NEW n \in 1..1
      PROVE  /\ b[n] \in Nat /\ e[n] \in Nat
             /\ 1 <= b[n] /\ b[n] <= e[n] /\ e[n] <= Len(t)
             /\ \A k \in b[n]..e[n] : t[k] # nl
             /\ b[n] # 1 => t[b[n] - 1] = nl
             /\ e[n] < Len(t) => t[e[n] + 1] = nl
  <2>1. CASE n = 1
    <3>1. \A k \in 1..4 : k = 1 \/ k = 2 \/ k = 3 \/ k = 4
      OBVIOUS
    <3>2. b[n] = 1 /\ e[n] = 4
      BY <1>1, <2>1
    <3>3. \A k \in 1..4 : t[k] # nl
      BY <1>3, <3>1
    <3>4. t[4 + 1] = nl
      BY <1>4
    <3> QED BY <1>2, <3>2, <3>3, <3>4
  <2> QED BY <1>5, <2>1
<1>8. \A m, n \in 1..1 : m < n => e[m] < b[n]
  BY <1>1, <1>5
<1>9. ASSUME NEW k \in 1..Len(t), t[k] # nl PROVE \E n \in 1..1 : k \in b[n]..e[n]
  <2>1. k \in 1..4
    BY <1>2, <1>4, <1>6, <1>9
  <2>2. 1 \in 1..1
    OBVIOUS
  <2> QED BY <1>1, <2>1, <2>2
<1> QED BY <1>7, <1>8, <1>9, Zenon DEF Marks, b, e

ReplyB == <<1, 6>>
ReplyE == <<4, 8>>

\* of a reply,
LEMMA ReplyMarks ==
    ASSUME NEW t, NEW status \in {"+OK", "+ERR"}, ReplyIs(t, status)
    PROVE  Marks(t, 2, ReplyB, ReplyE)
<1> DEFINE b == ReplyB
           e == ReplyE
<1>1. /\ b[1] = 1 /\ b[2] = 6 /\ e[1] = 4 /\ e[2] = 8
  BY DEF ReplyB, ReplyE
<1>2. Len(t) = 10
  BY Zenon DEF ReplyIs, Headed
<1>3. /\ t[1] # nl /\ t[2] # nl /\ t[3] # nl /\ t[4] # nl /\ t[6] # nl /\ t[7] # nl
      /\ t[8] # nl
  BY DEF ReplyIs, Headed, nl
<1>4. /\ t[5] = nl /\ t[9] = nl /\ t[10] = nl
  BY DEF ReplyIs, Headed
<1>5. \A n \in 1..2 : n = 1 \/ n = 2
  OBVIOUS
<1>6. \A k \in 1..10 :
         \/ k = 1 \/ k = 2 \/ k = 3 \/ k = 4 \/ k = 5 \/ k = 6 \/ k = 7 \/ k = 8 \/ k = 9
         \/ k = 10
  OBVIOUS
<1> HIDE DEF b, e
<1>7. ASSUME NEW n \in 1..2
      PROVE  /\ b[n] \in Nat /\ e[n] \in Nat
             /\ 1 <= b[n] /\ b[n] <= e[n] /\ e[n] <= Len(t)
             /\ \A k \in b[n]..e[n] : t[k] # nl
             /\ b[n] # 1 => t[b[n] - 1] = nl
             /\ e[n] < Len(t) => t[e[n] + 1] = nl
  <2>1. CASE n = 1
    <3>1. \A k \in 1..4 : k = 1 \/ k = 2 \/ k = 3 \/ k = 4
      OBVIOUS
    <3>2. b[n] = 1 /\ e[n] = 4
      BY <1>1, <2>1
    <3>3. \A k \in 1..4 : t[k] # nl
      BY <1>3, <3>1
    <3>4. t[4 + 1] = nl
      BY <1>4
    <3> QED BY <1>2, <3>2, <3>3, <3>4
  <2>2. CASE n = 2
    <3>1. \A k \in 6..8 : k = 6 \/ k = 7 \/ k = 8
      OBVIOUS
    <3>2. b[n] = 6 /\ e[n] = 8
      BY <1>1, <2>2
    <3>3. \A k \in 6..8 : t[k] # nl
      BY <1>3, <3>1
    <3>4. t[6 - 1] = nl /\ t[8 + 1] = nl
      BY <1>4
    <3> QED BY <1>2, <3>2, <3>3, <3>4
  <2> QED BY <1>5, <2>1, <2>2
<1>8. \A m, n \in 1..2 : m < n => e[m] < b[n]
  BY <1>1, <1>5
<1>9. ASSUME NEW k \in 1..Len(t), t[k] # nl PROVE \E n \in 1..2 : k \in b[n]..e[n]
  <2>1. k \in 1..4 \/ k \in 6..8
    BY <1>2, <1>4, <1>6, <1>9
  <2>2. 1 \in 1..2 /\ 2 \in 1..2
    OBVIOUS
  <2> QED BY <1>1, <2>1, <2>2
<1> QED BY <1>7, <1>8, <1>9, Zenon DEF Marks, b, e

ProfileB == <<1, 6, 10, 12>>
ProfileE == <<4, 7, 10, 13>>

\* of the response with the SIP address,
LEMMA ProfileMarks == ASSUME NEW t, ProfileIs(t) PROVE Marks(t, 4, ProfileB, ProfileE)
<1> DEFINE b == ProfileB
           e == ProfileE
<1>1. /\ b[1] = 1 /\ b[2] = 6 /\ b[3] = 10 /\ b[4] = 12 /\ e[1] = 4 /\ e[2] = 7
      /\ e[3] = 10 /\ e[4] = 13
  BY DEF ProfileB, ProfileE
<1>2. Len(t) = 14
  BY Zenon DEF ProfileIs, Headed
<1>3. /\ t[1] # nl /\ t[2] # nl /\ t[3] # nl /\ t[4] # nl /\ t[6] # nl /\ t[7] # nl
      /\ t[10] # nl /\ t[12] # nl /\ t[13] # nl
  BY DEF ProfileIs, Headed, nl
<1>4. /\ t[5] = nl /\ t[8] = nl /\ t[9] = nl /\ t[11] = nl /\ t[14] = nl
  BY DEF ProfileIs, Headed
<1>5. \A n \in 1..4 : n = 1 \/ n = 2 \/ n = 3 \/ n = 4
  OBVIOUS
<1>6. \A k \in 1..14 :
         \/ k = 1 \/ k = 2 \/ k = 3 \/ k = 4 \/ k = 5 \/ k = 6 \/ k = 7 \/ k = 8 \/ k = 9
         \/ k = 10 \/ k = 11 \/ k = 12 \/ k = 13 \/ k = 14
  OBVIOUS
<1> HIDE DEF b, e
<1>7. ASSUME NEW n \in 1..4
      PROVE  /\ b[n] \in Nat /\ e[n] \in Nat
             /\ 1 <= b[n] /\ b[n] <= e[n] /\ e[n] <= Len(t)
             /\ \A k \in b[n]..e[n] : t[k] # nl
             /\ b[n] # 1 => t[b[n] - 1] = nl
             /\ e[n] < Len(t) => t[e[n] + 1] = nl
  <2>1. CASE n = 1
    <3>1. \A k \in 1..4 : k = 1 \/ k = 2 \/ k = 3 \/ k = 4
      OBVIOUS
    <3>2. b[n] = 1 /\ e[n] = 4
      BY <1>1, <2>1
    <3>3. \A k \in 1..4 : t[k] # nl
      BY <1>3, <3>1
    <3>4. t[4 + 1] = nl
      BY <1>4
    <3> QED BY <1>2, <3>2, <3>3, <3>4
  <2>2. CASE n = 2
    <3>1. \A k \in 6..7 : k = 6 \/ k = 7
      OBVIOUS
    <3>2. b[n] = 6 /\ e[n] = 7
      BY <1>1, <2>2
    <3>3. \A k \in 6..7 : t[k] # nl
      BY <1>3, <3>1
    <3>4. t[6 - 1] = nl /\ t[7 + 1] = nl
      BY <1>4
    <3> QED BY <1>2, <3>2, <3>3, <3>4
  <2>3. CASE n = 3
    <3>1. \A k \in 10..10 : k = 10
      OBVIOUS
    <3>2. b[n] = 10 /\ e[n] = 10
      BY <1>1, <2>3
    <3>3. \A k \in 10..10 : t[k] # nl
      BY <1>3, <3>1
    <3>4. t[10 - 1] = nl /\ t[10 + 1] = nl
      BY <1>4
    <3> QED BY <1>2, <3>2, <3>3, <3>4
  <2>4. CASE n = 4
    <3>1. \A k \in 12..13 : k = 12 \/ k = 13
      OBVIOUS
    <3>2. b[n] = 12 /\ e[n] = 13
      BY <1>1, <2>4
    <3>3. \A k \in 12..13 : t[k] # nl
      BY <1>3, <3>1
    <3>4. t[12 - 1] = nl /\ t[13 + 1] = nl
      BY <1>4
    <3> QED BY <1>2, <3>2, <3>3, <3>4
  <2> QED BY <1>5, <2>1, <2>2, <2>3, <2>4
<1>8. \A m, n \in 1..4 : m < n => e[m] < b[n]
  BY <1>1, <1>5
<1>9. ASSUME NEW k \in 1..Len(t), t[k] # nl PROVE \E n \in 1..4 : k \in b[n]..e[n]
  <2>1. k \in 1..4 \/ k \in 6..7 \/ k \in 10..10 \/ k \in 12..13
    BY <1>2, <1>4, <1>6, <1>9
  <2>2. 1 \in 1..4 /\ 2 \in 1..4 /\ 3 \in 1..4 /\ 4 \in 1..4
    OBVIOUS
  <2> QED BY <1>1, <2>1, <2>2
<1> QED BY <1>7, <1>8, <1>9, Zenon DEF Marks, b, e

StatusB == <<1, 6, 11, 13, 15, 17, 19>>
StatusE == <<4, 8, 11, 13, 15, 17, 19>>

\* of the response with the counts,
LEMMA StatusMarks == ASSUME NEW t, StatusIs(t) PROVE Marks(t, 7, StatusB, StatusE)
<1> DEFINE b == StatusB
           e == StatusE
<1>1. /\ b[1] = 1 /\ b[2] = 6 /\ b[3] = 11 /\ b[4] = 13 /\ b[5] = 15 /\ b[6] = 17
      /\ b[7] = 19 /\ e[1] = 4 /\ e[2] = 8 /\ e[3] = 11 /\ e[4] = 13 /\ e[5] = 15
      /\ e[6] = 17 /\ e[7] = 19
  BY DEF StatusB, StatusE
<1>2. Len(t) = 20
  BY Zenon DEF StatusIs, Headed
<1>3. /\ t[1] # nl /\ t[2] # nl /\ t[3] # nl /\ t[4] # nl /\ t[6] # nl /\ t[7] # nl
      /\ t[8] # nl /\ t[11] # nl /\ t[13] # nl /\ t[15] # nl /\ t[17] # nl /\ t[19] # nl
  BY DEF StatusIs, Headed, nl
<1>4. /\ t[5] = nl /\ t[9] = nl /\ t[10] = nl /\ t[12] = nl /\ t[14] = nl /\ t[16] = nl
      /\ t[18] = nl /\ t[20] = nl
  BY DEF StatusIs, Headed
<1>5. \A n \in 1..7 : n = 1 \/ n = 2 \/ n = 3 \/ n = 4 \/ n = 5 \/ n = 6 \/ n = 7
  OBVIOUS
<1>6. \A k \in 1..20 :
         \/ k = 1 \/ k = 2 \/ k = 3 \/ k = 4 \/ k = 5 \/ k = 6 \/ k = 7 \/ k = 8 \/ k = 9
         \/ k = 10 \/ k = 11 \/ k = 12 \/ k = 13 \/ k = 14 \/ k = 15 \/ k = 16 \/ k = 17
         \/ k = 18 \/ k = 19 \/ k = 20
  OBVIOUS
<1> HIDE DEF b, e
<1>7. ASSUME NEW n \in 1..7
      PROVE  /\ b[n] \in Nat /\ e[n] \in Nat
             /\ 1 <= b[n] /\ b[n] <= e[n] /\ e[n] <= Len(t)
             /\ \A k \in b[n]..e[n] : t[k] # nl
             /\ b[n] # 1 => t[b[n] - 1] = nl
             /\ e[n] < Len(t) => t[e[n] + 1] = nl
  <2>1. CASE n = 1
    <3>1. \A k \in 1..4 : k = 1 \/ k = 2 \/ k = 3 \/ k = 4
      OBVIOUS
    <3>2. b[n] = 1 /\ e[n] = 4
      BY <1>1, <2>1
    <3>3. \A k \in 1..4 : t[k] # nl
      BY <1>3, <3>1
    <3>4. t[4 + 1] = nl
      BY <1>4
    <3> QED BY <1>2, <3>2, <3>3, <3>4
  <2>2. CASE n = 2
    <3>1. \A k \in 6..8 : k = 6 \/ k = 7 \/ k = 8
      OBVIOUS
    <3>2. b[n] = 6 /\ e[n] = 8
      BY <1>1, <2>2
    <3>3. \A k \in 6..8 : t[k] # nl
      BY <1>3, <3>1
    <3>4. t[6 - 1] = nl /\ t[8 + 1] = nl
      BY <1>4
    <3> QED BY <1>2, <3>2, <3>3, <3>4
  <2>3. CASE n = 3
    <3>1. \A k \in 11..11 : k = 11
      OBVIOUS
    <3>2. b[n] = 11 /\ e[n] = 11
      BY <1>1, <2>3
    <3>3. \A k \in 11..11 : t[k] # nl
      BY <1>3, <3>1
    <3>4. t[11 - 1] = nl /\ t[11 + 1] = nl
      BY <1>4
    <3> QED BY <1>2, <3>2, <3>3, <3>4
  <2>4. CASE n = 4
    <3>1. \A k \in 13..13 : k = 13
      OBVIOUS
    <3>2. b[n] = 13 /\ e[n] = 13
      BY <1>1, <2>4
    <3>3. \A k \in 13..13 : t[k] # nl
      BY <1>3, <3>1
    <3>4. t[13 - 1] = nl /\ t[13 + 1] = nl
      BY <1>4
    <3> QED BY <1>2, <3>2, <3>3, <3>4
  <2>5. CASE n = 5
    <3>1. \A k \in 15..15 : k = 15
      OBVIOUS
    <3>2. b[n] = 15 /\ e[n] = 15
      BY <1>1, <2>5
    <3>3. \A k \in 15..15 : t[k] # nl
      BY <1>3, <3>1
    <3>4. t[15 - 1] = nl /\ t[15 + 1] = nl
      BY <1>4
    <3> QED BY <1>2, <3>2, <3>3, <3>4
  <2>6. CASE n = 6
    <3>1. \A k \in 17..17 : k = 17
      OBVIOUS
    <3>2. b[n] = 17 /\ e[n] = 17
      BY <1>1, <2>6
    <3>3. \A k \in 17..17 : t[k] # nl
      BY <1>3, <3>1
    <3>4. t[17 - 1] = nl /\ t[17 + 1] = nl
      BY <1>4
    <3> QED BY <1>2, <3>2, <3>3, <3>4
  <2>7. CASE n = 7
    <3>1. \A k \in 19..19 : k = 19
      OBVIOUS
    <3>2. b[n] = 19 /\ e[n] = 19
      BY <1>1, <2>7
    <3>3. \A k \in 19..19 : t[k] # nl
      BY <1>3, <3>1
    <3>4. t[19 - 1] = nl /\ t[19 + 1] = nl
      BY <1>4
    <3> QED BY <1>2, <3>2, <3>3, <3>4
  <2> QED BY <1>5, <2>1, <2>2, <2>3, <2>4, <2>5, <2>6, <2>7
<1>8. \A m, n \in 1..7 : m < n => e[m] < b[n]
  BY <1>1, <1>5
<1>9. ASSUME NEW k \in 1..Len(t), t[k] # nl PROVE \E n \in 1..7 : k \in b[n]..e[n]
  <2>1. k \in 1..4 \/ k \in 6..8 \/ k \in 11..11 \/ k \in 13..13 \/ k \in 15..15 \/ k \in 17..17 \/ k \in 19..19
    BY <1>2, <1>4, <1>6, <1>9
  <2>2. 1 \in 1..7 /\ 2 \in 1..7 /\ 3 \in 1..7 /\ 4 \in 1..7 /\ 5 \in 1..7 /\ 6 \in 1..7 /\ 7 \in 1..7
    OBVIOUS
  <2> QED BY <1>1, <2>1, <2>2
<1> QED BY <1>7, <1>8, <1>9, Zenon DEF Marks, b, e

NoticeB == <<1, 6, 10>>
NoticeE == <<4, 7, 10>>

\* of the notice.
LEMMA NoticeMarks == ASSUME NEW t, NoticeIs(t) PROVE Marks(t, 3, NoticeB, NoticeE)
<1> DEFINE b == NoticeB
           e == NoticeE
<1>1. /\ b[1] = 1 /\ b[2] = 6 /\ b[3] = 10 /\ e[1] = 4 /\ e[2] = 7 /\ e[3] = 10
  BY DEF NoticeB, NoticeE
<1>2. Len(t) = 11
  BY Zenon DEF NoticeIs, Headed
<1>3. /\ t[1] # nl /\ t[2] # nl /\ t[3] # nl /\ t[4] # nl /\ t[6] # nl /\ t[7] # nl
      /\ t[10] # nl
  BY DEF NoticeIs, Headed, nl
<1>4. /\ t[5] = nl /\ t[8] = nl /\ t[9] = nl /\ t[11] = nl
  BY DEF NoticeIs, Headed
<1>5. \A n \in 1..3 : n = 1 \/ n = 2 \/ n = 3
  OBVIOUS
<1>6. \A k \in 1..11 :
         \/ k = 1 \/ k = 2 \/ k = 3 \/ k = 4 \/ k = 5 \/ k = 6 \/ k = 7 \/ k = 8 \/ k = 9
         \/ k = 10 \/ k = 11
  OBVIOUS
<1> HIDE DEF b, e
<1>7. ASSUME NEW n \in 1..3
      PROVE  /\ b[n] \in Nat /\ e[n] \in Nat
             /\ 1 <= b[n] /\ b[n] <= e[n] /\ e[n] <= Len(t)
             /\ \A k \in b[n]..e[n] : t[k] # nl
             /\ b[n] # 1 => t[b[n] - 1] = nl
             /\ e[n] < Len(t) => t[e[n] + 1] = nl
  <2>1. CASE n = 1
    <3>1. \A k \in 1..4 : k = 1 \/ k = 2 \/ k = 3 \/ k = 4
      OBVIOUS
    <3>2. b[n] = 1 /\ e[n] = 4
      BY <1>1, <2>1
    <3>3. \A k \in 1..4 : t[k] # nl
      BY <1>3, <3>1
    <3>4. t[4 + 1] = nl
      BY <1>4
    <3> QED BY <1>2, <3>2, <3>3, <3>4
  <2>2. CASE n = 2
    <3>1. \A k \in 6..7 : k = 6 \/ k = 7
      OBVIOUS
    <3>2. b[n] = 6 /\ e[n] = 7
      BY <1>1, <2>2
    <3>3. \A k \in 6..7 : t[k] # nl
      BY <1>3, <3>1
    <3>4. t[6 - 1] = nl /\ t[7 + 1] = nl
      BY <1>4
    <3> QED BY <1>2, <3>2, <3>3, <3>4
  <2>3. CASE n = 3
    <3>1. \A k \in 10..10 : k = 10
      OBVIOUS
    <3>2. b[n] = 10 /\ e[n] = 10
      BY <1>1, <2>3
    <3>3. \A k \in 10..10 : t[k] # nl
      BY <1>3, <3>1
    <3>4. t[10 - 1] = nl /\ t[10 + 1] = nl
      BY <1>4
    <3> QED BY <1>2, <3>2, <3>3, <3>4
  <2> QED BY <1>5, <2>1, <2>2, <2>3
<1>8. \A m, n \in 1..3 : m < n => e[m] < b[n]
  BY <1>1, <1>5
<1>9. ASSUME NEW k \in 1..Len(t), t[k] # nl PROVE \E n \in 1..3 : k \in b[n]..e[n]
  <2>1. k \in 1..4 \/ k \in 6..7 \/ k \in 10..10
    BY <1>2, <1>4, <1>6, <1>9
  <2>2. 1 \in 1..3 /\ 2 \in 1..3 /\ 3 \in 1..3
    OBVIOUS
  <2> QED BY <1>1, <2>1, <2>2
<1> QED BY <1>7, <1>8, <1>9, Zenon DEF Marks, b, e

-----------------------------------------------------------------------------
(* One line *)

\* l is what s has from m to n.
IsPart(l, s, m, n) ==
    /\ IsSeq(l) /\ Len(l) \in Nat /\ Len(l) = n - m + 1
    /\ \A i \in 1..Len(l) : l[i] = s[m + i - 1]

\* So is Part(s, m, n).
LEMMA PartOf ==
    ASSUME NEW s, NEW m \in Nat, NEW n \in Nat, m <= n
    PROVE  IsPart(Part(s, m, n), s, m, n)
<1> DEFINE l == Part(s, m, n)
           k == n - m + 1
<1>1. k \in Nat
  OBVIOUS
<1>2. l = [i \in 1..k |-> s[m + i - 1]]
  BY PartIs
<1> HIDE DEF l, k
<1>3. Len(l) = k
  BY <1>1, <1>2
<1>4. l = [i \in 1..Len(l) |-> l[i]] /\ \A i \in 1..Len(l) : l[i] = s[m + i - 1]
  BY <1>2, <1>3
<1>5. IsSeq(l)
  BY <1>1, <1>3, <1>4, Zenon DEF IsSeq
<1>6. IsPart(l, s, m, n)
  BY <1>1, <1>3, <1>4, <1>5, Zenon DEF IsPart, k
<1> QED BY <1>6, Zenon DEF l

\* A message with these fields, and one of which only raw data has been kept.
Msg(raw, category, type, status, length, content) ==
    [m_rawMsg |-> raw, m_category |-> category, m_type |-> type,
     m_replyStatus |-> status, m_nContentLength |-> length, m_strContent |-> content]
Fresh(raw) == Msg(raw, "unknown_category", "unknown_type", "undefined", 0, <<>>)

\* After an exception no line is looked at.
LEMMA ThrownLine == ASSUME NEW m, NEW line PROVE ParseLine(Throw(m), line) = Throw(m)
  BY DEF ParseLine, Throw

\* The line with the category and the type, cut off anywhere.
LEMMA TypeLine ==
    ASSUME NEW r, NEW line, Len(line) \in Nat, NEW s, s = ParseLine(Ok(Fresh(r)), line)
    PROVE  /\ line[1] # "Content-Type: " \/ Len(line) < 3 => s = Throw(Fresh(r))
           /\ line[1] = "Content-Type: " /\ Len(line) = 3 =>
                s = Throw(Msg(r, line[2], "unknown_type", "undefined", 0, <<>>))
           /\ line[1] = "Content-Type: " /\ Len(line) > 3 =>
                s = Ok(Msg(r, line[2], line[4], "undefined", 0, <<>>))
<1>1. s = ContentType(Fresh(r), line)
  BY DEF ParseLine, Ok, Fresh, Msg
<1>2. ASSUME NEW x
      PROVE  [Fresh(r) EXCEPT !.m_category = x] = Msg(r, x, "unknown_type", "undefined", 0, <<>>)
  BY DEF Fresh, Msg
<1>3. ASSUME NEW x, NEW y
      PROVE  [Fresh(r) EXCEPT !.m_category = x, !.m_type = y] = Msg(r, x, y, "undefined", 0, <<>>)
  <2>1. ASSUME NEW m
        PROVE  [m EXCEPT !.m_category = x, !.m_type = y] =
                 [[m EXCEPT !.m_category = x] EXCEPT !.m_type = y]
    BY Zenon
  <2>2. [Msg(r, x, "unknown_type", "undefined", 0, <<>>) EXCEPT !.m_type = y] =
          Msg(r, x, y, "undefined", 0, <<>>)
    BY DEF Msg
  <2> QED BY <1>2, <2>1, <2>2, Zenon
<1>4. line[1] # "Content-Type: " \/ Len(line) < 3 => s = Throw(Fresh(r))
  BY <1>1, Zenon DEF ContentType
<1>5. line[1] = "Content-Type: " /\ Len(line) = 3 =>
                s = Throw(Msg(r, line[2], "unknown_type", "undefined", 0, <<>>))
  <2>1. ~(3 < 3)
    OBVIOUS
  <2> QED BY <1>1, <1>2, <2>1, Zenon DEF ContentType
<1>6. line[1] = "Content-Type: " /\ Len(line) > 3 =>
                s = Ok(Msg(r, line[2], line[4], "undefined", 0, <<>>))
  <2>1. Len(line) > 3 => ~(Len(line) < 3) /\ Len(line) # 3
    <3>1. \A n \in Nat : n > 3 => ~(n < 3) /\ n # 3
      OBVIOUS
    <3> QED BY <3>1, Zenon
  <2> QED BY <1>1, <1>3, <2>1, Zenon DEF ContentType
<1> QED BY <1>4, <1>5, <1>6, Zenon

\* The line with the text of a reply.
LEMMA ReplyLine ==
    ASSUME NEW r, NEW line, Len(line) \in Nat, NEW m, NEW s,
           m = Msg(r, "command", "reply", "undefined", 0, <<>>), s = ParseLine(Ok(m), line)
    PROVE  /\ line[1] # "Reply-Text: " \/ Len(line) = 1 => s = Throw(m)
           /\ line[1] = "Reply-Text: " /\ Len(line) # 1 =>
                s = Ok(Msg(r, "command", "reply", IF line[2] = "+OK" THEN "ok" ELSE "err",
                           0, <<>>))
<1> DEFINE st == IF line[2] = "+OK" THEN "ok" ELSE "err"
<1> HIDE DEF st
<1>1. s = ReplyTextLine(m, line)
  BY DEF ParseLine, Ok, Msg
<1>2. m.m_replyStatus = "undefined"
  BY DEF Msg
<1>3. [m EXCEPT !.m_replyStatus = st] = Msg(r, "command", "reply", st, 0, <<>>)
  BY DEF Msg
<1> QED BY <1>1, <1>2, <1>3, Zenon DEF ReplyTextLine, st

\* The messages that have a body.
HasBody(c, ty) == c = "text" \/ (c = "api" /\ ty = "response")

\* The line with the length of the body.
LEMMA LengthLine ==
    ASSUME NEW r, NEW line, NEW c, NEW ty, HasBody(c, ty), NEW m, NEW s,
           m = Msg(r, c, ty, "undefined", 0, <<>>), s = ParseLine(Ok(m), line)
    PROVE  /\ line[1] # "Content-Length: " => s = Throw(m)
           /\ line[1] = "Content-Length: " =>
                s = Ok(Msg(r, c, ty, "undefined", atoi(Tail(line)), <<>>))
<1>1. s = ContentLine(m, line)
  BY DEF ParseLine, Ok, Msg, HasBody
<1>2. m.m_nContentLength = 0
  BY DEF Msg
<1>3. ASSUME NEW x
      PROVE  [m EXCEPT !.m_nContentLength = x] = Msg(r, c, ty, "undefined", x, <<>>)
  BY DEF Msg
<1> QED BY <1>1, <1>2, <1>3, Zenon DEF ContentLine

\* A line of the body.
LEMMA BodyLine ==
    ASSUME NEW r, NEW line, NEW c, NEW ty, HasBody(c, ty), NEW l, l # 0, NEW cn
    PROVE  ParseLine(Ok(Msg(r, c, ty, "undefined", l, cn)), line)
             = Ok(Msg(r, c, ty, "undefined", l, cn \o line \o <<nl>>))
<1> DEFINE m == Msg(r, c, ty, "undefined", l, cn)
<1>1. ParseLine(Ok(m), line) = ContentLine(m, line)
  BY DEF ParseLine, Ok, Msg, HasBody
<1>2. m.m_nContentLength = l /\ m.m_strContent = cn
  BY Zenon DEF Msg
<1>3. ContentLine(m, line) = Ok([m EXCEPT !.m_strContent = cn \o line \o <<nl>>])
  BY <1>2, Zenon DEF ContentLine
<1> DEFINE cn2 == cn \o line \o <<nl>>
<1> HIDE DEF cn2
<1>4. [m EXCEPT !.m_strContent = cn2] = Msg(r, c, ty, "undefined", l, cn2)
  BY DEF Msg
<1> QED BY <1>1, <1>3, <1>4 DEF cn2

-----------------------------------------------------------------------------
(* Numbers *)

\* The value of a digit.
Value(d) == IF d = "0" THEN 0 ELSE CHOOSE n \in 1..9 : Numeral[n] = d

\* Of each digit.
LEMMA Values ==
    /\ Value("0") = 0 /\ Value("1") = 1 /\ Value("2") = 2 /\ Value("4") = 4
    /\ Value("5") = 5 /\ Value("9") = 9
<1>1. \A n \in 1..9 : \/ n = 1 \/ n = 2 \/ n = 3 \/ n = 4 \/ n = 5
                      \/ n = 6 \/ n = 7 \/ n = 8 \/ n = 9
  OBVIOUS
<1>2. /\ Numeral[1] = "1" /\ Numeral[2] = "2" /\ Numeral[3] = "3" /\ Numeral[4] = "4"
      /\ Numeral[5] = "5" /\ Numeral[6] = "6" /\ Numeral[7] = "7" /\ Numeral[8] = "8"
      /\ Numeral[9] = "9"
  BY DEF Numeral
<1>3. ASSUME NEW m \in 1..9
      PROVE  \A n \in 1..9 : Numeral[n] = Numeral[m] => n = m
  BY <1>1, <1>2
<1>4. ASSUME NEW m \in 1..9, NEW d, Numeral[m] = d, d # "0" PROVE Value(d) = m
  BY <1>3, <1>4, Zenon DEF Value
<1>5. 1 \in 1..9 /\ 2 \in 1..9 /\ 4 \in 1..9 /\ 5 \in 1..9 /\ 9 \in 1..9
  OBVIOUS
<1>6. "1" # "0" /\ "2" # "0" /\ "4" # "0" /\ "5" # "0" /\ "9" # "0"
  OBVIOUS
<1>7. Value("0") = 0
  BY DEF Value
<1> QED BY <1>2, <1>4, <1>5, <1>6, <1>7, Zenon

\* f is what FoldLeft computes in atoi, for a numeral of at most two digits.
IsAtoi(f, s) ==
    f = [x \in SUBSET DOMAIN s |->
            IF x = {} THEN 0 ELSE 10 * f[x \ {Max(x)}] + Value(s[Max(x)])]

\* atoi is such an f.
LEMMA AtoiIs ==
    ASSUME NEW s
    PROVE  atoi(s) = (CHOOSE f : IsAtoi(f, s))[DOMAIN s]
  BY Zenon DEF atoi, FoldLeft, MapThenFoldSet, IsAtoi, Value

\* The number that no digit makes,
LEMMA AtoiNone == ASSUME NEW s, DOMAIN s = {} PROVE atoi(s) = 0
<1> DEFINE f == [x \in SUBSET {} |-> 0]
           g == CHOOSE h : IsAtoi(h, s)
<1>1. IsAtoi(f, s)
  <2>1. \A x \in SUBSET {} : x = {}
    OBVIOUS
  <2>2. f = [x \in SUBSET {} |->
            IF x = {} THEN 0 ELSE 10 * f[x \ {Max(x)}] + Value(s[Max(x)])]
    BY <2>1, Zenon
  <2> QED BY <2>2, Zenon DEF IsAtoi
<1>2. IsAtoi(g, s)
  BY <1>1, Zenon
<1> HIDE DEF g
<1>3. g[{}] = 0
  <2>1. {} \in SUBSET DOMAIN s
    OBVIOUS
  <2> QED BY <1>2, <2>1, Zenon DEF IsAtoi
<1> QED BY <1>3, AtoiIs DEF g

\* one digit makes,
LEMMA AtoiOne ==
    ASSUME NEW s, DOMAIN s = {1}, Value(s[1]) \in Nat
    PROVE  atoi(s) = Value(s[1])
<1> DEFINE v == Value(s[1])
           f == [x \in SUBSET {1} |-> IF x = {} THEN 0 ELSE v]
           g == CHOOSE h : IsAtoi(h, s)
<1> HIDE DEF v
<1>0. v \in Nat /\ 10 * 0 + v = v
  BY DEF v
<1>m. Max({1}) = 1
  BY MaxIs
<1>1. IsAtoi(f, s)
  <2>1. ASSUME NEW x \in SUBSET {1}
        PROVE  f[x] = IF x = {} THEN 0 ELSE 10 * f[x \ {Max(x)}] + Value(s[Max(x)])
    <3>1. CASE x = {}
      BY <3>1
    <3>2. CASE x # {}
      <4>1. x = {1} /\ x \ {1} = {}
        BY <3>2
      <4>2. f[x] = v /\ f[{}] = 0
        BY <4>1
      <4> QED BY <1>0, <1>m, <3>2, <4>1, <4>2, Zenon DEF v
    <3> QED BY <3>1, <3>2
  <2>2. f = [x \in SUBSET {1} |-> f[x]]
    BY Zenon
  <2> HIDE DEF f
  <2> QED BY <2>1, <2>2, Zenon DEF IsAtoi
<1>2. IsAtoi(g, s)
  BY <1>1, Zenon
<1> HIDE DEF g
<1>3. g[{}] = 0
  <2>1. {} \in SUBSET DOMAIN s
    OBVIOUS
  <2> QED BY <1>2, <2>1, Zenon DEF IsAtoi
<1>4. g[{1}] = 10 * g[{}] + v
  <2>1. {1} \in SUBSET DOMAIN s /\ {1} # {} /\ {1} \ {1} = {}
    OBVIOUS
  <2> QED BY <1>2, <1>m, <2>1, Zenon DEF IsAtoi, v
<1>5. g[{1}] = v
  BY <1>0, <1>3, <1>4, Zenon
<1> QED BY <1>5, AtoiIs DEF g, v

\* two digits make.
LEMMA AtoiTwo ==
    ASSUME NEW s, DOMAIN s = {1, 2}, Value(s[1]) \in Nat, Value(s[2]) \in Nat
    PROVE  atoi(s) = 10 * Value(s[1]) + Value(s[2])
<1> DEFINE v == Value(s[1])
           w == Value(s[2])
           f == [x \in SUBSET {1, 2} |->
                   IF x = {} THEN 0 ELSE IF x = {1} THEN v ELSE IF x = {2} THEN w
                   ELSE 10 * v + w]
           g == CHOOSE h : IsAtoi(h, s)
<1> HIDE DEF v, w
<1>0. v \in Nat /\ 10 * 0 + v = v /\ w \in Nat /\ 10 * 0 + w = w
  BY DEF v, w
<1>m. Max({1}) = 1 /\ Max({2}) = 2 /\ Max({1, 2}) = 2
  BY MaxIs
<1>s. /\ {1} \ {1} = {} /\ {2} \ {2} = {} /\ {1, 2} \ {2} = {1} /\ {1} # {} /\ {2} # {}
      /\ {1, 2} # {} /\ {2} # {1} /\ {1, 2} # {1} /\ {1, 2} # {2}
      /\ {} \in SUBSET {1, 2} /\ {1} \in SUBSET {1, 2} /\ {2} \in SUBSET {1, 2}
      /\ {1, 2} \in SUBSET {1, 2}
  OBVIOUS
<1>1. IsAtoi(f, s)
  <2>0. f[{}] = 0 /\ f[{1}] = v /\ f[{2}] = w /\ f[{1, 2}] = 10 * v + w
    BY <1>s, Zenon
  <2>2. f = [x \in SUBSET {1, 2} |-> f[x]]
    BY Zenon
  <2> HIDE DEF f
  <2>1. ASSUME NEW x \in SUBSET {1, 2}
        PROVE  f[x] = IF x = {} THEN 0 ELSE 10 * f[x \ {Max(x)}] + Value(s[Max(x)])
    <3>1. x = {} \/ x = {1} \/ x = {2} \/ x = {1, 2}
      OBVIOUS
    <3>2. CASE x = {}
      BY <2>0, <3>2, Zenon
    <3>3. CASE x = {1}
      BY <1>0, <1>m, <1>s, <2>0, <3>3, Zenon DEF v
    <3>4. CASE x = {2}
      BY <1>0, <1>m, <1>s, <2>0, <3>4, Zenon DEF w
    <3>5. CASE x = {1, 2}
      BY <1>m, <1>s, <2>0, <3>5, Zenon DEF w
    <3> QED BY <3>1, <3>2, <3>3, <3>4, <3>5
  <2> QED BY <2>1, <2>2, Zenon DEF IsAtoi
<1>2. IsAtoi(g, s)
  BY <1>1, Zenon
<1> HIDE DEF g
<1>x. ASSUME NEW x \in SUBSET {1, 2}
      PROVE  g[x] = IF x = {} THEN 0 ELSE 10 * g[x \ {Max(x)}] + Value(s[Max(x)])
  BY <1>2, Zenon DEF IsAtoi
<1>3. g[{}] = 0
  BY <1>x, <1>s, Zenon
<1>4. g[{1}] = 10 * g[{}] + v
  BY <1>x, <1>m, <1>s, Zenon DEF v
<1>5. g[{1}] = v
  BY <1>0, <1>3, <1>4, Zenon
<1>y. g[{1, 2}] = 10 * g[{1, 2} \ {2}] + Value(s[2])
  <2>1. {1, 2} \in SUBSET {1, 2} /\ {1, 2} # {}
    BY <1>s, Zenon
  <2> QED BY <1>x, <2>1, <1>m, Zenon
<1>6. g[{1, 2}] = 10 * g[{1}] + w
  BY <1>y, <1>s, Zenon DEF w
<1>7. atoi(s) = g[DOMAIN s]
  BY AtoiIs, Zenon DEF g
<1>8. DOMAIN s = {1, 2}
  OBVIOUS
<1> QED BY <1>5, <1>6, <1>7, <1>8, Zenon DEF v, w

-----------------------------------------------------------------------------
(* parse of a message of which nothing was understood before *)

\* Where line i of what has come ends, and the states that parsing goes through.
EndAt(e, q, i) == IF e[i] <= q THEN e[i] ELSE q
IsRun(g, r, N, text, b, e, q) ==
    /\ g[0] = Ok(Fresh(r))
    /\ \A i \in 1..N : g[i] = ParseLine(g[i - 1], Part(text, b[i], EndAt(e, q, i)))

\* The run of a text of which the first N lines have come.
LEMMA Runs ==
    ASSUME NEW text, Len(text) \in Nat, NEW M \in Nat, NEW b, NEW e, Marks(text, M, b, e),
           NEW r, NEW q, Prefixed(r, text, q), NEW N \in 0..M, Come(N, M, b, q), NEW data
    PROVE  \E g : IsRun(g, r, N, text, b, e, q) /\ g[N] = parse(Fresh(r), data)
<1>1. Lines(r) = [n \in 1..N |-> Part(text, b[n], EndAt(e, q, n))]
  BY PrefixLines DEF EndAt
<1>2. N \in Nat /\ DOMAIN Lines(r) = 1..N
  BY <1>1
<1>f. PICK g : FoldRun(g, Fresh(r), Lines(r), N)
  BY <1>2, FoldRuns, Zenon
<1>3. /\ g[0] = Ok(Fresh(r)) /\ g[N] = ParseAll(Fresh(r), Lines(r))
      /\ \A i \in 1..N : g[i] = ParseLine(g[i - 1], Lines(r)[i])
  BY <1>f, Zenon DEF FoldRun
<1>4. Fresh(r).m_nContentLength = 0 /\ Fresh(r).m_rawMsg = r
  BY DEF Fresh, Msg
<1>5. ~(0 > 0)
  OBVIOUS
<1>6. parse(Fresh(r), data) = ParseAll(Fresh(r), Lines(r))
  BY <1>4, <1>5, Zenon DEF parse, ParseAll
<1>7. \A i \in 1..N : Lines(r)[i] = Part(text, b[i], EndAt(e, q, i))
  BY <1>1, Zenon
<1>8. IsRun(g, r, N, text, b, e, q)
  BY <1>3, <1>7, Zenon DEF IsRun
<1> QED BY <1>3, <1>6, <1>8, Zenon

\* Line i of the run.
LEMMA RunLine ==
    ASSUME NEW g, NEW r, NEW N, NEW text, NEW b, NEW e, NEW q, IsRun(g, r, N, text, b, e, q),
           NEW i \in 1..N, NEW h, h = i - 1,
           NEW x \in Nat, NEW f \in Nat, b[i] = x, EndAt(e, q, i) = f, x <= f
    PROVE  \E line : g[i] = ParseLine(g[h], line) /\ IsPart(line, text, x, f)
<1>1. g[i] = ParseLine(g[h], Part(text, x, f))
  BY Zenon DEF IsRun
<1>2. IsPart(Part(text, x, f), text, x, f)
  BY PartOf
<1> QED BY <1>1, <1>2, Zenon

\* The lines of a text with a first line of that kind.
Tabled(text, c, ty, n, M, b, e) ==
    /\ Headed(text, c, ty, n) /\ Marks(text, M, b, e)
    /\ n \in Nat /\ n > 5 /\ M \in Nat /\ M >= 1
    /\ b[1] = 1 /\ e[1] = 4 /\ \A i \in 2..M : b[i] \in Nat /\ b[i] >= 6

\* What the first line of a run leads to.
LEMMA FirstLineParsed ==
    ASSUME NEW g, NEW r, NEW N, NEW text, NEW c, NEW ty, NEW n, NEW M, NEW b, NEW e,
           NEW q \in Nat, IsRun(g, r, N, text, b, e, q), N \in Nat, N >= 1, q >= 1,
           Tabled(text, c, ty, n, M, b, e)
    PROVE  /\ q <= 2 => g[1] = Throw(Fresh(r))
           /\ q = 3 => g[1] = Throw(Msg(r, c, "unknown_type", "undefined", 0, <<>>))
           /\ q >= 4 => g[1] = Ok(Msg(r, c, ty, "undefined", 0, <<>>))
<1> DEFINE f == IF 4 <= q THEN 4 ELSE q
<1>1. f \in Nat /\ 1 <= f /\ 1 \in Nat /\ 0 = 1 - 1 /\ 1 \in 1..N
  OBVIOUS
<1>2. b[1] = 1 /\ EndAt(e, q, 1) = f
  BY Zenon DEF Tabled, EndAt
<1>3. PICK line : g[1] = ParseLine(g[0], line) /\ IsPart(line, text, 1, f)
  BY <1>1, <1>2, RunLine
<1>4. g[0] = Ok(Fresh(r))
  BY Zenon DEF IsRun
<1>5. Len(line) \in Nat /\ Len(line) = f - 1 + 1 /\ \A i \in 1..Len(line) : line[i] = text[1 + i - 1]
  BY <1>3, Zenon DEF IsPart
<1>6. Len(line) = f /\ \A i \in 1..f : line[i] = text[i]
  BY <1>1, <1>5
<1>7. text[1] = "Content-Type: " /\ text[2] = c /\ text[4] = ty
  BY Zenon DEF Tabled, Headed
<1>8. line[1] = "Content-Type: " /\ (f >= 2 => line[2] = c) /\ (f >= 4 => line[4] = ty)
  <2>1. 1 \in 1..f /\ (f >= 2 => 2 \in 1..f) /\ (f >= 4 => 4 \in 1..f)
    BY <1>1
  <2> HIDE DEF f
  <2> QED BY <1>6, <1>7, <2>1, Zenon
<1> DEFINE s == ParseLine(Ok(Fresh(r)), line)
<1> HIDE DEF s
<1>9. /\ Len(line) < 3 => s = Throw(Fresh(r))
      /\ Len(line) = 3 => s = Throw(Msg(r, line[2], "unknown_type", "undefined", 0, <<>>))
      /\ Len(line) > 3 => s = Ok(Msg(r, line[2], line[4], "undefined", 0, <<>>))
  BY <1>5, <1>8, TypeLine, Zenon DEF s
<1>10. g[1] = s
  BY <1>3, <1>4, Zenon DEF s
<1>11. q <= 2 => Len(line) < 3
  BY <1>6
<1>12. q = 3 => Len(line) = 3 /\ f >= 2
  BY <1>6
<1>13. q >= 4 => Len(line) > 3 /\ f >= 2 /\ f >= 4
  BY <1>6
<1> HIDE DEF f
<1> QED BY <1>8, <1>9, <1>10, <1>11, <1>12, <1>13, Zenon

\* The result of a run that has come no further than its first line.
LEMMA HeadParsed ==
    ASSUME NEW text, NEW c, NEW ty, NEW n, NEW M, NEW b, NEW e,
           Tabled(text, c, ty, n, M, b, e), NEW r, NEW q, Prefixed(r, text, q), NEW data
    PROVE  /\ q = 0 => parse(Fresh(r), data) = Ok(Fresh(r))
           /\ q \in 1..2 => parse(Fresh(r), data) = Throw(Fresh(r))
           /\ q = 3 => parse(Fresh(r), data) =
                         Throw(Msg(r, c, "unknown_type", "undefined", 0, <<>>))
           /\ q >= 4 /\ (\A i \in 2..M : b[i] > q) =>
                parse(Fresh(r), data) = Ok(Msg(r, c, ty, "undefined", 0, <<>>))
<1>1. /\ Len(text) = n /\ n \in Nat /\ Marks(text, M, b, e) /\ M \in Nat /\ M >= 1
      /\ b[1] = 1 /\ \A i \in 2..M : b[i] \in Nat /\ b[i] >= 6
  BY Zenon DEF Tabled, Headed
<1>2. q \in Nat
  BY <1>1 DEF Prefixed
<1>3. CASE q = 0
  <2>1. Come(0, M, b, 0)
    <3>1. ASSUME NEW i \in 1..M PROVE ~(b[i] <= 0)
      <4>1. i = 1 \/ i \in 2..M
        BY <1>1
      <4> QED BY <1>1, <4>1
    <3> QED BY <3>1 DEF Come
  <2>2. 0 \in 0..M
    BY <1>1
  <2>3. PICK g : IsRun(g, r, 0, text, b, e, 0) /\ g[0] = parse(Fresh(r), data)
    BY <1>1, <1>3, <2>1, <2>2, Runs
  <2>4. ~(0 \in 1..2) /\ ~(0 = 3) /\ ~(0 >= 4)
    OBVIOUS
  <2> QED BY <1>3, <2>3, <2>4, Zenon DEF IsRun
<1>4. CASE q # 0 /\ \A i \in 2..M : b[i] > q
  <2>1. Come(1, M, b, q)
    <3>1. ASSUME NEW i \in 1..M PROVE i <= 1 <=> b[i] <= q
      <4>1. i = 1 \/ (i \in 2..M /\ i > 1)
        BY <1>1
      <4> QED BY <1>1, <1>2, <1>4, <4>1
    <3> QED BY <3>1 DEF Come
  <2>2. 1 \in 0..M
    BY <1>1
  <2>3. PICK g : IsRun(g, r, 1, text, b, e, q) /\ g[1] = parse(Fresh(r), data)
    BY <1>1, <2>1, <2>2, Runs
  <2>4. 1 \in Nat /\ 1 >= 1 /\ q >= 1
    BY <1>2, <1>4
  <2>5. /\ q <= 2 => g[1] = Throw(Fresh(r))
        /\ q = 3 => g[1] = Throw(Msg(r, c, "unknown_type", "undefined", 0, <<>>))
        /\ q >= 4 => g[1] = Ok(Msg(r, c, ty, "undefined", 0, <<>>))
    BY <1>2, <2>3, <2>4, FirstLineParsed
  <2>6. q \in 1..2 => q <= 2
    OBVIOUS
  <2> QED BY <1>4, <2>3, <2>5, <2>6, Zenon
<1>5. CASE q # 0 /\ ~(\A i \in 2..M : b[i] > q)
  <2>1. PICK i \in 2..M : ~(b[i] > q)
    BY <1>5
  <2>2. ~(q \in 1..2) /\ q # 3
    BY <1>1, <1>2, <2>1
  <2> QED BY <1>5, <2>2, Zenon
<1> QED BY <1>3, <1>4, <1>5, Zenon

\* The request to authenticate is such a text,
LEMMA AuthTabled ==
    ASSUME NEW t, AuthIs(t) PROVE Tabled(t, "auth", "request", 6, 1, AuthB, AuthE)
<1>1. Headed(t, "auth", "request", 6)
  BY DEF AuthIs
<1>2. AuthB[1] = 1 /\ AuthE[1] = 4
  BY DEF AuthB, AuthE
<1> QED BY <1>1, <1>2, AuthMarks DEF Tabled

\* and so is a reply.
LEMMA ReplyTabled ==
    ASSUME NEW t, NEW status \in {"+OK", "+ERR"}, ReplyIs(t, status)
    PROVE  Tabled(t, "command", "reply", 10, 2, ReplyB, ReplyE)
<1>1. Headed(t, "command", "reply", 10)
  BY DEF ReplyIs
<1>2. ReplyB[1] = 1 /\ ReplyE[1] = 4 /\ ReplyB[2] = 6 /\ ReplyE[2] = 8
  BY DEF ReplyB, ReplyE
<1>3. Marks(t, 2, ReplyB, ReplyE)
  BY ReplyMarks
<1>4. \A i \in 2..2 : i = 2
  OBVIOUS
<1> QED BY <1>1, <1>2, <1>3, <1>4 DEF Tabled

\* There is a number of lines that have come.
LEMMA ComeExists ==
    ASSUME NEW text, Len(text) \in Nat, NEW M \in Nat, NEW b, NEW e, Marks(text, M, b, e),
           NEW q \in Nat
    PROVE  \E N \in 0..M : Come(N, M, b, q)
<1>1. \A n \in 1..M : b[n] \in Nat /\ e[n] \in Nat /\ b[n] <= e[n]
  BY DEF Marks
<1>2. \A m, n \in 1..M : m < n => b[m] < b[n]
  <2> SUFFICES ASSUME NEW m \in 1..M, NEW n \in 1..M, m < n PROVE b[m] < b[n]
    OBVIOUS
  <2>1. e[m] < b[n]
    BY DEF Marks
  <2> QED BY <1>1, <2>1
<1> DEFINE S == {i \in 0..M : \A n \in 1..M : n > i => b[n] > q}
<1>3. M \in S /\ S \subseteq Nat
  OBVIOUS
<1>4. PICK N \in S : \A i \in S : N <= i
  <2> HIDE DEF S
  <2> QED BY <1>3, LeastOf
<1>5. ASSUME NEW n \in 1..M, n <= N PROVE b[n] <= q
  <2>1. N - 1 \in 0..M /\ N \in 1..M /\ ~(N <= N - 1)
    BY <1>5
  <2>2. N - 1 \notin S
    BY <1>4, <2>1
  <2>3. PICK k \in 1..M : k > N - 1 /\ ~(b[k] > q)
    BY <2>1, <2>2
  <2>4. k = N
    BY <1>4, <2>1, <2>3
  <2>5. n < N => b[n] < b[N]
    BY <1>2, <2>1
  <2> QED BY <1>1, <1>5, <2>1, <2>3, <2>4, <2>5
<1>6. ASSUME NEW n \in 1..M, ~(n <= N) PROVE ~(b[n] <= q)
  <2>1. b[n] > q
    BY <1>6
  <2> QED BY <1>1, <2>1
<1> QED BY <1>5, <1>6 DEF Come

\* The second line begins at 6.
Second(g, r, c, ty, text, e, q) ==
    \E line : /\ g[2] = ParseLine(Ok(Msg(r, c, ty, "undefined", 0, <<>>)), line)
              /\ IsPart(line, text, 6, EndAt(e, q, 2))

\* What the second line leads to.
LEMMA SecondLine ==
    ASSUME NEW text, NEW c, NEW ty, NEW n, NEW M, NEW b, NEW e,
           Tabled(text, c, ty, n, M, b, e), M >= 2, b[2] = 6, e[2] \in Nat, e[2] >= 6,
           NEW r, NEW q \in Nat, q >= 6, NEW N \in Nat, N >= 2, NEW g, IsRun(g, r, N, text, b, e, q)
    PROVE  Second(g, r, c, ty, text, e, q)
<1>1. N >= 1 /\ q >= 1 /\ q >= 4
  OBVIOUS
<1>2. g[1] = Ok(Msg(r, c, ty, "undefined", 0, <<>>))
  BY <1>1, FirstLineParsed
<1> DEFINE f == EndAt(e, q, 2)
<1>3. f \in Nat /\ 6 <= f
  BY DEF EndAt
<1> HIDE DEF f
<1>4. 2 \in 1..N /\ 1 = 2 - 1 /\ 6 \in Nat
  OBVIOUS
<1>5. PICK line : g[2] = ParseLine(g[1], line) /\ IsPart(line, text, 6, f)
  BY <1>3, <1>4, RunLine DEF f
<1> QED BY <1>2, <1>5, Zenon DEF f, Second

\* The numbers in Prefixed.
LEMMA PrefixedNat ==
    ASSUME NEW r, NEW text, NEW q, Len(text) \in Nat, Prefixed(r, text, q)
    PROVE  q \in Nat /\ q <= Len(text)
<1>1. q \in 0..Len(text)
  BY Zenon DEF Prefixed
<1> QED BY <1>1

\* What follows the first line of a reply.
LEMMA ReplyHas ==
    ASSUME NEW text, NEW status, ReplyIs(text, status)
    PROVE  /\ Len(text) = 10 /\ Len(text) \in Nat
           /\ text[6] = "Reply-Text: " /\ text[7] = status
<1>1. Len(text) = 10
  BY Zenon DEF ReplyIs, Headed
<1>2. text[6] = "Reply-Text: " /\ text[7] = status
  BY Zenon DEF ReplyIs
<1>3. Len(text) \in Nat
  BY <1>1
<1> QED BY <1>1, <1>2, <1>3

\* A reply of which the status has come.
LEMMA ReplyParsed ==
    ASSUME NEW text, NEW status \in {"+OK", "+ERR"}, ReplyIs(text, status),
           NEW r, NEW q, Prefixed(r, text, q), q >= 6, NEW data
    PROVE  /\ q = 6 => parse(Fresh(r), data) =
                         Throw(Msg(r, "command", "reply", "undefined", 0, <<>>))
           /\ q >= 7 => parse(Fresh(r), data) =
                Ok(Msg(r, "command", "reply", IF status = "+OK" THEN "ok" ELSE "err", 0, <<>>))
<1> DEFINE m == Msg(r, "command", "reply", "undefined", 0, <<>>)
<1>1. Tabled(text, "command", "reply", 10, 2, ReplyB, ReplyE)
  BY ReplyTabled
<1>2. ReplyB[1] = 1 /\ ReplyE[1] = 4 /\ ReplyB[2] = 6 /\ ReplyE[2] = 8
  BY DEF ReplyB, ReplyE
<1>3. Len(text) = 10 /\ text[6] = "Reply-Text: " /\ text[7] = status
  BY ReplyHas
<1>t. Len(text) \in Nat
  BY ReplyHas
<1>4. q \in Nat
  BY <1>t, PrefixedNat
<1>5. Come(2, 2, ReplyB, q)
  <2>1. \A i \in 1..2 : i = 1 \/ i = 2
    OBVIOUS
  <2> QED BY <1>2, <1>4, <2>1 DEF Come
<1>6. Marks(text, 2, ReplyB, ReplyE)
  BY ReplyMarks
<1>7. 2 \in Nat /\ 2 \in 0..2 /\ 2 >= 2 /\ 8 \in Nat /\ 8 >= 6
  OBVIOUS
<1>8. PICK g : IsRun(g, r, 2, text, ReplyB, ReplyE, q) /\ g[2] = parse(Fresh(r), data)
  BY <1>5, <1>6, <1>7, <1>t, Runs
<1> DEFINE f == IF 8 <= q THEN 8 ELSE q
<1>9. EndAt(ReplyE, q, 2) = f
  BY <1>2, Zenon DEF EndAt
<1>10. PICK line : g[2] = ParseLine(Ok(m), line) /\ IsPart(line, text, 6, f)
  <2>1. \E line : /\ g[2] = ParseLine(Ok(m), line)
                  /\ IsPart(line, text, 6, EndAt(ReplyE, q, 2))
    <3>1. ReplyB[2] = 6 /\ ReplyE[2] \in Nat /\ ReplyE[2] >= 6
      BY <1>2, <1>7, Zenon
    <3> HIDE DEF m, f
    <3>2. IsRun(g, r, 2, text, ReplyB, ReplyE, q)
      BY <1>8
    <3>3. Second(g, r, "command", "reply", text, ReplyE, q)
      BY <1>1, <1>4, <1>7, <3>1, <3>2, SecondLine, Zenon
    <3> QED BY <3>3, Zenon DEF m, Second
  <2> QED BY <1>9, <2>1
<1>11. Len(line) \in Nat /\ Len(line) = f - 6 + 1 /\ \A i \in 1..Len(line) : line[i] = text[6 + i - 1]
  BY <1>10, Zenon DEF IsPart
<1>12. f \in Nat /\ f >= 6 /\ f - 6 + 1 = f - 5
  BY <1>4
<1>13. line[1] = "Reply-Text: "
  <2>1. 1 \in 1..Len(line) /\ 6 + 1 - 1 = 6
    BY <1>11, <1>12
  <2> QED BY <1>3, <1>11, <2>1
<1>14. q >= 7 => Len(line) # 1 /\ line[2] = status
  <2>1. q >= 7 => 2 \in 1..Len(line) /\ 6 + 2 - 1 = 7 /\ Len(line) # 1
    BY <1>4, <1>11, <1>12
  <2> QED BY <1>3, <1>11, <2>1
<1>15. q = 6 => Len(line) = 1
  BY <1>11
<1> HIDE DEF f, m
<1> DEFINE s == ParseLine(Ok(m), line)
<1> HIDE DEF s
<1>m. m = Msg(r, "command", "reply", "undefined", 0, <<>>)
  BY Zenon DEF m
<1>s. s = ParseLine(Ok(m), line) /\ Len(line) \in Nat
  BY <1>11, Zenon DEF s
<1>16. /\ Len(line) = 1 => s = Throw(m)
       /\ Len(line) # 1 => s = Ok(Msg(r, "command", "reply", IF line[2] = "+OK" THEN "ok" ELSE "err", 0, <<>>))
  BY <1>13, <1>m, <1>s, ReplyLine
<1>17. s = parse(Fresh(r), data)
  BY <1>8, <1>10, Zenon DEF s
<1> QED BY <1>14, <1>15, <1>16, <1>17, Zenon DEF m

-----------------------------------------------------------------------------
(* Messages with a body *)

\* cn is the first x atoms of what follows place h of text.
Holds(cn, text, h, x) ==
    IsSeq(cn) /\ Len(cn) = x /\ \A i \in 1..x : cn[i] = text[h + i]

\* cn2 is the content with one more line, up to place f of text.
Added(cn2, text, h, f, x2) ==
    /\ IsSeq(cn2) /\ Len(cn2) = x2
    /\ text[f + 1] = nl => Holds(cn2, text, h, x2)

\* What a line of the body adds to the content.
LEMMA AddLine ==
    ASSUME NEW cn, NEW text, NEW h \in Nat, NEW x \in Nat, Holds(cn, text, h, x),
           NEW line, NEW p \in Nat, p = h + x + 1, NEW f \in Nat, p <= f,
           IsPart(line, text, p, f), NEW x2, x2 = f + 1 - h,
           NEW cn2, cn2 = cn \o line \o <<nl>>
    PROVE  Added(cn2, text, h, f, x2)
<1> DEFINE cn1 == cn \o line
           y == f - h
           u == <<nl>>
<1>1. IsSeq(cn) /\ Len(cn) = x /\ \A i \in 1..x : cn[i] = text[h + i]
  BY Zenon DEF Holds
<1>2. /\ IsSeq(line) /\ Len(line) = f - p + 1
      /\ \A i \in 1..Len(line) : line[i] = text[p + i - 1]
  BY Zenon DEF IsPart
<1>3. IsSeq(u) /\ Len(u) = 1 /\ u[1] = nl
  BY DEF IsSeq
<1>4. y \in Nat /\ y = x + (f - p + 1) /\ x2 = y + 1 /\ x2 \in Nat /\ x <= y
  OBVIOUS
<1> HIDE DEF y, u
<1>5. Spans(cn1, cn, x, line, y)
  BY <1>1, <1>2, <1>4, JoinSpans, Zenon
<1>6. IsSeq(cn1) /\ Len(cn1) = y
  BY <1>5, Zenon DEF Spans
<1> HIDE DEF cn1
<1>7. Spans(cn2, cn1, y, u, x2)
  <2>1. cn2 = cn1 \o u
    BY Zenon DEF cn1, u
  <2> QED BY <1>3, <1>4, <1>6, <2>1, JoinSpans, Zenon
<1>8. ASSUME NEW i \in 1..y PROVE cn1[i] = text[h + i]
  <2>1. cn1[i] = IF i <= x THEN cn[i] ELSE line[i - x]
    BY <1>5, Zenon DEF Spans
  <2>2. CASE i <= x
    <3>1. i \in 1..x
      BY <2>2
    <3> QED BY <1>1, <2>1, <2>2, <3>1
  <2>3. CASE ~(i <= x)
    <3>1. i - x \in 1..(f - p + 1) /\ p + (i - x) - 1 = h + i
      BY <1>4, <2>3
    <3>2. line[i - x] = text[p + (i - x) - 1]
      BY <1>2, <3>1, Zenon
    <3> QED BY <2>1, <2>3, <3>1, <3>2
  <2> QED BY <2>2, <2>3
<1>9. ASSUME text[f + 1] = nl, NEW i \in 1..x2 PROVE cn2[i] = text[h + i]
  <2>1. cn2[i] = IF i <= y THEN cn1[i] ELSE u[i - y]
    BY <1>7, Zenon DEF Spans
  <2>2. CASE i <= y
    <3>1. i \in 1..y
      BY <1>4, <2>2
    <3> QED BY <1>8, <2>1, <2>2, <3>1
  <2>3. CASE ~(i <= y)
    <3>1. i - y = 1 /\ h + i = f + 1
      BY <1>4, <2>3 DEF y
    <3> QED BY <1>3, <1>9, <2>1, <2>3, <3>1
  <2> QED BY <2>2, <2>3
<1>10. IsSeq(cn2) /\ Len(cn2) = x2
  BY <1>7, Zenon DEF Spans
<1> QED BY <1>9, <1>10, Zenon DEF Holds, Added

\* A text with a body of l atoms after the h atoms of its header.
BodyTable(text, c, ty, n, M, b, e, h, l) ==
    /\ Tabled(text, c, ty, n, M, b, e) /\ HasBody(c, ty)
    /\ h \in Nat /\ l \in Nat /\ n = h + l /\ M \in Nat /\ M >= 3
    /\ b[2] = 6 /\ e[2] \in Nat /\ 7 <= e[2] /\ e[2] + 2 = h /\ text[6] = "Content-Length: "
    /\ b[3] = h + 1 /\ e[M] + 1 = n
    /\ \A i \in 3..M : /\ b[i] \in Nat /\ e[i] \in Nat /\ h < b[i] /\ b[i] <= e[i]
                       /\ e[i] < n /\ text[e[i] + 1] = nl
    /\ \A i, j \in 3..M : j = i + 1 => b[j] = e[i] + 2

\* After a line: the content is that of the first x atoms of the body.
After(s, r, c, ty, L, text, h, x) ==
    \E cn : s = Ok(Msg(r, c, ty, "undefined", L, cn)) /\ Holds(cn, text, h, x)

\* After the last line, which ends at f, perhaps too early.
AfterLast(s, r, c, ty, L, text, h, f, end) ==
    \E cn : /\ s = Ok(Msg(r, c, ty, "undefined", L, cn)) /\ IsSeq(cn) /\ Len(cn) = f + 1 - h
            /\ f = end => Holds(cn, text, h, f + 1 - h)

\* One more line of the body.
LEMMA BodyStep ==
    ASSUME NEW text, NEW c, NEW ty, NEW n, NEW M, NEW b, NEW e, NEW h, NEW l,
           BodyTable(text, c, ty, n, M, b, e, h, l),
           NEW g, NEW r, NEW N \in 0..M, NEW q \in Nat, IsRun(g, r, N, text, b, e, q),
           Come(N, M, b, q),
           NEW i \in 3..N, NEW k, k = i - 1, NEW L, L # 0,
           After(g[k], r, c, ty, L, text, h, b[i] - 1 - h)
    PROVE  AfterLast(g[i], r, c, ty, L, text, h, EndAt(e, q, i), e[i])
<1> DEFINE f == EndAt(e, q, i)
           p == b[i]
           x == p - 1 - h
           x2 == f + 1 - h
<1>1. /\ h \in Nat /\ M \in Nat /\ HasBody(c, ty)
      /\ \A j \in 3..M : /\ b[j] \in Nat /\ e[j] \in Nat /\ h < b[j] /\ b[j] <= e[j]
                         /\ text[e[j] + 1] = nl
  BY Zenon DEF BodyTable
<1>2. i \in 3..M /\ i \in 1..M /\ i <= N /\ i \in 1..N
  BY <1>1
<1>3. p \in Nat /\ e[i] \in Nat /\ h < p /\ p <= e[i] /\ text[e[i] + 1] = nl
  BY <1>1, <1>2, Zenon
<1>4. p <= q
  BY <1>2, Zenon DEF Come
<1>5. f \in Nat /\ p <= f
  BY <1>3, <1>4 DEF EndAt
<1>6. EndAt(e, q, i) = f /\ b[i] = p
  OBVIOUS
<1>7. After(g[k], r, c, ty, L, text, h, x)
  OBVIOUS
<1> HIDE DEF f, p
<1>8. x \in Nat /\ p = h + x + 1
  BY <1>1, <1>3
<1>9. x2 = f + 1 - h
  OBVIOUS
<1> HIDE DEF x, x2
<1>10. PICK cn : g[k] = Ok(Msg(r, c, ty, "undefined", L, cn)) /\ Holds(cn, text, h, x)
  BY <1>7, Zenon DEF After
<1>11. PICK line : g[i] = ParseLine(g[k], line) /\ IsPart(line, text, p, f)
  BY <1>2, <1>3, <1>5, <1>6, RunLine
<1> DEFINE cn2 == cn \o line \o <<nl>>
<1>12. g[i] = Ok(Msg(r, c, ty, "undefined", L, cn2))
  <2>1. ParseLine(Ok(Msg(r, c, ty, "undefined", L, cn)), line)
          = Ok(Msg(r, c, ty, "undefined", L, cn2))
    BY <1>1, BodyLine
  <2> HIDE DEF cn2
  <2> QED BY <1>10, <1>11, <2>1, Zenon
<1>13. cn2 = cn \o line \o <<nl>>
  OBVIOUS
<1> HIDE DEF cn2
<1>14. /\ IsSeq(cn2) /\ Len(cn2) = x2
       /\ text[f + 1] = nl => Holds(cn2, text, h, x2)
  <2>1. Added(cn2, text, h, f, x2)
    BY <1>1, <1>3, <1>5, <1>8, <1>9, <1>10, <1>11, <1>13, AddLine, Zenon
  <2> QED BY <2>1, Zenon DEF Added
<1>15. f = e[i] => Holds(cn2, text, h, x2)
  BY <1>3, <1>14, Zenon
<1>16. AfterLast(g[i], r, c, ty, L, text, h, f, e[i])
  BY <1>9, <1>12, <1>14, <1>15, Zenon DEF AfterLast
<1> QED BY <1>6, <1>16, Zenon

\* All lines of the body but the last that has come are there to their ends.
LEMMA BodyRun ==
    ASSUME NEW text, NEW c, NEW ty, NEW n, NEW M, NEW b, NEW e, NEW h, NEW l,
           BodyTable(text, c, ty, n, M, b, e, h, l),
           NEW g, NEW r, NEW N \in 0..M, NEW q \in Nat, IsRun(g, r, N, text, b, e, q),
           Come(N, M, b, q), N >= 3, NEW L, L # 0,
           g[2] = Ok(Msg(r, c, ty, "undefined", L, <<>>))
    PROVE  AfterLast(g[N], r, c, ty, L, text, h, EndAt(e, q, N), e[N])
<1> DEFINE Good(i) == \A k : k = i - 1 => After(g[k], r, c, ty, L, text, h, b[i] - 1 - h)
           bad == {i \in 3..N : ~Good(i)}
<1>1. /\ h \in Nat /\ M \in Nat /\ b[3] = h + 1
      /\ \A j \in 3..M : b[j] \in Nat /\ e[j] \in Nat /\ h < b[j] /\ b[j] <= e[j]
      /\ \A i, j \in 3..M : j = i + 1 => b[j] = e[i] + 2
  BY Zenon DEF BodyTable
<1>2. Good(3)
  <2>1. Holds(<<>>, text, h, 0)
    <3>1. IsSeq(<<>>) /\ Len(<<>>) = 0
      BY DEF IsSeq
    <3>2. \A i \in 1..0 : FALSE
      OBVIOUS
    <3> QED BY <3>1, <3>2, Zenon DEF Holds
  <2>2. b[3] - 1 - h = 0 /\ \A k : k = 3 - 1 => k = 2
    BY <1>1
  <2>3. After(g[2], r, c, ty, L, text, h, 0)
    BY <2>1, Zenon DEF After
  <2> QED BY <2>2, <2>3, Zenon
<1>3. bad = {}
  <2> SUFFICES ASSUME bad # {} PROVE FALSE
    OBVIOUS
  <2>1. bad \subseteq Nat
    OBVIOUS
  <2> HIDE DEF Good
  <2>2. PICK i \in bad : \A j \in bad : i <= j
    <3> HIDE DEF bad
    <3> QED BY <2>1, LeastOf
  <2> DEFINE j == i - 1
             k == i - 2
  <2>3. i \in 3..N /\ ~Good(i)
    BY <2>2
  <2>4. i # 3
    BY <1>2, <2>3
  <2>5. j \in 3..N /\ j \in 3..M /\ i \in 3..M /\ i = j + 1 /\ k = j - 1 /\ ~(i <= j) /\ i \in 1..M /\ i <= N
    BY <1>1, <2>3, <2>4
  <2>6. Good(j)
    BY <2>2, <2>5
  <2>7. After(g[k], r, c, ty, L, text, h, b[j] - 1 - h)
    BY <2>5, <2>6, Zenon DEF Good
  <2> HIDE DEF j, k
  <2>8. AfterLast(g[j], r, c, ty, L, text, h, EndAt(e, q, j), e[j])
    BY <2>5, <2>7, BodyStep, Zenon
  <2>9. b[i] = e[j] + 2 /\ b[i] <= q /\ e[j] \in Nat
    BY <1>1, <2>5, Zenon DEF Come
  <2>10. EndAt(e, q, j) = e[j]
    BY <2>9 DEF EndAt
  <2>11. PICK cn : g[j] = Ok(Msg(r, c, ty, "undefined", L, cn)) /\ Holds(cn, text, h, e[j] + 1 - h)
    BY <2>8, <2>10, Zenon DEF AfterLast
  <2>12. b[i] - 1 - h = e[j] + 1 - h
    <3>1. h \in Nat
      BY <1>1
    <3> QED BY <2>9, <3>1
  <2>13. After(g[j], r, c, ty, L, text, h, b[i] - 1 - h)
    BY <2>11, <2>12, Zenon DEF After
  <2>14. \A z : z = i - 1 => z = j
    BY DEF j
  <2> QED BY <2>3, <2>13, <2>14, Zenon DEF Good
<1>4. N \in 3..N
  OBVIOUS
<1>5. Good(N)
  <2> HIDE DEF Good
  <2> QED BY <1>3, <1>4
<1> QED BY <1>4, <1>5, BodyStep, Zenon

\* The length that the first q atoms announce.
Measured(text, e, q, h, l) ==
    \A line : IsPart(line, text, 6, EndAt(e, q, 2)) =>
        /\ atoi(Tail(line)) \in Nat /\ atoi(Tail(line)) # 0 /\ atoi(Tail(line)) <= l
        /\ q >= h => atoi(Tail(line)) = l

\* What the parser makes of the first q atoms of a message with a body, when a digit of its
\* length is there.
BodyResult(s, r, c, ty, text, n, h, l, q) ==
    \E L, cn : /\ s = Ok(Msg(r, c, ty, "undefined", L, cn)) /\ IsSeq(cn)
               /\ L \in Nat /\ L # 0 /\ L <= l /\ (q >= h => L = l)
               /\ q <= h => Holds(cn, text, h, 0)
               /\ q > h /\ text[q] = nl => Holds(cn, text, h, q - h)
               /\ q > h /\ text[q] # nl => Len(cn) = q + 1 - h
               /\ q = n - 1 => Holds(cn, text, h, l)

\* The run through the header and the body.
LEMMA BodyParsed ==
    ASSUME NEW text, NEW c, NEW ty, NEW n \in Nat, NEW M \in Nat, NEW b, NEW e,
           NEW h \in Nat, NEW l \in Nat,
           BodyTable(text, c, ty, n, M, b, e, h, l), l >= 2,
           NEW r, NEW q \in Nat, Prefixed(r, text, q), q >= 6, Measured(text, e, q, h, l), NEW data
    PROVE  BodyResult(parse(Fresh(r), data), r, c, ty, text, n, h, l, q)
<1>s. Tabled(text, c, ty, n, M, b, e) /\ HasBody(c, ty) /\ text[6] = "Content-Length: "
  BY Zenon DEF BodyTable
<1>1. /\ h \in Nat /\ l \in Nat /\ n = h + l /\ M \in Nat /\ M >= 3
      /\ b[2] = 6 /\ e[2] \in Nat /\ 7 <= e[2] /\ e[2] + 2 = h
      /\ b[3] = h + 1 /\ e[M] + 1 = n
  BY Zenon DEF BodyTable
<1>2. \A i \in 3..M : /\ b[i] \in Nat /\ e[i] \in Nat /\ h < b[i] /\ b[i] <= e[i]
                      /\ e[i] < n /\ text[e[i] + 1] = nl
  BY Zenon DEF BodyTable
<1>3. \A i, j \in 3..M : j = i + 1 => b[j] = e[i] + 2
  BY Zenon DEF BodyTable
<1>4. Len(text) = n /\ Marks(text, M, b, e) /\ Headed(text, c, ty, n)
  BY <1>s, Zenon DEF Tabled, Headed
<1>5. Len(text) \in Nat /\ n \in Nat
  BY <1>1, <1>4
<1>6. q \in Nat /\ q <= n
  BY <1>4, <1>5, PrefixedNat
<1>7. PICK N \in 0..M : Come(N, M, b, q)
  BY <1>1, <1>4, <1>5, <1>6, ComeExists
<1>8. PICK g : IsRun(g, r, N, text, b, e, q) /\ g[N] = parse(Fresh(r), data)
  BY <1>1, <1>4, <1>5, <1>7, Runs
<1>9. N \in Nat /\ N >= 2
  <2>1. 2 \in 1..M /\ b[2] <= q
    BY <1>1, <1>6
  <2> QED BY <1>1, <1>7, <2>1 DEF Come
<1>10. M >= 2 /\ e[2] >= 6
  BY <1>1
<1>11. Second(g, r, c, ty, text, e, q)
  BY <1>1, <1>s, <1>6, <1>8, <1>9, <1>10, SecondLine, Zenon
<1>12. PICK line : /\ g[2] = ParseLine(Ok(Msg(r, c, ty, "undefined", 0, <<>>)), line)
                   /\ IsPart(line, text, 6, EndAt(e, q, 2))
  BY <1>11, Zenon DEF Second
<1> DEFINE L == atoi(Tail(line))
<1>13. L \in Nat /\ L # 0 /\ L <= l /\ (q >= h => L = l)
  BY <1>12, Zenon DEF Measured
<1>14. line[1] = "Content-Length: "
  <2> DEFINE f == EndAt(e, q, 2)
  <2>1. f \in Nat /\ f >= 6
    BY <1>1, <1>6 DEF EndAt
  <2> HIDE DEF f
  <2>2. /\ Len(line) \in Nat /\ Len(line) = f - 6 + 1
        /\ \A i \in 1..Len(line) : line[i] = text[6 + i - 1]
    BY <1>12, Zenon DEF IsPart, f
  <2>3. 1 \in 1..Len(line) /\ 6 + 1 - 1 = 6
    BY <2>1, <2>2
  <2> QED BY <1>s, <2>2, <2>3
<1> HIDE DEF L
<1>15. g[2] = Ok(Msg(r, c, ty, "undefined", L, <<>>))
  BY <1>s, <1>12, <1>14, LengthLine DEF L
<1>16. CASE N = 2
  <2>1. q <= h
    <3>1. 3 \in 1..M /\ ~(3 <= 2)
      BY <1>1
    <3>2. ~(b[3] <= q)
      BY <1>7, <1>16, <3>1, Zenon DEF Come
    <3> QED BY <1>1, <1>6, <3>2
  <2>2. Holds(<<>>, text, h, 0) /\ IsSeq(<<>>)
    <3>1. IsSeq(<<>>) /\ Len(<<>>) = 0
      BY DEF IsSeq
    <3>2. \A i \in 1..0 : FALSE
      OBVIOUS
    <3> QED BY <3>1, <3>2, Zenon DEF Holds
  <2>3. ~(q > h) /\ ~(q = n - 1)
    BY <1>1, <1>6, <2>1
  <2>4. parse(Fresh(r), data) = Ok(Msg(r, c, ty, "undefined", L, <<>>))
    BY <1>8, <1>15, <1>16, Zenon
  <2> QED BY <1>13, <2>2, <2>3, <2>4, Zenon DEF BodyResult
<1>17. CASE N # 2
  <2>1. N >= 3 /\ N \in 3..M /\ N \in 1..M
    BY <1>1, <1>9, <1>17
  <2>2. AfterLast(g[N], r, c, ty, L, text, h, EndAt(e, q, N), e[N])
    BY <1>6, <1>7, <1>8, <1>13, <1>15, <2>1, BodyRun, Zenon
  <2> DEFINE f == EndAt(e, q, N)
  <2>3. /\ b[N] \in Nat /\ e[N] \in Nat /\ h < b[N] /\ b[N] <= e[N] /\ e[N] < n
        /\ text[e[N] + 1] = nl
    BY <1>2, <2>1, Zenon
  <2>4. b[N] <= q
    BY <1>7, <2>1 DEF Come
  <2>5. q <= e[N] + 1
    <3>1. CASE N = M
      BY <1>1, <1>6, <3>1
    <3>2. CASE N # M
      <4>1. N + 1 \in 3..M /\ N + 1 \in 1..M /\ ~(N + 1 <= N)
        BY <1>1, <2>1, <3>2
      <4>2. b[N + 1] = e[N] + 2
        BY <1>3, <2>1, <4>1
      <4>3. ~(b[N + 1] <= q)
        BY <1>7, <4>1, Zenon DEF Come
      <4> QED BY <1>6, <2>3, <4>2, <4>3
    <3> QED BY <3>1, <3>2
  <2>6. q > h /\ ~(q <= h) /\ q >= h
    BY <1>1, <1>6, <2>3, <2>4
  <2>7. PICK cn : /\ g[N] = Ok(Msg(r, c, ty, "undefined", L, cn)) /\ IsSeq(cn) /\ Len(cn) = f + 1 - h
                  /\ f = e[N] => Holds(cn, text, h, f + 1 - h)
    BY <2>2, Zenon DEF AfterLast
  <2>8. text[q] = nl => f = e[N] /\ f + 1 - h = q - h
    <3>1. \A k \in b[N]..e[N] : text[k] # nl
      BY <1>4, <2>1, Zenon DEF Marks
    <3>2. text[q] = nl => q = e[N] + 1
      BY <1>6, <2>3, <2>4, <2>5, <3>1
    <3> QED BY <1>1, <2>3, <3>2 DEF EndAt
  <2>9. text[q] # nl => f + 1 - h = q + 1 - h
    <3>1. text[q] # nl => q <= e[N]
      BY <1>6, <2>3, <2>5
    <3>2. text[q] # nl => f = q
      BY <1>6, <2>3, <3>1 DEF EndAt
    <3> HIDE DEF f
    <3> QED BY <3>2
  <2>10. q = n - 1 => f = e[N] /\ f + 1 - h = l
    <3>1. ASSUME q = n - 1 PROVE N = M
      <4>1. CASE N # M
        <5>1. N + 1 \in 3..M
          BY <1>1, <2>1, <4>1
        <5>2. b[N + 1] = e[N] + 2 /\ b[N + 1] \in Nat /\ e[N + 1] \in Nat /\ b[N + 1] <= e[N + 1] /\ e[N + 1] < n
          BY <1>2, <1>3, <2>1, <5>1
        <5> QED BY <1>5, <1>6, <2>3, <2>5, <3>1, <5>2
      <4> QED BY <4>1
    <3>2. ASSUME q = n - 1 PROVE f = q /\ q = e[N]
      <4>1. e[N] + 1 = n
        BY <1>1, <3>1, <3>2
      <4> QED BY <1>5, <1>6, <2>3, <3>2, <4>1 DEF EndAt
    <3>3. q = n - 1 => q + 1 - h = l
      BY <1>1, <1>6
    <3> HIDE DEF f
    <3> QED BY <3>2, <3>3
  <2>11. parse(Fresh(r), data) = Ok(Msg(r, c, ty, "undefined", L, cn))
    BY <1>8, <2>7, Zenon
  <2> HIDE DEF f
  <2>12. /\ text[q] = nl => Holds(cn, text, h, q - h)
         /\ text[q] # nl => Len(cn) = q + 1 - h
         /\ q = n - 1 => Holds(cn, text, h, l)
    BY <2>7, <2>8, <2>9, <2>10, Zenon
  <2> QED BY <1>13, <2>6, <2>7, <2>11, <2>12, Zenon DEF BodyResult
<1> QED BY <1>16, <1>17

\* The response with the SIP address is a text with a body,
LEMMA ProfileTable ==
    ASSUME NEW t, ProfileIs(t)
    PROVE  BodyTable(t, "api", "response", 14, 4, ProfileB, ProfileE, 9, 5)
<1> DEFINE b == ProfileB
           e == ProfileE
<1>1. /\ b[1] = 1 /\ b[2] = 6 /\ b[3] = 10 /\ b[4] = 12 /\ e[1] = 4 /\ e[2] = 7
      /\ e[3] = 10 /\ e[4] = 13
  BY DEF ProfileB, ProfileE
<1>2. Headed(t, "api", "response", 14) /\ t[6] = "Content-Length: "
  BY Zenon DEF ProfileIs
<1>3. Marks(t, 4, b, e)
  BY ProfileMarks
<1>4. HasBody("api", "response")
  BY DEF HasBody
<1>5. t[10 + 1] = nl /\ t[13 + 1] = nl
  <2>1. t[11] = nl /\ t[14] = nl
    BY Zenon DEF ProfileIs
  <2> QED BY <2>1
<1> HIDE DEF b, e
<1>6. \A i \in 2..4 : i = 2 \/ i = 3 \/ i = 4
  OBVIOUS
<1>7. \A i \in 3..4 : i = 3 \/ i = 4
  OBVIOUS
<1>8. /\ 14 \in Nat /\ 14 > 5 /\ 4 \in Nat /\ 4 >= 1 /\ b[1] = 1 /\ e[1] = 4
      /\ \A i \in 2..4 : b[i] \in Nat /\ b[i] >= 6
  BY <1>1, <1>6
<1>9. Tabled(t, "api", "response", 14, 4, b, e)
  BY <1>2, <1>3, <1>8, Zenon DEF Tabled
<1>10. \A i \in 3..4 : /\ b[i] \in Nat /\ e[i] \in Nat /\ 9 < b[i] /\ b[i] <= e[i]
                       /\ e[i] < 14
  BY <1>1, <1>7
<1>11. \A i \in 3..4 : t[e[i] + 1] = nl
  BY <1>1, <1>5, <1>7, Zenon
<1>12. \A i, j \in 3..4 : j = i + 1 => b[j] = e[i] + 2
  BY <1>1, <1>7
<1>13. /\ 9 \in Nat /\ 5 \in Nat /\ 14 = 9 + 5 /\ 4 \in Nat /\ 4 >= 3
       /\ b[2] = 6 /\ e[2] \in Nat /\ 7 <= e[2] /\ e[2] + 2 = 9
       /\ b[3] = 9 + 1 /\ e[4] + 1 = 14
  BY <1>1
<1> QED BY <1>2, <1>4, <1>9, <1>10, <1>11, <1>12, <1>13, Zenon DEF BodyTable, b, e

\* and so is the one with the counts,
LEMMA StatusTable ==
    ASSUME NEW t, StatusIs(t)
    PROVE  BodyTable(t, "api", "response", 20, 7, StatusB, StatusE, 10, 10)
<1> DEFINE b == StatusB
           e == StatusE
<1>1. /\ b[1] = 1 /\ b[2] = 6 /\ b[3] = 11 /\ b[4] = 13 /\ b[5] = 15 /\ b[6] = 17
      /\ b[7] = 19 /\ e[1] = 4 /\ e[2] = 8 /\ e[3] = 11 /\ e[4] = 13 /\ e[5] = 15
      /\ e[6] = 17 /\ e[7] = 19
  BY DEF StatusB, StatusE
<1>2. Headed(t, "api", "response", 20) /\ t[6] = "Content-Length: "
  BY Zenon DEF StatusIs
<1>3. Marks(t, 7, b, e)
  BY StatusMarks
<1>4. HasBody("api", "response")
  BY DEF HasBody
<1>5. t[11 + 1] = nl /\ t[13 + 1] = nl /\ t[15 + 1] = nl /\ t[17 + 1] = nl /\ t[19 + 1] = nl
  <2>1. t[12] = nl /\ t[14] = nl /\ t[16] = nl /\ t[18] = nl /\ t[20] = nl
    BY Zenon DEF StatusIs
  <2> QED BY <2>1
<1> HIDE DEF b, e
<1>6. \A i \in 2..7 : i = 2 \/ i = 3 \/ i = 4 \/ i = 5 \/ i = 6 \/ i = 7
  OBVIOUS
<1>7. \A i \in 3..7 : i = 3 \/ i = 4 \/ i = 5 \/ i = 6 \/ i = 7
  OBVIOUS
<1>8. /\ 20 \in Nat /\ 20 > 5 /\ 7 \in Nat /\ 7 >= 1 /\ b[1] = 1 /\ e[1] = 4
      /\ \A i \in 2..7 : b[i] \in Nat /\ b[i] >= 6
  BY <1>1, <1>6
<1>9. Tabled(t, "api", "response", 20, 7, b, e)
  BY <1>2, <1>3, <1>8, Zenon DEF Tabled
<1>10. \A i \in 3..7 : /\ b[i] \in Nat /\ e[i] \in Nat /\ 10 < b[i] /\ b[i] <= e[i]
                       /\ e[i] < 20
  BY <1>1, <1>7
<1>11. \A i \in 3..7 : t[e[i] + 1] = nl
  BY <1>1, <1>5, <1>7, Zenon
<1>12. \A i, j \in 3..7 : j = i + 1 => b[j] = e[i] + 2
  BY <1>1, <1>7
<1>13. /\ 10 \in Nat /\ 10 \in Nat /\ 20 = 10 + 10 /\ 7 \in Nat /\ 7 >= 3
       /\ b[2] = 6 /\ e[2] \in Nat /\ 7 <= e[2] /\ e[2] + 2 = 10
       /\ b[3] = 10 + 1 /\ e[7] + 1 = 20
  BY <1>1
<1> QED BY <1>2, <1>4, <1>9, <1>10, <1>11, <1>12, <1>13, Zenon DEF BodyTable, b, e

\* and the notice.
LEMMA NoticeTable ==
    ASSUME NEW t, NoticeIs(t)
    PROVE  BodyTable(t, "text", "disconnect_notice", 11, 3, NoticeB, NoticeE, 9, 2)
<1> DEFINE b == NoticeB
           e == NoticeE
<1>1. /\ b[1] = 1 /\ b[2] = 6 /\ b[3] = 10 /\ e[1] = 4 /\ e[2] = 7 /\ e[3] = 10
  BY DEF NoticeB, NoticeE
<1>2. Headed(t, "text", "disconnect_notice", 11) /\ t[6] = "Content-Length: "
  BY Zenon DEF NoticeIs
<1>3. Marks(t, 3, b, e)
  BY NoticeMarks
<1>4. HasBody("text", "disconnect_notice")
  BY DEF HasBody
<1>5. t[10 + 1] = nl
  <2>1. t[11] = nl
    BY Zenon DEF NoticeIs
  <2> QED BY <2>1
<1> HIDE DEF b, e
<1>6. \A i \in 2..3 : i = 2 \/ i = 3
  OBVIOUS
<1>7. \A i \in 3..3 : i = 3
  OBVIOUS
<1>8. /\ 11 \in Nat /\ 11 > 5 /\ 3 \in Nat /\ 3 >= 1 /\ b[1] = 1 /\ e[1] = 4
      /\ \A i \in 2..3 : b[i] \in Nat /\ b[i] >= 6
  BY <1>1, <1>6
<1>9. Tabled(t, "text", "disconnect_notice", 11, 3, b, e)
  BY <1>2, <1>3, <1>8, Zenon DEF Tabled
<1>10. \A i \in 3..3 : /\ b[i] \in Nat /\ e[i] \in Nat /\ 9 < b[i] /\ b[i] <= e[i]
                       /\ e[i] < 11
  BY <1>1, <1>7
<1>11. \A i \in 3..3 : t[e[i] + 1] = nl
  BY <1>1, <1>5, <1>7, Zenon
<1>12. \A i, j \in 3..3 : j = i + 1 => b[j] = e[i] + 2
  BY <1>1, <1>7
<1>13. /\ 9 \in Nat /\ 2 \in Nat /\ 11 = 9 + 2 /\ 3 \in Nat /\ 3 >= 3
       /\ b[2] = 6 /\ e[2] \in Nat /\ 7 <= e[2] /\ e[2] + 2 = 9
       /\ b[3] = 9 + 1 /\ e[3] + 1 = 11
  BY <1>1
<1> QED BY <1>2, <1>4, <1>9, <1>10, <1>11, <1>12, <1>13, Zenon DEF BodyTable, b, e

\* The digits of the length that have come.
LEMMA TailDigits ==
    ASSUME NEW line, NEW text, NEW f \in Nat, f >= 6, IsPart(line, text, 6, f)
    PROVE  /\ DOMAIN Tail(line) = 1..(f - 6)
           /\ \A i \in 1..(f - 6) : Tail(line)[i] = text[6 + i]
<1> DEFINE S == {line[i] : i \in 1..Len(line)}
<1>1. /\ IsSeq(line) /\ Len(line) \in Nat /\ Len(line) = f - 6 + 1
      /\ \A i \in 1..Len(line) : line[i] = text[6 + i - 1]
  BY Zenon DEF IsPart
<1>2. line \in Seq(S)
  <2>1. \A i \in 1..Len(line) : line[i] \in S
    OBVIOUS
  <2> HIDE DEF S
  <2> QED BY <1>1, <2>1, IsSeqOf, Zenon
<1> HIDE DEF S
<1>3. line # <<>>
  <2>1. Len(line) # 0
    BY <1>1
  <2>2. Len(<<>>) = 0
    OBVIOUS
  <2> QED BY <2>1, <2>2, Zenon
<1>4. /\ Tail(line) \in Seq(S) /\ Len(Tail(line)) = Len(line) - 1
      /\ \A i \in 1..Len(Tail(line)) : Tail(line)[i] = line[i + 1]
  BY <1>2, <1>3, HeadTailProperties
<1>5. DOMAIN Tail(line) = 1..Len(Tail(line))
  BY <1>4, LenProperties
<1> DEFINE u == Tail(line)
<1> HIDE DEF u
<1>6. Len(u) = f - 6
  BY <1>1, <1>4 DEF u
<1>7. ASSUME NEW i \in 1..(f - 6) PROVE u[i] = text[6 + i]
  <2>1. u[i] = line[i + 1]
    BY <1>4, <1>6, Zenon DEF u
  <2>2. i + 1 \in 1..Len(line) /\ 6 + (i + 1) - 1 = 6 + i
    BY <1>1
  <2>3. line[i + 1] = text[6 + (i + 1) - 1]
    BY <1>1, <2>2, Zenon
  <2> QED BY <2>1, <2>2, <2>3
<1> QED BY <1>5, <1>6, <1>7, Zenon DEF u

\* One digit has come,
LEMMA OneDigit ==
    ASSUME NEW line, NEW text, IsPart(line, text, 6, 7), Value(text[7]) \in Nat
    PROVE  atoi(Tail(line)) = Value(text[7])
<1>1. 7 \in Nat /\ 7 >= 6 /\ 7 - 6 = 1 /\ 1..1 = {1} /\ 1 \in 1..1 /\ 6 + 1 = 7
  OBVIOUS
<1>2. /\ DOMAIN Tail(line) = 1..(7 - 6)
      /\ \A i \in 1..(7 - 6) : Tail(line)[i] = text[6 + i]
  BY <1>1, TailDigits
<1>3. DOMAIN Tail(line) = {1} /\ Tail(line)[1] = text[7]
  BY <1>1, <1>2, Zenon
<1> QED BY <1>3, AtoiOne, Zenon

\* or two,
LEMMA TwoDigits ==
    ASSUME NEW line, NEW text, IsPart(line, text, 6, 8), Value(text[7]) \in Nat,
           Value(text[8]) \in Nat
    PROVE  atoi(Tail(line)) = 10 * Value(text[7]) + Value(text[8])
<1>1. /\ 8 \in Nat /\ 8 >= 6 /\ 8 - 6 = 2 /\ 1..2 = {1, 2} /\ 1 \in 1..2 /\ 2 \in 1..2
      /\ 6 + 1 = 7 /\ 6 + 2 = 8
  OBVIOUS
<1>2. /\ DOMAIN Tail(line) = 1..(8 - 6)
      /\ \A i \in 1..(8 - 6) : Tail(line)[i] = text[6 + i]
  <2> DEFINE f == 8
  <2>1. f \in Nat /\ f >= 6 /\ IsPart(line, text, 6, f)
    OBVIOUS
  <2> HIDE DEF f
  <2>2. /\ DOMAIN Tail(line) = 1..(f - 6)
        /\ \A i \in 1..(f - 6) : Tail(line)[i] = text[6 + i]
    BY <2>1, TailDigits
  <2> QED BY <2>2, Zenon DEF f
<1>3. DOMAIN Tail(line) = {1, 2} /\ Tail(line)[1] = text[7] /\ Tail(line)[2] = text[8]
  BY <1>1, <1>2, Zenon
<1> QED BY <1>3, AtoiTwo, Zenon

\* or none.
LEMMA NoDigit ==
    ASSUME NEW line, NEW text, IsPart(line, text, 6, 6)
    PROVE  atoi(Tail(line)) = 0
<1>1. 6 \in Nat /\ 6 >= 6 /\ 1..(6 - 6) = {}
  OBVIOUS
<1>2. DOMAIN Tail(line) = 1..(6 - 6)
  BY <1>1, TailDigits
<1> QED BY <1>1, <1>2, AtoiNone, Zenon

\* What the response with the SIP address announces when cut at q,
LEMMA ProfileMeasured ==
    ASSUME NEW t, ProfileIs(t), NEW q \in Nat, q >= 7
    PROVE  Measured(t, ProfileE, q, 9, 5)
<1>1. t[7] = "5"
  BY Zenon DEF ProfileIs
<1>2. ProfileE[2] = 7
  BY DEF ProfileE
<1>3. EndAt(ProfileE, q, 2) = 7
  BY <1>2 DEF EndAt
<1>4. Value(t[7]) = 5
  BY <1>1, Values, Zenon
<1>5. 5 \in Nat /\ 5 # 0 /\ 5 <= 5
  OBVIOUS
<1> QED BY <1>3, <1>4, <1>5, OneDigit, Zenon DEF Measured

\* the notice,
LEMMA NoticeMeasured ==
    ASSUME NEW t, NoticeIs(t), NEW q \in Nat, q >= 7
    PROVE  Measured(t, NoticeE, q, 9, 2)
<1>1. t[7] = "2"
  BY Zenon DEF NoticeIs
<1>2. NoticeE[2] = 7
  BY DEF NoticeE
<1>3. EndAt(NoticeE, q, 2) = 7
  BY <1>2 DEF EndAt
<1>4. Value(t[7]) = 2
  BY <1>1, Values, Zenon
<1>5. 2 \in Nat /\ 2 # 0 /\ 2 <= 2
  OBVIOUS
<1> QED BY <1>3, <1>4, <1>5, OneDigit, Zenon DEF Measured

\* the response with the counts.
LEMMA StatusMeasured ==
    ASSUME NEW t, StatusIs(t), NEW q \in Nat, q >= 7
    PROVE  Measured(t, StatusE, q, 10, 10)
<1>1. t[7] = "1" /\ t[8] = "0"
  BY Zenon DEF StatusIs
<1>2. StatusE[2] = 8
  BY DEF StatusE
<1>3. Value(t[7]) = 1 /\ Value(t[8]) = 0
  BY <1>1, Values, Zenon
<1>4. /\ 1 \in Nat /\ 0 \in Nat /\ 1 # 0 /\ 1 <= 10 /\ 10 * 1 + 0 = 10 /\ 10 \in Nat /\ 10 # 0
      /\ 10 <= 10 /\ ~(7 >= 10)
  OBVIOUS
<1>5. CASE q = 7
  <2>1. EndAt(StatusE, q, 2) = 7
    BY <1>2, <1>5 DEF EndAt
  <2> QED BY <1>3, <1>4, <1>5, <2>1, OneDigit, Zenon DEF Measured
<1>6. CASE q # 7
  <2>1. EndAt(StatusE, q, 2) = 8
    BY <1>2, <1>6 DEF EndAt
  <2> QED BY <1>3, <1>4, <2>1, TwoDigits, Zenon DEF Measured
<1> QED BY <1>5, <1>6

-----------------------------------------------------------------------------
(* Messages that never become complete *)

\* The first atom of s that is no newline is a.
First(s, a) ==
    a # nl /\ \E j \in 1..Len(s) : s[j] = a /\ \A i \in 1..Len(s) : i < j => s[i] = nl

\* More data changes nothing about the first atom.
LEMMA FirstJoined ==
    ASSUME NEW s, NEW t, IsSeq(s), IsSeq(t), NEW a, First(s, a)
    PROVE  First(s \o t, a)
<1> DEFINE z == s \o t
<1>1. IsJoin(z, s, t)
  BY Joined
<1> HIDE DEF z
<1>2. /\ Len(z) \in Nat /\ Len(z) = Len(s) + Len(t)
      /\ \A i \in 1..Len(z) : i <= Len(s) => z[i] = s[i]
  BY <1>1, Zenon DEF IsJoin
<1>3. Len(s) \in Nat /\ Len(t) \in Nat
  BY Zenon DEF IsSeq
<1>4. PICK j \in 1..Len(s) : s[j] = a /\ \A i \in 1..Len(s) : i < j => s[i] = nl
  BY Zenon DEF First
<1>5. j \in 1..Len(z) /\ j <= Len(s)
  BY <1>2, <1>3
<1>6. z[j] = a
  BY <1>2, <1>4, <1>5, Zenon
<1>7. ASSUME NEW i \in 1..Len(z), i < j PROVE z[i] = nl
  <2>1. i \in 1..Len(s) /\ i <= Len(s)
    BY <1>2, <1>3, <1>7
  <2> QED BY <1>2, <1>4, <1>7, <2>1, Zenon
<1>8. First(z, a)
  BY <1>5, <1>6, <1>7, Zenon DEF First
<1> QED BY <1>8, Zenon DEF z

\* The first line begins with it.
LEMMA FirstOfLines ==
    ASSUME NEW s, Len(s) \in Nat, NEW a, First(s, a)
    PROVE  \E N \in Nat : N >= 1 /\ DOMAIN Lines(s) = 1..N /\ Lines(s)[1][1] = a
<1> DEFINE starts == {i \in 1..Len(s) : s[i] # nl /\ (i = 1 \/ s[i - 1] = nl)}
           upto(i) == {j \in starts : j <= i}
           IsEnd(i, j) == /\ \A k \in i..j : s[k] # nl
                          /\ j < Len(s) => s[j + 1] = nl
           end(i) == CHOOSE j \in i..Len(s) : IsEnd(i, j)
           nth(n) == CHOOSE i \in starts : Cardinality(upto(i)) = n
           N == Cardinality(starts)
<1>1. PICK p \in 1..Len(s) : s[p] = a /\ a # nl /\ \A i \in 1..Len(s) : i < p => s[i] = nl
  BY Zenon DEF First
<1>2. p \in starts
  <2>1. p # 1 => p - 1 \in 1..Len(s) /\ p - 1 < p
    OBVIOUS
  <2> QED BY <1>1, <2>1
<1>3. \A i \in starts : i \in Nat /\ p \in Nat /\ p <= i
  BY <1>1
<1>4. IsFiniteSet(starts)
  <2>1. IsFiniteSet(1..Len(s))
    BY FS_Interval
  <2>2. starts \subseteq 1..Len(s)
    OBVIOUS
  <2> HIDE DEF starts
  <2> QED BY <2>1, <2>2, FS_Subset
<1>5. N \in Nat /\ N >= 1
  <2> HIDE DEF starts
  <2>1. N \in Nat
    BY <1>4, FS_CardinalityType
  <2>2. N # 0
    BY <1>2, <1>4, FS_EmptySet
  <2> HIDE DEF N
  <2> QED BY <2>1, <2>2
<1>6. \A i \in starts : IsFiniteSet(upto(i)) /\ i \in upto(i) /\ p \in upto(i)
  <2> SUFFICES ASSUME NEW i \in starts PROVE IsFiniteSet(upto(i)) /\ i \in upto(i) /\ p \in upto(i)
    OBVIOUS
  <2>0. i \in Nat /\ p <= i
    BY <1>3
  <2> HIDE DEF starts
  <2>1. upto(i) \subseteq starts
    OBVIOUS
  <2>2. IsFiniteSet(upto(i))
    BY <1>4, <2>1, FS_Subset
  <2> QED BY <1>2, <2>0, <2>2
<1>7. upto(p) = {p}
  <2> HIDE DEF starts
  <2>1. \A j \in upto(p) : j = p
    BY <1>3
  <2> QED BY <1>2, <1>6, <2>1
<1> HIDE DEF starts, upto, N
<1>8. Cardinality(upto(p)) = 1
  BY <1>7, FS_Singleton
<1>9. \A i \in starts : Cardinality(upto(i)) = 1 => i = p
  <2> SUFFICES ASSUME NEW i \in starts, Cardinality(upto(i)) = 1 PROVE i = p
    OBVIOUS
  <2>1. \E x : upto(i) = {x}
    BY <1>6, FS_Singleton
  <2> QED BY <1>6, <2>1
<1>10. nth(1) = p
  BY <1>2, <1>8, <1>9, Zenon
<1>11. end(p) \in p..Len(s)
  <2> DEFINE J == {j \in p..Len(s) : j = Len(s) \/ s[j + 1] = nl}
  <2>1. Len(s) \in J /\ J \subseteq Nat
    OBVIOUS
  <2>2. PICK j \in J : \A k \in J : j <= k
    <3> HIDE DEF J
    <3> QED BY <2>1, LeastOf
  <2>3. ASSUME NEW k \in p..j PROVE s[k] # nl
    <3>1. CASE k = p
      BY <1>1, <3>1
    <3>2. CASE k # p
      <4>1. k - 1 \in p..Len(s) /\ (k - 1) + 1 = k /\ ~(j <= k - 1)
        BY <2>2, <3>2
      <4>2. k - 1 \notin J
        BY <2>2, <4>1
      <4>3. s[(k - 1) + 1] # nl
        BY <4>1, <4>2
      <4> QED BY <4>1, <4>3
    <3> QED BY <3>1, <3>2
  <2>4. j < Len(s) => s[j + 1] = nl
    BY <2>2
  <2>5. j \in p..Len(s) /\ IsEnd(p, j)
    BY <2>2, <2>3, <2>4
  <2> HIDE DEF IsEnd, J
  <2> QED BY <2>5, Zenon
<1>12. Lines(s) = [n \in 1..N |-> SubSeq(s, nth(n), end(nth(n)))]
  BY Zenon DEF Lines, N, starts, upto
<1> HIDE DEF end, nth
<1>13. DOMAIN Lines(s) = 1..N
  BY <1>12, Zenon
<1>14. 1 \in 1..N
  BY <1>5
<1>15. Lines(s)[1] = Part(s, p, end(p))
  BY <1>10, <1>12, <1>14, Zenon DEF Part
<1>16. Part(s, p, end(p))[1] = a
  <2> DEFINE f == end(p)
  <2>1. f \in Nat /\ p \in Nat /\ p <= f
    BY <1>11
  <2> HIDE DEF f
  <2>2. IsPart(Part(s, p, f), s, p, f)
    BY <2>1, PartOf
  <2> DEFINE l == Part(s, p, f)
  <2> HIDE DEF l
  <2>3. Len(l) = f - p + 1 /\ \A i \in 1..Len(l) : l[i] = s[p + i - 1]
    BY <2>2, Zenon DEF IsPart, l
  <2>4. 1 \in 1..Len(l) /\ p + 1 - 1 = p
    BY <2>1, <2>3
  <2>5. l[1] = s[p]
    BY <2>3, <2>4, Zenon
  <2> QED BY <1>1, <2>5, Zenon DEF l, f
<1> QED BY <1>5, <1>13, <1>15, <1>16, Zenon

\* A message that the first line throws out, or that no line says anything to, stays as it is.
Deaf(m, line) == \/ ParseLine(Ok(m), line) = Throw(m)
                 \/ \A l : ParseLine(Ok(m), l) = Ok(m)

\* However many lines there are.
LEMMA DeafStays ==
    ASSUME NEW m, NEW lines, NEW N \in Nat, N >= 1, DOMAIN lines = 1..N, Deaf(m, lines[1])
    PROVE  ParseAll(m, lines) = Ok(m) \/ ParseAll(m, lines) = Throw(m)
<1>f. PICK g : FoldRun(g, m, lines, N)
  BY FoldRuns, Zenon
<1>1. /\ g[0] = Ok(m) /\ g[N] = ParseAll(m, lines)
      /\ \A i \in 1..N : g[i] = ParseLine(g[i - 1], lines[i])
  BY <1>f, Zenon DEF FoldRun
<1>2. 1 \in 1..N /\ 1 - 1 = 0 /\ N \in 1..N
  OBVIOUS
<1>3. CASE ParseLine(Ok(m), lines[1]) = Throw(m)
  <2> DEFINE bad == {i \in 1..N : g[i] # Throw(m)}
  <2>1. g[1] = Throw(m)
    BY <1>1, <1>2, <1>3, Zenon
  <2>2. bad = {}
    <3> SUFFICES ASSUME bad # {} PROVE FALSE
      OBVIOUS
    <3>1. bad \subseteq Nat
      OBVIOUS
    <3>2. PICK i \in bad : \A j \in bad : i <= j
      <4> HIDE DEF bad
      <4> QED BY <3>1, LeastOf
    <3>3. i \in 1..N /\ g[i] # Throw(m) /\ i # 1
      BY <2>1, <3>2
    <3>4. i - 1 \in 1..N /\ ~(i <= i - 1)
      BY <3>3
    <3>5. g[i - 1] = Throw(m)
      BY <3>2, <3>4
    <3>6. g[i] = ParseLine(g[i - 1], lines[i])
      BY <1>1, <3>3, Zenon
    <3>7. ParseLine(g[i - 1], lines[i]) = Throw(m)
      BY <3>5, ThrownLine, Zenon
    <3> HIDE DEF bad
    <3> QED BY <3>3, <3>6, <3>7, Zenon
  <2>3. g[N] = Throw(m)
    BY <1>2, <2>2
  <2> QED BY <1>1, <2>3, Zenon
<1>4. CASE \A l : ParseLine(Ok(m), l) = Ok(m)
  <2> DEFINE bad == {i \in 0..N : g[i] # Ok(m)}
  <2>2. bad = {}
    <3> SUFFICES ASSUME bad # {} PROVE FALSE
      OBVIOUS
    <3>1. bad \subseteq Nat
      OBVIOUS
    <3>2. PICK i \in bad : \A j \in bad : i <= j
      <4> HIDE DEF bad
      <4> QED BY <3>1, LeastOf
    <3>3. i \in 0..N /\ g[i] # Ok(m) /\ i # 0
      BY <1>1, <3>2
    <3>4. i \in 1..N /\ i - 1 \in 0..N /\ ~(i <= i - 1)
      BY <3>3
    <3>5. g[i - 1] = Ok(m)
      BY <3>2, <3>4
    <3>6. g[i] = ParseLine(g[i - 1], lines[i])
      BY <1>1, <3>4, Zenon
    <3>7. ParseLine(g[i - 1], lines[i]) = Ok(m)
      BY <1>4, <3>5, Zenon
    <3> HIDE DEF bad
    <3> QED BY <3>3, <3>6, <3>7, Zenon
  <2>3. N \in 0..N
    OBVIOUS
  <2>4. g[N] = Ok(m)
    BY <2>2, <2>3
  <2> QED BY <1>1, <2>4, Zenon
<1> QED BY <1>3, <1>4, Zenon DEF Deaf

\* By its type and its reply status a message is not complete.
Incomplete(ty, st) == ty # "request" /\ ~(ty = "reply" /\ st # "undefined")

\* What m_bComplete says of a message.
Judged(r, c, ty, st, L, cn) ==
    m_bComplete(Msg(r, c, ty, st, L, cn)) <=> ~Incomplete(ty, st) \/ (L # 0 /\ Len(cn) = L)

\* For every message.
LEMMA CompleteIs ==
    ASSUME NEW r, NEW c, NEW ty, NEW st, NEW L \in Nat, NEW cn
    PROVE  Judged(r, c, ty, st, L, cn)
<1> DEFINE m == Msg(r, c, ty, st, L, cn)
<1>1. m.m_type = ty /\ m.m_replyStatus = st /\ m.m_nContentLength = L /\ m.m_strContent = cn
  BY DEF Msg
<1>2. L > 0 <=> L # 0
  OBVIOUS
<1> HIDE DEF m
<1>3. m_bComplete(m) <=> ~Incomplete(ty, st) \/ (L # 0 /\ Len(cn) = L)
  BY <1>1, <1>2, Zenon DEF m_bComplete, Incomplete
<1> QED BY <1>3, Zenon DEF m, Judged

\* What read_handler does with data, and whether it takes the message for complete.
Fed(m, data) == parse([m EXCEPT !.m_rawMsg = @ \o data], data)
Done(p) == m_bComplete(p.msg) /\ ~p.thrown

\* Equality, kept from the provers until it is needed.
Same(x, y) == x = y

\* Data is kept with the data read before,
LEMMA FedIs ==
    ASSUME NEW r, NEW c, NEW ty, NEW st, NEW L, NEW cn, NEW data
    PROVE  Same(Fed(Msg(r, c, ty, st, L, cn), data),
                parse(Msg(r \o data, c, ty, st, L, cn), data))
<1> DEFINE m == Msg(r, c, ty, st, L, cn)
           z == r \o data
<1>1. m.m_rawMsg = r
  BY DEF Msg
<1>2. [m EXCEPT !.m_rawMsg = m.m_rawMsg \o data] = [m EXCEPT !.m_rawMsg = z]
  BY <1>1
<1> HIDE DEF z
<1>3. [m EXCEPT !.m_rawMsg = z] = Msg(z, c, ty, st, L, cn)
  BY DEF Msg
<1>4. Fed(m, data) = parse([m EXCEPT !.m_rawMsg = m.m_rawMsg \o data], data)
  BY Zenon DEF Fed
<1> QED BY <1>2, <1>3, <1>4, Zenon DEF z, Same

\* all of it is parsed again while no length is known,
LEMMA ParseAgain ==
    ASSUME NEW r, NEW c, NEW ty, NEW st, NEW cn, NEW data
    PROVE  Same(parse(Msg(r, c, ty, st, 0, cn), data),
                ParseAll(Msg(r, c, ty, st, 0, cn), Lines(r)))
<1> DEFINE m == Msg(r, c, ty, st, 0, cn)
<1>1. m.m_nContentLength = 0 /\ m.m_rawMsg = r
  BY DEF Msg
<1>2. ~(0 > 0)
  OBVIOUS
<1> HIDE DEF m
<1>3. parse(m, data) = ParseAll(m, Lines(r))
  BY <1>1, <1>2, Zenon DEF parse, ParseAll
<1> QED BY <1>3, Zenon DEF m, Same

\* and belongs to the content once it is.
LEMMA ParseContent ==
    ASSUME NEW r, NEW c, NEW ty, NEW st, NEW L \in Nat, L # 0, NEW cn, NEW data
    PROVE  Same(parse(Msg(r, c, ty, st, L, cn), data), Ok(Msg(r, c, ty, st, L, cn \o data)))
<1> DEFINE m == Msg(r, c, ty, st, L, cn)
           z == cn \o data
<1>1. m.m_nContentLength = L /\ m.m_strContent = cn
  BY DEF Msg
<1>2. L > 0
  OBVIOUS
<1>3. parse(m, data) = Ok([m EXCEPT !.m_strContent = z])
  BY <1>1, <1>2, Zenon DEF parse
<1> HIDE DEF z
<1>4. [m EXCEPT !.m_strContent = z] = Msg(r, c, ty, st, L, z)
  BY DEF Msg
<1> QED BY <1>3, <1>4, Zenon DEF z, Same

\* The same, of read_handler: without a length
LEMMA FedAgain ==
    ASSUME NEW r, NEW c, NEW ty, NEW st, NEW cn, NEW data
    PROVE  Same(Fed(Msg(r, c, ty, st, 0, cn), data),
                ParseAll(Msg(r \o data, c, ty, st, 0, cn), Lines(r \o data)))
<1>1. Same(Fed(Msg(r, c, ty, st, 0, cn), data), parse(Msg(r \o data, c, ty, st, 0, cn), data))
  BY FedIs, Zenon
<1>2. Same(parse(Msg(r \o data, c, ty, st, 0, cn), data),
           ParseAll(Msg(r \o data, c, ty, st, 0, cn), Lines(r \o data)))
  BY ParseAgain, Zenon
<1> QED BY <1>1, <1>2, Zenon DEF Same

\* and with one.
LEMMA FedContent ==
    ASSUME NEW r, NEW c, NEW ty, NEW st, NEW L \in Nat, L # 0, NEW cn, NEW data
    PROVE  Same(Fed(Msg(r, c, ty, st, L, cn), data),
                Ok(Msg(r \o data, c, ty, st, L, cn \o data)))
<1>1. Same(Fed(Msg(r, c, ty, st, L, cn), data), parse(Msg(r \o data, c, ty, st, L, cn), data))
  BY FedIs, Zenon
<1>2. Same(parse(Msg(r \o data, c, ty, st, L, cn), data),
           Ok(Msg(r \o data, c, ty, st, L, cn \o data)))
  BY ParseContent, Zenon
<1> QED BY <1>1, <1>2, Zenon DEF Same

\* parse returned or threw with message m.
Result(p, m) == p = Ok(m) \/ p = Throw(m)

\* The message that it leaves.
LEMMA ResultMsg == ASSUME NEW p, NEW m, Result(p, m) PROVE Same(p.msg, m)
  BY DEF Result, Ok, Throw, Same

\* The fields of what parse leaves.
LEMMA OkMsg == ASSUME NEW m PROVE Ok(m).msg = m /\ Throw(m).msg = m /\ ~Ok(m).thrown /\ Throw(m).thrown
  BY DEF Ok, Throw

\* Stuck: the first line is not what it should be for a message of its kind.
Stuck(m) ==
    \E r, c, ty, st, cn : /\ m = Msg(r, c, ty, st, 0, cn) /\ IsSeq(r)
                          /\ c # "unknown_category" /\ Incomplete(ty, st)
                          /\ First(r, "Content-Type: ")

\* A stuck message stays stuck, whatever is read.
LEMMA StuckStays ==
    ASSUME NEW m, Stuck(m), NEW data, IsSeq(data)
    PROVE  ~Done(Fed(m, data)) /\ Stuck(Fed(m, data).msg)
<1>1. PICK r, c, ty, st, cn : /\ m = Msg(r, c, ty, st, 0, cn) /\ IsSeq(r)
                              /\ c # "unknown_category" /\ Incomplete(ty, st)
                              /\ First(r, "Content-Type: ")
  BY Zenon DEF Stuck
<1> DEFINE z == r \o data
           m2 == Msg(z, c, ty, st, 0, cn)
<1>2. First(z, "Content-Type: ")
  BY <1>1, FirstJoined
<1>3. IsSeq(z) /\ Len(z) \in Nat
  <2>1. IsJoin(z, r, data)
    BY <1>1, Joined
  <2> HIDE DEF z
  <2> QED BY <2>1, Zenon DEF IsJoin
<1>3a. Same(Fed(Msg(r, c, ty, st, 0, cn), data), ParseAll(m2, Lines(z)))
  BY FedAgain, Zenon
<1>4. Fed(m, data) = ParseAll(m2, Lines(z))
  BY <1>1, <1>3a, Zenon DEF Same
<1> HIDE DEF z
<1>5. PICK N \in Nat : N >= 1 /\ DOMAIN Lines(z) = 1..N /\ Lines(z)[1][1] = "Content-Type: "
  BY <1>2, <1>3, FirstOfLines
<1> DEFINE line == Lines(z)[1]
<1>6. Deaf(m2, line)
  <2> HIDE DEF line
  <2>0. line[1] = "Content-Type: "
    BY <1>5 DEF line
  <2>m. m2.m_category = c /\ m2.m_type = ty /\ m2.m_nContentLength = 0 /\ m2.m_replyStatus = st
    BY DEF Msg
  <2>1. CASE c = "command" /\ ty = "reply"
    <3>1. ParseLine(Ok(m2), line) = ReplyTextLine(m2, line)
      BY <2>1 DEF ParseLine, Ok, Msg
    <3>2. "Content-Type: " # "Reply-Text: "
      OBVIOUS
    <3> HIDE DEF m2
    <3> QED BY <2>0, <3>1, <3>2, Zenon DEF ReplyTextLine, Deaf
  <2>2. CASE HasBody(c, ty)
    <3>1. ParseLine(Ok(m2), line) = ContentLine(m2, line)
      BY <2>2 DEF ParseLine, Ok, Msg, HasBody
    <3>2. "Content-Type: " # "Content-Length: "
      OBVIOUS
    <3> HIDE DEF m2
    <3> QED BY <2>0, <2>m, <3>1, <3>2, Zenon DEF ContentLine, Deaf
  <2>3. CASE ~(c = "command" /\ ty = "reply") /\ ~HasBody(c, ty)
    <3>1. ASSUME NEW l PROVE ParseLine(Ok(m2), l) = Ok(m2)
      BY <1>1, <2>3 DEF ParseLine, Ok, Msg, HasBody
    <3> QED BY <3>1, Zenon DEF Deaf
  <2> QED BY <2>1, <2>2, <2>3
<1> HIDE DEF m2
<1>7. Result(Fed(m, data), m2)
  BY <1>4, <1>5, <1>6, DeafStays DEF Result
<1>8. Fed(m, data).msg = m2
  BY <1>7, ResultMsg, Zenon DEF Same
<1>9. Stuck(m2)
  BY <1>1, <1>2, <1>3, Zenon DEF Stuck, m2
<1>10. ~m_bComplete(m2)
  <2>1. 0 \in Nat
    OBVIOUS
  <2>2. Judged(z, c, ty, st, 0, cn)
    BY <2>1, CompleteIs, Zenon
  <2> QED BY <1>1, <2>2, Zenon DEF m2, Judged
<1> QED BY <1>8, <1>9, <1>10, Zenon DEF Done

\* Overfull: even if only the rest of the message is yet to come, there will be more than was
\* announced.
Overfull(m, rest) ==
    \E r, c, ty, st, L, cn :
        /\ m = Msg(r, c, ty, st, L, cn) /\ IsSeq(r) /\ IsSeq(cn) /\ L \in Nat /\ L # 0
        /\ Incomplete(ty, st) /\ Len(cn) + rest > L

\* An overfull one stays so when the rest of its text has come.
LEMMA OverfullStays ==
    ASSUME NEW m, NEW rest \in Nat, Overfull(m, rest), NEW data, IsSeq(data), Len(data) >= rest
    PROVE  ~Done(Fed(m, data)) /\ Overfull(Fed(m, data).msg, 0)
<1>1. PICK r, c, ty, st, L, cn :
        /\ m = Msg(r, c, ty, st, L, cn) /\ IsSeq(r) /\ IsSeq(cn) /\ L \in Nat /\ L # 0
        /\ Incomplete(ty, st) /\ Len(cn) + rest > L
  BY Zenon DEF Overfull
<1> DEFINE z == r \o data
           y == cn \o data
           m2 == Msg(z, c, ty, st, L, y)
<1>1a. Same(Fed(Msg(r, c, ty, st, L, cn), data), Ok(m2))
  BY <1>1, FedContent, Zenon
<1>2. Fed(m, data) = Ok(m2)
  BY <1>1, <1>1a, Zenon DEF Same
<1>3. IsJoin(z, r, data) /\ IsJoin(y, cn, data)
  BY <1>1, Joined
<1> HIDE DEF z, y
<1>4. IsSeq(z) /\ IsSeq(y) /\ Len(y) \in Nat /\ Len(y) = Len(cn) + Len(data)
  BY <1>3, Zenon DEF IsJoin
<1>5. Len(cn) \in Nat /\ Len(data) \in Nat
  BY <1>1, Zenon DEF IsSeq
<1>6. Len(y) # L /\ Len(y) + 0 > L
  BY <1>1, <1>4, <1>5
<1> HIDE DEF m2
<1>7. Fed(m, data).msg = m2
  BY <1>2, OkMsg, Zenon
<1>8. ~m_bComplete(m2)
  <2>1. Judged(z, c, ty, st, L, y)
    BY <1>1, CompleteIs, Zenon
  <2>2. Len(y) # L
    BY <1>6
  <2> QED BY <1>1, <2>1, <2>2, Zenon DEF m2, Judged
<1>9. Overfull(m2, 0)
  BY <1>1, <1>4, <1>6, Zenon DEF Overfull, m2
<1> QED BY <1>7, <1>8, <1>9, Zenon DEF Done

\* Junk: what is left of a reply comes before the next message.
Junk(m) == \E r : m = Fresh(r) /\ IsSeq(r) /\ First(r, " accepted")

\* Junk stays junk.
LEMMA JunkStays ==
    ASSUME NEW r, IsSeq(r), NEW data, IsSeq(data), First(r \o data, " accepted")
    PROVE  ~Done(Fed(Fresh(r), data)) /\ Junk(Fed(Fresh(r), data).msg)
<1> DEFINE z == r \o data
           m2 == Fresh(z)
<1>2. First(z, " accepted")
  OBVIOUS
<1>3. IsSeq(z) /\ Len(z) \in Nat
  <2>1. IsJoin(z, r, data)
    BY Joined
  <2> HIDE DEF z
  <2> QED BY <2>1, Zenon DEF IsJoin
<1> DEFINE u == "unknown_category"
           v == "unknown_type"
           w == "undefined"
           o == <<>>
<1>4. Fed(Fresh(r), data) = ParseAll(m2, Lines(z))
  <2>1. Same(Fed(Msg(r, u, v, w, 0, o), data), ParseAll(Msg(z, u, v, w, 0, o), Lines(z)))
    <3> HIDE DEF u, v, w, o
    <3> QED BY FedAgain, Zenon
  <2> QED BY <2>1, Zenon DEF Fresh, Same
<1> HIDE DEF z
<1>5. PICK N \in Nat : N >= 1 /\ DOMAIN Lines(z) = 1..N /\ Lines(z)[1][1] = " accepted"
  BY <1>2, <1>3, FirstOfLines
<1> DEFINE line == Lines(z)[1]
<1>6. Deaf(m2, line)
  <2> HIDE DEF line
  <2>0. line[1] = " accepted"
    BY <1>5 DEF line
  <2>1. ParseLine(Ok(m2), line) = ContentType(m2, line)
    BY DEF ParseLine, Ok, Fresh, Msg
  <2>2. " accepted" # "Content-Type: "
    OBVIOUS
  <2> HIDE DEF m2
  <2> QED BY <2>0, <2>1, <2>2, Zenon DEF ContentType, Deaf
<1> HIDE DEF m2
<1>7. Result(Fed(Fresh(r), data), m2)
  BY <1>4, <1>5, <1>6, DeafStays DEF Result
<1>8. Fed(Fresh(r), data).msg = m2
  BY <1>7, ResultMsg, Zenon DEF Same
<1>9. Junk(m2)
  BY <1>2, <1>3, Zenon DEF Junk, m2
<1>10. ~m_bComplete(m2)
  <2>1. 0 \in Nat
    OBVIOUS
  <2>2. Incomplete("unknown_type", "undefined")
    BY DEF Incomplete
  <2>3. Judged(z, "unknown_category", "unknown_type", "undefined", 0, <<>>)
    BY <2>1, CompleteIs, Zenon
  <2> QED BY <2>2, <2>3, Zenon DEF m2, Fresh, Judged
<1> QED BY <1>8, <1>9, <1>10, Zenon DEF Done

-----------------------------------------------------------------------------
(* What is cut at the length, and what a content says *)

\* A message with a body that was cut just before the digits of its length.
LEMMA CutAtLength ==
    ASSUME NEW text, NEW c, NEW ty, NEW n \in Nat, NEW M \in Nat, NEW b, NEW e,
           NEW h \in Nat, NEW l \in Nat, BodyTable(text, c, ty, n, M, b, e, h, l),
           NEW r, Prefixed(r, text, 6), NEW data
    PROVE  Same(parse(Fresh(r), data), Ok(Msg(r, c, ty, "undefined", 0, <<>>)))
<1>s. Tabled(text, c, ty, n, M, b, e) /\ HasBody(c, ty) /\ text[6] = "Content-Length: "
  BY Zenon DEF BodyTable
<1>1. /\ M >= 3 /\ b[2] = 6 /\ e[2] \in Nat /\ 7 <= e[2] /\ e[2] + 2 = h /\ b[3] = h + 1
  BY Zenon DEF BodyTable
<1>4. Len(text) = n /\ Marks(text, M, b, e) /\ Headed(text, c, ty, n)
  BY <1>s, Zenon DEF Tabled, Headed
<1>5. Len(text) \in Nat
  BY <1>4
<1> DEFINE q == 6
<1>6. q \in Nat /\ q = 6 /\ q >= 6 /\ Prefixed(r, text, q)
  OBVIOUS
<1> HIDE DEF q
<1>7. PICK N \in 0..M : Come(N, M, b, q)
  BY <1>4, <1>5, <1>6, ComeExists
<1>8. PICK g : IsRun(g, r, N, text, b, e, q) /\ g[N] = parse(Fresh(r), data)
  BY <1>4, <1>5, <1>6, <1>7, Runs
<1>9. N \in Nat /\ N >= 2 /\ N = 2
  <2>1. 2 \in 1..M /\ 3 \in 1..M /\ b[2] <= q /\ ~(b[3] <= q)
    BY <1>1, <1>6
  <2>2. 2 <= N /\ ~(3 <= N)
    BY <1>7, <2>1 DEF Come
  <2> QED BY <2>2
<1>10. M >= 2 /\ e[2] >= 6
  BY <1>1
<1>11. Second(g, r, c, ty, text, e, q)
  BY <1>1, <1>s, <1>6, <1>8, <1>9, <1>10, SecondLine, Zenon
<1>12. PICK line : /\ g[2] = ParseLine(Ok(Msg(r, c, ty, "undefined", 0, <<>>)), line)
                   /\ IsPart(line, text, 6, EndAt(e, q, 2))
  BY <1>11, Zenon DEF Second
<1>13. EndAt(e, q, 2) = 6
  BY <1>1, <1>6 DEF EndAt
<1>14. IsPart(line, text, 6, 6)
  BY <1>12, <1>13, Zenon
<1>15. atoi(Tail(line)) = 0
  BY <1>14, NoDigit, Zenon
<1>16. line[1] = "Content-Length: "
  <2>2. /\ Len(line) \in Nat /\ Len(line) = 6 - 6 + 1
        /\ \A i \in 1..Len(line) : line[i] = text[6 + i - 1]
    BY <1>14, Zenon DEF IsPart
  <2>3. 1 \in 1..Len(line) /\ 6 + 1 - 1 = 6
    BY <2>2
  <2> QED BY <1>s, <2>2, <2>3
<1>17. g[2] = Ok(Msg(r, c, ty, "undefined", atoi(Tail(line)), <<>>))
  BY <1>s, <1>12, <1>16, LengthLine
<1> QED BY <1>8, <1>9, <1>15, <1>17, Zenon DEF Same

\* Arithmetic of the places of a line in the text and in the content.
LEMMA Moved ==
    ASSUME NEW h \in Nat, NEW l \in Nat, NEW n \in Nat, NEW x \in Nat, NEW y \in Nat,
           n = h + l, h < x, x <= y, y < n, NEW u, u = x - h, NEW v, v = y - h
    PROVE  /\ u \in Nat /\ v \in Nat
           /\ 1 <= u /\ u <= v /\ v <= l /\ v + 1 \in 1..l
           /\ h + (v + 1) = y + 1
           /\ u # 1 => u - 1 \in 1..l /\ h + (u - 1) = x - 1
           /\ \A k \in u..v : k \in 1..l /\ h + k \in x..y
  OBVIOUS

\* The lines of a body are those of its text after the header.
Less(b2, e2, b, e, h, N) == \A i \in 1..N : b2[i] = b[i + 2] - h /\ e2[i] = e[i + 2] - h

\* They mark the lines of a complete content.
LEMMA BodyMarks ==
    ASSUME NEW text, NEW c, NEW ty, NEW n \in Nat, NEW M \in Nat, NEW b, NEW e,
           NEW h \in Nat, NEW l \in Nat, BodyTable(text, c, ty, n, M, b, e, h, l),
           NEW cn, Holds(cn, text, h, l), NEW N \in Nat, N + 2 = M, NEW b2, NEW e2,
           Less(b2, e2, b, e, h, N)
    PROVE  Marks(cn, N, b2, e2)
<1>0. \A i \in 1..N : b2[i] = b[i + 2] - h /\ e2[i] = e[i + 2] - h
  BY Zenon DEF Less
<1>s. Tabled(text, c, ty, n, M, b, e)
  BY Zenon DEF BodyTable
<1>1. /\ M >= 3 /\ e[2] \in Nat /\ 7 <= e[2] /\ e[2] + 2 = h /\ n = h + l
  BY Zenon DEF BodyTable
<1>2. \A i \in 3..M : /\ b[i] \in Nat /\ e[i] \in Nat /\ h < b[i] /\ b[i] <= e[i]
                      /\ e[i] < n /\ text[e[i] + 1] = nl
  BY Zenon DEF BodyTable
<1>2n. \A i \in 3..M : b[i] \in Nat /\ e[i] \in Nat /\ h < b[i] /\ b[i] <= e[i] /\ e[i] < n
  BY <1>2, Zenon
<1>3. Len(text) = n /\ Marks(text, M, b, e) /\ e[1] = 4
  BY <1>s, Zenon DEF Tabled, Headed
<1>4. Len(cn) = l /\ \A k \in 1..l : cn[k] = text[h + k]
  BY Zenon DEF Holds
<1>5. /\ \A i \in 1..M : (\A k \in b[i]..e[i] : text[k] # nl) /\ (b[i] # 1 => text[b[i] - 1] = nl)
      /\ \A i, j \in 1..M : i < j => e[i] < b[j]
      /\ \A k \in 1..n : text[k] # nl => \E i \in 1..M : k \in b[i]..e[i]
  BY <1>3, Zenon DEF Marks
<1>6. ASSUME NEW i \in 1..N
      PROVE  /\ b2[i] \in Nat /\ e2[i] \in Nat
             /\ 1 <= b2[i] /\ b2[i] <= e2[i] /\ e2[i] <= Len(cn)
             /\ \A k \in b2[i]..e2[i] : cn[k] # nl
             /\ b2[i] # 1 => cn[b2[i] - 1] = nl
             /\ e2[i] < Len(cn) => cn[e2[i] + 1] = nl
  <2> DEFINE j == i + 2
  <2>1. j \in 3..M /\ j \in 1..M /\ b2[i] = b[j] - h /\ e2[i] = e[j] - h
    BY <1>0
  <2> HIDE DEF j
  <2>2. b[j] \in Nat /\ e[j] \in Nat /\ h < b[j] /\ b[j] <= e[j] /\ e[j] < n /\ b[j] # 1
    BY <1>1, <1>2n, <2>1
  <2>3. text[e[j] + 1] = nl /\ text[b[j] - 1] = nl /\ \A k \in b[j]..e[j] : text[k] # nl
    BY <1>2, <1>5, <2>1, <2>2, Zenon
  <2>l. Len(cn) = l
    BY <1>4
  <2>4. /\ b2[i] \in Nat /\ e2[i] \in Nat
        /\ 1 <= b2[i] /\ b2[i] <= e2[i] /\ e2[i] <= Len(cn) /\ e2[i] + 1 \in 1..l
        /\ h + (e2[i] + 1) = e[j] + 1
        /\ b2[i] # 1 => b2[i] - 1 \in 1..l /\ h + (b2[i] - 1) = b[j] - 1
        /\ \A k \in b2[i]..e2[i] : k \in 1..l /\ h + k \in b[j]..e[j]
    <3>1. n = h + l
      BY <1>1
    <3>2. /\ b2[i] \in Nat /\ e2[i] \in Nat
          /\ 1 <= b2[i] /\ b2[i] <= e2[i] /\ e2[i] <= l /\ e2[i] + 1 \in 1..l
          /\ h + (e2[i] + 1) = e[j] + 1
          /\ b2[i] # 1 => b2[i] - 1 \in 1..l /\ h + (b2[i] - 1) = b[j] - 1
          /\ \A k \in b2[i]..e2[i] : k \in 1..l /\ h + k \in b[j]..e[j]
      BY <3>1, <2>1, <2>2, Moved
    <3> QED BY <2>l, <3>2, Zenon
  <2>5. \A k \in b2[i]..e2[i] : cn[k] # nl
    BY <1>4, <2>3, <2>4, Zenon
  <2>6. (b2[i] # 1 => cn[b2[i] - 1] = nl) /\ cn[e2[i] + 1] = nl
    BY <1>4, <2>3, <2>4, Zenon
  <2> QED BY <2>4, <2>5, <2>6, Zenon
<1>7. ASSUME NEW i \in 1..N, NEW j \in 1..N, i < j PROVE e2[i] < b2[j]
  <2>1. i + 2 \in 1..M /\ j + 2 \in 1..M /\ i + 2 < j + 2 /\ i + 2 \in 3..M /\ j + 2 \in 3..M
    BY <1>7
  <2>2. e[i + 2] < b[j + 2] /\ e[i + 2] \in Nat /\ b[j + 2] \in Nat
    BY <1>2, <1>5, <2>1
  <2> QED BY <1>0, <2>2
<1>8. ASSUME NEW k \in 1..Len(cn), cn[k] # nl PROVE \E i \in 1..N : k \in b2[i]..e2[i]
  <2>1. k \in 1..l /\ h + k \in 1..n
    BY <1>1, <1>4
  <2>2. text[h + k] # nl
    BY <1>4, <1>8, <2>1, Zenon
  <2>3. PICK j \in 1..M : h + k \in b[j]..e[j]
    BY <1>5, <2>1, <2>2, Zenon
  <2>4. j # 1 /\ j # 2
    <3>1. e[1] = 4 /\ e[2] \in Nat /\ 7 <= e[2] /\ e[2] + 2 = h /\ k >= 1 /\ h + k <= e[j]
      BY <1>1, <1>3, <2>1, <2>3
    <3> QED BY <3>1
  <2>5. j \in 3..M /\ j - 2 \in 1..N /\ (j - 2) + 2 = j
    BY <2>4
  <2>6. b[j] \in Nat /\ e[j] \in Nat /\ b2[j - 2] = b[j] - h /\ e2[j - 2] = e[j] - h
    BY <1>0, <1>2, <2>5
  <2>7. k \in b2[j - 2]..e2[j - 2]
    BY <2>1, <2>3, <2>6
  <2> QED BY <2>5, <2>7, Zenon
<1> QED BY <1>6, <1>7, <1>8, Zenon DEF Marks

\* The lines of cn begin and end there.
HasLines(cn, N, b, e) ==
    /\ Len(Lines(cn)) = N
    /\ \A i \in 1..N : IsPart(Lines(cn)[i], cn, b[i], e[i])

\* Lines finds them.
LEMMA LinesHave ==
    ASSUME NEW cn, Len(cn) \in Nat, NEW N \in Nat, NEW b, NEW e, Marks(cn, N, b, e)
    PROVE  HasLines(cn, N, b, e)
<1>1. Lines(cn) = [n \in 1..N |-> Part(cn, b[n], e[n])]
  BY LinesMarked
<1>2. \A i \in 1..N : b[i] \in Nat /\ e[i] \in Nat /\ b[i] <= e[i]
  BY Zenon DEF Marks
<1>3. Len(Lines(cn)) = N
  BY <1>1
<1>4. ASSUME NEW i \in 1..N PROVE IsPart(Lines(cn)[i], cn, b[i], e[i])
  <2>1. Lines(cn)[i] = Part(cn, b[i], e[i])
    BY <1>1, Zenon
  <2>2. IsPart(Part(cn, b[i], e[i]), cn, b[i], e[i])
    BY <1>2, PartOf, Zenon
  <2> QED BY <2>1, <2>2, Zenon
<1> QED BY <1>3, <1>4, Zenon DEF HasLines

\* No line of the content is the SIP address.
LEMMA NoProfile ==
    ASSUME NEW cn, NEW N \in Nat, NEW b, NEW e, HasLines(cn, N, b, e),
           \A i \in 1..N : b[i] \in Nat /\ b[i] = e[i]
    PROVE  getSipProfile(cn) = FALSE
<1>1. ASSUME NEW i \in 1..Len(Lines(cn)) PROVE Lines(cn)[i] # <<"internal", "address">>
  <2>1. i \in 1..N
    BY Zenon DEF HasLines
  <2>2. IsPart(Lines(cn)[i], cn, b[i], e[i])
    BY <2>1, Zenon DEF HasLines
  <2> DEFINE line == Lines(cn)[i]
  <2> HIDE DEF line
  <2>3. Len(line) = e[i] - b[i] + 1
    BY <2>2, Zenon DEF IsPart, line
  <2>4. Len(line) = 1
    BY <2>1, <2>3
  <2>5. Len(<<"internal", "address">>) = 2
    OBVIOUS
  <2>6. 1 # 2
    OBVIOUS
  <2> QED BY <2>4, <2>5, <2>6, Zenon DEF line
<1> QED BY <1>1, Zenon DEF getSipProfile

\* There are too few lines for the counts.
LEMMA NoStatus ==
    ASSUME NEW cn, NEW N \in Nat, NEW b, NEW e, HasLines(cn, N, b, e), N < 5
    PROVE  getFsStatus(cn) = <<>>
<1>1. Len(Lines(cn)) < 5
  BY Zenon DEF HasLines
<1> QED BY <1>1, Zenon DEF getFsStatus

\* A line of one digit begins with a number.
LEMMA Leading ==
    ASSUME NEW line, NEW cn, NEW p \in Nat, IsPart(line, cn, p, p),
           cn[p] \in {"4", "9"}
    PROVE  parseLeadingInteger(line) = <<Value(cn[p])>>
<1>1. IsSeq(line) /\ Len(line) = p - p + 1 /\ \A i \in 1..Len(line) : line[i] = cn[p + i - 1]
  BY Zenon DEF IsPart
<1>2. p - p + 1 = 1 /\ 1 \in 1..1 /\ 1..1 = {1} /\ p + 1 - 1 = p
  OBVIOUS
<1>3. Len(line) = 1 /\ line[1] = cn[p]
  BY <1>1, <1>2, Zenon
<1>4. DOMAIN line = {1}
  <2>1. line = [i \in 1..Len(line) |-> line[i]]
    BY <1>1, Zenon DEF IsSeq
  <2>2. line = [i \in 1..1 |-> line[i]]
    BY <1>3, <2>1, Zenon
  <2> QED BY <1>2, <2>2
<1>5. 4 \in Nat /\ 9 \in Nat
  OBVIOUS
<1>6. Value(line[1]) \in Nat
  BY <1>3, <1>5, Values, Zenon
<1>7. atoi(line) = Value(cn[p])
  BY <1>3, <1>4, <1>6, AtoiOne, Zenon
<1>8. line[1] \in {"0"} \cup ToSet(Numeral)
  <2>1. Numeral[4] = "4" /\ Numeral[9] = "9" /\ 4 \in DOMAIN Numeral /\ 9 \in DOMAIN Numeral
    BY DEF Numeral
  <2>2. "4" \in ToSet(Numeral) /\ "9" \in ToSet(Numeral)
    BY <2>1, Zenon DEF ToSet
  <2> QED BY <1>3, <2>2, Zenon
<1> QED BY <1>7, <1>8, Zenon DEF parseLeadingInteger

\* What is understood of a content.
Means(cn, profile, counts) == getSipProfile(cn) = profile /\ getFsStatus(cn) = counts

\* What an empty content says,
LEMMA NothingMeans == Means(<<>>, FALSE, <<>>)
<1>1. Len(<<>>) = 0 /\ 0 \in Nat /\ 0 < 5
  OBVIOUS
<1>2. Marks(<<>>, 0, <<>>, <<>>)
  <2>1. 1..0 = {}
    OBVIOUS
  <2> QED BY <1>1, <2>1, Zenon DEF Marks
<1>3. HasLines(<<>>, 0, <<>>, <<>>)
  BY <1>1, <1>2, LinesHave, Zenon
<1>4. \A i \in 1..0 : FALSE
  OBVIOUS
<1>5. getSipProfile(<<>>) = FALSE
  BY <1>1, <1>3, <1>4, NoProfile, Zenon
<1>6. getFsStatus(<<>>) = <<>>
  BY <1>1, <1>3, NoStatus, Zenon
<1> QED BY <1>5, <1>6, Zenon DEF Means

\* the notice,
LEMMA NoticeMeans ==
    ASSUME NEW t, NoticeIs(t), NEW cn, Holds(cn, t, 9, 2)
    PROVE  Means(cn, FALSE, <<>>)
<1> DEFINE b == <<1>>
           e == <<1>>
<1>1. BodyTable(t, "text", "disconnect_notice", 11, 3, NoticeB, NoticeE, 9, 2)
  BY NoticeTable
<1>2. 11 \in Nat /\ 3 \in Nat /\ 9 \in Nat /\ 2 \in Nat /\ 1 \in Nat /\ 1 + 2 = 3 /\ 1 < 5
  OBVIOUS
<1>3. Less(b, e, NoticeB, NoticeE, 9, 1)
  BY DEF Less, NoticeB, NoticeE
<1>4. \A i \in 1..1 : b[i] \in Nat /\ b[i] = e[i]
  OBVIOUS
<1> HIDE DEF b, e
<1>5. Marks(cn, 1, b, e)
  BY <1>1, <1>2, <1>3, BodyMarks, Zenon
<1>6. Len(cn) \in Nat
  BY <1>2, Zenon DEF Holds
<1>7. HasLines(cn, 1, b, e)
  BY <1>2, <1>5, <1>6, LinesHave, Zenon
<1>8. getSipProfile(cn) = FALSE
  BY <1>2, <1>4, <1>7, NoProfile, Zenon
<1>9. getFsStatus(cn) = <<>>
  BY <1>2, <1>7, NoStatus, Zenon
<1> QED BY <1>8, <1>9, Zenon DEF Means

\* the SIP address,
LEMMA ProfileMeans ==
    ASSUME NEW t, ProfileIs(t), NEW cn, Holds(cn, t, 9, 5)
    PROVE  Means(cn, TRUE, <<>>)
<1> DEFINE b == <<1, 3>>
           e == <<1, 4>>
<1>1. BodyTable(t, "api", "response", 14, 4, ProfileB, ProfileE, 9, 5)
  BY ProfileTable
<1>2. /\ 14 \in Nat /\ 4 \in Nat /\ 9 \in Nat /\ 2 \in Nat /\ 5 \in Nat /\ 2 + 2 = 4 /\ 2 < 5
      /\ 2 \in 1..2 /\ 3 \in 1..5 /\ 4 \in 1..5 /\ 9 + 3 = 12 /\ 9 + 4 = 13
  OBVIOUS
<1>3. Less(b, e, ProfileB, ProfileE, 9, 2)
  BY DEF Less, ProfileB, ProfileE
<1>4. b[2] = 3 /\ e[2] = 4
  OBVIOUS
<1> HIDE DEF b, e
<1>5. Marks(cn, 2, b, e)
  BY <1>1, <1>2, <1>3, BodyMarks, Zenon
<1>6. Len(cn) \in Nat
  BY <1>2, Zenon DEF Holds
<1>7. HasLines(cn, 2, b, e)
  BY <1>2, <1>5, <1>6, LinesHave, Zenon
<1>8. cn[3] = "internal" /\ cn[4] = "address"
  <2>1. cn[3] = t[12] /\ cn[4] = t[13]
    BY <1>2 DEF Holds
  <2>2. t[12] = "internal" /\ t[13] = "address"
    BY Zenon DEF ProfileIs
  <2> QED BY <2>1, <2>2, Zenon
<1>9. getSipProfile(cn) = TRUE
  <2> DEFINE line == Lines(cn)[2]
  <2>1. IsPart(line, cn, 3, 4) /\ Len(Lines(cn)) = 2
    BY <1>2, <1>4, <1>7, Zenon DEF HasLines
  <2> HIDE DEF line
  <2>2. IsSeq(line) /\ Len(line) = 4 - 3 + 1 /\ \A i \in 1..Len(line) : line[i] = cn[3 + i - 1]
    BY <2>1, Zenon DEF IsPart
  <2>3. 4 - 3 + 1 = 2 /\ 1 \in 1..2 /\ 3 + 1 - 1 = 3 /\ 3 + 2 - 1 = 4
    OBVIOUS
  <2>4. Len(line) = 2 /\ line[1] = "internal" /\ line[2] = "address"
    BY <1>2, <1>8, <2>2, <2>3, Zenon
  <2>5. line = [i \in 1..2 |-> line[i]]
    BY <2>2, <2>4, Zenon DEF IsSeq
  <2>6. line = <<"internal", "address">>
    BY <2>4, <2>5
  <2> QED BY <1>2, <2>1, <2>6, Zenon DEF getSipProfile, line
<1>10. getFsStatus(cn) = <<>>
  BY <1>2, <1>7, NoStatus, Zenon
<1> QED BY <1>9, <1>10, Zenon DEF Means

\* the counts.
LEMMA StatusMeans ==
    ASSUME NEW t, StatusIs(t), NEW cn, Holds(cn, t, 10, 10)
    PROVE  Means(cn, FALSE, <<4, 9>>)
<1> DEFINE b == <<1, 3, 5, 7, 9>>
           e == <<1, 3, 5, 7, 9>>
<1>1. BodyTable(t, "api", "response", 20, 7, StatusB, StatusE, 10, 10)
  BY StatusTable
<1>2. /\ 20 \in Nat /\ 7 \in Nat /\ 10 \in Nat /\ 9 \in Nat /\ 5 \in Nat /\ 5 + 2 = 7 /\ ~(5 < 5)
      /\ 4 \in 1..5 /\ 5 \in 1..5 /\ 7 \in 1..10 /\ 9 \in 1..10 /\ 10 + 7 = 17 /\ 10 + 9 = 19
  OBVIOUS
<1>3. Less(b, e, StatusB, StatusE, 10, 5)
  BY DEF Less, StatusB, StatusE
<1>4. /\ \A i \in 1..5 : b[i] \in Nat /\ b[i] = e[i]
      /\ b[4] = 7 /\ e[4] = 7 /\ b[5] = 9 /\ e[5] = 9
  OBVIOUS
<1> HIDE DEF b, e
<1>5. Marks(cn, 5, b, e)
  BY <1>1, <1>2, <1>3, BodyMarks, Zenon
<1>6. Len(cn) \in Nat
  BY <1>2, Zenon DEF Holds
<1>7. HasLines(cn, 5, b, e)
  BY <1>2, <1>5, <1>6, LinesHave, Zenon
<1>8. cn[7] = "4" /\ cn[9] = "9"
  <2>1. cn[7] = t[17] /\ cn[9] = t[19]
    BY <1>2 DEF Holds
  <2>2. t[17] = "4" /\ t[19] = "9"
    BY Zenon DEF StatusIs
  <2> QED BY <2>1, <2>2, Zenon
<1>9. getSipProfile(cn) = FALSE
  BY <1>2, <1>4, <1>7, NoProfile, Zenon
<1>10. getFsStatus(cn) = <<4, 9>>
  <2> DEFINE four == Lines(cn)[4]
             nine == Lines(cn)[5]
  <2>1. IsPart(four, cn, 7, 7) /\ IsPart(nine, cn, 9, 9) /\ Len(Lines(cn)) = 5
    BY <1>2, <1>4, <1>7, Zenon DEF HasLines
  <2> HIDE DEF four, nine
  <2>2. parseLeadingInteger(four) = <<Value(cn[7])>> /\ parseLeadingInteger(nine) = <<Value(cn[9])>>
    BY <1>2, <1>8, <2>1, Leading, Zenon
  <2>3. parseLeadingInteger(four) = <<4>> /\ parseLeadingInteger(nine) = <<9>>
    BY <1>8, <2>2, Values, Zenon
  <2>4. <<4>> # <<>> /\ <<9>> # <<>> /\ <<4>> \o <<9>> = <<4, 9>>
    <3> DEFINE j == <<4>> \o <<9>>
    <3>1. IsSeq(<<4>>) /\ IsSeq(<<9>>) /\ Len(<<4>>) = 1 /\ Len(<<9>>) = 1 /\ 2 = 1 + 1
      BY DEF IsSeq
    <3>2. Spans(j, <<4>>, 1, <<9>>, 2)
      BY <3>1, JoinSpans, Zenon
    <3> HIDE DEF j
    <3>3. j = [i \in 1..Len(j) |-> j[i]] /\ Len(j) = 2
      BY <3>2, Zenon DEF Spans, IsSeq
    <3>4. j[1] = 4 /\ j[2] = 9
      BY <3>2 DEF Spans
    <3>5. j = <<4, 9>>
      BY <3>3, <3>4
    <3>6. <<4>> # <<>> /\ <<9>> # <<>>
      OBVIOUS
    <3> QED BY <3>5, <3>6, Zenon DEF j
  <2>5. ~(Len(Lines(cn)) < 5)
    BY <1>2, <2>1, Zenon
  <2>6. parseLeadingInteger(Lines(cn)[4]) = <<4>> /\ parseLeadingInteger(Lines(cn)[5]) = <<9>>
    BY <2>3, Zenon DEF four, nine
  <2>7. getFsStatus(cn) = parseLeadingInteger(Lines(cn)[4]) \o parseLeadingInteger(Lines(cn)[5])
    BY <2>4, <2>5, <2>6, Zenon DEF getFsStatus
  <2> QED BY <2>4, <2>6, <2>7, Zenon
<1> QED BY <1>9, <1>10, Zenon DEF Means

-----------------------------------------------------------------------------
(* Where messages may be cut *)

\* Tails and LineEnds of a message, from its text.
LEMMA Places ==
    ASSUME NEW msg \in Message, NEW n \in Nat, Len(Text[msg]) = n, NEW k \in 1..n
    PROVE  /\ k \in Tails[msg] <=> \A j \in (k + 1)..n : Text[msg][j] = nl
           /\ k \in LineEnds[msg] <=>
                /\ \E h \in 2..k : Text[msg][h] = nl /\ Text[msg][h - 1] = nl
                /\ Text[msg][k] = nl
<1> DEFINE text == Text[msg]
<1>1. Tails[msg] = {i \in 1..Len(text) : \A j \in (i + 1)..Len(text) : text[j] = nl}
  BY Zenon DEF Tails
<1>2. LineEnds[msg] = {i \in 1..Len(text) : /\ \E h \in 2..i : text[h] = nl /\ text[h - 1] = nl
                                            /\ text[i] = nl}
  BY Zenon DEF LineEnds
<1> HIDE DEF text
<1>3. Len(text) = n
  BY DEF text
<1>4. k \in Tails[msg] <=> \A j \in (k + 1)..n : text[j] = nl
  BY <1>1, <1>3, Zenon
<1>5. k \in LineEnds[msg] <=> (\E h \in 2..k : text[h] = nl /\ text[h - 1] = nl) /\ text[k] = nl
  BY <1>2, <1>3, Zenon
<1> QED BY <1>4, <1>5, Zenon DEF text

\* Where messages of each kind may be cut.
AuthPlaces(k) == /\ k = 3 => k \notin Tails["auth"] /\ k \notin LineEnds["auth"]
                 /\ k >= 4 => k \in Tails["auth"]

\* These are the places of the request to authenticate,
LEMMA AuthCut == ASSUME NEW k \in 3..6 PROVE AuthPlaces(k)
<1>1. AuthIs(Text["auth"])
  BY AuthText
<1> DEFINE t == Text["auth"]
<1>2. "auth" \in Message
  BY DEF Message, Text
<1> HIDE DEF t
<1>3. Len(t) = 6 /\ t[3] = "half a type" /\ t[4] = "request" /\ t[5] = nl /\ t[6] = nl
  BY <1>1, Zenon DEF AuthIs, Headed, t
<1>4. t[3] # nl /\ t[4] # nl
  BY <1>3 DEF nl
<1>5. 6 \in Nat /\ k \in 1..6 /\ k \in Nat
  OBVIOUS
<1>6. /\ k \in Tails["auth"] <=> \A j \in (k + 1)..6 : t[j] = nl
      /\ k \in LineEnds["auth"] => t[k] = nl
  BY <1>2, <1>3, <1>5, Places, Zenon DEF t
<1>7. k = 3 => 4 \in (k + 1)..6
  OBVIOUS
<1>8. k >= 4 => \A j \in (k + 1)..6 : j = 5 \/ j = 6
  OBVIOUS
<1>9. ASSUME k = 3 PROVE k \notin Tails["auth"] /\ k \notin LineEnds["auth"]
  BY <1>4, <1>6, <1>7, <1>9, Zenon
<1>10. ASSUME k >= 4 PROVE k \in Tails["auth"]
  BY <1>3, <1>6, <1>8, <1>10, Zenon
<1> QED BY <1>9, <1>10, Zenon DEF AuthPlaces

\* Of a reply.
ReplyPlaces(msg, k) == /\ k <= 7 => k \notin Tails[msg] /\ k \notin LineEnds[msg]
                       /\ k >= 8 => k \in Tails[msg]

\* these of a reply,
LEMMA ReplyCut ==
    ASSUME NEW msg \in Message, NEW status \in {"+OK", "+ERR"}, ReplyIs(Text[msg], status),
           NEW k \in 3..10
    PROVE  ReplyPlaces(msg, k)
<1> DEFINE t == Text[msg]
<1> HIDE DEF t
<1>3. Headed(t, "command", "reply", 10) /\ t[6] = "Reply-Text: " /\ t[7] = status
      /\ t[8] = " accepted" /\ t[9] = nl /\ t[10] = nl
  BY Zenon DEF ReplyIs, t
<1>4. Len(t) = 10 /\ t[1] = "Content-Type: " /\ t[2] = "command" /\ t[3] = "half a type" /\ t[4] = "reply"
  BY <1>3, Zenon DEF Headed
<1>5. t[1] # nl /\ t[2] # nl /\ t[3] # nl /\ t[4] # nl /\ t[6] # nl /\ t[7] # nl /\ t[8] # nl
  BY <1>3, <1>4 DEF nl
<1>6. 10 \in Nat /\ k \in 1..10 /\ k \in Nat
  OBVIOUS
<1>7. /\ k \in Tails[msg] <=> \A j \in (k + 1)..10 : t[j] = nl
      /\ k \in LineEnds[msg] <=> (\E h \in 2..k : t[h] = nl /\ t[h - 1] = nl) /\ t[k] = nl
  BY <1>4, <1>6, Places, Zenon DEF t
<1>8. ASSUME k <= 7 PROVE k \notin Tails[msg] /\ k \notin LineEnds[msg]
  <2>1. 8 \in (k + 1)..10
    BY <1>8
  <2>2. k \notin Tails[msg]
    BY <1>5, <1>7, <2>1, Zenon
  <2>3. ASSUME NEW h \in 2..k PROVE t[h] # nl \/ t[h - 1] # nl
    <3>1. \/ h = 2 \/ h = 3 \/ h = 4 \/ h = 6 \/ h = 7 \/ (h = 5 /\ h - 1 = 4)
      BY <1>8
    <3> QED BY <1>5, <3>1, Zenon
  <2> QED BY <1>7, <2>2, <2>3, Zenon
<1>9. ASSUME k >= 8 PROVE k \in Tails[msg]
  <2>1. \A j \in (k + 1)..10 : j = 9 \/ j = 10
    BY <1>9
  <2> QED BY <1>3, <1>7, <2>1, Zenon
<1> QED BY <1>8, <1>9, Zenon DEF ReplyPlaces

\* Of a message with a body.
BodyPlaces(msg, n, h, k) ==
    /\ k \in Tails[msg] <=> k >= n - 1
    /\ k \in LineEnds[msg] <=> k >= h /\ Text[msg][k] = nl

\* and these of a message with a body.
LEMMA BodyCut ==
    ASSUME NEW msg \in Message, NEW c, NEW ty, NEW n \in Nat, NEW M \in Nat, NEW b, NEW e,
           NEW h \in Nat, NEW l \in Nat, BodyTable(Text[msg], c, ty, n, M, b, e, h, l), l >= 2,
           NEW k \in 1..n
    PROVE  BodyPlaces(msg, n, h, k)
<1> DEFINE t == Text[msg]
<1> HIDE DEF t
<1>0. BodyTable(t, c, ty, n, M, b, e, h, l)
  BY DEF t
<1>s. Tabled(t, c, ty, n, M, b, e)
  BY <1>0, Zenon DEF BodyTable
<1>1. /\ M >= 3 /\ e[2] \in Nat /\ 7 <= e[2] /\ e[2] + 2 = h /\ n = h + l /\ b[2] = 6
      /\ b[3] = h + 1 /\ e[M] + 1 = n
  BY <1>0, Zenon DEF BodyTable
<1>2. Len(t) = n /\ Marks(t, M, b, e) /\ e[1] = 4 /\ b[1] = 1
  BY <1>s, Zenon DEF Tabled, Headed
<1>3. \A i \in 1..M : /\ b[i] \in Nat /\ e[i] \in Nat /\ b[i] <= e[i]
                      /\ \A j \in b[i]..e[i] : t[j] # nl
                      /\ b[i] # 1 => t[b[i] - 1] = nl
                      /\ e[i] < Len(t) => t[e[i] + 1] = nl
  BY <1>2, Zenon DEF Marks
<1>4. 1 \in 1..M /\ 2 \in 1..M /\ 3 \in 1..M /\ M \in 1..M
  BY <1>1
<1>5. /\ \A j \in 1..4 : t[j] # nl
      /\ \A j \in 6..e[2] : t[j] # nl
  BY <1>1, <1>2, <1>3, <1>4, Zenon
<1>6. t[n - 1] # nl
  <2>1. b[M] \in Nat /\ e[M] \in Nat /\ b[M] <= e[M] /\ \A j \in b[M]..e[M] : t[j] # nl
    BY <1>3, <1>4, Zenon
  <2>2. e[M] = n - 1 /\ e[M] \in b[M]..e[M]
    <3>1. b[M] \in Nat /\ e[M] \in Nat /\ b[M] <= e[M] /\ e[M] + 1 = n
      BY <1>1, <2>1
    <3> QED BY <3>1
  <2> QED BY <2>1, <2>2, Zenon
<1>7. t[n] = nl
  <2>1. e[M] < Len(t) => t[e[M] + 1] = nl
    BY <1>3, <1>4, Zenon
  <2>2. e[M] < n
    <3>1. e[M] \in Nat
      BY <1>3, <1>4, Zenon
    <3> QED BY <1>1, <3>1
  <2> QED BY <1>1, <1>2, <2>1, <2>2, Zenon
<1>8. t[h] = nl
  <2>1. b[3] # 1 /\ b[3] - 1 = h
    BY <1>1
  <2> QED BY <1>3, <1>4, <2>1, Zenon
<1>9. t[h - 1] = nl
  <2>1. e[2] < n /\ e[2] + 1 = h - 1
    BY <1>1
  <2> QED BY <1>2, <1>3, <1>4, <2>1, Zenon
<1>10. /\ k \in Tails[msg] <=> \A j \in (k + 1)..n : t[j] = nl
       /\ k \in LineEnds[msg] <=> (\E i \in 2..k : t[i] = nl /\ t[i - 1] = nl) /\ t[k] = nl
  BY <1>2, Places, Zenon DEF t
<1>11. k \in Tails[msg] <=> k >= n - 1
  <2>1. ASSUME k >= n - 1 PROVE k \in Tails[msg]
    <3>1. \A j \in (k + 1)..n : j = n
      BY <2>1
    <3> QED BY <1>7, <1>10, <3>1, Zenon
  <2>2. ASSUME ~(k >= n - 1) PROVE k \notin Tails[msg]
    <3>1. n - 1 \in (k + 1)..n
      BY <2>2
    <3> QED BY <1>6, <1>10, <3>1, Zenon
  <2> QED BY <2>1, <2>2
<1>12. k >= h => \E i \in 2..k : t[i] = nl /\ t[i - 1] = nl
  <2>1. k >= h => h \in 2..k
    BY <1>1
  <2> QED BY <1>8, <1>9, <2>1, Zenon
<1>13. ASSUME ~(k >= h), NEW i \in 2..k PROVE t[i] # nl \/ t[i - 1] # nl
  <2>1. i \in 1..4 \/ i - 1 \in 1..4 \/ i \in 6..e[2] \/ i - 1 \in 6..e[2]
    BY <1>1, <1>13
  <2> QED BY <1>5, <2>1, Zenon
<1>14. k \in LineEnds[msg] <=> k >= h /\ t[k] = nl
  BY <1>10, <1>12, <1>13, Zenon
<1> QED BY <1>11, <1>14, Zenon DEF BodyPlaces, t

-----------------------------------------------------------------------------
(* What the parser makes of the beginning of any message *)

\* The message msg, of n atoms of which l are its body, as it fills.
Filled(msg, c, ty, n, h, l) ==
    /\ n \in Nat /\ h \in Nat /\ l \in Nat /\ l # 0 /\ n = h + l /\ Len(Text[msg]) = n
    /\ Incomplete(ty, "undefined")
    /\ \A r, cn : Holds(cn, Text[msg], h, l) =>
          Understood(Msg(r, c, ty, "undefined", l, cn)) = Says(msg)

\* The content of m is being filled with msg, of which q atoms have come.
Fill(m, msg, q) ==
    \E r, c, ty, n, h, l, cn :
        /\ m = Msg(r, c, ty, "undefined", l, cn) /\ IsSeq(r) /\ Filled(msg, c, ty, n, h, l)
        /\ q \in Nat /\ h <= q /\ q < n /\ Holds(cn, Text[msg], h, q - h)

\* What the parser makes of the first q atoms of a message.
Begins(r, p) == ~Done(p) /\ p.msg = Fresh(r)
Ends(msg, p) == Done(p) /\ Understood(p.msg) = Says(msg)
Fills(msg, q, p) == ~Done(p) /\ Fill(p.msg, msg, q)
Spoils(msg, q, p) ==
    \/ ~Done(p) /\ (Stuck(p.msg) \/ Overfull(p.msg, Len(Text[msg]) - q))
    \/ Done(p) /\ Text[msg][q] \in {"+OK", "+ERR"} /\ Text[msg][q + 1] = " accepted"
\* By where it was cut: within two atoms the category is not known.
Outcome(msg, r, q, p) ==
    /\ q <= 2 => Begins(r, p)
    /\ q > 2 /\ q \in Tails[msg] => Ends(msg, p)
    /\ q > 2 /\ q \in LineEnds[msg] /\ q \notin Tails[msg] => Fills(msg, q, p)
    /\ q > 2 /\ q \notin LineEnds[msg] /\ q \notin Tails[msg] => Spoils(msg, q, p)

\* Its first atom is the first of the text.
LEMMA PrefixedFirst ==
    ASSUME NEW r, NEW text, NEW c, NEW ty, NEW n \in Nat, Headed(text, c, ty, n),
           NEW q, Prefixed(r, text, q), q >= 1
    PROVE  First(r, "Content-Type: ")
<1>1. text[1] = "Content-Type: " /\ Len(text) = n
  BY Zenon DEF Headed
<1>2. q \in Nat
  BY <1>1, PrefixedNat
<1>3. /\ Len(r) \in Nat /\ q <= Len(r)
      /\ \A x \in 1..(Len(r) - q) : r[x] = nl
      /\ \A y \in 1..q : r[Len(r) - q + y] = text[y]
  BY Zenon DEF Prefixed
<1> DEFINE j == Len(r) - q + 1
<1>4. /\ j \in 1..Len(r) /\ 1 \in 1..q
      /\ \A i \in 1..Len(r) : i < j => i \in 1..(Len(r) - q)
  <2>1. Len(r) \in Nat /\ q <= Len(r)
    BY <1>3
  <2> QED BY <1>2, <2>1
<1>5. r[j] = text[1]
  BY <1>3, <1>4, Zenon
<1> HIDE DEF j
<1>6. \A i \in 1..Len(r) : i < j => r[i] = nl
  BY <1>3, <1>4, Zenon
<1>7. "Content-Type: " # nl
  BY DEF nl
<1> QED BY <1>1, <1>4, <1>5, <1>6, <1>7, Zenon DEF First

\* A message with a category but without a length, or a reply status, is stuck.
LEMMA StuckIs ==
    ASSUME NEW r, IsSeq(r), First(r, "Content-Type: "), NEW c, c # "unknown_category", NEW ty,
           Incomplete(ty, "undefined"), NEW p,
           p = Ok(Msg(r, c, ty, "undefined", 0, <<>>)) \/ p = Throw(Msg(r, c, ty, "undefined", 0, <<>>))
    PROVE  ~Done(p) /\ Stuck(p.msg)
<1> DEFINE st == "undefined"
           cn == <<>>
           m == Msg(r, c, ty, st, 0, cn)
<1>1. p.msg = m
  BY OkMsg, Zenon
<1>2. 0 \in Nat
  OBVIOUS
<1> HIDE DEF st, cn
<1>3. Judged(r, c, ty, st, 0, cn)
  BY <1>2, CompleteIs, Zenon
<1>4. Incomplete(ty, st)
  BY Zenon DEF st
<1>5. ~m_bComplete(m)
  BY <1>3, <1>4, Zenon DEF Judged
<1>6. Stuck(m)
  BY <1>4, Zenon DEF Stuck
<1> QED BY <1>1, <1>5, <1>6, Zenon DEF Done

\* A message of which no line was understood is not complete.
LEMMA FreshWaits ==
    ASSUME NEW r, NEW p, p = Ok(Fresh(r)) \/ p = Throw(Fresh(r))
    PROVE  Begins(r, p)
<1>1. p.msg = Fresh(r)
  BY OkMsg, Zenon
<1>2. 0 \in Nat
  OBVIOUS
<1>3. Judged(r, "unknown_category", "unknown_type", "undefined", 0, <<>>)
  BY <1>2, CompleteIs, Zenon
<1>4. Incomplete("unknown_type", "undefined")
  BY DEF Incomplete
<1>5. ~m_bComplete(Fresh(r))
  BY <1>3, <1>4, Zenon DEF Judged, Fresh
<1> QED BY <1>1, <1>5, Zenon DEF Done, Begins

\* What is understood of a message.
LEMMA UnderstoodIs ==
    ASSUME NEW r, NEW c, NEW ty, NEW st, NEW L, NEW cn, NEW profile, NEW counts,
           Means(cn, profile, counts)
    PROVE  Same(Understood(Msg(r, c, ty, st, L, cn)),
                [type |-> ty, status |-> st, profile |-> profile, counts |-> counts])
<1> DEFINE m == Msg(r, c, ty, st, L, cn)
<1>1. m.m_type = ty /\ m.m_replyStatus = st /\ m.m_strContent = cn
  BY DEF Msg
<1> HIDE DEF m
<1>2. getSipProfile(cn) = profile /\ getFsStatus(cn) = counts
  BY Zenon DEF Means
<1>3. Understood(m) = [type |-> ty, status |-> st, profile |-> profile, counts |-> counts]
  BY <1>1, <1>2, Zenon DEF Understood
<1> QED BY <1>3, Zenon DEF m, Same

\* What the messages say.
LEMMA SaysIs ==
    /\ Says("auth") = [type |-> "request", status |-> "undefined", profile |-> FALSE, counts |-> <<>>]
    /\ Says("ok") = [type |-> "reply", status |-> "ok", profile |-> FALSE, counts |-> <<>>]
    /\ Says("err") = [type |-> "reply", status |-> "err", profile |-> FALSE, counts |-> <<>>]
    /\ Says("profile") = [type |-> "response", status |-> "undefined", profile |-> TRUE, counts |-> <<>>]
    /\ Says("status") =
         [type |-> "response", status |-> "undefined", profile |-> FALSE, counts |-> <<4, 9>>]
    /\ Says("notice") =
         [type |-> "disconnect_notice", status |-> "undefined", profile |-> FALSE, counts |-> <<>>]
  BY DEF Says

\* The first three atoms of any message, and more if its second line has not begun.
Early(r, c, ty, q, p, M, b) ==
    /\ q <= 2 => Begins(r, p)
    /\ q = 3 => ~Done(p) /\ Stuck(p.msg)
    /\ q >= 4 /\ (\A i \in 2..M : b[i] > q) => p = Ok(Msg(r, c, ty, "undefined", 0, <<>>))

\* So it is for every message.
LEMMA EarlyOutcome ==
    ASSUME NEW text, NEW c, NEW ty, NEW n, NEW M, NEW b, NEW e, Tabled(text, c, ty, n, M, b, e),
           c # "unknown_category", NEW r, IsSeq(r), NEW q, Prefixed(r, text, q), NEW data
    PROVE  Early(r, c, ty, q, parse(Fresh(r), data), M, b)
<1> DEFINE p == parse(Fresh(r), data)
<1>1. /\ q = 0 => p = Ok(Fresh(r))
      /\ q \in 1..2 => p = Throw(Fresh(r))
      /\ q = 3 => p = Throw(Msg(r, c, "unknown_type", "undefined", 0, <<>>))
      /\ q >= 4 /\ (\A i \in 2..M : b[i] > q) => p = Ok(Msg(r, c, ty, "undefined", 0, <<>>))
  BY HeadParsed
<1> HIDE DEF p
<1>2. Headed(text, c, ty, n) /\ n \in Nat /\ Len(text) = n
  BY Zenon DEF Tabled, Headed
<1>3. q \in Nat
  BY <1>2, PrefixedNat
<1>4. q <= 2 => q = 0 \/ q \in 1..2
  BY <1>3
<1>5. q <= 2 => Begins(r, p)
  BY <1>1, <1>4, FreshWaits, Zenon
<1>6. ASSUME q = 3 PROVE ~Done(p) /\ Stuck(p.msg)
  <2>1. q >= 1
    BY <1>6
  <2>2. First(r, "Content-Type: ")
    BY <1>2, <2>1, PrefixedFirst
  <2>3. Incomplete("unknown_type", "undefined")
    BY DEF Incomplete
  <2>4. p = Throw(Msg(r, c, "unknown_type", "undefined", 0, <<>>))
    BY <1>1, <1>6, Zenon
  <2> QED BY <2>2, <2>3, <2>4, StuckIs, Zenon
<1>7. Early(r, c, ty, q, p, M, b)
  BY <1>1, <1>5, <1>6, Zenon DEF Early
<1> QED BY <1>7 DEF p

\* The outcome for the request to authenticate,
LEMMA AuthOutcome ==
    ASSUME NEW r, IsSeq(r), NEW q, Prefixed(r, Text["auth"], q), NEW data
    PROVE  Outcome("auth", r, q, parse(Fresh(r), data))
<1> DEFINE p == parse(Fresh(r), data)
           t == Text["auth"]
           m == Msg(r, "auth", "request", "undefined", 0, <<>>)
<1>0. AuthIs(t) /\ Prefixed(r, t, q)
  BY AuthText
<1> HIDE DEF t
<1>1. Tabled(t, "auth", "request", 6, 1, AuthB, AuthE)
  BY <1>0, AuthTabled, Zenon
<1>2. Len(t) = 6 /\ 6 \in Nat
  BY <1>0, Zenon DEF AuthIs, Headed
<1>3. q \in Nat /\ q <= 6
  BY <1>0, <1>2, PrefixedNat
<1>4. "auth" # "unknown_category"
  OBVIOUS
<1>5. Early(r, "auth", "request", q, p, 1, AuthB)
  BY <1>0, <1>1, <1>4, EarlyOutcome, Zenon
<1> HIDE DEF p
<1>6. q <= 2 => Begins(r, p)
  BY <1>5, Zenon DEF Early
<1>7. ASSUME q = 3 PROVE Spoils("auth", q, p) /\ q \notin Tails["auth"] /\ q \notin LineEnds["auth"]
  <2>1. ~Done(p) /\ Stuck(p.msg)
    BY <1>5, <1>7, Zenon DEF Early
  <2>2. Spoils("auth", q, p)
    BY <2>1, Zenon DEF Spoils
  <2>3. 3 \in 3..6
    OBVIOUS
  <2>4. AuthPlaces(q)
    BY <1>7, <2>3, AuthCut, Zenon
  <2> QED BY <1>7, <2>2, <2>4, Zenon DEF AuthPlaces
<1>8. ASSUME q >= 4 PROVE Ends("auth", p) /\ q \in Tails["auth"]
  <2>1. \A i \in 2..1 : AuthB[i] > q
    OBVIOUS
  <2>2. p = Ok(m)
    BY <1>5, <1>8, <2>1, Zenon DEF Early
  <2>3. p.msg = m /\ ~p.thrown
    BY <2>2, OkMsg, Zenon
  <2>4. m_bComplete(m)
    BY DEF m_bComplete, Msg
  <2>5. Understood(m) = Says("auth")
    <3>1. Same(Understood(m), [type |-> "request", status |-> "undefined",
                               profile |-> FALSE, counts |-> <<>>])
      BY NothingMeans, UnderstoodIs, Zenon
    <3> HIDE DEF m
    <3> QED BY <3>1, SaysIs, Zenon DEF Same
  <2>6. q \in 3..6
    BY <1>3, <1>8
  <2>7. AuthPlaces(q)
    BY <2>6, AuthCut, Zenon
  <2> HIDE DEF m
  <2> QED BY <1>8, <2>3, <2>4, <2>5, <2>7, Zenon DEF Ends, Done, AuthPlaces
<1>9. q > 2 => q = 3 \/ q >= 4
  BY <1>3
<1>10. ~(q > 2 /\ q <= 2)
  BY <1>3
<1>11. Outcome("auth", r, q, p)
  BY <1>6, <1>7, <1>8, <1>9, Zenon DEF Outcome
<1> QED BY <1>11 DEF p

\* for a reply,
LEMMA ReplyOutcome ==
    ASSUME NEW msg \in Message, NEW status \in {"+OK", "+ERR"}, ReplyIs(Text[msg], status),
           Says(msg) = [type |-> "reply", status |-> IF status = "+OK" THEN "ok" ELSE "err",
                        profile |-> FALSE, counts |-> <<>>],
           NEW r, IsSeq(r), NEW q, Prefixed(r, Text[msg], q), NEW data
    PROVE  Outcome(msg, r, q, parse(Fresh(r), data))
<1> DEFINE p == parse(Fresh(r), data)
           t == Text[msg]
           ok == IF status = "+OK" THEN "ok" ELSE "err"
           m == Msg(r, "command", "reply", ok, 0, <<>>)
<1>0. ReplyIs(t, status) /\ Prefixed(r, t, q)
  OBVIOUS
<1> HIDE DEF t
<1>1. Tabled(t, "command", "reply", 10, 2, ReplyB, ReplyE)
  BY <1>0, ReplyTabled
<1>2. Len(t) = 10 /\ 10 \in Nat /\ t[7] = status /\ t[8] = " accepted" /\ Headed(t, "command", "reply", 10)
  BY <1>0, Zenon DEF ReplyIs, Headed
<1>3. q \in Nat /\ q <= 10
  BY <1>0, <1>2, PrefixedNat
<1>4. "command" # "unknown_category"
  OBVIOUS
<1>5. Early(r, "command", "reply", q, p, 2, ReplyB)
  BY <1>0, <1>1, <1>4, EarlyOutcome, Zenon
<1>5a. q >= 6 => /\ q = 6 => p = Throw(Msg(r, "command", "reply", "undefined", 0, <<>>))
                 /\ q >= 7 => p = Ok(m)
  BY <1>0, ReplyParsed
<1> HIDE DEF p
<1>6. q <= 2 => Begins(r, p)
  BY <1>5, Zenon DEF Early
<1>7. ASSUME q > 2, q < 7 PROVE ~Done(p) /\ Stuck(p.msg)
  <2>1. CASE q = 3
    BY <1>5, <2>1, Zenon DEF Early
  <2>2. CASE q # 3
    <3>1. (q >= 4 /\ q < 6) \/ (q >= 6 /\ q = 6)
      BY <1>3, <1>7, <2>2
    <3>2. q < 6 => \A i \in 2..2 : ReplyB[i] > q
      BY <1>3 DEF ReplyB
    <3>3. \/ p = Ok(Msg(r, "command", "reply", "undefined", 0, <<>>))
          \/ p = Throw(Msg(r, "command", "reply", "undefined", 0, <<>>))
      BY <1>5, <1>5a, <3>1, <3>2, Zenon DEF Early
    <3>4. q >= 1
      BY <1>3, <1>7
    <3>5. First(r, "Content-Type: ")
      BY <1>0, <1>2, <3>4, PrefixedFirst
    <3>6. Incomplete("reply", "undefined")
      BY DEF Incomplete
    <3> QED BY <1>4, <3>3, <3>5, <3>6, StuckIs, Zenon
  <2> QED BY <2>1, <2>2
<1>8. ASSUME q >= 7 PROVE Done(p) /\ Understood(p.msg) = Says(msg)
  <2>1. p = Ok(m)
    <3>1. q >= 6
      BY <1>3, <1>8
    <3> QED BY <1>5a, <1>8, <3>1, Zenon
  <2>2. p.msg = m /\ ~p.thrown
    BY <2>1, OkMsg, Zenon
  <2>3. ok # "undefined"
    OBVIOUS
  <2> HIDE DEF ok
  <2>4. m_bComplete(m)
    BY <2>3 DEF m_bComplete, Msg
  <2>5. Same(Understood(m), [type |-> "reply", status |-> ok, profile |-> FALSE, counts |-> <<>>])
    BY NothingMeans, UnderstoodIs, Zenon
  <2>6. Understood(m) = Says(msg)
    <3> HIDE DEF m
    <3> QED BY <2>5, Zenon DEF ok, Same
  <2> HIDE DEF m
  <2> QED BY <2>2, <2>4, <2>6, Zenon DEF Done
<1>9. q > 2 => ReplyPlaces(msg, q)
  <2>1. q > 2 => q \in 3..10
    BY <1>3
  <2> QED BY <1>0, <2>1, ReplyCut DEF t
<1>10. q > 2 => (q < 7 /\ q <= 7) \/ (q = 7 /\ q <= 7 /\ q >= 7 /\ q + 1 = 8) \/ (q >= 8 /\ q >= 7)
  BY <1>3
<1>11. CASE q <= 2
  <2>1. ~(q > 2)
    BY <1>3, <1>11
  <2> QED BY <1>6, <1>11, <2>1, Zenon DEF Outcome, p
<1>12. CASE q > 2 /\ q < 7 /\ q <= 7
  <2>1. q \notin Tails[msg] /\ q \notin LineEnds[msg]
    BY <1>9, <1>12, Zenon DEF ReplyPlaces
  <2>2. Spoils(msg, q, p)
    BY <1>7, <1>12, Zenon DEF Spoils
  <2>3. ~(q <= 2)
    BY <1>3, <1>12
  <2> QED BY <2>1, <2>2, <2>3, Zenon DEF Outcome, p
<1>13. CASE q > 2 /\ q = 7 /\ q <= 7 /\ q >= 7 /\ q + 1 = 8
  <2>1. q \notin Tails[msg] /\ q \notin LineEnds[msg]
    BY <1>9, <1>13, Zenon DEF ReplyPlaces
  <2>2. t[q] \in {"+OK", "+ERR"} /\ t[q + 1] = " accepted"
    BY <1>2, <1>13, Zenon
  <2>3. Spoils(msg, q, p)
    BY <1>8, <1>13, <2>2, Zenon DEF Spoils, t
  <2>4. ~(q <= 2)
    BY <1>13
  <2> QED BY <2>1, <2>3, <2>4, Zenon DEF Outcome, p
<1>14. CASE q > 2 /\ q >= 8 /\ q >= 7
  <2>1. q \in Tails[msg]
    BY <1>9, <1>14, Zenon DEF ReplyPlaces
  <2>2. Ends(msg, p)
    BY <1>8, <1>14, Zenon DEF Ends
  <2>4. ~(q <= 2)
    BY <1>3, <1>14
  <2> QED BY <2>1, <2>2, <2>4, Zenon DEF Outcome, p
<1>15. q <= 2 \/ q > 2
  BY <1>3
<1> QED BY <1>10, <1>11, <1>12, <1>13, <1>14, <1>15, Zenon

\* A message with a body: its table, its announced length and what its content says.
Bodied(msg, c, ty, n, M, b, e, h, l) ==
    /\ n \in Nat /\ M \in Nat /\ h \in Nat /\ l \in Nat /\ l >= 2
    /\ BodyTable(Text[msg], c, ty, n, M, b, e, h, l)
    /\ \A q \in Nat : q >= 7 => Measured(Text[msg], e, q, h, l)
    /\ c # "unknown_category" /\ Incomplete(ty, "undefined")
    /\ \A r, cn : Holds(cn, Text[msg], h, l) =>
          Understood(Msg(r, c, ty, "undefined", l, cn)) = Says(msg)

\* More than is missing is still to come.
LEMMA OverfullIs ==
    ASSUME NEW r, IsSeq(r), NEW c, NEW ty, Incomplete(ty, "undefined"), NEW L \in Nat, L # 0,
           NEW cn, IsSeq(cn), NEW x \in Nat, Len(cn) = x, x # L, NEW rest \in Nat, x + rest > L,
           NEW p, p = Ok(Msg(r, c, ty, "undefined", L, cn))
    PROVE  ~Done(p) /\ Overfull(p.msg, rest)
<1> DEFINE st == "undefined"
           m == Msg(r, c, ty, st, L, cn)
<1>1. p.msg = m
  BY OkMsg, Zenon
<1> HIDE DEF st
<1>3. Judged(r, c, ty, st, L, cn)
  BY CompleteIs, Zenon
<1>4. Incomplete(ty, st)
  BY Zenon DEF st
<1>5. ~m_bComplete(m)
  BY <1>3, <1>4, Zenon DEF Judged
<1>6. Overfull(m, rest)
  BY <1>4, Zenon DEF Overfull
<1> QED BY <1>1, <1>5, <1>6, Zenon DEF Done

\* The content is all there.
LEMMA FullIs ==
    ASSUME NEW msg, NEW r, NEW c, NEW ty, NEW h, NEW l \in Nat, l # 0, NEW cn,
           Holds(cn, Text[msg], h, l),
           \A r1, cn1 : Holds(cn1, Text[msg], h, l) =>
              Understood(Msg(r1, c, ty, "undefined", l, cn1)) = Says(msg),
           NEW p, p = Ok(Msg(r, c, ty, "undefined", l, cn))
    PROVE  Ends(msg, p)
<1> DEFINE m == Msg(r, c, ty, "undefined", l, cn)
<1>1. p.msg = m /\ ~p.thrown
  BY OkMsg, Zenon
<1>2. Judged(r, c, ty, "undefined", l, cn)
  BY CompleteIs, Zenon
<1>3. Len(cn) = l
  BY Zenon DEF Holds
<1>4. m_bComplete(m)
  BY <1>2, <1>3, Zenon DEF Judged
<1>5. Understood(m) = Says(msg)
  OBVIOUS
<1> HIDE DEF m
<1> QED BY <1>1, <1>4, <1>5, Zenon DEF Ends, Done

\* Some of the content is missing.
LEMMA FillIs ==
    ASSUME NEW msg, NEW r, IsSeq(r), NEW c, NEW ty, NEW n, NEW h, NEW l,
           Filled(msg, c, ty, n, h, l), NEW q \in Nat, h <= q, q < n, NEW cn,
           Holds(cn, Text[msg], h, q - h), NEW p, p = Ok(Msg(r, c, ty, "undefined", l, cn))
    PROVE  Fills(msg, q, p)
<1> DEFINE m == Msg(r, c, ty, "undefined", l, cn)
<1>1. p.msg = m
  BY OkMsg, Zenon
<1>2. n \in Nat /\ h \in Nat /\ l \in Nat /\ n = h + l /\ Incomplete(ty, "undefined")
  BY Zenon DEF Filled
<1>3. Judged(r, c, ty, "undefined", l, cn)
  BY <1>2, CompleteIs, Zenon
<1>4. Len(cn) = q - h
  BY Zenon DEF Holds
<1>5. q - h # l
  BY <1>2
<1>6. ~m_bComplete(m)
  BY <1>2, <1>3, <1>4, <1>5, Zenon DEF Judged
<1>7. Fill(m, msg, q)
  BY Zenon DEF Fill
<1> HIDE DEF m
<1> QED BY <1>1, <1>6, <1>7, Zenon DEF Fills, Done

\* The outcome for a message with a body when a digit of its length has come,
LEMMA LateOutcome ==
    ASSUME NEW msg \in Message, NEW c, NEW ty, NEW n \in Nat, NEW M \in Nat, NEW b, NEW e,
           NEW h \in Nat, NEW l \in Nat, Bodied(msg, c, ty, n, M, b, e, h, l),
           NEW r, IsSeq(r), NEW q \in Nat, Prefixed(r, Text[msg], q), q >= 7, NEW data
    PROVE  Outcome(msg, r, q, parse(Fresh(r), data))
<1> DEFINE p == parse(Fresh(r), data)
           t == Text[msg]
<1>0. BodyTable(t, c, ty, n, M, b, e, h, l) /\ Measured(t, e, q, h, l) /\ Prefixed(r, t, q)
  BY Zenon DEF Bodied
<1>1. l >= 2 /\ Incomplete(ty, "undefined")
  BY Zenon DEF Bodied
<1>m. \A r1, cn1 : Holds(cn1, t, h, l) =>
         Understood(Msg(r1, c, ty, "undefined", l, cn1)) = Says(msg)
  BY Zenon DEF Bodied
<1>2. n = h + l /\ Tabled(t, c, ty, n, M, b, e)
  BY <1>0, Zenon DEF BodyTable
<1>3. Len(t) = n
  BY <1>2, Zenon DEF Tabled, Headed
<1>4. q <= n
  BY <1>0, <1>3, PrefixedNat
<1>5. q >= 6 /\ q > 2 /\ ~(q <= 2) /\ l # 0
  BY <1>1
<1>6. BodyResult(p, r, c, ty, t, n, h, l, q)
  BY <1>0, <1>1, <1>5, BodyParsed, Zenon
<1>7. BodyPlaces(msg, n, h, q)
  <2>1. q \in 1..n
    BY <1>4
  <2> QED BY <1>0, <1>1, <2>1, BodyCut, Zenon
<1>8. /\ q \in Tails[msg] <=> q >= n - 1
      /\ q \in LineEnds[msg] <=> q >= h /\ t[q] = nl
  BY <1>7, Zenon DEF BodyPlaces
<1> HIDE DEF p
<1>9. PICK L, cn : /\ p = Ok(Msg(r, c, ty, "undefined", L, cn)) /\ IsSeq(cn)
                   /\ L \in Nat /\ L # 0 /\ L <= l /\ (q >= h => L = l)
                   /\ q <= h => Holds(cn, t, h, 0)
                   /\ q > h /\ t[q] = nl => Holds(cn, t, h, q - h)
                   /\ q > h /\ t[q] # nl => Len(cn) = q + 1 - h
                   /\ q = n - 1 => Holds(cn, t, h, l)
  BY <1>6, Zenon DEF BodyResult
<1>10. ASSUME q \in Tails[msg] PROVE Ends(msg, p)
  <2>1. q >= n - 1
    BY <1>8, <1>10, Zenon
  <2>2. q >= h
    BY <1>1, <1>2, <2>1
  <2>3. L = l
    BY <1>9, <2>2, Zenon
  <2>4. Holds(cn, t, h, l)
    <3>1. CASE q = n - 1
      BY <1>9, <3>1, Zenon
    <3>2. CASE q = n
      <4>1. q > h /\ q - h = l
        BY <1>1, <1>2, <3>2
      <4>2. t[q] = nl
        <5>0. M >= 3
          BY <1>0, Zenon DEF BodyTable
        <5>1. M \in 3..M
          BY <5>0
        <5>2. e[M] + 1 = n /\ t[e[M] + 1] = nl
          BY <1>0, <5>1, Zenon DEF BodyTable
        <5> QED BY <3>2, <5>2, Zenon
      <4> QED BY <1>9, <4>1, <4>2, Zenon
    <3>3. q = n - 1 \/ q = n
      BY <1>4, <2>1
    <3> QED BY <3>1, <3>2, <3>3
  <2> HIDE DEF t
  <2>5. p = Ok(Msg(r, c, ty, "undefined", l, cn))
    BY <1>9, <2>3, Zenon
  <2> QED BY <1>m, <1>5, <2>4, <2>5, FullIs, Zenon DEF t
<1>11. ASSUME q \in LineEnds[msg], q \notin Tails[msg] PROVE Fills(msg, q, p)
  <2>1. q >= h /\ t[q] = nl /\ ~(q >= n - 1)
    BY <1>8, <1>11, Zenon
  <2>2. q < n /\ h <= q /\ (q > h \/ (q <= h /\ q - h = 0))
    BY <2>1
  <2>3. L = l
    BY <1>9, <2>1, Zenon
  <2>4. Holds(cn, t, h, q - h)
    BY <1>9, <2>1, <2>2, Zenon
  <2>5. Filled(msg, c, ty, n, h, l)
    BY <1>m, <1>1, <1>2, <1>3, <1>5, Zenon DEF Filled
  <2>6. p = Ok(Msg(r, c, ty, "undefined", l, cn))
    BY <1>9, <2>3, Zenon
  <2> QED BY <2>2, <2>4, <2>5, <2>6, FillIs, Zenon
<1>12. ASSUME q \notin LineEnds[msg], q \notin Tails[msg] PROVE Spoils(msg, q, p)
  <2>1. (~(q >= h) \/ t[q] # nl) /\ ~(q >= n - 1)
    BY <1>8, <1>12, Zenon
  <2> DEFINE rest == n - q
  <2>2. rest \in Nat
    BY <1>4
  <2>3. PICK x \in Nat : Len(cn) = x /\ x # L /\ x + rest > L
    <3>1. CASE ~(q >= h)
      <4>1. q <= h
        BY <3>1
      <4>2. Len(cn) = 0
        BY <1>9, <4>1, Zenon DEF Holds
      <4>3. L \in Nat /\ L # 0 /\ L <= l
        BY <1>9
      <4>4. 0 # L /\ 0 + rest > L /\ 0 \in Nat
        BY <1>2, <3>1, <4>3
      <4> QED BY <4>2, <4>4, Zenon
    <3>2. CASE q >= h /\ t[q] # nl
      <4>0. q # h
        <5>1. t[h] = nl
          <6>1. 3 \in 1..M /\ b[3] # 1 /\ b[3] - 1 = h
            <7>1. M >= 3 /\ b[3] = h + 1 /\ e[2] + 2 = h /\ 7 <= e[2] /\ e[2] \in Nat
              BY <1>0, Zenon DEF BodyTable
            <7> QED BY <7>1
          <6>2. Marks(t, M, b, e)
            BY <1>2, Zenon DEF Tabled
          <6> QED BY <6>1, <6>2, Zenon DEF Marks
        <5> QED BY <3>2, <5>1, Zenon
      <4>1. q > h
        BY <3>2, <4>0
      <4>2. Len(cn) = q + 1 - h /\ L = l
        BY <1>9, <3>2, <4>1, Zenon
      <4>3. L = l
        BY <4>2
      <4> DEFINE x == q + 1 - h
      <4>4. x \in Nat /\ x # L /\ x + rest > L
        BY <1>2, <2>1, <4>1, <4>3
      <4> HIDE DEF x
      <4> QED BY <4>2, <4>4, Zenon DEF x
    <3> QED BY <2>1, <3>1, <3>2, Zenon
  <2> HIDE DEF rest
  <2>4. ~Done(p) /\ Overfull(p.msg, rest)
    BY <1>1, <1>9, <2>2, <2>3, OverfullIs, Zenon
  <2> QED BY <1>3, <2>4, Zenon DEF Spoils, rest
<1>13. Outcome(msg, r, q, p)
  BY <1>5, <1>10, <1>11, <1>12, Zenon DEF Outcome
<1> QED BY <1>13 DEF p

\* and for it from its first atom on.
LEMMA BodyOutcome ==
    ASSUME NEW msg \in Message, NEW c, NEW ty, NEW n \in Nat, NEW M \in Nat, NEW b, NEW e,
           NEW h \in Nat, NEW l \in Nat, Bodied(msg, c, ty, n, M, b, e, h, l),
           NEW r, IsSeq(r), NEW q, Prefixed(r, Text[msg], q), NEW data
    PROVE  Outcome(msg, r, q, parse(Fresh(r), data))
<1> DEFINE p == parse(Fresh(r), data)
           t == Text[msg]
<1>0. BodyTable(t, c, ty, n, M, b, e, h, l) /\ Prefixed(r, t, q)
  BY Zenon DEF Bodied
<1>1. l >= 2 /\ Incomplete(ty, "undefined") /\ c # "unknown_category"
  BY Zenon DEF Bodied
<1>2. /\ n = h + l /\ Tabled(t, c, ty, n, M, b, e) /\ M \in Nat /\ M >= 3 /\ b[2] = 6
      /\ e[2] \in Nat /\ 7 <= e[2] /\ e[2] + 2 = h /\ b[3] = h + 1
  BY <1>0, Zenon DEF BodyTable
<1>3. Len(t) = n /\ Headed(t, c, ty, n)
  BY <1>2, Zenon DEF Tabled, Headed
<1>4. q \in Nat /\ q <= n
  BY <1>0, <1>3, PrefixedNat
<1>5. Early(r, c, ty, q, p, M, b)
  BY <1>0, <1>1, <1>2, EarlyOutcome, Zenon
<1>6. CASE q >= 7
  BY <1>4, <1>6, LateOutcome, Zenon
<1>7. CASE q <= 2
  <2>1. ~(q > 2)
    BY <1>4, <1>7
  <2>2. Begins(r, p)
    BY <1>5, <1>7, Zenon DEF Early
  <2> HIDE DEF p
  <2>3. Outcome(msg, r, q, p)
    BY <2>1, <2>2, Zenon DEF Outcome
  <2> QED BY <2>3, Zenon DEF p
<1>8. CASE q > 2 /\ q < 7
  <2>1. ~Done(p) /\ Stuck(p.msg)
    <3>1. CASE q = 3
      BY <1>5, <3>1, Zenon DEF Early
    <3>2. CASE q # 3
      <4>1. p = Ok(Msg(r, c, ty, "undefined", 0, <<>>))
        <5>1. CASE q = 6
          <6>1. Prefixed(r, t, 6)
            BY <1>0, <5>1
          <6>2. Same(p, Ok(Msg(r, c, ty, "undefined", 0, <<>>)))
            BY <1>0, <6>1, CutAtLength, Zenon
          <6> QED BY <6>2, Zenon DEF Same
        <5>2. CASE q # 6
          <6>1. q >= 4 /\ q < 6
            BY <1>4, <1>8, <3>2, <5>2
          <6>2. \A i \in 2..M : b[i] \in Nat /\ b[i] >= 6
            BY <1>2, Zenon DEF Tabled
          <6>3. \A i \in 2..M : b[i] > q
            BY <1>4, <6>1, <6>2
          <6> QED BY <1>5, <6>1, <6>3, Zenon DEF Early
        <5> QED BY <5>1, <5>2
      <4>2. q >= 1
        BY <1>4, <1>8
      <4>3. First(r, "Content-Type: ")
        BY <1>0, <1>3, <4>2, PrefixedFirst
      <4> HIDE DEF p
      <4> QED BY <1>1, <4>1, <4>3, StuckIs, Zenon
    <3> QED BY <3>1, <3>2
  <2>2. BodyPlaces(msg, n, h, q)
    <3>1. q \in 1..n
      BY <1>4, <1>8
    <3> QED BY <1>0, <1>1, <3>1, BodyCut, Zenon
  <2>3. ~(q >= n - 1) /\ ~(q >= h) /\ ~(q <= 2)
    BY <1>1, <1>2, <1>4, <1>8
  <2>4. q \notin Tails[msg] /\ q \notin LineEnds[msg]
    BY <2>2, <2>3, Zenon DEF BodyPlaces
  <2> HIDE DEF p
  <2>5. Spoils(msg, q, p)
    BY <2>1, Zenon DEF Spoils
  <2>6. Outcome(msg, r, q, p)
    BY <2>3, <2>4, <2>5, Zenon DEF Outcome
  <2> QED BY <2>6, Zenon DEF p
<1>9. q >= 7 \/ q <= 2 \/ (q > 2 /\ q < 7)
  BY <1>4
<1> QED BY <1>6, <1>7, <1>8, <1>9

\* The three messages with a body: the SIP address,
LEMMA ProfileBodied == Bodied("profile", "api", "response", 14, 4, ProfileB, ProfileE, 9, 5)
<1> DEFINE t == Text["profile"]
<1>1. ProfileIs(t)
  BY ProfileText
<1>2. BodyTable(t, "api", "response", 14, 4, ProfileB, ProfileE, 9, 5)
  BY <1>1, ProfileTable, Zenon
<1>3. \A q \in Nat : q >= 7 => Measured(t, ProfileE, q, 9, 5)
  BY <1>1, ProfileMeasured, Zenon
<1>4. 14 \in Nat /\ 4 \in Nat /\ 9 \in Nat /\ 5 \in Nat /\ 5 >= 2
  OBVIOUS
<1>5. "api" # "unknown_category" /\ Incomplete("response", "undefined")
  BY DEF Incomplete
<1>6. ASSUME NEW r, NEW cn, Holds(cn, t, 9, 5)
      PROVE  Understood(Msg(r, "api", "response", "undefined", 5, cn)) = Says("profile")
  <2>1. Means(cn, TRUE, <<>>)
    BY <1>1, <1>6, ProfileMeans, Zenon
  <2>2. Same(Understood(Msg(r, "api", "response", "undefined", 5, cn)),
             [type |-> "response", status |-> "undefined", profile |-> TRUE, counts |-> <<>>])
    BY <2>1, UnderstoodIs, Zenon
  <2> QED BY <2>2, SaysIs, Zenon DEF Same
<1> QED BY <1>2, <1>3, <1>4, <1>5, <1>6, Zenon DEF Bodied

\* the counts,
LEMMA StatusBodied == Bodied("status", "api", "response", 20, 7, StatusB, StatusE, 10, 10)
<1> DEFINE t == Text["status"]
<1>1. StatusIs(t)
  BY StatusText
<1>2. BodyTable(t, "api", "response", 20, 7, StatusB, StatusE, 10, 10)
  BY <1>1, StatusTable, Zenon
<1>3. \A q \in Nat : q >= 7 => Measured(t, StatusE, q, 10, 10)
  BY <1>1, StatusMeasured, Zenon
<1>4. 20 \in Nat /\ 7 \in Nat /\ 10 \in Nat /\ 10 >= 2
  OBVIOUS
<1>5. "api" # "unknown_category" /\ Incomplete("response", "undefined")
  BY DEF Incomplete
<1>6. ASSUME NEW r, NEW cn, Holds(cn, t, 10, 10)
      PROVE  Understood(Msg(r, "api", "response", "undefined", 10, cn)) = Says("status")
  <2>1. Means(cn, FALSE, <<4, 9>>)
    BY <1>1, <1>6, StatusMeans, Zenon
  <2>2. Same(Understood(Msg(r, "api", "response", "undefined", 10, cn)),
             [type |-> "response", status |-> "undefined", profile |-> FALSE, counts |-> <<4, 9>>])
    BY <2>1, UnderstoodIs, Zenon
  <2> QED BY <2>2, SaysIs, Zenon DEF Same
<1> QED BY <1>2, <1>3, <1>4, <1>5, <1>6, Zenon DEF Bodied

\* the notice.
LEMMA NoticeBodied ==
    Bodied("notice", "text", "disconnect_notice", 11, 3, NoticeB, NoticeE, 9, 2)
<1> DEFINE t == Text["notice"]
<1>1. NoticeIs(t)
  BY NoticeText
<1>2. BodyTable(t, "text", "disconnect_notice", 11, 3, NoticeB, NoticeE, 9, 2)
  BY <1>1, NoticeTable, Zenon
<1>3. \A q \in Nat : q >= 7 => Measured(t, NoticeE, q, 9, 2)
  BY <1>1, NoticeMeasured, Zenon
<1>4. 11 \in Nat /\ 3 \in Nat /\ 9 \in Nat /\ 2 \in Nat /\ 2 >= 2
  OBVIOUS
<1>5. "text" # "unknown_category" /\ Incomplete("disconnect_notice", "undefined")
  BY DEF Incomplete
<1>6. ASSUME NEW r, NEW cn, Holds(cn, t, 9, 2)
      PROVE  Understood(Msg(r, "text", "disconnect_notice", "undefined", 2, cn)) = Says("notice")
  <2>1. Means(cn, FALSE, <<>>)
    BY <1>1, <1>6, NoticeMeans, Zenon
  <2>2. Same(Understood(Msg(r, "text", "disconnect_notice", "undefined", 2, cn)),
             [type |-> "disconnect_notice", status |-> "undefined", profile |-> FALSE,
              counts |-> <<>>])
    BY <2>1, UnderstoodIs, Zenon
  <2> QED BY <2>2, SaysIs, Zenon DEF Same
<1> QED BY <1>2, <1>3, <1>4, <1>5, <1>6, Zenon DEF Bodied

\* There are six messages.
LEMMA Messages == Message = {"auth", "ok", "err", "profile", "status", "notice"}
  BY DEF Message, Text

\* Two of them are replies.
LEMMA ReplyTexts == Text["ok"] = ReplyText("+OK") /\ Text["err"] = ReplyText("+ERR")
  BY Zenon DEF Text

\* What the parser makes of the first q atoms of any message, whatever newlines come before.
LEMMA ParseOutcome ==
    ASSUME NEW msg \in Message, NEW r, IsSeq(r), NEW q, Prefixed(r, Text[msg], q), NEW data
    PROVE  Outcome(msg, r, q, parse(Fresh(r), data))
<1>1. CASE msg = "auth"
  BY <1>1, AuthOutcome, Zenon
<1>2. CASE msg = "ok"
  <2>1. ReplyIs(Text[msg], "+OK")
    BY <1>2, ReplyTexts, ReplyTextIs, Zenon
  <2>2. (IF "+OK" = "+OK" THEN "ok" ELSE "err") = "ok" /\ "+OK" \in {"+OK", "+ERR"}
    OBVIOUS
  <2>3. Says(msg) = [type |-> "reply", status |-> IF "+OK" = "+OK" THEN "ok" ELSE "err",
                     profile |-> FALSE, counts |-> <<>>]
    BY <1>2, <2>2, SaysIs, Zenon
  <2> QED BY <2>1, <2>2, <2>3, ReplyOutcome, Zenon
<1>3. CASE msg = "err"
  <2>1. ReplyIs(Text[msg], "+ERR")
    BY <1>3, ReplyTexts, ReplyTextIs, Zenon
  <2>2. (IF "+ERR" = "+OK" THEN "ok" ELSE "err") = "err" /\ "+ERR" \in {"+OK", "+ERR"}
    OBVIOUS
  <2>3. Says(msg) = [type |-> "reply", status |-> IF "+ERR" = "+OK" THEN "ok" ELSE "err",
                     profile |-> FALSE, counts |-> <<>>]
    BY <1>3, <2>2, SaysIs, Zenon
  <2> QED BY <2>1, <2>2, <2>3, ReplyOutcome, Zenon
<1>4. 14 \in Nat /\ 4 \in Nat /\ 9 \in Nat /\ 5 \in Nat /\ 20 \in Nat /\ 7 \in Nat /\ 10 \in Nat
      /\ 11 \in Nat /\ 3 \in Nat /\ 2 \in Nat
  OBVIOUS
<1>5. CASE msg = "profile"
  BY <1>4, <1>5, ProfileBodied, BodyOutcome, Zenon
<1>6. CASE msg = "status"
  BY <1>4, <1>6, StatusBodied, BodyOutcome, Zenon
<1>7. CASE msg = "notice"
  BY <1>4, <1>7, NoticeBodied, BodyOutcome, Zenon
<1> QED BY <1>1, <1>2, <1>3, <1>5, <1>6, <1>7, Messages, Zenon

\* The body of a message goes on, or comes to its end.
Goes(msg, q, k, p) ==
    /\ q + k < Len(Text[msg]) => Fills(msg, q + k, p)
    /\ q + k = Len(Text[msg]) => Ends(msg, p)

\* Whatever is read while a content is filled.
LEMMA FillGoes ==
    ASSUME NEW m, NEW msg, NEW q \in Nat, Fill(m, msg, q), NEW k \in Nat, NEW data, IsSeq(data),
           Len(data) = k, q + k <= Len(Text[msg]), \A i \in 1..k : data[i] = Text[msg][q + i]
    PROVE  Goes(msg, q, k, Fed(m, data))
<1> DEFINE t == Text[msg]
           p == Fed(m, data)
<1>1. PICK r, c, ty, n, h, l, cn :
        /\ m = Msg(r, c, ty, "undefined", l, cn) /\ IsSeq(r) /\ Filled(msg, c, ty, n, h, l)
        /\ q \in Nat /\ h <= q /\ q < n /\ Holds(cn, t, h, q - h)
  BY Zenon DEF Fill
<1>2. n \in Nat /\ h \in Nat /\ l \in Nat /\ l # 0 /\ n = h + l /\ Len(t) = n
  BY <1>1, Zenon DEF Filled
<1>m. \A r1, cn1 : Holds(cn1, t, h, l) =>
         Understood(Msg(r1, c, ty, "undefined", l, cn1)) = Says(msg)
  BY <1>1, Zenon DEF Filled
<1> DEFINE z == r \o data
           y == cn \o data
           m2 == Msg(z, c, ty, "undefined", l, y)
<1>3. Same(Fed(Msg(r, c, ty, "undefined", l, cn), data), Ok(m2))
  BY <1>2, FedContent, Zenon
<1>4. p = Ok(m2)
  BY <1>1, <1>3, Zenon DEF Same
<1>5. IsSeq(cn) /\ Len(cn) = q - h /\ \A i \in 1..(q - h) : cn[i] = t[h + i]
  BY <1>1, Zenon DEF Holds
<1>6. IsJoin(z, r, data) /\ IsJoin(y, cn, data)
  BY <1>1, <1>5, Joined
<1> HIDE DEF z, y, p, t
<1>7. IsSeq(z)
  BY <1>6, Zenon DEF IsJoin
<1>8. /\ IsSeq(y) /\ Len(y) = (q - h) + k
      /\ \A i \in 1..Len(y) : y[i] = IF i <= q - h THEN cn[i] ELSE data[i - (q - h)]
  BY <1>5, <1>6, Zenon DEF IsJoin
<1> DEFINE x == q + k - h
<1>9. (q - h) + k = x /\ x \in Nat
  BY <1>1, <1>2
<1>10. Holds(y, t, h, x)
  <2>1. ASSUME NEW i \in 1..x PROVE y[i] = t[h + i]
    <3>1. i \in 1..Len(y)
      BY <1>8, <1>9
    <3>2. CASE i <= q - h
      <4>1. i \in 1..(q - h)
        BY <1>1, <1>2, <3>2
      <4> QED BY <1>5, <1>8, <3>1, <3>2, <4>1, Zenon
    <3>3. CASE ~(i <= q - h)
      <4> DEFINE j == i - (q - h)
      <4>1. j \in 1..k /\ q + j = h + i
        <5>1. h <= q
          BY <1>1
        <5> QED BY <1>2, <3>3, <5>1
      <4> HIDE DEF j
      <4>2. y[i] = data[j]
        BY <1>8, <3>1, <3>3, Zenon DEF j
      <4>3. data[j] = t[q + j]
        BY <4>1, Zenon DEF t
      <4> QED BY <4>1, <4>2, <4>3, Zenon
    <3> QED BY <3>2, <3>3
  <2>2. Len(y) = x
    BY <1>8, <1>9, Zenon
  <2> HIDE DEF x
  <2> QED BY <1>8, <2>1, <2>2, Zenon DEF Holds
<1>11. ASSUME q + k < n PROVE Fills(msg, q + k, p)
  <2> DEFINE q2 == q + k
  <2>1. q2 \in Nat /\ h <= q2 /\ q2 < n /\ x = q2 - h
    <3>1. h <= q
      BY <1>1
    <3> QED BY <1>2, <1>11, <3>1
  <2> HIDE DEF q2
  <2>2. Holds(y, Text[msg], h, q2 - h)
    BY <1>10, <2>1, Zenon DEF t
  <2>3. Fills(msg, q2, p)
    BY <1>1, <1>4, <1>7, <2>1, <2>2, FillIs, Zenon
  <2> QED BY <2>3, Zenon DEF q2
<1>12. ASSUME q + k = n PROVE Ends(msg, p)
  <2>1. x = l
    BY <1>2, <1>12
  <2>2. Holds(y, Text[msg], h, l)
    BY <1>10, <2>1, Zenon DEF t
  <2> QED BY <1>m, <1>2, <1>4, <2>2, FullIs, Zenon DEF t
<1> QED BY <1>2, <1>11, <1>12, Zenon DEF Goes, t, p

-----------------------------------------------------------------------------
(* Sequences of messages and of atoms *)

\* A text is longer than its first line.
Sized(t) == IsSeq(t) /\ Len(t) \in Nat /\ Len(t) > 5

\* All texts are.
LEMMA TextSizes == ASSUME NEW msg \in Message PROVE Sized(Text[msg])
<1>0. ASSUME NEW t, NEW c, NEW ty, NEW n \in Nat, n > 5, Headed(t, c, ty, n) PROVE Sized(t)
  BY <1>0, Zenon DEF Sized, Headed
<1>n. /\ 6 \in Nat /\ 10 \in Nat /\ 14 \in Nat /\ 20 \in Nat /\ 11 \in Nat
      /\ 6 > 5 /\ 10 > 5 /\ 14 > 5 /\ 20 > 5 /\ 11 > 5
  OBVIOUS
<1>1. Sized(Text["auth"])
  BY <1>0, <1>n, AuthText, Zenon DEF AuthIs
<1>2. ASSUME NEW st PROVE Sized(ReplyText(st))
  BY <1>0, <1>n, ReplyTextIs, Zenon DEF ReplyIs
<1>3. Sized(Text["profile"])
  BY <1>0, <1>n, ProfileText, Zenon DEF ProfileIs
<1>4. Sized(Text["status"])
  BY <1>0, <1>n, StatusText, Zenon DEF StatusIs
<1>5. Sized(Text["notice"])
  BY <1>0, <1>n, NoticeText, Zenon DEF NoticeIs
<1> QED BY <1>1, <1>2, <1>3, <1>4, <1>5, ReplyTexts, Messages, Zenon

\* j is s with x at its end.
IsAppend(j, s, x) ==
    /\ IsSeq(j) /\ Len(j) = Len(s) + 1 /\ Len(j) \in Nat
    /\ \A i \in 1..Len(s) : j[i] = s[i]
    /\ j[Len(s) + 1] = x

\* What Append makes of a sequence.
LEMMA Appended == ASSUME NEW s, IsSeq(s), NEW x PROVE IsAppend(Append(s, x), s, x)
<1> DEFINE T == {s[i] : i \in 1..Len(s)} \cup {x}
<1>1. s \in Seq(T) /\ x \in T
  <2>1. \A i \in 1..Len(s) : s[i] \in T
    OBVIOUS
  <2>2. x \in T
    OBVIOUS
  <2> HIDE DEF T
  <2> QED BY <2>1, <2>2, IsSeqOf, Zenon
<1> HIDE DEF T
<1>2. /\ Append(s, x) \in Seq(T) /\ Len(Append(s, x)) = Len(s) + 1
      /\ \A i \in 1..Len(s) : Append(s, x)[i] = s[i]
      /\ Append(s, x)[Len(s) + 1] = x
  BY <1>1, AppendProperties
<1> DEFINE j == Append(s, x)
<1> HIDE DEF j
<1>3. j \in Seq(T) /\ Len(s) \in Nat
  BY <1>2, Zenon DEF j, IsSeq
<1>4. IsSeq(j) /\ Len(j) \in Nat
  BY <1>3 DEF IsSeq
<1> QED BY <1>2, <1>4, Zenon DEF IsAppend, j

\* What a read leaves.
IsRest(u2, u, n) ==
    /\ IsSeq(u2) /\ Len(u2) \in Nat /\ Len(u2) = Len(u) - n
    /\ \A i \in 1..Len(u2) : u2[i] = u[n + i]

\* What is left of unread.
LEMMA RestIs ==
    ASSUME NEW u, IsSeq(u), NEW n \in 1..Len(u)
    PROVE  IsRest(SubSeq(u, n + 1, Len(u)), u, n)
<1>1. Len(u) \in Nat /\ n \in Nat /\ n <= Len(u) /\ n + 1 \in Nat
  BY DEF IsSeq
<1> DEFINE L == Len(u)
           w == SubSeq(u, n + 1, L)
<1>2. CASE n = L
  <2>1. w = <<>>
    BY <1>1, <1>2
  <2> HIDE DEF w
  <2>2. Len(w) = 0 /\ IsSeq(w)
    BY <2>1 DEF IsSeq
  <2>3. L - n = 0 /\ 1..0 = {} /\ 0 \in Nat
    BY <1>1, <1>2
  <2> QED BY <2>2, <2>3, Zenon DEF IsRest, w, L
<1>3. CASE n # L
  <2>1. n + 1 <= L
    BY <1>1, <1>3
  <2>2. IsPart(Part(u, n + 1, L), u, n + 1, L)
    BY <1>1, <2>1, PartOf, Zenon
  <2> HIDE DEF w, L
  <2>3. IsPart(w, u, n + 1, L)
    BY <2>2, Zenon DEF Part, w
  <2>4. IsSeq(w) /\ Len(w) \in Nat /\ Len(w) = L - (n + 1) + 1 /\ \A i \in 1..Len(w) : w[i] = u[(n + 1) + i - 1]
    BY <2>3, Zenon DEF IsPart
  <2>5. L - (n + 1) + 1 = L - n /\ \A i \in Nat : (n + 1) + i - 1 = n + i
    BY <1>1 DEF L
  <2>6. \A i \in 1..Len(w) : i \in Nat
    OBVIOUS
  <2>7. \A i \in 1..Len(w) : w[i] = u[n + i]
    BY <2>4, <2>5, <2>6, Zenon
  <2> QED BY <2>4, <2>5, <2>7, Zenon DEF IsRest, w, L
<1> QED BY <1>2, <1>3

\* What a read returns.
IsData(data, u, n) == IsSeq(data) /\ Len(data) = n /\ \A i \in 1..n : data[i] = u[i]

\* What was taken from it.
LEMMA DataIs ==
    ASSUME NEW u, IsSeq(u), NEW n \in 1..Len(u)
    PROVE  IsData(SubSeq(u, 1, n), u, n)
<1>1. Len(u) \in Nat /\ n \in Nat /\ 1 <= n /\ 1 \in Nat
  BY DEF IsSeq
<1>2. IsPart(Part(u, 1, n), u, 1, n)
  BY <1>1, PartOf, Zenon
<1> DEFINE w == SubSeq(u, 1, n)
<1> HIDE DEF w
<1>3. IsPart(w, u, 1, n)
  BY <1>2, Zenon DEF Part, w
<1>4. IsSeq(w) /\ Len(w) = n - 1 + 1 /\ \A i \in 1..Len(w) : w[i] = u[1 + i - 1]
  BY <1>3, Zenon DEF IsPart
<1>5. n - 1 + 1 = n /\ \A i \in 1..n : 1 + i - 1 = i
  BY <1>1
<1> QED BY <1>4, <1>5, Zenon DEF IsData, w

-----------------------------------------------------------------------------
(* Cuts *)

\* The first cut after the category of a message of n atoms that starts after s.
LateCut(C, s, n, k) == k \in 3..n /\ s + k \in C
FirstLate(C, s, n, k) == LateCut(C, s, n, k) /\ \A j : LateCut(C, s, n, j) => k <= j

\* WellCut, of a message msg that starts after s when reads ended at C.
Well(C, s, msg) ==
    \E k : /\ FirstLate(C, s, Len(Text[msg]), k)
           /\ \/ k \in Tails[msg]
              \/ k \in LineEnds[msg] /\ s + Len(Text[msg]) \in C

\* Cuts, of such a message of n atoms.
CutsOf(C, s, n) == {k \in 1..n : s + k \in C}

\* Min, of a set with a least element.
LEMMA LeastIs ==
    ASSUME NEW S, S \subseteq Nat, NEW x \in S, \A y \in S : x <= y
    PROVE  Min(S) = x
<1>1. \A z \in S : (\A y \in S : z <= y) => z = x
  OBVIOUS
<1> QED BY <1>1 DEF Min

\* Well is what WellCut says.
LEMMA WellIs ==
    ASSUME NEW C, NEW s \in Nat, NEW msg \in Message, NEW late,
           late = {k \in CutsOf(C, s, Len(Text[msg])) : k > 2}
    PROVE  Well(C, s, msg) <=>
             /\ late # {}
             /\ \/ Min(late) \in Tails[msg]
                \/ Min(late) \in LineEnds[msg] /\ Len(Text[msg]) \in CutsOf(C, s, Len(Text[msg]))
<1> DEFINE n == Len(Text[msg])
<1>0. n \in Nat /\ n > 5
  BY TextSizes, Zenon DEF Sized
<1> HIDE DEF n
<1>1. \A k : k \in late <=> LateCut(C, s, n, k)
  <2>1. \A k : k \in late <=> k \in 1..n /\ s + k \in C /\ k > 2
    BY Zenon DEF CutsOf, n
  <2>2. \A k : k \in 1..n /\ k > 2 <=> k \in 3..n
    BY <1>0
  <2> QED BY <2>1, <2>2, Zenon DEF LateCut
<1>2. late \subseteq Nat
  <2>1. \A k \in 3..n : k \in Nat
    BY <1>0
  <2> QED BY <1>1, <2>1, Zenon DEF LateCut
<1>3. n \in CutsOf(C, s, n) <=> s + n \in C
  <2>1. n \in 1..n
    BY <1>0
  <2> QED BY <2>1, Zenon DEF CutsOf
<1>4. ASSUME NEW k, FirstLate(C, s, n, k) PROVE late # {} /\ Min(late) = k
  <2>1. k \in late /\ \A j \in late : k <= j
    BY <1>1, <1>4, Zenon DEF FirstLate
  <2>2. Min(late) = k
    BY <1>2, <2>1, LeastIs
  <2> QED BY <2>1, <2>2, Zenon
<1>5. ASSUME late # {} PROVE \E k : FirstLate(C, s, n, k)
  <2>1. PICK k \in late : \A j \in late : k <= j
    BY <1>2, <1>5, LeastOf
  <2> QED BY <1>1, <2>1, Zenon DEF FirstLate
<1> QED BY <1>3, <1>4, <1>5, Zenon DEF Well, n

\* A later cut changes nothing about the first.
LEMMA FirstGrows ==
    ASSUME NEW C, NEW s \in Nat, NEW n \in Nat, NEW k, FirstLate(C, s, n, k), NEW o \in Nat,
           \A c \in C : c <= o, NEW o2 \in Nat, o < o2
    PROVE  FirstLate(C \cup {o2}, s, n, k)
<1>1. k \in 3..n /\ s + k \in C /\ \A j : LateCut(C, s, n, j) => k <= j
  BY Zenon DEF FirstLate, LateCut
<1>2. s + k <= o /\ k \in Nat
  BY <1>1
<1>3. ASSUME NEW j, LateCut(C \cup {o2}, s, n, j) PROVE k <= j
  <2>1. j \in 3..n /\ (s + j \in C \/ s + j = o2)
    BY <1>3, Zenon DEF LateCut
  <2>2. CASE s + j \in C
    BY <1>1, <2>1, <2>2, Zenon DEF LateCut
  <2>3. CASE s + j = o2
    BY <1>2, <2>1, <2>3
  <2> QED BY <2>1, <2>2, <2>3
<1>4. LateCut(C \cup {o2}, s, n, k)
  BY <1>1, Zenon DEF LateCut
<1> QED BY <1>3, <1>4, Zenon DEF FirstLate

\* There is but one first cut.
LEMMA FirstOnce ==
    ASSUME NEW C, NEW s, NEW n \in Nat, NEW k, NEW j, FirstLate(C, s, n, k), FirstLate(C, s, n, j)
    PROVE  k = j
<1>1. k \in 3..n /\ j \in 3..n /\ k <= j /\ j <= k
  BY Zenon DEF FirstLate, LateCut
<1> QED BY <1>1

\* A message that was cut well stays so.
LEMMA WellGrows ==
    ASSUME NEW C, NEW s \in Nat, NEW msg \in Message, Well(C, s, msg), NEW o \in Nat,
           \A c \in C : c <= o, NEW o2 \in Nat, o < o2
    PROVE  Well(C \cup {o2}, s, msg)
<1> DEFINE n == Len(Text[msg])
<1>0. n \in Nat
  BY TextSizes, Zenon DEF Sized
<1>1. PICK k : FirstLate(C, s, n, k) /\ (k \in Tails[msg] \/ (k \in LineEnds[msg] /\ s + n \in C))
  BY Zenon DEF Well
<1> HIDE DEF n
<1>2. FirstLate(C \cup {o2}, s, n, k)
  BY <1>0, <1>1, FirstGrows, Zenon
<1> QED BY <1>1, <1>2, Zenon DEF Well, n

\* A message that was cut badly first stays so.
LEMMA BadNotWell ==
    ASSUME NEW C, NEW s \in Nat, NEW msg \in Message, NEW k,
           FirstLate(C, s, Len(Text[msg]), k), k \notin Tails[msg],
           k \notin LineEnds[msg] \/ s + Len(Text[msg]) \notin C
    PROVE  ~Well(C, s, msg)
<1> DEFINE n == Len(Text[msg])
<1>0. n \in Nat
  BY TextSizes, Zenon DEF Sized
<1>1. ASSUME NEW j, FirstLate(C, s, n, j) PROVE j = k
  BY <1>0, <1>1, FirstOnce, Zenon
<1> QED BY <1>1, Zenon DEF Well

\* Nor does a cut beyond a message change anything about it.
LEMMA BeyondSame ==
    ASSUME NEW C, NEW s \in Nat, NEW n \in Nat, NEW o2 \in Nat, s + n < o2
    PROVE  /\ CutsOf(C \cup {o2}, s, n) = CutsOf(C, s, n)
           /\ \A k : LateCut(C \cup {o2}, s, n, k) <=> LateCut(C, s, n, k)
           /\ s + n \in C \cup {o2} <=> s + n \in C
<1>1. \A k \in 1..n : s + k # o2
  OBVIOUS
<1>2. \A k \in 3..n : s + k # o2
  OBVIOUS
<1>3. s + n # o2
  OBVIOUS
<1>4. CutsOf(C \cup {o2}, s, n) = CutsOf(C, s, n)
  BY <1>1, Zenon DEF CutsOf
<1>5. \A k : LateCut(C \cup {o2}, s, n, k) <=> LateCut(C, s, n, k)
  BY <1>2, Zenon DEF LateCut
<1> QED BY <1>3, <1>4, <1>5, Zenon

\* So a message that has passed without being cut well never will have been.
LEMMA BeyondWell ==
    ASSUME NEW C, NEW s \in Nat, NEW msg \in Message, ~Well(C, s, msg), NEW o2 \in Nat,
           s + Len(Text[msg]) < o2
    PROVE  ~Well(C \cup {o2}, s, msg)
<1> DEFINE n == Len(Text[msg])
           D == C \cup {o2}
<1>0. n \in Nat
  BY TextSizes, Zenon DEF Sized
<1>1. /\ \A k : LateCut(D, s, n, k) <=> LateCut(C, s, n, k)
      /\ s + n \in D <=> s + n \in C
  BY <1>0, BeyondSame, Zenon
<1> HIDE DEF D
<1>2. \A k : FirstLate(D, s, n, k) <=> FirstLate(C, s, n, k)
  BY <1>1, Zenon DEF FirstLate
<1>3. ~Well(D, s, msg)
  BY <1>1, <1>2, Zenon DEF Well
<1> QED BY <1>3, Zenon DEF D

-----------------------------------------------------------------------------
(* The stream: what was sent, what is unread *)

\* How long message i of S is.
Size(S, i) == Len(Text[S[i].msg])

\* Where message i of S ends.
Ended(S, i) == IF i = 0 THEN 0 ELSE S[i].start + Size(S, i)

\* Every message is somewhere, and what has not been read of it is unread.
Lies(S, u, o, i) ==
    /\ S[i].msg \in Message /\ S[i].start \in Nat /\ S[i].start = Ended(S, i - 1)
    /\ S[i].start + Size(S, i) <= o + Len(u)
    /\ \A k \in 1..Size(S, i) :
          S[i].start + k > o => u[S[i].start + k - o] = Text[S[i].msg][k]

\* What was sent, one message after the other, is read up to o, and u is the rest.
Stream(S, u, o) ==
    /\ IsSeq(S) /\ Len(S) \in Nat /\ IsSeq(u) /\ Len(u) \in Nat /\ o \in Nat
    /\ \A i \in 1..Len(S) : Lies(S, u, o, i)
    /\ o + Len(u) = Ended(S, Len(S))

\* Messages end no later than what was sent.
LEMMA EndedNat ==
    ASSUME NEW S, NEW u, NEW o, Stream(S, u, o), NEW d \in 0..Len(S)
    PROVE  Ended(S, d) \in Nat /\ Ended(S, d) <= o + Len(u)
<1>0. Len(S) \in Nat /\ Len(u) \in Nat /\ o \in Nat /\ \A i \in 1..Len(S) : Lies(S, u, o, i)
  BY Zenon DEF Stream
<1>1. CASE d = 0
  <2>1. Ended(S, d) = 0
    BY <1>1, Zenon DEF Ended
  <2> QED BY <1>0, <2>1
<1>2. CASE d # 0
  <2>1. d \in 1..Len(S)
    BY <1>0, <1>2
  <2>2. /\ S[d].msg \in Message /\ S[d].start \in Nat
        /\ S[d].start + Size(S, d) <= o + Len(u)
    BY <1>0, <2>1, Zenon DEF Lies
  <2>3. Size(S, d) \in Nat
    BY <2>2, TextSizes, Zenon DEF Size, Sized
  <2>4. Ended(S, d) = S[d].start + Size(S, d)
    BY <1>2, Zenon DEF Ended
  <2>5. S[d].start + Size(S, d) \in Nat
    <3>1. S[d].start \in Nat
      BY <2>2
    <3> QED BY <2>3, <3>1
  <2> QED BY <2>2, <2>4, <2>5, Zenon
<1> QED BY <1>1, <1>2

\* A read leaves the rest of the stream.
LEMMA StreamRead ==
    ASSUME NEW S, NEW u, NEW o, Stream(S, u, o), NEW n \in 1..Len(u), NEW u2, IsRest(u2, u, n),
           NEW o2, o2 = o + n
    PROVE  Stream(S, u2, o2)
<1>0. /\ IsSeq(S) /\ Len(S) \in Nat /\ Len(u) \in Nat /\ o \in Nat /\ o + Len(u) = Ended(S, Len(S))
      /\ \A i \in 1..Len(S) : Lies(S, u, o, i)
  BY Zenon DEF Stream
<1>1. IsSeq(u2) /\ Len(u2) \in Nat /\ Len(u2) = Len(u) - n /\ \A i \in 1..Len(u2) : u2[i] = u[n + i]
  BY Zenon DEF IsRest
<1>2. o2 \in Nat /\ o2 + Len(u2) = o + Len(u)
  <2>1. Len(u) \in Nat /\ o \in Nat /\ Len(u2) = Len(u) - n
    BY <1>0, <1>1
  <2> QED BY <2>1
<1>3. ASSUME NEW i \in 1..Len(S) PROVE Lies(S, u2, o2, i)
  <2>1. /\ S[i].msg \in Message /\ S[i].start \in Nat /\ S[i].start = Ended(S, i - 1)
        /\ S[i].start + Size(S, i) <= o + Len(u)
        /\ \A k \in 1..Size(S, i) :
              S[i].start + k > o => u[S[i].start + k - o] = Text[S[i].msg][k]
    BY <1>0, Zenon DEF Lies
  <2> DEFINE s == S[i].start
             z == Size(S, i)
  <2>2. s \in Nat /\ z \in Nat /\ s + z <= o + Len(u) /\ o \in Nat /\ Len(u) \in Nat
    BY <1>0, <2>1, TextSizes, Zenon DEF Size, Sized
  <2> HIDE DEF s, z
  <2>3. ASSUME NEW k \in 1..z, s + k > o2 PROVE u2[s + k - o2] = Text[S[i].msg][k]
    <3> DEFINE j == s + k - o2
    <3>1. j \in 1..Len(u2) /\ n + j = s + k - o /\ s + k > o
      <4>1. Len(u2) = Len(u) - n
        BY <1>1
      <4> QED BY <2>2, <2>3, <4>1
    <3> HIDE DEF j
    <3>2. u2[j] = u[n + j]
      BY <1>1, <3>1, Zenon
    <3>3. u[s + k - o] = Text[S[i].msg][k]
      BY <2>1, <3>1, Zenon DEF s, z
    <3> QED BY <3>1, <3>2, <3>3, Zenon DEF j
  <2>4. s + z <= o2 + Len(u2)
    BY <1>2, <2>2
  <2> QED BY <2>1, <2>3, <2>4, Zenon DEF Lies, s, z
<1> QED BY <1>0, <1>1, <1>2, <1>3, Zenon DEF Stream

\* A new message changes nothing about where the others end.
LEMMA EndedSame ==
    ASSUME NEW S, NEW S2, NEW x, IsAppend(S2, S, x), Len(S) \in Nat, NEW d \in 0..Len(S)
    PROVE  Ended(S2, d) = Ended(S, d)
<1>1. \A i \in 1..Len(S) : S2[i] = S[i]
  BY Zenon DEF IsAppend
<1>2. d = 0 \/ d \in 1..Len(S)
  OBVIOUS
<1> QED BY <1>1, <1>2, Zenon DEF Ended, Size

\* A new message comes at the end of the stream.
LEMMA StreamSend ==
    ASSUME NEW S, NEW u, NEW o, Stream(S, u, o), NEW msg \in Message, NEW x, x.msg = msg,
           x.start = o + Len(u), NEW S2, IsAppend(S2, S, x), NEW u2, IsJoin(u2, u, Text[msg])
    PROVE  Stream(S2, u2, o)
<1>0. /\ IsSeq(S) /\ Len(S) \in Nat /\ Len(u) \in Nat /\ o \in Nat /\ o + Len(u) = Ended(S, Len(S))
      /\ \A i \in 1..Len(S) : Lies(S, u, o, i)
  BY Zenon DEF Stream
<1> DEFINE t == Text[msg]
           z == Len(t)
           L == Len(u)
           N == Len(S)
<1>t. z \in Nat
  BY TextSizes, Zenon DEF Sized
<1>1. /\ IsSeq(u2) /\ Len(u2) \in Nat /\ Len(u2) = L + z
      /\ \A i \in 1..Len(u2) : u2[i] = IF i <= L THEN u[i] ELSE t[i - L]
  BY Zenon DEF IsJoin
<1>2. /\ IsSeq(S2) /\ Len(S2) = N + 1 /\ Len(S2) \in Nat /\ S2[N + 1] = x
      /\ \A i \in 1..N : S2[i] = S[i]
  BY Zenon DEF IsAppend
<1>n. L \in Nat /\ N \in Nat /\ o \in Nat /\ N \in 0..N /\ N + 1 # 0 /\ (N + 1) - 1 = N
  BY <1>0
<1>3. \A d \in 0..N : Ended(S2, d) = Ended(S, d)
  BY <1>n, EndedSame, Zenon
<1>4. Size(S2, N + 1) = z
  BY <1>2, Zenon DEF Size
<1>5. Ended(S2, N + 1) = (o + L) + z
  BY <1>2, <1>4, <1>n, Zenon DEF Ended
<1> HIDE DEF t, z, L, N
<1>6. o + Len(u2) = Ended(S2, Len(S2))
  <2>1. o + Len(u2) = (o + L) + z
    <3>1. Len(u2) = L + z
      BY <1>1
    <3> QED BY <1>n, <1>t, <3>1
  <2> QED BY <1>2, <1>5, <2>1, Zenon
<1>7. ASSUME NEW i \in 1..N PROVE Lies(S2, u2, o, i)
  <2>1. Lies(S, u, o, i)
    BY <1>0, Zenon DEF N
  <2>2. /\ S[i].msg \in Message /\ S[i].start \in Nat /\ S[i].start = Ended(S, i - 1)
        /\ S[i].start + Size(S, i) <= o + L
        /\ \A k \in 1..Size(S, i) :
              S[i].start + k > o => u[S[i].start + k - o] = Text[S[i].msg][k]
    BY <2>1, Zenon DEF Lies, L
  <2>3. S2[i] = S[i] /\ Size(S2, i) = Size(S, i)
    BY <1>2, Zenon DEF Size
  <2>4. i - 1 \in 0..N
    BY <1>n
  <2>5. Ended(S2, i - 1) = Ended(S, i - 1)
    BY <1>3, <2>4, Zenon
  <2> DEFINE s == S[i].start
             y == Size(S, i)
  <2>6. s \in Nat /\ y \in Nat /\ s + y <= o + L
    BY <2>2, TextSizes, Zenon DEF Size, Sized
  <2> HIDE DEF s, y
  <2>l. Len(u2) = L + z
    BY <1>1
  <2>7. ASSUME NEW k \in 1..y, s + k > o PROVE u2[s + k - o] = Text[S[i].msg][k]
    <3> DEFINE j == s + k - o
    <3>1. j \in 1..Len(u2) /\ j <= L
      BY <1>n, <1>t, <2>6, <2>7, <2>l
    <3>2. u[j] = Text[S[i].msg][k]
      BY <2>2, <2>7, Zenon DEF s, y
    <3> HIDE DEF j
    <3>3. u2[j] = u[j]
      BY <1>1, <3>1, Zenon
    <3> QED BY <3>2, <3>3, Zenon DEF j
  <2>8. s + y <= o + Len(u2)
    BY <1>n, <1>t, <2>6, <2>l
  <2> QED BY <2>2, <2>3, <2>5, <2>7, <2>8, Zenon DEF Lies, s, y
<1>8. Lies(S2, u2, o, N + 1)
  <2> DEFINE s == o + L
  <2>1. S2[N + 1].msg = msg /\ S2[N + 1].start = s
    BY <1>2, Zenon DEF L
  <2>2. s = Ended(S2, (N + 1) - 1)
    <3>1. Ended(S2, N) = Ended(S, N)
      BY <1>3, <1>n, Zenon
    <3> QED BY <1>0, <1>n, <3>1, Zenon DEF N, L
  <2>3. s \in Nat
    BY <1>n
  <2>l. Len(u2) = L + z
    BY <1>1
  <2>4. s + z <= o + Len(u2)
    BY <1>n, <1>t, <2>l
  <2>5. ASSUME NEW k \in 1..z PROVE u2[s + k - o] = t[k]
    <3> DEFINE j == s + k - o
    <3>1. j \in 1..Len(u2) /\ ~(j <= L) /\ j - L = k
      BY <1>n, <1>t, <2>l
    <3> HIDE DEF j
    <3>3. u2[j] = t[j - L]
      BY <1>1, <3>1, Zenon
    <3> QED BY <3>1, <3>3, Zenon DEF j
  <2> HIDE DEF s
  <2> QED BY <1>4, <2>1, <2>2, <2>3, <2>4, <2>5, Zenon DEF Lies, t
<1>9. \A i \in 1..Len(S2) : i \in 1..N \/ i = N + 1
  BY <1>2, <1>n
<1> QED BY <1>0, <1>1, <1>2, <1>6, <1>7, <1>8, <1>9, Zenon DEF Stream

\* The first n atoms are newlines.
Newlines(r, n) == \A x \in 1..n : r[x] = nl
\* What is to come of the text at place a is unread.
Follows(u, o, a, text) == \A k \in 1..Len(text) : a + k > o => u[a + k - o] = text[k]

\* Of what comes after place a, r holds all that has been read.
Awaits(r, u, o, a, text) ==
    \/ o <= a /\ Newlines(r, Len(r)) /\ Newlines(u, a - o)
    \/ o > a /\ Prefixed(r, text, o - a)

\* Newlines after newlines.
LEMMA JoinNewlines ==
    ASSUME NEW r, IsSeq(r), Newlines(r, Len(r)), NEW u, NEW n \in Nat, NEW k \in Nat, n <= k,
           Newlines(u, k), NEW data, IsData(data, u, n), NEW z, IsJoin(z, r, data)
    PROVE  Newlines(z, Len(z))
<1>1. Len(r) \in Nat
  BY Zenon DEF IsSeq
<1>2. Len(data) = n /\ \A i \in 1..n : data[i] = u[i]
  BY Zenon DEF IsData
<1>3. /\ Len(z) = Len(r) + n
      /\ \A i \in 1..Len(z) : z[i] = IF i <= Len(r) THEN r[i] ELSE data[i - Len(r)]
  BY <1>2, Zenon DEF IsJoin
<1>l. Len(z) = Len(r) + n
  BY <1>3
<1>4. ASSUME NEW i \in 1..Len(z) PROVE z[i] = nl
  <2>1. CASE i <= Len(r)
    <3>1. i \in 1..Len(r)
      BY <1>1, <1>l, <2>1
    <3> QED BY <1>3, <2>1, <3>1, Zenon DEF Newlines
  <2>2. CASE ~(i <= Len(r))
    <3>1. i - Len(r) \in 1..n /\ i - Len(r) \in 1..k
      BY <1>1, <1>l, <2>2
    <3> QED BY <1>2, <1>3, <2>2, <3>1, Zenon DEF Newlines
  <2> QED BY <2>1, <2>2
<1> QED BY <1>4, Zenon DEF Newlines

\* What was read before and what is read now are the beginning of the text.
LEMMA JoinPrefixed ==
    ASSUME NEW text, Len(text) \in Nat, NEW a \in Nat, NEW o \in Nat, NEW u, Follows(u, o, a, text),
           NEW r, IsSeq(r), NEW n \in Nat, NEW data, IsData(data, u, n), NEW z, IsJoin(z, r, data),
           NEW q \in Nat, a + q = o + n, q <= Len(text), Awaits(r, u, o, a, text)
    PROVE  Prefixed(z, text, q)
<1> DEFINE R == Len(r)
           T == Len(text)
           Z == Len(z)
<1>1. R \in Nat /\ T \in Nat
  BY Zenon DEF IsSeq
<1>2. Len(data) = n /\ \A i \in 1..n : data[i] = u[i]
  BY Zenon DEF IsData
<1>3. /\ Z = R + n /\ Z \in Nat
      /\ \A i \in 1..Z : z[i] = IF i <= R THEN r[i] ELSE data[i - R]
  BY <1>2, Zenon DEF IsJoin
<1>l. Z = R + n
  BY <1>3
<1> HIDE DEF R, T, Z
<1>4. \A k \in 1..T : a + k > o => u[a + k - o] = text[k]
  BY Zenon DEF Follows, T
<1>5. CASE o <= a /\ Newlines(r, R) /\ Newlines(u, a - o)
  <2>o. o <= a
    BY <1>5
  <2>1. ASSUME NEW x \in 1..(Z - q) PROVE z[x] = nl
    <3>1. CASE x <= R
      <4>1. x \in 1..R /\ x \in 1..Z
        BY <1>1, <1>l, <3>1
      <4> QED BY <1>3, <1>5, <3>1, <4>1, Zenon DEF Newlines
    <3>2. CASE ~(x <= R)
      <4>1. x - R \in 1..(a - o) /\ x - R \in 1..n /\ x \in 1..Z
        BY <1>1, <1>l, <2>o, <3>2
      <4> QED BY <1>2, <1>3, <1>5, <3>2, <4>1, Zenon DEF Newlines
    <3> QED BY <3>1, <3>2
  <2>2. ASSUME NEW y \in 1..q PROVE z[Z - q + y] = text[y]
    <3> DEFINE i == Z - q + y
    <3>1. i \in 1..Z /\ ~(i <= R) /\ i - R \in 1..n /\ i - R = a + y - o /\ a + y > o /\ y \in 1..T
      <4>1. q <= T
        BY DEF T
      <4> QED BY <1>1, <1>l, <2>o, <4>1
    <3> HIDE DEF i
    <3>2. z[i] = data[i - R] /\ data[i - R] = u[i - R]
      BY <1>2, <1>3, <3>1, Zenon
    <3>3. u[a + y - o] = text[y]
      BY <1>4, <3>1, Zenon
    <3> QED BY <3>1, <3>2, <3>3, Zenon DEF i
  <2>3. q \in 0..T /\ q <= Z
    <3>1. q <= T
      BY DEF T
    <3> QED BY <1>1, <1>l, <2>o, <3>1
  <2> QED BY <1>3, <2>1, <2>2, <2>3, Zenon DEF Prefixed, T, Z
<1>6. CASE o > a /\ Prefixed(r, text, o - a)
  <2> DEFINE p == o - a
  <2>1. /\ p <= R
        /\ \A x \in 1..(R - p) : r[x] = nl
        /\ \A y \in 1..p : r[R - p + y] = text[y]
    BY <1>6, Zenon DEF Prefixed, R
  <2>o. o > a
    BY <1>6
  <2>p. p \in Nat /\ p = o - a /\ q = p + n
    BY <2>o
  <2> HIDE DEF p
  <2>p2. p <= R
    BY <2>1
  <2>2. ASSUME NEW x \in 1..(Z - q) PROVE z[x] = nl
    <3>1. x \in 1..(R - p) /\ x \in 1..Z /\ x <= R
      BY <1>1, <1>l, <2>p, <2>p2
    <3> QED BY <1>3, <2>1, <3>1, Zenon
  <2>3. ASSUME NEW y \in 1..q PROVE z[Z - q + y] = text[y]
    <3> DEFINE i == Z - q + y
    <3>1. CASE y <= p
      <4>1. i \in 1..Z /\ i <= R /\ i = R - p + y /\ y \in 1..p
        BY <1>1, <1>l, <2>p, <2>p2, <3>1
      <4> HIDE DEF i
      <4>2. z[i] = r[i]
        BY <1>3, <4>1, Zenon
      <4>3. r[R - p + y] = text[y]
        BY <2>1, <4>1, Zenon
      <4> QED BY <4>1, <4>2, <4>3, Zenon DEF i
    <3>2. CASE ~(y <= p)
      <4>1. /\ i \in 1..Z /\ ~(i <= R) /\ i - R \in 1..n /\ i - R = a + y - o
            /\ a + y > o /\ y \in 1..T
        <5>1. q <= T
          BY DEF T
        <5> QED BY <1>1, <1>l, <2>p, <2>p2, <3>2, <5>1
      <4> HIDE DEF i
      <4>2. z[i] = data[i - R] /\ data[i - R] = u[i - R]
        BY <1>2, <1>3, <4>1, Zenon
      <4>3. u[a + y - o] = text[y]
        BY <1>4, <4>1, Zenon
      <4> QED BY <4>1, <4>2, <4>3, Zenon DEF i
    <3> QED BY <3>1, <3>2
  <2>4. q \in 0..T /\ q <= Z
    <3>1. q <= T
      BY DEF T
    <3> QED BY <1>1, <1>l, <2>p, <2>p2, <3>1
  <2> QED BY <1>3, <2>2, <2>3, <2>4, Zenon DEF Prefixed, T, Z
<1> QED BY <1>5, <1>6, Zenon DEF Awaits, R

-----------------------------------------------------------------------------
(* The invariant.  d messages were cut well and understood; then *)

\* the next has not come further than its category,
Waiting(d, m, S, u, o, g) ==
    /\ Len(g) = d
    /\ \E r : /\ m = Fresh(r) /\ IsSeq(r)
              /\ \/ /\ o <= Ended(S, d) /\ Newlines(r, Len(r)) /\ Newlines(u, Ended(S, d) - o)
                 \/ /\ d < Len(S) /\ o > Ended(S, d) /\ o <= Ended(S, d) + 2
                    /\ Prefixed(r, Text[S[d + 1].msg], o - Ended(S, d))

\* or its content is being filled,
Filling(d, m, S, o, C, g) ==
    /\ Len(g) = d /\ d < Len(S) /\ o >= S[d + 1].start
    /\ Fill(m, S[d + 1].msg, o - S[d + 1].start)
    /\ \E k : /\ FirstLate(C, S[d + 1].start, Size(S, d + 1), k)
              /\ k \in LineEnds[S[d + 1].msg] /\ k \notin Tails[S[d + 1].msg]

\* or it was not cut well and never will have been,
Lost(d, S, o, C) ==
    /\ d < Len(S) /\ ~Well(C, S[d + 1].start, S[d + 1].msg)
    /\ \/ o >= S[d + 1].start + Size(S, d + 1)
       \/ \E k : /\ FirstLate(C, S[d + 1].start, Size(S, d + 1), k)
                 /\ k \notin LineEnds[S[d + 1].msg] /\ k \notin Tails[S[d + 1].msg]

\* and if it was cut in two, nothing after it is understood.  (rest: what is to come of it.)
Ruined(d, m, text, g, k, rest) ==
    \/ Len(g) = d /\ (Stuck(m) \/ Overfull(m, rest))
    \/ /\ Len(g) = d + 1 /\ text[k] \in {"+OK", "+ERR"}
       /\ \/ rest # 0 /\ m = Fresh(<<>>) /\ text[k + 1] = " accepted"
          \/ rest = 0 /\ Junk(m)

\* (k: where it was cut first; it ends at n.)
Spoilt(d, m, S, o, C, g) ==
    LET s == S[d + 1].start
        n == Size(S, d + 1)
        msg == S[d + 1].msg
    IN \A k \in 3..(n - 1) : k \notin Tails[msg] /\ k \notin LineEnds[msg] =>
         /\ CutsOf(C, s, n) = {k} /\ o = s + k => Ruined(d, m, Text[msg], g, k, n - k)
         /\ CutsOf(C, s, n) = {k, n} => o >= s + n /\ Ruined(d, m, Text[msg], g, k, 0)

\* The first d messages.
Right(d, S, C, g) ==
    /\ d <= Len(g)
    /\ \A i \in 1..d : Well(C, S[i].start, S[i].msg) /\ g[i] = Says(S[i].msg)

\* One of the three.
Stage(d, m, S, u, o, C, g) ==
    \/ Waiting(d, m, S, u, o, g)
    \/ Filling(d, m, S, o, C, g)
    \/ Lost(d, S, o, C) /\ Spoilt(d, m, S, o, C, g)

\* The invariant, of all variables.
Holding(m, S, u, o, C, g) ==
    /\ Stream(S, u, o) /\ IsSeq(g)
    /\ (\A c \in C : c \in Nat /\ c <= o) /\ (o = 0 \/ o \in C)
    /\ \E d \in 0..Len(S) : Right(d, S, C, g) /\ Stage(d, m, S, u, o, C, g)

-----------------------------------------------------------------------------
(* The steps of the invariant *)

\* The message after the first d.
Nexts(S, u, o, d, a, n, msg) ==
    /\ d < Len(S) /\ d + 1 \in 1..Len(S) /\ S[d + 1].start = a /\ S[d + 1].msg = msg /\ msg \in Message
    /\ Size(S, d + 1) = n /\ Len(Text[msg]) = n /\ n \in Nat /\ n > 5 /\ a \in Nat /\ Ended(S, d) = a
    /\ a + n <= o + Len(u) /\ Ended(S, d + 1) = a + n
    /\ Follows(u, o, a, Text[msg])

\* Where it is, and how long.
LEMMA NextIs ==
    ASSUME NEW S, NEW u, NEW o, Stream(S, u, o), NEW d \in 0..Len(S), d < Len(S)
    PROVE  Nexts(S, u, o, d, Ended(S, d), Size(S, d + 1), S[d + 1].msg)
<1>0. Len(S) \in Nat /\ \A i \in 1..Len(S) : Lies(S, u, o, i)
  BY Zenon DEF Stream
<1>1. d + 1 \in 1..Len(S) /\ (d + 1) - 1 = d /\ d + 1 # 0
  <2>1. Len(S) \in Nat
    BY <1>0
  <2> QED BY <2>1
<1> DEFINE i == d + 1
<1> HIDE DEF i
<1>2. Lies(S, u, o, i)
  BY <1>0, <1>1, Zenon DEF i
<1>3. /\ S[i].msg \in Message /\ S[i].start \in Nat /\ S[i].start = Ended(S, i - 1)
      /\ S[i].start + Size(S, i) <= o + Len(u)
      /\ \A k \in 1..Size(S, i) :
            S[i].start + k > o => u[S[i].start + k - o] = Text[S[i].msg][k]
  BY <1>2, Zenon DEF Lies
<1>4. Ended(S, d) = S[i].start /\ Ended(S, i) = S[i].start + Size(S, i)
  BY <1>1, <1>3, Zenon DEF i, Ended
<1>5. Sized(Text[S[i].msg])
  BY <1>3, TextSizes, Zenon
<1>6. Follows(u, o, S[i].start, Text[S[i].msg])
  BY <1>3, Zenon DEF Follows, Size
<1> QED BY <1>1, <1>3, <1>4, <1>5, <1>6, Zenon DEF Nexts, i, Size, Sized

\* A read changes nothing about the messages understood before.
LEMMA RightGrows ==
    ASSUME NEW S, NEW u, NEW o, Stream(S, u, o), NEW d \in 0..Len(S), NEW C, NEW g, IsSeq(g),
           Right(d, S, C, g), \A c \in C : c \in Nat /\ c <= o, NEW o2 \in Nat, o < o2,
           NEW g2, g2 = g \/ \E x : IsAppend(g2, g, x)
    PROVE  Right(d, S, C \cup {o2}, g2)
<1>0. Len(S) \in Nat /\ o \in Nat /\ \A i \in 1..Len(S) : Lies(S, u, o, i)
  BY Zenon DEF Stream
<1>1. d <= Len(g) /\ \A i \in 1..d : Well(C, S[i].start, S[i].msg) /\ g[i] = Says(S[i].msg)
  BY Zenon DEF Right
<1>2. Len(g) \in Nat
  BY Zenon DEF IsSeq
<1>3. d <= Len(g2) /\ \A i \in 1..Len(g) : g2[i] = g[i]
  <2>1. CASE g2 = g
    BY <1>1, <2>1, Zenon
  <2>2. CASE \E x : IsAppend(g2, g, x)
    <3>1. Len(g2) = Len(g) + 1 /\ \A i \in 1..Len(g) : g2[i] = g[i]
      BY <2>2, Zenon DEF IsAppend
    <3>2. d <= Len(g) /\ Len(g2) = Len(g) + 1
      BY <1>1, <3>1
    <3>3. d <= Len(g2)
      BY <1>2, <3>2
    <3> QED BY <3>1, <3>3, Zenon
  <2> QED BY <2>1, <2>2
<1>4. ASSUME NEW i \in 1..d PROVE Well(C \cup {o2}, S[i].start, S[i].msg) /\ g2[i] = Says(S[i].msg)
  <2>1. i \in 1..Len(S) /\ i \in 1..Len(g)
    <3>1. d <= Len(g) /\ Len(S) \in Nat
      BY <1>0, <1>1
    <3> QED BY <1>2, <3>1
  <2>2. S[i].msg \in Message /\ S[i].start \in Nat
    BY <1>0, <2>1, Zenon DEF Lies
  <2>3. Well(C \cup {o2}, S[i].start, S[i].msg)
    BY <1>0, <1>1, <2>2, WellGrows, Zenon
  <2> QED BY <1>1, <1>3, <2>1, <2>3, Zenon
<1> QED BY <1>3, <1>4, Zenon DEF Right

\* What a read makes of the message under way and of what has been got.
Stepped(p, m2, g, g2) ==
    \/ Done(p) /\ m2 = Fresh(<<>>) /\ IsAppend(g2, g, Understood(p.msg))
    \/ ~Done(p) /\ m2 = p.msg /\ g2 = g

\* A read when nothing was understood before.
LEMMA FedFresh ==
    ASSUME NEW r, NEW data, NEW z, z = r \o data
    PROVE  Fed(Fresh(r), data) = parse(Fresh(z), data)
<1> DEFINE u == "unknown_category"
           v == "unknown_type"
           w == "undefined"
           e == <<>>
<1>1. Same(Fed(Msg(r, u, v, w, 0, e), data), parse(Msg(r \o data, u, v, w, 0, e), data))
  <2> HIDE DEF u, v, w, e
  <2> QED BY FedIs, Zenon
<1>2. Fed(Fresh(r), data) = parse(Fresh(r \o data), data)
  BY <1>1, Zenon DEF Fresh, Same
<1> QED BY <1>2

\* More newlines.
LEMMA WaitOn ==
    ASSUME NEW S, NEW u, NEW o, Stream(S, u, o), NEW d \in 0..Len(S), NEW g,
           NEW m, Waiting(d, m, S, u, o, g), NEW n \in 1..Len(u), NEW data, IsData(data, u, n),
           NEW u2, IsRest(u2, u, n), NEW o2, o2 = o + n, o2 <= Ended(S, d),
           NEW m2, NEW g2, Stepped(Fed(m, data), m2, g, g2)
    PROVE  Waiting(d, m2, S, u2, o2, g2) /\ g2 = g
<1> DEFINE a == Ended(S, d)
<1>0. Len(S) \in Nat /\ Len(u) \in Nat /\ o \in Nat
  BY Zenon DEF Stream
<1>a. a \in Nat
  BY EndedNat
<1>1. PICK r : /\ m = Fresh(r) /\ IsSeq(r)
               /\ \/ /\ o <= a /\ Newlines(r, Len(r)) /\ Newlines(u, a - o)
                  \/ /\ d < Len(S) /\ o > a /\ o <= a + 2
                     /\ Prefixed(r, Text[S[d + 1].msg], o - a)
  BY Zenon DEF Waiting
<1>l. Len(g) = d
  BY Zenon DEF Waiting
<1>h. o2 <= a
  OBVIOUS
<1> HIDE DEF a
<1>2. o <= a /\ ~(o > a) /\ n \in Nat /\ a - o \in Nat /\ n <= a - o
  BY <1>0, <1>a, <1>h
<1>3. Newlines(r, Len(r)) /\ Newlines(u, a - o)
  BY <1>1, <1>2, Zenon
<1> DEFINE z == r \o data
<1>4. IsJoin(z, r, data)
  BY <1>1, Joined, Zenon DEF IsData
<1>5. Fed(Fresh(r), data) = parse(Fresh(z), data)
  BY FedFresh, Zenon
<1> HIDE DEF z
<1>6. Newlines(z, Len(z))
  BY <1>1, <1>2, <1>3, <1>4, JoinNewlines, Zenon
<1>7. IsSeq(z) /\ Len(z) \in Nat
  BY <1>4, Zenon DEF IsJoin
<1>8. "auth" \in Message
  BY Messages, Zenon
<1>9. Prefixed(z, Text["auth"], 0)
  <2> DEFINE T == Len(Text["auth"])
  <2>1. T \in Nat
    BY <1>8, TextSizes, Zenon DEF Sized
  <2> HIDE DEF T
  <2>2. 0 \in 0..T /\ 0 <= Len(z) /\ Len(z) - 0 = Len(z) /\ 1..0 = {}
    BY <1>7, <2>1
  <2> QED BY <1>6, <1>7, <2>2, Zenon DEF Prefixed, Newlines, T
<1>10. Outcome("auth", z, 0, parse(Fresh(z), data))
  BY <1>7, <1>8, <1>9, ParseOutcome, Zenon
<1>11. 0 <= 2
  OBVIOUS
<1>12. Begins(z, parse(Fresh(z), data))
  BY <1>10, <1>11, Zenon DEF Outcome
<1>13. m2 = Fresh(z) /\ g2 = g
  BY <1>1, <1>5, <1>12, Zenon DEF Stepped, Begins
<1>14. Newlines(u2, a - o2)
  <2>1. Len(u2) = Len(u) - n /\ \A i \in 1..Len(u2) : u2[i] = u[n + i]
    BY Zenon DEF IsRest
  <2>2. a <= o + Len(u)
    BY EndedNat DEF a
  <2>l. Len(u2) = Len(u) - n
    BY <2>1
  <2>3. ASSUME NEW x \in 1..(a - o2) PROVE u2[x] = nl
    <3>1. x \in 1..Len(u2) /\ n + x \in 1..(a - o)
      BY <1>0, <1>a, <1>2, <2>2, <2>l
    <3> QED BY <1>3, <2>1, <3>1, Zenon DEF Newlines
  <2> QED BY <2>3, Zenon DEF Newlines
<1> QED BY <1>6, <1>7, <1>13, <1>14, <1>h, <1>l, Zenon DEF Waiting, a

\* The first late cut.
LEMMA FirstIs ==
    ASSUME NEW C, NEW o \in Nat, \A c \in C : c \in Nat /\ c <= o, NEW a \in Nat, o <= a + 2,
           NEW n \in Nat, NEW q \in 3..n, NEW o2, o2 = a + q
    PROVE  FirstLate(C \cup {o2}, a, n, q) /\ \A k : LateCut(C \cup {o2}, a, n, k) => k = q
<1>1. ASSUME NEW k, LateCut(C \cup {o2}, a, n, k) PROVE k = q
  <2>1. k \in 3..n /\ (a + k \in C \/ a + k = o2)
    BY <1>1, Zenon DEF LateCut
  <2>2. a + k \notin C
    BY <2>1
  <2>3. a + k = a + q
    BY <2>1, <2>2
  <2> QED BY <2>1, <2>3
<1>2. LateCut(C \cup {o2}, a, n, q)
  BY Zenon DEF LateCut
<1>3. q <= q
  OBVIOUS
<1> QED BY <1>1, <1>2, <1>3, Zenon DEF FirstLate

\* Newlines alone are left of a message that ends at b.
LEMMA TailLeft ==
    ASSUME NEW msg \in Message, NEW n \in Nat, Len(Text[msg]) = n, NEW q \in 1..n, q \in Tails[msg],
           NEW a \in Nat, NEW o \in Nat, NEW u, Follows(u, o, a, Text[msg]), o = a + q
    PROVE  Newlines(u, (a + n) - o)
<1> DEFINE t == Text[msg]
<1>1. \A j \in (q + 1)..n : t[j] = nl
  BY Places, Zenon
<1>2. \A k \in 1..n : a + k > o => u[a + k - o] = t[k]
  BY Zenon DEF Follows
<1> HIDE DEF t
<1>3. ASSUME NEW x \in 1..((a + n) - o) PROVE u[x] = nl
  <2> DEFINE k == q + x
  <2>1. k \in 1..n /\ k \in (q + 1)..n /\ a + k > o /\ a + k - o = x
    OBVIOUS
  <2> HIDE DEF k
  <2> QED BY <1>1, <1>2, <2>1, Zenon
<1> QED BY <1>3, Zenon DEF Newlines

\* A message is all there.
LEMMA Understands ==
    ASSUME NEW S, NEW u, NEW o, NEW d \in 0..Len(S), NEW a, NEW n, NEW msg, Nexts(S, u, o, d, a, n, msg),
           NEW C, NEW g, IsSeq(g), Len(g) = d, Right(d, S, C, g), Well(C, a, msg),
           NEW g2, IsAppend(g2, g, Says(msg))
    PROVE  Right(d + 1, S, C, g2) /\ Len(g2) = d + 1
<1>1. \A i \in 1..d : Well(C, S[i].start, S[i].msg) /\ g[i] = Says(S[i].msg)
  BY Zenon DEF Right
<1>2. /\ Len(g2) = d + 1 /\ g2[d + 1] = Says(msg)
      /\ \A i \in 1..d : g2[i] = g[i]
  BY Zenon DEF IsAppend
<1>3. S[d + 1].start = a /\ S[d + 1].msg = msg
  BY Zenon DEF Nexts
<1>4. ASSUME NEW i \in 1..(d + 1) PROVE Well(C, S[i].start, S[i].msg) /\ g2[i] = Says(S[i].msg)
  <2>1. i \in 1..d \/ i = d + 1
    OBVIOUS
  <2> QED BY <1>1, <1>2, <1>3, <2>1, Zenon
<1>5. d + 1 <= d + 1
  OBVIOUS
<1> QED BY <1>2, <1>4, <1>5, Zenon DEF Right

\* What is to be shown of a step.
Goal(m, S, u, o, C, g) == \E d \in 0..Len(S) : Right(d, S, C, g) /\ Stage(d, m, S, u, o, C, g)

\* A read that ends within the next message.
LEMMA WaitInto ==
    ASSUME NEW S, NEW u, NEW o \in Nat, Stream(S, u, o), NEW d \in 0..Len(S), NEW a, NEW n, NEW msg,
           Nexts(S, u, o, d, a, n, msg), NEW C, \A c \in C : c \in Nat /\ c <= o,
           NEW g, IsSeq(g), NEW g2,
           NEW m, Waiting(d, m, S, u, o, g), NEW x \in 1..Len(u), NEW data, IsData(data, u, x),
           NEW o2, o2 = o + x, NEW u2, Stream(S, u2, o2), Nexts(S, u2, o2, d, a, n, msg),
           NEW q \in 1..n, a + q = o2, NEW D, D = C \cup {o2}, Right(d, S, D, g),
           NEW m2, Stepped(Fed(m, data), m2, g, g2)
    PROVE  Goal(m2, S, u2, o2, D, g2)
<1> DEFINE t == Text[msg]
<1>0. /\ d < Len(S) /\ d + 1 \in 1..Len(S) /\ S[d + 1].start = a /\ S[d + 1].msg = msg /\ msg \in Message
      /\ Size(S, d + 1) = n /\ Len(t) = n /\ n \in Nat /\ n > 5 /\ a \in Nat /\ Ended(S, d) = a
      /\ Ended(S, d + 1) = a + n /\ Follows(u, o, a, t) /\ Follows(u2, o2, a, t)
  BY Zenon DEF Nexts
<1>1. PICK r : /\ m = Fresh(r) /\ IsSeq(r)
               /\ \/ /\ o <= a /\ Newlines(r, Len(r)) /\ Newlines(u, a - o)
                  \/ /\ d < Len(S) /\ o > a /\ o <= a + 2 /\ Prefixed(r, t, o - a)
  BY <1>0, Zenon DEF Waiting
<1>l. Len(g) = d
  BY Zenon DEF Waiting
<1>n. a \in Nat /\ n \in Nat /\ n > 5
  BY <1>0
<1>2. o <= a + 2
  <2>1. o <= a \/ o <= a + 2
    BY <1>1
  <2> QED BY <1>n, <2>1
<1>3. Awaits(r, u, o, a, t)
  BY <1>1, Zenon DEF Awaits
<1> DEFINE z == r \o data
<1>4. IsJoin(z, r, data)
  BY <1>1, Joined, Zenon DEF IsData
<1>5. Fed(Fresh(r), data) = parse(Fresh(z), data)
  BY FedFresh, Zenon
<1> HIDE DEF z
<1>q. q \in Nat /\ q <= n /\ x \in Nat /\ o2 \in Nat /\ o2 = a + q /\ a + q = o + x
  <2>1. Len(u) \in Nat
    BY Zenon DEF Stream
  <2> QED BY <1>n, <2>1
<1>q2. q <= Len(t) /\ Len(t) \in Nat
  BY <1>0, <1>q, Zenon
<1>6. Prefixed(z, t, q)
  BY <1>0, <1>1, <1>3, <1>4, <1>q, <1>q2, JoinPrefixed, Zenon
<1>7. IsSeq(z)
  BY <1>4, Zenon DEF IsJoin
<1> DEFINE p == parse(Fresh(z), data)
<1>8. Outcome(msg, z, q, p)
  BY <1>0, <1>6, <1>7, ParseOutcome, Zenon
<1> HIDE DEF p
<1>9. Stepped(p, m2, g, g2)
  BY <1>1, <1>5, Zenon DEF p
<1>d. D = C \cup {o2}
  OBVIOUS
<1>10. CASE q <= 2
  <2>1. ~Done(p) /\ p.msg = Fresh(z)
    BY <1>8, <1>10, Zenon DEF Outcome, Begins
  <2>2. m2 = Fresh(z) /\ g2 = g
    BY <1>9, <2>1, Zenon DEF Stepped
  <2>3. o2 > a /\ o2 <= a + 2 /\ o2 - a = q
    BY <1>n, <1>q, <1>10
  <2>4. Waiting(d, m2, S, u2, o2, g2)
    BY <1>0, <1>6, <1>7, <1>l, <2>2, <2>3, Zenon DEF Waiting
  <2> QED BY <2>2, <2>4, Zenon DEF Goal, Stage
<1>11. CASE q > 2
  <2>1. q \in 3..n
    BY <1>n, <1>q, <1>11
  <2>2. FirstLate(D, a, n, q) /\ \A k : LateCut(D, a, n, k) => k = q
    <3>1. FirstLate(C \cup {o2}, a, n, q) /\ \A k : LateCut(C \cup {o2}, a, n, k) => k = q
      BY <1>n, <1>2, <1>q, <2>1, FirstIs, Zenon
    <3> QED BY <1>d, <3>1, Zenon
  <2>3. CASE q \in Tails[msg]
    <3>1. Done(p) /\ Understood(p.msg) = Says(msg)
      BY <1>8, <1>11, <2>3, Zenon DEF Outcome, Ends
    <3>2. m2 = Fresh(<<>>) /\ IsAppend(g2, g, Says(msg))
      BY <1>9, <3>1, Zenon DEF Stepped
    <3>3. Well(D, a, msg)
      BY <1>0, <2>2, <2>3, Zenon DEF Well
    <3>4. Right(d + 1, S, D, g2) /\ Len(g2) = d + 1
      BY <1>l, <3>2, <3>3, Understands
    <3>5. o2 <= Ended(S, d + 1) /\ d + 1 \in 0..Len(S)
      <4>1. Ended(S, d + 1) = a + n /\ d + 1 \in 1..Len(S)
        BY <1>0
      <4> QED BY <1>n, <1>q, <4>1
    <3>6. Newlines(u2, Ended(S, d + 1) - o2)
      <4>1. Newlines(u2, (a + n) - o2)
        BY <1>0, <1>q, <2>3, TailLeft, Zenon
      <4> QED BY <1>0, <4>1, Zenon
    <3>7. IsSeq(<<>>) /\ Newlines(<<>>, Len(<<>>))
      <4>1. IsSeq(<<>>) /\ Len(<<>>) = 0
        BY DEF IsSeq
      <4>2. \A i \in 1..0 : FALSE
        OBVIOUS
      <4> QED BY <4>1, <4>2, Zenon DEF Newlines
    <3>8. Waiting(d + 1, m2, S, u2, o2, g2)
      BY <3>2, <3>4, <3>5, <3>6, <3>7, Zenon DEF Waiting
    <3> QED BY <3>4, <3>5, <3>8, Zenon DEF Goal, Stage
  <2>4. CASE q \in LineEnds[msg] /\ q \notin Tails[msg]
    <3>1. ~Done(p) /\ Fill(p.msg, msg, q)
      BY <1>8, <1>11, <2>4, Zenon DEF Outcome, Fills
    <3>2. m2 = p.msg /\ g2 = g
      BY <1>9, <3>1, Zenon DEF Stepped
    <3>3. o2 >= a /\ o2 - a = q
      BY <1>n, <1>q
    <3>4. Filling(d, m2, S, o2, D, g2)
      BY <1>0, <1>l, <2>2, <2>4, <3>1, <3>2, <3>3, Zenon DEF Filling
    <3> QED BY <3>2, <3>4, Zenon DEF Goal, Stage
  <2>5. CASE q \notin LineEnds[msg] /\ q \notin Tails[msg]
    <3>1. Spoils(msg, q, p)
      BY <1>8, <1>11, <2>5, Zenon DEF Outcome
    <3>2. ~Well(D, a, msg)
      BY <1>0, <2>2, <2>5, BadNotWell, Zenon
    <3>3. Lost(d, S, o2, D)
      BY <1>0, <2>2, <2>5, <3>2, Zenon DEF Lost
    <3>4. ASSUME NEW k \in 3..(n - 1), CutsOf(D, a, n) = {k} \/ CutsOf(D, a, n) = {k, n}
          PROVE  k = q /\ CutsOf(D, a, n) # {k, n}
      <4>1. k \in CutsOf(D, a, n)
        BY <3>4, Zenon
      <4>2. k \in 3..n /\ k # n
        BY <1>n
      <4>3. a + k \in D
        BY <4>1, Zenon DEF CutsOf
      <4>4. k = q
        BY <2>2, <4>2, <4>3, Zenon DEF LateCut
      <4>5. ASSUME CutsOf(D, a, n) = {k, n} PROVE FALSE
        <5>0. n \in 3..n
          BY <1>n
        <5>1. n \in CutsOf(D, a, n) /\ n \in 3..n
          BY <4>5, <5>0, Zenon
        <5>2. a + n \in D
          BY <5>1, Zenon DEF CutsOf
        <5>3. n = q
          BY <2>2, <5>1, <5>2, Zenon DEF LateCut
        <5> QED BY <4>2, <4>4, <5>3, Zenon
      <4> QED BY <4>4, <4>5
    <3>5. Ruined(d, m2, t, g2, q, n - q) \/ q = n
      <4>1. CASE ~Done(p) /\ (Stuck(p.msg) \/ Overfull(p.msg, Len(Text[msg]) - q))
        <5>1. m2 = p.msg /\ g2 = g
          BY <1>9, <4>1, Zenon DEF Stepped
        <5> QED BY <1>0, <1>l, <4>1, <5>1, Zenon DEF Ruined
      <4>2. CASE Done(p) /\ t[q] \in {"+OK", "+ERR"} /\ t[q + 1] = " accepted"
        <5>1. m2 = Fresh(<<>>) /\ Len(g2) = d + 1
          BY <1>9, <1>l, <4>2, Zenon DEF Stepped, IsAppend
        <5>2. n - q # 0 \/ q = n
          BY <1>n, <1>q
        <5> QED BY <4>2, <5>1, <5>2, Zenon DEF Ruined
      <4> QED BY <3>1, <4>1, <4>2, Zenon DEF Spoils
    <3>6. \A k \in 3..(n - 1) : k # n
      BY <1>n
    <3>7. ASSUME NEW k \in 3..(n - 1)
          PROVE  /\ CutsOf(D, a, n) = {k} /\ o2 = a + k => Ruined(d, m2, t, g2, k, n - k)
                 /\ CutsOf(D, a, n) = {k, n} => o2 >= a + n /\ Ruined(d, m2, t, g2, k, 0)
      BY <3>4, <3>5, <3>6, Zenon
    <3>8. Spoilt(d, m2, S, o2, D, g2)
      BY <1>0, <3>7, Zenon DEF Spoilt
    <3>9. Right(d, S, D, g2)
      <4>1. CASE g2 = g
        BY <4>1
      <4>2. CASE \E v : IsAppend(g2, g, v)
        <5>1. Len(g2) = d + 1 /\ \A i \in 1..d : g2[i] = g[i]
          BY <1>l, <4>2, Zenon DEF IsAppend
        <5>2. d <= d + 1
          OBVIOUS
        <5> QED BY <5>1, <5>2, Zenon DEF Right
      <4> QED BY <1>9, <4>1, <4>2, Zenon DEF Stepped
    <3> QED BY <3>3, <3>8, <3>9, Zenon DEF Goal, Stage
  <2> QED BY <2>3, <2>4, <2>5, Zenon
<1>12. q <= 2 \/ q > 2
  BY <1>q
<1> QED BY <1>10, <1>11, <1>12

\* Nothing is said of a message that was not cut in two.
LEMMA LostAnyhow ==
    ASSUME NEW S, NEW u, NEW o, NEW d, NEW a, NEW n, NEW msg, Nexts(S, u, o, d, a, n, msg),
           NEW D, NEW o2, o2 >= a + n, ~Well(D, a, msg),
           \A k \in 3..(n - 1) : k \notin Tails[msg] /\ k \notin LineEnds[msg] =>
               CutsOf(D, a, n) # {k} /\ CutsOf(D, a, n) # {k, n},
           NEW m2, NEW g2
    PROVE  Lost(d, S, o2, D) /\ Spoilt(d, m2, S, o2, D, g2)
<1>0. d < Len(S) /\ S[d + 1].start = a /\ S[d + 1].msg = msg /\ Size(S, d + 1) = n
  BY Zenon DEF Nexts
<1>1. Lost(d, S, o2, D)
  BY <1>0, Zenon DEF Lost
<1>2. Spoilt(d, m2, S, o2, D, g2)
  BY <1>0, Zenon DEF Spoilt
<1> QED BY <1>1, <1>2

\* A read from before the message to after it.
LEMMA WaitBeyond ==
    ASSUME NEW S, NEW u, NEW o \in Nat, NEW d, NEW a, NEW n, NEW msg,
           Nexts(S, u, o, d, a, n, msg), NEW C, \A c \in C : c \in Nat /\ c <= o,
           o <= a + 2, NEW o2 \in Nat, o2 > a + n, NEW D, D = C \cup {o2}, NEW m2, NEW g2
    PROVE  Lost(d, S, o2, D) /\ Spoilt(d, m2, S, o2, D, g2)
<1>n. a \in Nat /\ n \in Nat /\ n > 5 /\ msg \in Message /\ Len(Text[msg]) = n
  BY Zenon DEF Nexts
<1>n2. a \in Nat /\ n \in Nat
  BY <1>n
<1>1. ASSUME NEW k, LateCut(D, a, n, k) PROVE FALSE
  <2>1. k \in 3..n /\ (a + k \in C \/ a + k = o2)
    BY <1>1, Zenon DEF LateCut
  <2>2. a + k \notin C
    BY <1>n2, <2>1
  <2>3. a + k # o2
    BY <1>n2, <2>1
  <2> QED BY <2>1, <2>2, <2>3
<1>2. ~Well(D, a, msg)
  BY <1>n, <1>1, Zenon DEF Well, FirstLate
<1>3. ASSUME NEW k \in 3..(n - 1) PROVE CutsOf(D, a, n) # {k} /\ CutsOf(D, a, n) # {k, n}
  <2>1. k \in 3..n
    BY <1>n2
  <2>2. k \notin CutsOf(D, a, n)
    BY <1>1, <2>1, Zenon DEF CutsOf, LateCut
  <2> QED BY <2>2, Zenon
<1>4. o2 >= a + n
  BY <1>n2
<1> QED BY <1>2, <1>3, <1>4, LostAnyhow

\* A message that is being filled is not all there.
LEMMA FillBounds ==
    ASSUME NEW m, NEW msg, NEW q, Fill(m, msg, q)
    PROVE  q \in Nat /\ q < Len(Text[msg])
<1>1. PICK r, c, ty, n, h, l, cn :
        /\ m = Msg(r, c, ty, "undefined", l, cn) /\ IsSeq(r) /\ Filled(msg, c, ty, n, h, l)
        /\ q \in Nat /\ h <= q /\ q < n /\ Holds(cn, Text[msg], h, q - h)
  BY Zenon DEF Fill
<1>2. Len(Text[msg]) = n
  BY <1>1, Zenon DEF Filled
<1> QED BY <1>1, <1>2, Zenon

\* A read while a content is filled.
LEMMA FillStep ==
    ASSUME NEW S, NEW u, NEW o \in Nat, Stream(S, u, o), NEW d \in 0..Len(S), NEW a, NEW n, NEW msg,
           Nexts(S, u, o, d, a, n, msg), NEW C, \A c \in C : c \in Nat /\ c <= o,
           NEW g, IsSeq(g), NEW g2,
           NEW m, Filling(d, m, S, o, C, g), NEW x \in 1..Len(u), NEW data, IsData(data, u, x),
           NEW u2, NEW o2 \in Nat, o2 = o + x, NEW D, D = C \cup {o2}, Right(d, S, D, g),
           Right(d, S, D, g2), NEW m2, Stepped(Fed(m, data), m2, g, g2)
    PROVE  Goal(m2, S, u2, o2, D, g2)
<1> DEFINE t == Text[msg]
           q == o - a
<1>0. /\ d < Len(S) /\ d + 1 \in 1..Len(S) /\ S[d + 1].start = a /\ S[d + 1].msg = msg /\ msg \in Message
      /\ Size(S, d + 1) = n /\ Len(t) = n /\ n \in Nat /\ a \in Nat
      /\ Ended(S, d + 1) = a + n /\ Follows(u, o, a, t)
  BY Zenon DEF Nexts
<1>n. a \in Nat /\ n \in Nat /\ x \in Nat
  <2>1. Len(u) \in Nat
    BY Zenon DEF Stream
  <2> QED BY <1>0, <2>1
<1>1. Len(g) = d /\ o >= a /\ Fill(m, msg, q)
  BY <1>0, Zenon DEF Filling
<1>2. PICK k0 : FirstLate(C, a, n, k0) /\ k0 \in LineEnds[msg] /\ k0 \notin Tails[msg]
  BY <1>0, Zenon DEF Filling
<1>3. q \in Nat /\ q < n
  BY <1>0, <1>1, FillBounds, Zenon
<1>a. o >= a
  BY <1>1
<1>4. o = a + q /\ o < a + n /\ o < o2
  BY <1>n, <1>3, <1>a
<1>5. FirstLate(D, a, n, k0)
  BY <1>n, <1>2, <1>4, FirstGrows, Zenon
<1> HIDE DEF q
<1>6. CASE o2 > a + n
  <2>1. a + n \notin C /\ a + n # o2 /\ o2 >= a + n
    BY <1>n, <1>4, <1>6
  <2>2. a + n \notin D
    BY <2>1, Zenon
  <2>3. ~Well(D, a, msg)
    BY <1>0, <1>2, <1>5, <2>2, BadNotWell, Zenon
  <2>4. ASSUME NEW k \in 3..(n - 1), k \notin LineEnds[msg]
        PROVE  CutsOf(D, a, n) # {k} /\ CutsOf(D, a, n) # {k, n}
    <3>0. \A j \in 3..n : j \in 1..n
      BY <1>n
    <3>1. k0 \in CutsOf(D, a, n)
      BY <1>5, <3>0, Zenon DEF FirstLate, LateCut, CutsOf
    <3>2. n \notin CutsOf(D, a, n)
      BY <2>2, Zenon DEF CutsOf
    <3> QED BY <1>2, <2>4, <3>1, <3>2, Zenon
  <2>5. Lost(d, S, o2, D) /\ Spoilt(d, m2, S, o2, D, g2)
    BY <2>1, <2>3, <2>4, LostAnyhow
  <2> QED BY <2>5, Zenon DEF Goal, Stage
<1>7. CASE o2 <= a + n
  <2> DEFINE p == Fed(m, data)
  <2>1. q + x <= n /\ q + x = o2 - a /\ o2 >= a
    BY <1>n, <1>3, <1>4, <1>7
  <2>2. ASSUME NEW i \in 1..x PROVE data[i] = t[q + i]
    <3>1. q + i \in 1..n /\ a + (q + i) > o /\ a + (q + i) - o = i
      BY <1>n, <1>3, <1>4, <2>1
    <3>2. u[a + (q + i) - o] = t[q + i]
      BY <1>0, <3>1, Zenon DEF Follows
    <3>3. data[i] = u[i]
      BY Zenon DEF IsData
    <3> QED BY <3>1, <3>2, <3>3, Zenon
  <2>3. Goes(msg, q, x, p)
    <3>1. IsSeq(data) /\ Len(data) = x
      BY Zenon DEF IsData
    <3>2. q + x <= Len(Text[msg])
      BY <1>0, <2>1, Zenon
    <3> QED BY <1>n, <1>1, <1>3, <2>2, <3>1, <3>2, FillGoes, Zenon
  <2> HIDE DEF p
  <2>s. Stepped(p, m2, g, g2)
    BY DEF p
  <2>4. CASE q + x < n
    <3>1. ~Done(p) /\ Fill(p.msg, msg, q + x)
      BY <1>0, <2>3, <2>4, Zenon DEF Goes, Fills
    <3>2. m2 = p.msg /\ g2 = g
      BY <2>s, <3>1, Zenon DEF Stepped
    <3>3. Filling(d, m2, S, o2, D, g2)
      BY <1>0, <1>1, <1>2, <1>5, <2>1, <3>1, <3>2, Zenon DEF Filling
    <3> QED BY <3>3, Zenon DEF Goal, Stage
  <2>5. CASE q + x = n
    <3>1. Done(p) /\ Understood(p.msg) = Says(msg)
      BY <1>0, <2>3, <2>5, Zenon DEF Goes, Ends
    <3>2. m2 = Fresh(<<>>) /\ IsAppend(g2, g, Says(msg))
      BY <2>s, <3>1, Zenon DEF Stepped
    <3>o. o2 = a + n
      BY <1>n, <1>3, <1>4, <2>5
    <3>d. a + n \in D
      BY <3>o, Zenon
    <3>3. Well(D, a, msg)
      BY <1>0, <1>2, <1>5, <3>d, Zenon DEF Well
    <3>4. Right(d + 1, S, D, g2) /\ Len(g2) = d + 1
      BY <1>1, <3>2, <3>3, Understands
    <3>5. o2 <= Ended(S, d + 1) /\ d + 1 \in 0..Len(S) /\ Ended(S, d + 1) - o2 = 0
      <4>1. Ended(S, d + 1) = a + n /\ d + 1 \in 1..Len(S)
        BY <1>0
      <4> QED BY <1>n, <3>o, <4>1
    <3>6. Newlines(u2, Ended(S, d + 1) - o2)
      <4>1. \A i \in 1..0 : FALSE
        OBVIOUS
      <4> QED BY <3>5, <4>1, Zenon DEF Newlines
    <3>7. IsSeq(<<>>) /\ Newlines(<<>>, Len(<<>>))
      <4>1. IsSeq(<<>>) /\ Len(<<>>) = 0
        BY DEF IsSeq
      <4>2. \A i \in 1..0 : FALSE
        OBVIOUS
      <4> QED BY <4>1, <4>2, Zenon DEF Newlines
    <3>8. Waiting(d + 1, m2, S, u2, o2, g2)
      BY <3>2, <3>4, <3>5, <3>6, <3>7, Zenon DEF Waiting
    <3> QED BY <3>4, <3>5, <3>8, Zenon DEF Goal, Stage
  <2>6. q + x < n \/ q + x = n
    BY <1>n, <1>3, <2>1
  <2> QED BY <2>4, <2>5, <2>6
<1>8. o2 > a + n \/ o2 <= a + n
  BY <1>n
<1> QED BY <1>6, <1>7, <1>8

\* What is spoilt stays spoilt.
LEMMA RuinedStays ==
    ASSUME NEW d, NEW m, NEW t, NEW g, NEW k, NEW rest \in Nat, Ruined(d, m, t, g, k, rest),
           NEW data, IsSeq(data), Len(data) >= rest,
           rest # 0 => Len(data) >= 1 /\ data[1] = t[k + 1],
           NEW m2, NEW g2, Stepped(Fed(m, data), m2, g, g2)
    PROVE  Ruined(d, m2, t, g2, k, 0)
<1>1. CASE Len(g) = d /\ Stuck(m)
  <2>1. ~Done(Fed(m, data)) /\ Stuck(Fed(m, data).msg)
    BY <1>1, StuckStays, Zenon
  <2> QED BY <1>1, <2>1, Zenon DEF Stepped, Ruined
<1>2. CASE Len(g) = d /\ Overfull(m, rest)
  <2>1. ~Done(Fed(m, data)) /\ Overfull(Fed(m, data).msg, 0)
    BY <1>2, OverfullStays, Zenon
  <2> QED BY <1>2, <2>1, Zenon DEF Stepped, Ruined
<1>3. CASE /\ Len(g) = d + 1 /\ t[k] \in {"+OK", "+ERR"}
           /\ rest # 0 /\ m = Fresh(<<>>) /\ t[k + 1] = " accepted"
  <2> DEFINE z == <<>> \o data
  <2>1. IsSeq(<<>>) /\ Len(<<>>) = 0
    BY DEF IsSeq
  <2>2. Spans(z, <<>>, 0, data, Len(data))
    <3>1. Len(data) = 0 + Len(data)
      BY DEF IsSeq
    <3> QED BY <2>1, <3>1, JoinSpans, Zenon
  <2> HIDE DEF z
  <2>3. Len(z) = Len(data) /\ \A i \in 1..Len(data) : z[i] = IF i <= 0 THEN <<>>[i] ELSE data[i - 0]
    BY <2>2, Zenon DEF Spans
  <2>4. 1 \in 1..Len(data) /\ ~(1 <= 0) /\ 1 - 0 = 1 /\ \A i \in 1..Len(data) : ~(i < 1)
    <3>1. Len(data) \in Nat /\ Len(data) >= 1
      BY <1>3, Zenon DEF IsSeq
    <3> QED BY <3>1
  <2>5. z[1] = " accepted"
    BY <1>3, <2>3, <2>4, Zenon
  <2>6. " accepted" # nl
    BY DEF nl
  <2>7. First(z, " accepted")
    BY <2>3, <2>4, <2>5, <2>6, Zenon DEF First
  <2>8. ~Done(Fed(Fresh(<<>>), data)) /\ Junk(Fed(Fresh(<<>>), data).msg)
    BY <2>1, <2>7, JunkStays, Zenon DEF z
  <2> QED BY <1>3, <2>8, Zenon DEF Stepped, Ruined
<1>4. CASE /\ Len(g) = d + 1 /\ t[k] \in {"+OK", "+ERR"} /\ rest = 0 /\ Junk(m)
  <2>1. PICK r : m = Fresh(r) /\ IsSeq(r) /\ First(r, " accepted")
    BY <1>4, Zenon DEF Junk
  <2>2. First(r \o data, " accepted")
    BY <2>1, FirstJoined, Zenon
  <2>3. ~Done(Fed(Fresh(r), data)) /\ Junk(Fed(Fresh(r), data).msg)
    BY <2>1, <2>2, JunkStays, Zenon
  <2> QED BY <1>4, <2>1, <2>3, Zenon DEF Stepped, Ruined
<1> QED BY <1>1, <1>2, <1>3, <1>4, Zenon DEF Ruined

\* A cut beyond a message is none of its cuts.
LEMMA BeyondCuts ==
    ASSUME NEW C, NEW s \in Nat, NEW n \in Nat, NEW o2 \in Nat, s + n < o2
    PROVE  Same(CutsOf(C \cup {o2}, s, n), CutsOf(C, s, n))
BY BeyondSame DEF Same

\* A read after a message that was not cut well.
LEMMA LostStep ==
    ASSUME NEW S, NEW u, NEW o \in Nat, Stream(S, u, o), NEW d \in 0..Len(S), NEW a, NEW n, NEW msg,
           Nexts(S, u, o, d, a, n, msg), NEW C, \A c \in C : c \in Nat /\ c <= o, o = 0 \/ o \in C,
           NEW g, NEW m, Lost(d, S, o, C), Spoilt(d, m, S, o, C, g),
           NEW x \in 1..Len(u), NEW data, IsData(data, u, x),
           NEW o2 \in Nat, o2 = o + x, NEW D, D = C \cup {o2},
           NEW g2, NEW m2, Stepped(Fed(m, data), m2, g, g2)
    PROVE  Lost(d, S, o2, D) /\ Spoilt(d, m2, S, o2, D, g2)
<1> DEFINE t == Text[msg]
<1>0. /\ d < Len(S) /\ S[d + 1].start = a /\ S[d + 1].msg = msg /\ msg \in Message
      /\ Size(S, d + 1) = n /\ Len(t) = n /\ n \in Nat /\ a \in Nat /\ Follows(u, o, a, t)
  BY Zenon DEF Nexts
<1>n. a \in Nat /\ n \in Nat /\ x \in Nat /\ o < o2
  <2>1. Len(u) \in Nat
    BY Zenon DEF Stream
  <2> QED BY <1>0, <2>1
<1>1. /\ ~Well(C, a, msg)
      /\ \/ o >= a + n
         \/ \E k : FirstLate(C, a, n, k) /\ k \notin LineEnds[msg] /\ k \notin Tails[msg]
  BY <1>0, Zenon DEF Lost
<1>2. \A k \in 3..(n - 1) : k \notin Tails[msg] /\ k \notin LineEnds[msg] =>
         /\ CutsOf(C, a, n) = {k} /\ o = a + k => Ruined(d, m, t, g, k, n - k)
         /\ CutsOf(C, a, n) = {k, n} => o >= a + n /\ Ruined(d, m, t, g, k, 0)
  BY <1>0, Zenon DEF Spoilt
<1>3. Lost(d, S, o2, D)
  <2>1. CASE o >= a + n
    <3>1. a + n < o2 /\ o2 >= a + n
      BY <1>n, <2>1
    <3>2. ~Well(D, a, msg)
      BY <1>0, <1>1, <3>1, BeyondWell, Zenon
    <3> QED BY <1>0, <3>1, <3>2, Zenon DEF Lost
  <2>2. CASE \E k : FirstLate(C, a, n, k) /\ k \notin LineEnds[msg] /\ k \notin Tails[msg]
    <3>1. PICK k : FirstLate(C, a, n, k) /\ k \notin LineEnds[msg] /\ k \notin Tails[msg]
      BY <2>2
    <3>2. FirstLate(D, a, n, k)
      BY <1>n, <3>1, FirstGrows, Zenon
    <3>3. ~Well(D, a, msg)
      BY <1>0, <3>1, <3>2, BadNotWell, Zenon
    <3> QED BY <1>0, <3>1, <3>2, <3>3, Zenon DEF Lost
  <2> QED BY <1>1, <2>1, <2>2
<1>4. IsSeq(data) /\ Len(data) = x /\ \A i \in 1..x : data[i] = u[i]
  BY Zenon DEF IsData
<1>5. ASSUME NEW k \in 3..(n - 1), CutsOf(D, a, n) = {k}, o2 = a + k PROVE FALSE
  <2>1. CASE o >= a + n
    BY <1>n, <1>5, <2>1
  <2>2. CASE \E j : FirstLate(C, a, n, j)
    <3>1. PICK j : j \in 3..n /\ a + j \in C
      BY <2>2, Zenon DEF FirstLate, LateCut
    <3>2. j \in 1..n /\ a + j <= o
      BY <1>n, <3>1
    <3>3. j \in CutsOf(D, a, n)
      BY <3>1, <3>2, Zenon DEF CutsOf
    <3>4. j = k
      BY <1>5, <3>3, Zenon
    <3> QED BY <1>n, <1>5, <3>2, <3>4
  <2> QED BY <1>1, <2>1, <2>2
<1>6. ASSUME NEW k \in 3..(n - 1), k \notin Tails[msg], k \notin LineEnds[msg], CutsOf(D, a, n) = {k, n}
      PROVE  o2 >= a + n /\ Ruined(d, m2, t, g2, k, 0)
  <2>k. k \in 1..n /\ n \in 1..n /\ k < n /\ k # n /\ k \in Nat
    BY <1>n
  <2>1. a + k \in D /\ a + n \in D
    BY <1>6, Zenon DEF CutsOf
  <2>2. CASE a + n \in C
    <3>1. a + n <= o
      BY <2>2, Zenon
    <3>2. a + n < o2 /\ o2 >= a + n
      BY <1>n, <3>1
    <3>3. CutsOf(D, a, n) = CutsOf(C, a, n)
      <4>1. Same(CutsOf(C \cup {o2}, a, n), CutsOf(C, a, n))
        BY <1>n, <3>2, BeyondCuts, Zenon
      <4> QED BY <4>1, Zenon DEF Same
    <3>4. Ruined(d, m, t, g, k, 0)
      BY <1>2, <1>6, <3>3, Zenon
    <3>5. 0 \in Nat /\ Len(data) >= 0
      BY <1>n, <1>4
    <3>6. Ruined(d, m2, t, g2, k, 0)
      <4> DEFINE rest == 0
      <4>1. rest \in Nat /\ Len(data) >= rest /\ ~(rest # 0) /\ Ruined(d, m, t, g, k, rest)
        BY <3>4, <3>5
      <4> HIDE DEF rest, t
      <4> QED BY <1>4, <4>1, RuinedStays, Zenon
    <3> QED BY <3>2, <3>6
  <2>3. CASE a + n \notin C
    <3>1. o2 = a + n
      BY <2>1, <2>3, Zenon
    <3>2. a + k # a + n
      BY <1>n, <2>k
    <3>3. a + k \in C
      BY <2>1, <3>1, <3>2, Zenon
    <3>4. CutsOf(C, a, n) = {k}
      <4>1. ASSUME NEW j \in CutsOf(C, a, n) PROVE j = k
        <5>1. j \in 1..n /\ a + j \in C
          BY Zenon DEF CutsOf
        <5>2. j \in CutsOf(D, a, n)
          BY <5>1, Zenon DEF CutsOf
        <5>3. j = k \/ j = n
          BY <1>6, <5>2, Zenon
        <5> QED BY <2>3, <5>1, <5>3, Zenon
      <4>2. k \in CutsOf(C, a, n)
        BY <2>k, <3>3, Zenon DEF CutsOf
      <4> QED BY <4>1, <4>2, Zenon
    <3>5. o = a + k
      <4>1. a + k <= o
        BY <3>3
      <4>2. o # 0 /\ o - a \in 1..n /\ a + (o - a) = o
        BY <1>n, <2>k, <3>1, <4>1
      <4>3. o - a \in CutsOf(C, a, n)
        BY <4>2, Zenon DEF CutsOf
      <4>4. o - a = k
        BY <3>4, <4>3, Zenon
      <4> QED BY <4>2, <4>4
    <3> DEFINE rest == n - k
    <3>6. Ruined(d, m, t, g, k, rest)
      BY <1>2, <1>6, <3>4, <3>5, Zenon
    <3>7. rest \in Nat /\ x = rest /\ x >= 1 /\ x >= rest
      BY <1>n, <2>k, <3>1, <3>5
    <3>8. data[1] = t[k + 1]
      <4>1. k + 1 \in 1..n /\ a + (k + 1) > o /\ a + (k + 1) - o = 1 /\ 1 \in 1..x
        BY <1>n, <2>k, <3>5, <3>7
      <4>2. u[1] = t[k + 1]
        BY <1>0, <4>1, Zenon DEF Follows
      <4> QED BY <1>4, <4>1, <4>2, Zenon
    <3> HIDE DEF rest, t
    <3>9. Len(data) >= rest /\ Len(data) >= 1
      BY <1>4, <3>7, Zenon
    <3>10. Ruined(d, m2, t, g2, k, 0)
      BY <1>4, <3>6, <3>7, <3>8, <3>9, RuinedStays, Zenon
    <3>11. o2 >= a + n
      BY <1>n, <3>1
    <3> QED BY <3>10, <3>11
  <2> QED BY <2>2, <2>3
<1>7. Spoilt(d, m2, S, o2, D, g2)
  BY <1>0, <1>5, <1>6, Zenon DEF Spoilt
<1> QED BY <1>3, <1>7

\* A read keeps the invariant.
LEMMA ReadKeeps ==
    ASSUME NEW m, NEW S, NEW u, NEW o, NEW C, NEW g, Holding(m, S, u, o, C, g),
           NEW x \in 1..Len(u), NEW data, IsData(data, u, x), NEW u2, IsRest(u2, u, x),
           NEW o2, o2 = o + x, NEW D, D = C \cup {o2}, NEW m2, NEW g2,
           Stepped(Fed(m, data), m2, g, g2)
    PROVE  Holding(m2, S, u2, o2, D, g2)
<1>1. /\ Stream(S, u, o) /\ IsSeq(g)
      /\ \A c \in C : c \in Nat /\ c <= o
      /\ o = 0 \/ o \in C
  BY Zenon DEF Holding
<1>2. PICK d \in 0..Len(S) : Right(d, S, C, g) /\ Stage(d, m, S, u, o, C, g)
  BY Zenon DEF Holding
<1>3. Len(S) \in Nat /\ Len(u) \in Nat /\ o \in Nat /\ o + Len(u) = Ended(S, Len(S))
  BY <1>1, Zenon DEF Stream
<1>4. Stream(S, u2, o2)
  BY <1>1, StreamRead, Zenon
<1>5. x \in Nat /\ o2 \in Nat /\ o < o2
  BY <1>3
<1>6. IsSeq(g2)
  BY <1>1, Zenon DEF Stepped, IsAppend
<1>7. \A c \in D : c \in Nat /\ c <= o2
  <2>1. \A c \in Nat : c <= o => c <= o2
    BY <1>3, <1>5
  <2>2. o2 <= o2
    BY <1>5
  <2> QED BY <1>1, <1>5, <2>1, <2>2, Zenon
<1>8. Right(d, S, D, g)
  <2>1. Right(d, S, C \cup {o2}, g)
    BY <1>1, <1>2, <1>5, RightGrows
  <2> QED BY <2>1, Zenon
<1>9. Right(d, S, D, g2)
  <2>1. g2 = g \/ \E v : IsAppend(g2, g, v)
    BY Zenon DEF Stepped
  <2>2. Right(d, S, C \cup {o2}, g2)
    BY <1>1, <1>2, <1>5, <2>1, RightGrows
  <2> QED BY <2>2, Zenon
<1> DEFINE a == Ended(S, d)
           n == Size(S, d + 1)
           msg == S[d + 1].msg
<1>10. a \in Nat
  BY <1>1, EndedNat
<1>11. d < Len(S) => Nexts(S, u, o, d, a, n, msg) /\ Nexts(S, u2, o2, d, a, n, msg)
  BY <1>1, <1>4, NextIs, Zenon
<1>12. Goal(m2, S, u2, o2, D, g2)
  <2>1. CASE Waiting(d, m, S, u, o, g)
    <3>1. CASE o2 <= a
      <4>1. Waiting(d, m2, S, u2, o2, g2) /\ g2 = g
        <5>1. o2 <= Ended(S, d)
          BY <3>1
        <5> HIDE DEF a, n, msg
        <5> QED BY <1>1, <2>1, <5>1, WaitOn
      <4> QED BY <1>9, <4>1, Zenon DEF Goal, Stage
    <3>2. CASE ~(o2 <= a)
      <4>1. d < Len(S)
        <5>1. CASE d = Len(S)
          <6>1. o + Len(u) = a
            BY <1>3, <5>1, Zenon
          <6> QED BY <1>3, <1>10, <3>2, <6>1
        <5> QED BY <1>3, <5>1
      <4>2. Nexts(S, u, o, d, a, n, msg) /\ Nexts(S, u2, o2, d, a, n, msg)
        BY <1>11, <4>1
      <4>3. n \in Nat
        BY <4>2, Zenon DEF Nexts
      <4>o. o <= a + 2
        <5>1. o <= a \/ o <= a + 2
          BY <2>1, Zenon DEF Waiting
        <5> QED BY <1>3, <1>10, <5>1
      <4> HIDE DEF a, n, msg
      <4>4. CASE o2 <= a + n
        <5> DEFINE q == o2 - a
        <5>1. q \in 1..n /\ a + q = o2
          BY <1>3, <1>5, <1>10, <3>2, <4>3, <4>4
        <5> HIDE DEF q
        <5>3. /\ Right(d, S, D, g) /\ IsSeq(g) /\ o \in Nat /\ Stream(S, u, o)
              /\ \A c \in C : c \in Nat /\ c <= o
              /\ Nexts(S, u, o, d, a, n, msg) /\ Waiting(d, m, S, u, o, g)
              /\ Stream(S, u2, o2) /\ Nexts(S, u2, o2, d, a, n, msg)
          BY <1>1, <1>3, <1>4, <1>8, <2>1, <4>2, Zenon
        <5> QED BY <5>1, <5>3, WaitInto, Zenon
      <4>5. CASE o2 > a + n
        <5>1. Lost(d, S, o2, D) /\ Spoilt(d, m2, S, o2, D, g2)
          BY <1>1, <1>3, <1>5, <4>2, <4>o, <4>5, WaitBeyond
        <5> QED BY <1>9, <5>1, Zenon DEF Goal, Stage
      <4>6. o2 <= a + n \/ o2 > a + n
        BY <1>5, <1>10, <4>3 DEF a
      <4> QED BY <4>4, <4>5, <4>6
    <3> QED BY <3>1, <3>2
  <2>2. CASE Filling(d, m, S, o, C, g)
    <3>1. Nexts(S, u, o, d, a, n, msg)
      BY <1>11, <2>2, Zenon DEF Filling
    <3> HIDE DEF a, n, msg
    <3> QED BY <1>1, <1>3, <1>5, <1>8, <1>9, <2>2, <3>1, FillStep
  <2>3. CASE Lost(d, S, o, C) /\ Spoilt(d, m, S, o, C, g)
    <3>1. Nexts(S, u, o, d, a, n, msg)
      BY <1>11, <2>3, Zenon DEF Lost
    <3> HIDE DEF a, n, msg
    <3>2. Lost(d, S, o2, D) /\ Spoilt(d, m2, S, o2, D, g2)
      BY <1>1, <1>3, <1>5, <2>3, <3>1, LostStep
    <3> QED BY <1>9, <3>2, Zenon DEF Goal, Stage
  <2> QED BY <1>2, <2>1, <2>2, <2>3, Zenon DEF Stage
<1>13. o2 \in D
  BY Zenon
<1> QED BY <1>4, <1>6, <1>7, <1>12, <1>13, Zenon DEF Holding, Goal

\* A message that is sent changes nothing about those before it.
LEMMA SendKeeps ==
    ASSUME NEW m, NEW S, NEW u, NEW o, NEW C, NEW g, Holding(m, S, u, o, C, g),
           NEW msg \in Message, NEW x, x.msg = msg, x.start = o + Len(u),
           NEW S2, IsAppend(S2, S, x), NEW u2, IsJoin(u2, u, Text[msg])
    PROVE  Holding(m, S2, u2, o, C, g)
<1>1. /\ Stream(S, u, o) /\ IsSeq(g)
      /\ \A c \in C : c \in Nat /\ c <= o
      /\ o = 0 \/ o \in C
  BY Zenon DEF Holding
<1>2. PICK d \in 0..Len(S) : Right(d, S, C, g) /\ Stage(d, m, S, u, o, C, g)
  BY Zenon DEF Holding
<1>3. Len(S) \in Nat /\ Len(u) \in Nat /\ o \in Nat
  BY <1>1, Zenon DEF Stream
<1>4. Stream(S2, u2, o)
  BY <1>1, StreamSend, Zenon
<1>5. Len(S2) = Len(S) + 1 /\ \A i \in 1..Len(S) : S2[i] = S[i]
  BY Zenon DEF IsAppend
<1>6. d \in 0..Len(S2) /\ (d < Len(S) => d < Len(S2) /\ d + 1 \in 1..Len(S))
  <2>1. Len(S2) = Len(S) + 1
    BY <1>5
  <2> QED BY <1>3, <2>1
<1>7. Ended(S2, d) = Ended(S, d)
  BY <1>3, EndedSame, Zenon
<1>8. Right(d, S2, C, g)
  <2>1. \A i \in 1..d : i \in 1..Len(S)
    BY <1>3
  <2> QED BY <1>2, <1>5, <2>1, Zenon DEF Right
<1>9. d < Len(S) => S2[d + 1] = S[d + 1] /\ Size(S2, d + 1) = Size(S, d + 1)
  BY <1>5, <1>6, Zenon DEF Size
<1> DEFINE a == Ended(S, d)
<1>10. a \in Nat /\ a <= o + Len(u)
  BY <1>1, EndedNat
<1>11. ASSUME Waiting(d, m, S, u, o, g) PROVE Waiting(d, m, S2, u2, o, g)
  <2>1. PICK r : /\ m = Fresh(r) /\ IsSeq(r)
                 /\ \/ /\ o <= a /\ Newlines(r, Len(r)) /\ Newlines(u, a - o)
                    \/ /\ d < Len(S) /\ o > a /\ o <= a + 2
                       /\ Prefixed(r, Text[S[d + 1].msg], o - a)
    BY <1>11, Zenon DEF Waiting
  <2>2. Len(g) = d
    BY <1>11, Zenon DEF Waiting
  <2>3. CASE o <= a /\ Newlines(r, Len(r)) /\ Newlines(u, a - o)
    <3>1. ASSUME NEW i \in 1..(a - o) PROVE u2[i] = nl
      <4>1. /\ Len(u2) = Len(u) + Len(Text[msg])
            /\ \A y \in 1..Len(u2) : u2[y] = IF y <= Len(u) THEN u[y] ELSE Text[msg][y - Len(u)]
        BY Zenon DEF IsJoin
      <4>2. Len(Text[msg]) \in Nat
        BY TextSizes, Zenon DEF Sized
      <4>3. Len(u2) = Len(u) + Len(Text[msg])
        BY <4>1
      <4>4. i \in 1..Len(u2) /\ i <= Len(u)
        BY <1>3, <1>10, <4>2, <4>3
      <4> QED BY <2>3, <4>1, <4>4, Zenon DEF Newlines
    <3>2. Newlines(u2, a - o)
      BY <3>1, Zenon DEF Newlines
    <3> QED BY <1>7, <2>1, <2>2, <2>3, <3>2, Zenon DEF Waiting
  <2>4. CASE d < Len(S) /\ o > a /\ o <= a + 2 /\ Prefixed(r, Text[S[d + 1].msg], o - a)
    BY <1>6, <1>7, <1>9, <2>1, <2>2, <2>4, Zenon DEF Waiting
  <2> QED BY <2>1, <2>3, <2>4, Zenon
<1> HIDE DEF a
<1>12. ASSUME Filling(d, m, S, o, C, g) PROVE Filling(d, m, S2, o, C, g)
  <2>1. d < Len(S)
    BY <1>12, Zenon DEF Filling
  <2>2. S2[d + 1] = S[d + 1] /\ Size(S2, d + 1) = Size(S, d + 1) /\ d < Len(S2)
    BY <1>6, <1>9, <2>1, Zenon
  <2> QED BY <1>12, <2>2, Zenon DEF Filling
<1>13. ASSUME Lost(d, S, o, C), Spoilt(d, m, S, o, C, g) PROVE Lost(d, S2, o, C) /\ Spoilt(d, m, S2, o, C, g)
  <2>1. d < Len(S)
    BY <1>13, Zenon DEF Lost
  <2>2. S2[d + 1] = S[d + 1] /\ Size(S2, d + 1) = Size(S, d + 1) /\ d < Len(S2)
    BY <1>6, <1>9, <2>1, Zenon
  <2>3. Lost(d, S2, o, C)
    BY <1>13, <2>2, Zenon DEF Lost
  <2>4. Spoilt(d, m, S2, o, C, g)
    BY <1>13, <2>2 DEF Spoilt
  <2> QED BY <2>3, <2>4
<1>14. Stage(d, m, S2, u2, o, C, g)
  BY <1>2, <1>11, <1>12, <1>13, Zenon DEF Stage
<1> QED BY <1>1, <1>4, <1>6, <1>8, <1>14, Zenon DEF Holding

\* The message that reset leaves.
LEMMA EmptyIs == Empty = Fresh(<<>>) /\ IsSeq(<<>>) /\ Len(<<>>) = 0 /\ reset = Empty
  BY DEF Empty, Fresh, Msg, IsSeq, reset

\* The invariant holds when nothing was sent.
LEMMA HoldingInit == Holding(Empty, <<>>, <<>>, 0, {}, <<>>)
<1> DEFINE e == <<>>
<1>1. IsSeq(e) /\ Len(e) = 0 /\ Empty = Fresh(e)
  BY EmptyIs
<1> HIDE DEF e
<1>2. 0 \in 0..0 /\ 1..0 = {} /\ 0 <= 0 /\ 0 \in Nat /\ 0 + 0 = 0 /\ 0 - 0 = 0
  OBVIOUS
<1>3. Ended(e, 0) = 0
  BY Zenon DEF Ended
<1>4. Stream(e, e, 0)
  BY <1>1, <1>2, <1>3, Zenon DEF Stream
<1>5. Newlines(e, 0)
  BY <1>2, Zenon DEF Newlines
<1>6. Waiting(0, Empty, e, e, 0, e)
  BY <1>1, <1>2, <1>3, <1>5, Zenon DEF Waiting
<1>7. Right(0, e, {}, e)
  BY <1>1, <1>2, Zenon DEF Right
<1>8. Holding(Empty, e, e, 0, {}, e)
  BY <1>1, <1>2, <1>4, <1>6, <1>7, Zenon DEF Holding, Stage
<1> QED BY <1>8 DEF e

-----------------------------------------------------------------------------
\* The inductive invariant.
IInv == Holding(m_fsMsg, sent, unread, offset, cuts, got)

\* It holds initially,
LEMMA InitHolds == Init => IInv
  BY HoldingInit, Zenon DEF Init, IInv

\* the server keeps it,
LEMMA SendHolds == IInv /\ Send => IInv'
<1> SUFFICES ASSUME IInv, Send PROVE IInv'
  OBVIOUS
<1>1. Holding(m_fsMsg, sent, unread, offset, cuts, got)
  BY Zenon DEF IInv
<1>2. Stream(sent, unread, offset)
  BY <1>1, Zenon DEF Holding
<1>3. IsSeq(sent) /\ IsSeq(unread)
  BY <1>2, Zenon DEF Stream
<1>4. PICK msg \in Message :
         /\ sent' = Append(sent, [msg |-> msg, start |-> offset + Len(unread)])
         /\ unread' = unread \o Text[msg]
  BY Zenon DEF Send
<1> DEFINE x == [msg |-> msg, start |-> offset + Len(unread)]
<1>5. x.msg = msg /\ x.start = offset + Len(unread)
  OBVIOUS
<1>6. sent' = Append(sent, x)
  BY <1>4
<1> HIDE DEF x
<1>7. IsAppend(sent', sent, x)
  BY <1>3, <1>6, Appended, Zenon
<1>8. IsSeq(Text[msg])
  BY TextSizes, Zenon DEF Sized
<1>9. IsJoin(unread', unread, Text[msg])
  BY <1>3, <1>4, <1>8, Joined, Zenon
<1>10. m_fsMsg' = m_fsMsg /\ offset' = offset /\ cuts' = cuts /\ got' = got
  BY DEF Send
<1>11. Holding(m_fsMsg, sent', unread', offset, cuts, got)
  BY <1>1, <1>5, <1>7, <1>9, SendKeeps, Zenon
<1> QED BY <1>10, <1>11, Zenon DEF IInv

\* read_handler keeps it,
LEMMA ReadHolds == ASSUME NEW n \in 1..Len(unread), IInv, Read(n) PROVE IInv'
<1>1. Holding(m_fsMsg, sent, unread, offset, cuts, got)
  BY Zenon DEF IInv
<1>2. Stream(sent, unread, offset) /\ IsSeq(got)
  BY <1>1, Zenon DEF Holding
<1>3. IsSeq(unread)
  BY <1>2, Zenon DEF Stream
<1> DEFINE data == SubSeq(unread, 1, n)
           p == Fed(m_fsMsg, data)
<1>4. /\ unread' = SubSeq(unread, n + 1, Len(unread)) /\ offset' = offset + n
      /\ cuts' = cuts \cup {offset'} /\ sent' = sent
  BY Zenon DEF Read
<1>5. IsData(data, unread, n)
  BY <1>3, DataIs, Zenon
<1>6. IsRest(unread', unread, n)
  BY <1>3, <1>4, RestIs, Zenon
<1>7. \/ Done(p) /\ got' = Append(got, Understood(p.msg)) /\ m_fsMsg' = reset
      \/ ~Done(p) /\ m_fsMsg' = p.msg /\ got' = got
  BY Zenon DEF Read, Fed, Done
<1> HIDE DEF p, data
<1>8. reset = Fresh(<<>>)
  BY EmptyIs, Zenon
<1>9. Stepped(p, m_fsMsg', got, got')
  BY <1>2, <1>7, <1>8, Appended, Zenon DEF Stepped
<1>10. Stepped(Fed(m_fsMsg, data), m_fsMsg', got, got')
  BY <1>9 DEF p
<1>11. Holding(m_fsMsg', sent, unread', offset', cuts', got')
  BY <1>1, <1>4, <1>5, <1>6, <1>10, ReadKeeps, Zenon
<1> QED BY <1>4, <1>11, Zenon DEF IInv

\* and so does every step.
LEMMA NextHolds == IInv /\ [Next]_vars => IInv'
<1> SUFFICES ASSUME IInv, [Next]_vars PROVE IInv'
  OBVIOUS
<1>1. CASE Send
  BY <1>1, SendHolds
<1>2. CASE \E n \in 1..Len(unread) : Read(n)
  BY <1>2, ReadHolds
<1>3. CASE UNCHANGED vars
  BY <1>3 DEF vars, IInv
<1> QED BY <1>1, <1>2, <1>3 DEF Next

-----------------------------------------------------------------------------
(* What the invariant says of the two properties *)

\* The cuts of message i, in the terms of the invariant.
LEMMA CutsAre ==
    ASSUME NEW i
    PROVE  Cuts(i) = CutsOf(cuts, sent[i].start, Size(sent, i))
BY Zenon DEF Cuts, CutsOf, Size

\* And whether they are good.
LEMMA WellCutIs ==
    ASSUME Stream(sent, unread, offset), NEW i \in 1..Len(sent)
    PROVE  WellCut(i) <=> Well(cuts, sent[i].start, sent[i].msg)
<1> DEFINE s == sent[i].start
           msg == sent[i].msg
           late == {k \in Cuts(i) : k > 2}
<1>1. s \in Nat /\ msg \in Message
  BY Zenon DEF Stream, Lies
<1>2. Cuts(i) = CutsOf(cuts, s, Len(Text[msg]))
  BY CutsAre, Zenon DEF Size
<1>3. late = {k \in CutsOf(cuts, s, Len(Text[msg])) : k > 2}
  BY <1>2
<1>4. WellCut(i) <=>
        /\ late # {}
        /\ \/ Min(late) \in Tails[msg]
           \/ Min(late) \in LineEnds[msg] /\ Len(Text[msg]) \in CutsOf(cuts, s, Len(Text[msg]))
  BY <1>2, Zenon DEF WellCut
<1> HIDE DEF s, msg, late
<1>5. Well(cuts, s, msg) <=>
        /\ late # {}
        /\ \/ Min(late) \in Tails[msg]
           \/ Min(late) \in LineEnds[msg] /\ Len(Text[msg]) \in CutsOf(cuts, s, Len(Text[msg]))
  BY <1>1, <1>3, WellIs, Zenon
<1> QED BY <1>4, <1>5, Zenon DEF s, msg

\* The message after the first d has not been cut well, as far as it has been read.
LEMMA NextNotWell ==
    ASSUME NEW m, NEW S, NEW u, NEW o, NEW C, NEW g, Stream(S, u, o),
           \A c \in C : c \in Nat /\ c <= o, NEW d \in 0..Len(S), d < Len(S), Stage(d, m, S, u, o, C, g)
    PROVE  /\ ~Well(C, S[d + 1].start, S[d + 1].msg)
           /\ \A k \in 3..(Size(S, d + 1) - 1) :
                CutsOf(C, S[d + 1].start, Size(S, d + 1)) = {k, Size(S, d + 1)} =>
                   \/ k \in Tails[S[d + 1].msg] \/ k \in LineEnds[S[d + 1].msg]
                   \/ Ruined(d, m, Text[S[d + 1].msg], g, k, 0)
<1> DEFINE a == S[d + 1].start
           n == Size(S, d + 1)
           msg == S[d + 1].msg
<1>1. /\ S[d + 1].msg = msg /\ msg \in Message /\ Len(Text[msg]) = n
      /\ n \in Nat /\ n > 5 /\ a \in Nat /\ Ended(S, d) = a
  BY NextIs, Zenon DEF Nexts
<1>2. o \in Nat
  BY Zenon DEF Stream
<1>n. n \in Nat /\ n > 5 /\ a \in Nat /\ n \in 3..n
  BY <1>1
<1>3. ASSUME Waiting(d, m, S, u, o, g) PROVE \A k \in 3..n : a + k \notin C
  <2>1. o <= a \/ o <= a + 2
    BY <1>1, <1>3, Zenon DEF Waiting
  <2> HIDE DEF a, n, msg
  <2>2. SUFFICES ASSUME NEW k \in 3..n, a + k \in C PROVE FALSE
    BY Zenon
  <2>3. a + k <= o
    BY <2>2, Zenon
  <2> QED BY <1>2, <1>n, <2>1, <2>3
<1>4. ASSUME Filling(d, m, S, o, C, g) PROVE a + n \notin C
  <2>1. o >= a /\ Fill(m, msg, o - a)
    BY <1>4, Zenon DEF Filling
  <2>2. o < a + n
    BY <1>1, <1>2, <2>1, FillBounds
  <2> HIDE DEF a, n, msg
  <2>3. ASSUME a + n \in C PROVE FALSE
    <3>1. a + n <= o
      BY <2>3, Zenon
    <3> QED BY <1>2, <1>n, <2>2, <3>1
  <2> QED BY <2>3
<1>5. ~Well(C, a, msg)
  <2>1. CASE Waiting(d, m, S, u, o, g)
    BY <1>1, <1>3, <2>1, Zenon DEF Well, FirstLate, LateCut
  <2>2. CASE Filling(d, m, S, o, C, g)
    <3>1. PICK k : FirstLate(C, a, n, k) /\ k \notin Tails[msg]
      BY <2>2, Zenon DEF Filling
    <3> QED BY <1>1, <1>4, <2>2, <3>1, BadNotWell, Zenon
  <2>3. CASE Lost(d, S, o, C)
    BY <2>3, Zenon DEF Lost
  <2> QED BY <2>1, <2>2, <2>3, Zenon DEF Stage
<1>6. ASSUME NEW k \in 3..(n - 1), CutsOf(C, a, n) = {k, n}, k \notin Tails[msg], k \notin LineEnds[msg]
      PROVE  Ruined(d, m, Text[msg], g, k, 0)
  <2>1. n \in CutsOf(C, a, n)
    BY <1>6, Zenon
  <2>2. a + n \in C
    BY <2>1, Zenon DEF CutsOf
  <2>3. CASE Waiting(d, m, S, u, o, g)
    BY <1>n, <1>3, <2>2, <2>3, Zenon
  <2>4. CASE Filling(d, m, S, o, C, g)
    BY <1>4, <2>2, <2>4, Zenon
  <2>5. CASE Spoilt(d, m, S, o, C, g)
    BY <1>6, <2>5, Zenon DEF Spoilt
  <2> QED BY <2>3, <2>4, <2>5, Zenon DEF Stage
<1> QED BY <1>5, <1>6, Zenon

\* The invariant implies the first property:
\* if n messages were cut well, n is at most d, for message d + 1 was not.
LEMMA HoldingUnderstood == IInv => WellCutUnderstood
<1> SUFFICES ASSUME IInv, NEW n \in 1..Len(sent), \A i \in 1..n : WellCut(i)
             PROVE  Len(got) >= n /\ \A i \in 1..n : got[i] = Says(sent[i].msg)
  BY Zenon DEF WellCutUnderstood
<1>1. Holding(m_fsMsg, sent, unread, offset, cuts, got)
  BY Zenon DEF IInv
<1>2. /\ Stream(sent, unread, offset) /\ IsSeq(got)
      /\ \A c \in cuts : c \in Nat /\ c <= offset
  BY <1>1, Zenon DEF Holding
<1>3. PICK d \in 0..Len(sent) : Right(d, sent, cuts, got) /\ Stage(d, m_fsMsg, sent, unread, offset, cuts, got)
  BY <1>1, Zenon DEF Holding
<1>4. Len(sent) \in Nat /\ Len(got) \in Nat
  BY <1>2, Zenon DEF Stream, IsSeq
<1>5. d <= Len(got) /\ \A i \in 1..d : got[i] = Says(sent[i].msg)
  BY <1>3, Zenon DEF Right
<1>6. n <= d
  <2>1. SUFFICES ASSUME ~(n <= d) PROVE FALSE
    OBVIOUS
  <2>2. d < Len(sent) /\ d + 1 \in 1..n /\ d + 1 \in 1..Len(sent)
    BY <1>4, <2>1
  <2>3. ~Well(cuts, sent[d + 1].start, sent[d + 1].msg)
    BY <1>2, <1>3, <2>2, NextNotWell, Zenon
  <2>4. WellCut(d + 1)
    BY <2>2, Zenon
  <2> QED BY <1>2, <2>2, <2>3, <2>4, WellCutIs, Zenon
<1>7. Len(got) >= n /\ \A i \in 1..n : i \in 1..d
  <2>1. d <= Len(got)
    BY <1>5
  <2> QED BY <1>4, <1>6, <2>1
<1> QED BY <1>5, <1>7, Zenon

\* and the second:
\* the message in question is d + 1, and it is neither awaited nor being filled.
LEMMA HoldingSpoils == IInv => BadlyCutSpoils
<1> SUFFICES ASSUME IInv, NEW n \in 1..Len(sent), NEW k \in 3..(Len(Text[sent[n].msg]) - 1),
                    \A i \in 1..(n - 1) : WellCut(i), ~WellCut(n),
                    Cuts(n) = {k, Len(Text[sent[n].msg])}
             PROVE  \/ Len(got) < n
                    \/ Len(got) = n /\ Text[sent[n].msg][k] \in {"+OK", "+ERR"}
  BY Zenon DEF BadlyCutSpoils
<1>1. Holding(m_fsMsg, sent, unread, offset, cuts, got)
  BY Zenon DEF IInv
<1>2. /\ Stream(sent, unread, offset) /\ IsSeq(got)
      /\ \A c \in cuts : c \in Nat /\ c <= offset
  BY <1>1, Zenon DEF Holding
<1>3. PICK d \in 0..Len(sent) : Right(d, sent, cuts, got) /\ Stage(d, m_fsMsg, sent, unread, offset, cuts, got)
  BY <1>1, Zenon DEF Holding
<1>4. Len(sent) \in Nat /\ Len(got) \in Nat
  BY <1>2, Zenon DEF Stream, IsSeq
<1>5. \A i \in 1..d : WellCut(i)
  <2>1. \A i \in 1..d : i \in 1..Len(sent)
    BY <1>4
  <2>2. \A i \in 1..d : Well(cuts, sent[i].start, sent[i].msg)
    BY <1>3, Zenon DEF Right
  <2> QED BY <1>2, <2>1, <2>2, WellCutIs, Zenon
<1>6. n > d
  <2>1. SUFFICES ASSUME ~(n > d) PROVE FALSE
    OBVIOUS
  <2>2. n \in 1..d
    BY <1>4, <2>1
  <2> QED BY <1>5, <2>2, Zenon
<1>7. d < Len(sent) /\ d + 1 \in 1..Len(sent)
  BY <1>4, <1>6
<1> DEFINE a == sent[d + 1].start
           z == Size(sent, d + 1)
           msg == sent[d + 1].msg
<1>8. /\ ~Well(cuts, a, msg)
      /\ \A j \in 3..(z - 1) : CutsOf(cuts, a, z) = {j, z} =>
           \/ j \in Tails[msg] \/ j \in LineEnds[msg] \/ Ruined(d, m_fsMsg, Text[msg], got, j, 0)
  BY <1>2, <1>3, <1>7, NextNotWell
<1>9. n = d + 1
  <2>1. SUFFICES ASSUME n # d + 1 PROVE FALSE
    OBVIOUS
  <2>2. d + 1 \in 1..(n - 1)
    BY <1>4, <1>6, <2>1
  <2>3. WellCut(d + 1)
    BY <2>2, Zenon
  <2> QED BY <1>2, <1>7, <1>8, <2>3, WellCutIs, Zenon
<1>10. a \in Nat /\ msg \in Message /\ z = Len(Text[msg])
  BY <1>2, <1>7, Zenon DEF Stream, Lies, Size
<1>11. z \in Nat
  BY <1>10, TextSizes, Zenon DEF Sized
<1>12. k \in 3..(z - 1) /\ CutsOf(cuts, a, z) = {k, z}
  BY <1>9, <1>10, CutsAre, Zenon DEF Size
<1> HIDE DEF a, z, msg
<1>13. k \in 3..z /\ z \in 1..z /\ k \in 1..z /\ k < z
  BY <1>11, <1>12
<1>14. FirstLate(cuts, a, z, k)
  <2>1. a + k \in cuts
    BY <1>12, Zenon DEF CutsOf
  <2>2. ASSUME NEW j, LateCut(cuts, a, z, j) PROVE k <= j
    <3>1. j \in 3..z /\ a + j \in cuts
      BY <2>2, Zenon DEF LateCut
    <3>2. j \in 1..z
      BY <1>11, <3>1
    <3>3. j = k \/ j = z
      BY <1>12, <3>1, <3>2, Zenon DEF CutsOf
    <3> QED BY <1>11, <1>13, <3>3
  <2> QED BY <1>13, <2>1, <2>2, Zenon DEF FirstLate, LateCut
<1>15. a + z \in cuts
  BY <1>12, Zenon DEF CutsOf
<1>16. k \notin Tails[msg] /\ k \notin LineEnds[msg]
  BY <1>8, <1>10, <1>14, <1>15, Zenon DEF Well
<1>17. Ruined(d, m_fsMsg, Text[msg], got, k, 0)
  BY <1>8, <1>12, <1>16, Zenon
<1>18. Len(got) = d \/ (Len(got) = d + 1 /\ Text[msg][k] \in {"+OK", "+ERR"})
  BY <1>17, Zenon DEF Ruined
<1>19. CASE Len(got) = d
  BY <1>4, <1>9, <1>19
<1>20. CASE Len(got) = d + 1 /\ Text[msg][k] \in {"+OK", "+ERR"}
  BY <1>9, <1>20, Zenon DEF msg
<1> QED BY <1>18, <1>19, <1>20

\* However many messages are sent and in however many pieces they are read: as long as
\* fs_message finds them cut well, read_handler understands them one by one as the server
\* meant them.
THEOREM WellCutMessages == Spec => []WellCutUnderstood
<1>1. Init => IInv
  BY InitHolds
<1>2. IInv /\ [Next]_vars => IInv'
  BY NextHolds
<1>3. IInv => WellCutUnderstood
  BY HoldingUnderstood
<1> QED BY <1>1, <1>2, <1>3, PTL DEF Spec

\* However many messages are sent: one that was cut in two at any other place, after
\* messages that were cut well, is never complete for fs_message, nor is any message after
\* it; or it was a reply cut in its text, and what was left of it spoils the next.
THEOREM BadlyCutMessages == Spec => []BadlyCutSpoils
<1>1. Init => IInv
  BY InitHolds
<1>2. IInv /\ [Next]_vars => IInv'
  BY NextHolds
<1>3. IInv => BadlyCutSpoils
  BY HoldingSpoils
<1> QED BY <1>1, <1>2, <1>3, PTL DEF Spec

=============================================================================
