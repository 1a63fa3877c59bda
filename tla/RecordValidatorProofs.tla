------------------------- MODULE RecordValidatorProofs -------------------------
(***************************************************************************)
(* Proofs about RecordValidator: what the issues of a record may be, that  *)
(* none is lost on the way to the report, and what a record without errors *)
(* is known to be.                                                         *)
(***************************************************************************)
EXTENDS RecordValidator, FiniteSetTheorems, WellFoundedInduction, TLAPS

-----------------------------------------------------------------------------
(* The lists a run builds (ErrorCodes), by the least counterexample.                    *)
LEMMA Least ==
  ASSUME NEW T \in SUBSET Nat, T # {}
  PROVE  \E x \in T : \A y \in T : x <= y
<1> DEFINE R == {ss \in Nat \X Nat : ss[1] < ss[2]}
<1>1. IsWellFoundedOn(R, Nat)
  BY NatLessThanWellFounded DEF OpToRel
<1>2. \E x \in T : \A y \in T : ~ (<<y, x>> \in R)
  <2> HIDE DEF R
  <2> QED
    BY <1>1, WFMin
<1>3. PICK x \in T : \A y \in T : ~ (<<y, x>> \in R)
  BY <1>2
<1>4. ASSUME NEW y \in T PROVE x <= y
  <2>1. ~ (<<y, x>> \in R) /\ x \in Nat /\ y \in Nat
    BY <1>3
  <2> QED
    BY <2>1
<1> QED
  BY <1>4

(* The recursion of Subsequence has a solution.                            *)
Kept(f, seq, positions, n) ==
  f = [i \in 0..n |-> IF i = 0 THEN << >>
                      ELSE IF i \in positions THEN Append(f[i - 1], seq[i]) ELSE f[i - 1]]
LEMMA KeptExists ==
  ASSUME NEW seq, NEW positions, NEW n \in Nat
  PROVE  \E f : Kept(f, seq, positions, n)
<1> DEFINE Missed == {k \in Nat : ~ \E f : Kept(f, seq, positions, k)}
<1>1. SUFFICES ASSUME Missed # {} PROVE FALSE
  OBVIOUS
<1>2. PICK m \in Missed : \A k \in Missed : m <= k
  BY <1>1, Least
<1>3. m # 0
  <2>1. Kept([i \in 0..0 |-> << >>], seq, positions, 0)
    BY DEF Kept
  <2> QED
    BY <2>1, <1>2
<1>4. PICK f : Kept(f, seq, positions, m - 1)
  BY <1>2, <1>3
<1> DEFINE last == IF m \in positions THEN Append(f[m - 1], seq[m]) ELSE f[m - 1]
           next == [i \in 0..m |-> IF i = m THEN last ELSE f[i]]
<1>5. Kept(next, seq, positions, m)
  <2>1. ASSUME NEW i \in 0..m
        PROVE  next[i] = IF i = 0 THEN << >>
                         ELSE IF i \in positions THEN Append(next[i - 1], seq[i])
                              ELSE next[i - 1]
    <3>1. CASE i = m
      BY <3>1, <1>3
    <3>2. CASE i # m
      <4>1. i \in 0..(m - 1) /\ next[i] = f[i] /\ (i # 0 => next[i - 1] = f[i - 1])
        BY <3>2, <1>2
      <4>2. f[i] = IF i = 0 THEN << >>
                   ELSE IF i \in positions THEN Append(f[i - 1], seq[i]) ELSE f[i - 1]
        BY <4>1, <1>4 DEF Kept
      <4> QED
        BY <4>1, <4>2
    <3> QED
      BY <3>1, <3>2
  <2> HIDE DEF next
  <2> QED
    BY <2>1 DEF Kept, next
<1> QED
  BY <1>2, <1>5

(* What is kept are the entries at the positions, and nothing else.        *)
LEMMA Subsequences ==
  ASSUME NEW S, NEW seq \in Seq(S), NEW positions
  PROVE  LET kept == Subsequence(seq, positions) IN
         /\ kept \in Seq(S)
         /\ \A j \in DOMAIN kept : \E i \in DOMAIN seq : i \in positions /\ kept[j] = seq[i]
         /\ \A i \in DOMAIN seq : i \in positions => \E j \in DOMAIN kept : kept[j] = seq[i]
<1> DEFINE n == Len(seq)
           f == CHOOSE g : Kept(g, seq, positions, n)
<1>1. n \in Nat /\ DOMAIN seq = 1..n
  OBVIOUS
<1>2. Kept(f, seq, positions, n)
  BY <1>1, KeptExists
<1>3. Subsequence(seq, positions) = f[n]
  BY DEF Subsequence, Kept
<1> DEFINE Fine(k) == /\ f[k] \in Seq(S)
                      /\ \A j \in DOMAIN f[k] : \E i \in 1..k : i \in positions /\ f[k][j] = seq[i]
                      /\ \A i \in 1..k : i \in positions => \E j \in DOMAIN f[k] : f[k][j] = seq[i]
           Missed == {k \in 0..n : ~Fine(k)}
<1> HIDE DEF f
<1>4. CASE Missed = {}
  <2> DEFINE kept == f[n]
  <2>1. Fine(n)
    BY <1>4, <1>1
  <2>2. /\ kept \in Seq(S)
        /\ \A j \in DOMAIN kept : \E i \in 1..n : i \in positions /\ kept[j] = seq[i]
        /\ \A i \in 1..n : i \in positions => \E j \in DOMAIN kept : kept[j] = seq[i]
    BY <2>1
  <2> HIDE DEF kept, n
  <2>3. Subsequence(seq, positions) = kept
    BY <1>3 DEF kept
  <2> QED
    BY <1>1, <2>2, <2>3
<1>5. CASE Missed # {}
  <2>1. PICK m \in Missed : \A k \in Missed : m <= k
    <3>1. Missed \in SUBSET Nat
      BY <1>1
    <3> QED
      BY <3>1, <1>5, Least
  <2>2. m \in 0..n /\ ~Fine(m)
    BY <2>1
  <2>3. m # 0
    <3>1. f[0] = << >>
      BY <1>1, <1>2 DEF Kept
    <3>2. Fine(0)
      BY <3>1
    <3> QED
      BY <3>2, <2>2
  <2>4. Fine(m - 1) /\ m \in 1..n
    BY <2>1, <2>2, <2>3, <1>1
  <2>5. f[m] = IF m \in positions THEN Append(f[m - 1], seq[m]) ELSE f[m - 1]
    <3>1. \A i \in 0..n : f[i] = IF i = 0 THEN << >>
                       ELSE IF i \in positions THEN Append(f[i - 1], seq[i]) ELSE f[i - 1]
      BY <1>2 DEF Kept
    <3>2. m \in 0..n
      BY <2>2
    <3> HIDE DEF n
    <3> QED
      BY <3>1, <3>2, <2>3
  <2>6. seq[m] \in S
    BY <2>4, <1>1
  <2>7. CASE m \in positions
    <3> DEFINE before == f[m - 1]
    <3>1. before \in Seq(S) /\ f[m] = Append(before, seq[m])
      BY <2>4, <2>5, <2>7
    <3>2. /\ f[m] \in Seq(S) /\ DOMAIN f[m] = 1..(Len(before) + 1)
          /\ \A j \in DOMAIN before : f[m][j] = before[j]
          /\ f[m][Len(before) + 1] = seq[m]
      <4> HIDE DEF before
      <4> QED
        BY <3>1, <2>6
    <3>3. DOMAIN before = 1..Len(before) /\ Len(before) \in Nat
      BY <3>1
    <3>4. ASSUME NEW j \in DOMAIN f[m]
          PROVE  \E i \in 1..m : i \in positions /\ f[m][j] = seq[i]
      <4>1. CASE j \in DOMAIN before
        <5>1. PICK i \in 1..(m - 1) : i \in positions /\ before[j] = seq[i]
          BY <4>1, <2>4
        <5>2. f[m][j] = before[j]
          <6> HIDE DEF before
          <6> QED
            BY <3>2, <4>1
        <5>3. f[m][j] = seq[i] /\ i \in 1..m
          <6>1. i \in 1..m
            BY <5>1, <2>4
          <6> QED
            BY <5>1, <5>2, <6>1
        <5> QED
          BY <5>1, <5>3
      <4>2. CASE j = Len(before) + 1
        BY <4>2, <3>2, <2>7, <2>4
      <4> QED
        BY <4>1, <4>2, <3>2, <3>3
    <3>5. ASSUME NEW i \in 1..m, i \in positions
          PROVE  \E j \in DOMAIN f[m] : f[m][j] = seq[i]
      <4>1. CASE i = m
        <5>1. Len(before) + 1 \in DOMAIN f[m] /\ f[m][Len(before) + 1] = seq[i]
          BY <4>1, <3>2, <3>3
        <5> QED
          BY <5>1
      <4>2. CASE i # m
        <5>1. PICK j \in DOMAIN before : before[j] = seq[i]
          BY <4>2, <3>5, <2>4
        <5> QED
          BY <5>1, <3>2, <3>3
      <4> QED
        BY <4>1, <4>2
    <3> QED
      BY <3>2, <3>4, <3>5, <2>2
  <2>8. CASE m \notin positions
    <3>1. f[m] = f[m - 1]
      BY <2>5, <2>8
    <3>2. \A i \in 1..m : i \in positions => i \in 1..(m - 1)
      BY <2>8, <2>4
    <3>3. \A i \in 1..(m - 1) : i \in 1..m
      BY <2>4
    <3> QED
      BY <3>1, <3>2, <3>3, <2>4, <2>2
  <2> QED
    BY <2>7, <2>8
<1> QED
  BY <1>4, <1>5

(* Insertion adds the issue, and sorting loses none and adds none.         *)
LEMMA InsertedList ==
  ASSUME NEW S, NEW list \in Seq(S), NEW issue \in S
  PROVE  /\ Inserted(list, issue) \in Seq(S)
         /\ Len(Inserted(list, issue)) = Len(list) + 1
         /\ \A j \in 1..(Len(list) + 1) :
              \/ Inserted(list, issue)[j] = issue
              \/ \E i \in DOMAIN list : Inserted(list, issue)[j] = list[i]
         /\ \E j \in 1..(Len(list) + 1) : Inserted(list, issue)[j] = issue
         /\ \A i \in DOMAIN list :
              \E j \in 1..(Len(list) + 1) : Inserted(list, issue)[j] = list[i]
<1> DEFINE later == {i \in DOMAIN list : IssueBefore(issue, list[i])}
           at == IF later = {} THEN Len(list) + 1 ELSE Min(later)
           result == Inserted(list, issue)
<1>0. Len(list) \in Nat /\ DOMAIN list = 1..Len(list) /\ \A i \in 1..Len(list) : list[i] \in S
  OBVIOUS
<1>1. at \in 1..(Len(list) + 1)
  <2>1. CASE later = {}
    BY <2>1, <1>0
  <2>2. CASE later # {}
    <3>1. later \in SUBSET Nat
      BY <1>0
    <3>2. Min(later) \in later
      BY <3>1, <2>2, Least DEF Min
    <3> QED
      BY <3>2, <2>2, <1>0
  <2> QED
    BY <2>1, <2>2
<1>2. result = [i \in 1..(Len(list) + 1) |->
                  IF i < at THEN list[i] ELSE IF i = at THEN issue ELSE list[i - 1]]
  BY DEF Inserted
<1> HIDE DEF at, later, result
<1>3. ASSUME NEW j \in 1..(Len(list) + 1)
      PROVE  /\ result[j] \in S
             /\ result[j] = issue \/ \E i \in DOMAIN list : result[j] = list[i]
  <2>1. CASE j < at
    <3>1. j \in DOMAIN list /\ result[j] = list[j]
      BY <1>0, <1>1, <1>2, <2>1
    <3> QED
      BY <3>1, <1>0
  <2>2. CASE j = at
    BY <1>2, <2>2
  <2>3. CASE j > at
    <3>1. j - 1 \in DOMAIN list /\ result[j] = list[j - 1]
      BY <1>0, <1>1, <1>2, <2>3
    <3> QED
      BY <3>1, <1>0
  <2> QED
    BY <2>1, <2>2, <2>3, <1>0, <1>1
<1>4. result \in Seq(S) /\ Len(result) = Len(list) + 1
  <2>1. result \in [1..(Len(list) + 1) -> S]
    BY <1>2, <1>3
  <2>2. Len(list) + 1 \in Nat
    BY <1>0
  <2> QED
    BY <2>1, <2>2
<1>5. result[at] = issue
  BY <1>1, <1>2
<1>6. ASSUME NEW i \in DOMAIN list
      PROVE  \E j \in 1..(Len(list) + 1) : result[j] = list[i]
  <2>1. CASE i < at
    BY <2>1, <1>0, <1>2
  <2>2. CASE i >= at
    <3>1. /\ i + 1 \in 1..(Len(list) + 1) /\ ~(i + 1 < at) /\ i + 1 # at /\ (i + 1) - 1 = i
      BY <2>2, <1>0, <1>1
    <3>2. result[i + 1] = list[i]
      BY <3>1, <1>2
    <3> QED
      BY <3>1, <3>2
  <2> QED
    BY <2>1, <2>2, <1>0, <1>1
<1>7. result = Inserted(list, issue)
  BY DEF result
<1> QED
  BY <1>1, <1>3, <1>4, <1>5, <1>6, <1>7

LEMMA InsertedKeeps ==
  ASSUME NEW S, NEW list \in Seq(S), NEW issue \in S, NEW i \in DOMAIN list
  PROVE  \E j \in 1..(Len(list) + 1) : Inserted(list, issue)[j] = list[i]
BY InsertedList
LEMMA InsertedAdds ==
  ASSUME NEW S, NEW list \in Seq(S), NEW issue \in S
  PROVE  \E j \in 1..(Len(list) + 1) : Inserted(list, issue)[j] = issue
BY InsertedList

Sorted(f, seq, n) ==
  f = [i \in 0..n |-> IF i = 0 THEN << >> ELSE Inserted(f[i - 1], seq[i])]
LEMMA SortedExists ==
  ASSUME NEW seq, NEW n \in Nat
  PROVE  \E f : Sorted(f, seq, n)
<1> DEFINE Missed == {k \in Nat : ~ \E f : Sorted(f, seq, k)}
<1>1. SUFFICES ASSUME Missed # {} PROVE FALSE
  OBVIOUS
<1>2. PICK m \in Missed : \A k \in Missed : m <= k
  BY <1>1, Least
<1>3. m # 0
  <2>1. Sorted([i \in 0..0 |-> << >>], seq, 0)
    BY DEF Sorted
  <2> QED
    BY <2>1, <1>2
<1>4. PICK f : Sorted(f, seq, m - 1)
  BY <1>2, <1>3
<1> DEFINE last == Inserted(f[m - 1], seq[m])
           next == [i \in 0..m |-> IF i = m THEN last ELSE f[i]]
<1>5. Sorted(next, seq, m)
  <2>1. ASSUME NEW i \in 0..m
        PROVE  next[i] = IF i = 0 THEN << >> ELSE Inserted(next[i - 1], seq[i])
    <3>1. CASE i = m
      BY <3>1, <1>3
    <3>2. CASE i # m
      <4>1. i \in 0..(m - 1) /\ next[i] = f[i] /\ (i # 0 => next[i - 1] = f[i - 1])
        BY <3>2, <1>2
      <4>2. f[i] = IF i = 0 THEN << >> ELSE Inserted(f[i - 1], seq[i])
        BY <4>1, <1>4 DEF Sorted
      <4> QED
        BY <4>1, <4>2
    <3> QED
      BY <3>1, <3>2
  <2> HIDE DEF next
  <2> QED
    BY <2>1 DEF Sorted, next
<1> QED
  BY <1>2, <1>5

LEMMA SortedList ==
  ASSUME NEW S, NEW list \in Seq(S)
  PROVE  LET sorted == sortIssues(list) IN
         /\ sorted \in Seq(S) /\ Len(sorted) = Len(list)
         /\ \A j \in DOMAIN list : \E i \in DOMAIN list : sorted[j] = list[i]
         /\ \A i \in DOMAIN list : \E j \in DOMAIN list : sorted[j] = list[i]
<1> DEFINE n == Len(list)
           f == CHOOSE g : Sorted(g, list, n)
<1>1. n \in Nat /\ DOMAIN list = 1..n /\ \A i \in 1..n : list[i] \in S
  OBVIOUS
<1>2. Sorted(f, list, n)
  BY <1>1, SortedExists
<1>3. sortIssues(list) = f[n]
  BY DEF sortIssues, Sorted
<1> DEFINE Fine(k) == /\ f[k] \in Seq(S) /\ Len(f[k]) = k
                      /\ \A j \in 1..k : \E i \in 1..k : f[k][j] = list[i]
                      /\ \A i \in 1..k : \E j \in 1..k : f[k][j] = list[i]
           Missed == {k \in 0..n : ~Fine(k)}
<1> HIDE DEF f
<1>4. CASE Missed = {}
  <2>1. Fine(n)
    <3> HIDE DEF Fine, n
    <3> QED
      BY <1>4, <1>1
  <2> QED
    BY <2>1, <1>1, <1>3
<1>5. CASE Missed # {}
  <2>1. PICK m \in Missed : \A k \in Missed : m <= k
    <3>1. Missed \in SUBSET Nat
      BY <1>1
    <3> QED
      BY <3>1, <1>5, Least
  <2>2. m \in 0..n /\ ~Fine(m)
    BY <2>1
  <2>a. \A i \in 0..n : f[i] = IF i = 0 THEN << >> ELSE Inserted(f[i - 1], list[i])
    BY <1>2 DEF Sorted
  <2>3. m # 0
    <3>1. f[0] = << >>
      BY <1>1, <2>a
    <3>2. Fine(0)
      BY <3>1
    <3> QED
      BY <3>2, <2>2
  <2>4. Fine(m - 1) /\ m \in 1..n
    <3>1. m - 1 \in 0..n /\ ~(m <= m - 1) /\ m \in 1..n
      BY <2>2, <2>3, <1>1
    <3> HIDE DEF Fine, n
    <3> QED
      BY <2>1, <3>1
  <2>5. f[m] = Inserted(f[m - 1], list[m])
    <3> HIDE DEF n
    <3> QED
      BY <2>a, <2>2, <2>3
  <2>6. list[m] \in S
    BY <2>4, <1>1
  <2> DEFINE before == f[m - 1]  issue == list[m]
  <2>7. before \in Seq(S) /\ Len(before) = m - 1 /\ DOMAIN before = 1..(m - 1)
    BY <2>4
  <2>8. /\ Inserted(before, issue) \in Seq(S)
        /\ Len(Inserted(before, issue)) = m
        /\ \A j \in 1..m : \/ Inserted(before, issue)[j] = issue
                           \/ \E i \in 1..(m - 1) : Inserted(before, issue)[j] = before[i]
        /\ \E j \in 1..m : Inserted(before, issue)[j] = issue
        /\ \A i \in 1..(m - 1) : \E j \in 1..m : Inserted(before, issue)[j] = before[i]
    <3>1. (m - 1) + 1 = m
      BY <2>4
    <3>2. issue \in S
      BY <2>6
    <3> HIDE DEF before, issue
    <3>3. Len(before) + 1 = m /\ DOMAIN before = 1..(m - 1)
      BY <2>7, <3>1
    <3>4. before \in Seq(S)
      BY <2>7
    <3>5. /\ Inserted(before, issue) \in Seq(S)
          /\ Len(Inserted(before, issue)) = Len(before) + 1
      BY ONLY <3>2, <3>4, InsertedList
    <3>7. \A j \in 1..(Len(before) + 1) :
            \/ Inserted(before, issue)[j] = issue
            \/ \E i \in DOMAIN before : Inserted(before, issue)[j] = before[i]
      BY ONLY <3>2, <3>4, InsertedList
    <3>8. \E j \in 1..(Len(before) + 1) : Inserted(before, issue)[j] = issue
      BY ONLY <3>2, <3>4, InsertedAdds
    <3>6. \A i \in DOMAIN before :
            \E j \in 1..(Len(before) + 1) : Inserted(before, issue)[j] = before[i]
      BY ONLY <3>2, <3>4, InsertedKeeps
    <3> QED
      BY ONLY <3>3, <3>5, <3>6, <3>7, <3>8
  <2>9. ASSUME NEW j \in 1..m
        PROVE  \E i \in 1..m : f[m][j] = list[i]
    <3>1. CASE f[m][j] = list[m]
      BY <3>1, <2>4
    <3>2. CASE \E i \in 1..(m - 1) : f[m][j] = before[i]
      <4>1. PICK i \in 1..(m - 1) : f[m][j] = before[i]
        BY <3>2
      <4>2. PICK k \in 1..(m - 1) : before[i] = list[k]
        BY <2>4
      <4>3. k \in 1..m
        BY <2>4
      <4> QED
        BY <4>1, <4>2, <4>3
    <3> QED
      BY <3>1, <3>2, <2>8, <2>5
  <2>10. ASSUME NEW i \in 1..m
         PROVE  \E j \in 1..m : f[m][j] = list[i]
    <3>1. CASE i = m
      BY <3>1, <2>8, <2>5
    <3>2. CASE i # m
      <4>1. i \in 1..(m - 1)
        BY <3>2, <2>4
      <4>2. PICK k \in 1..(m - 1) : before[k] = list[i]
        BY <4>1, <2>4
      <4>3. PICK j \in 1..m : Inserted(before, issue)[j] = before[k]
        BY <2>8
      <4> QED
        BY <4>2, <4>3, <2>5
    <3> QED
      BY <3>1, <3>2
  <2> QED
    BY <2>2, <2>5, <2>8, <2>9, <2>10
<1> QED
  BY <1>4, <1>5

(* The codes of a list are those of the list in order.                     *)
LEMMA SortedCodes ==
  ASSUME NEW S, NEW list \in Seq(S)
  PROVE  Codes(sortIssues(list)) = Codes(list)
<1> DEFINE sorted == sortIssues(list)
<1>1. /\ DOMAIN sorted = DOMAIN list
      /\ \A j \in DOMAIN list : \E i \in DOMAIN list : sorted[j] = list[i]
      /\ \A i \in DOMAIN list : \E j \in DOMAIN list : sorted[j] = list[i]
  <2>1. sorted \in Seq(S) /\ Len(sorted) = Len(list)
    BY SortedList
  <2>2. DOMAIN sorted = DOMAIN list
    <3> HIDE DEF sorted
    <3> QED
      BY <2>1
  <2> QED
    BY <2>2, SortedList
<1> HIDE DEF sorted
<1>2. ASSUME NEW x \in Codes(sorted) PROVE x \in Codes(list)
  <2>1. PICK j \in DOMAIN list : x = sorted[j].code
    BY <1>1 DEF Codes
  <2>2. PICK i \in DOMAIN list : sorted[j] = list[i]
    BY <1>1
  <2> QED
    BY <2>1, <2>2 DEF Codes
<1>3. ASSUME NEW x \in Codes(list) PROVE x \in Codes(sorted)
  <2>1. PICK i \in DOMAIN list : x = list[i].code
    BY DEF Codes
  <2>2. PICK j \in DOMAIN list : sorted[j] = list[i]
    BY <1>1
  <2> QED
    BY <1>1, <2>1, <2>2 DEF Codes
<1> QED
  BY <1>2, <1>3 DEF sorted

-----------------------------------------------------------------------------
(* Decoded values: an array is a list of such values, a map has finitely   *)
(* many keys and such values, a byte string a length.                      *)
DataSet(data) ==
  /\ Missing \in data
  /\ \A v \in data : /\ v.t = "array" => v.a \in Seq(data)
                     /\ v.t = "map" => IsFiniteSet(DOMAIN v.m) /\ Range(v.m) \subseteq data
                     /\ v.t = "bytes" => v.len \in Nat

-----------------------------------------------------------------------------
(* The registry.                                                           *)
Structural ==
  {"MALFORMED_CBOR", "SCHEMA_TYPE_MISMATCH", "SCHEMA_MISSING_REQUIRED",
   "SCHEMA_UNKNOWN_FIELD", "SCHEMA_INVALID_LITERAL", "SCHEMA_EMPTY_RECORD",
   "HASH_DIGEST_LENGTH_MISMATCH", "UNSUPPORTED_HASH_ALG",
   "UNSUPPORTED_MERKLE_COMMIT_ALG", "SCHEMA_MERKLE_LEAF_COUNT_INVALID",
   "INVALID_URI", "UNAUTHENTICATED_CIPHER_FORBIDDEN",
   "UNSUPPORTED_AEAD_ALG", "NONCE_LENGTH_MISMATCH",
   "UNSUPPORTED_ENVELOPE_SCHEME", "ENC_SLOTS_EMPTY",
   "ENC_SLOT_INVALID_SHAPE", "UNSUPPORTED_KEM_ALG", "ENC_KEM_REQUIRED",
   "KEM_EPK_LENGTH_MISMATCH", "KEM_CT_LENGTH_MISMATCH",
   "WRAP_LENGTH_MISMATCH", "ENC_SLOTS_MAC_INVALID_LENGTH",
   "ENC_SLOTS_MAC_REQUIRED", "ENC_SLOTS_REQUIRED",
   "ENC_SLOTS_DUPLICATE_KEM_MATERIAL", "ENC_SLOTS_TOO_MANY",
   "ENC_ENVELOPE_TOO_LARGE", "ENC_EXCLUSIVITY_VIOLATION",
   "ENC_NO_KEY_PATH", "ENC_REQUIRES_CONTENT_HASH",
   "ENC_PASSPHRASE_ALG_UNSUPPORTED", "ENC_PASSPHRASE_SALT_TOO_SHORT",
   "ENC_PASSPHRASE_SALT_TOO_LONG", "ENC_PASSPHRASE_ARGON2_PARAMS_TOO_LOW",
   "ENC_PASSPHRASE_PARAMS_EXCEED_POLICY", "MALFORMED_SIG_COSE_SIGN1",
   "SIG_ENTRY_INVALID_SHAPE", "SIG_ENTRY_KID_COSE_KEY_CONFLICT",
   "SIG_PRIVATE_KEY_LEAKED", "SUPERSEDES_TX_INVALID_LENGTH",
   "EXTENSION_UNSUPPORTED_CRITICAL", "CRIT_SHAPE_INVALID"}
Opaque == {"ENC_UNSUPPORTED", "SIGNATURE_UNSUPPORTED"}

LEMMA CodesKnown ==
  /\ \A i \in 1..76 : ERROR_CODES[i] \in ErrorCode
  /\ Structural \cup Opaque \subseteq ErrorCode
<1>1. DOMAIN ERROR_CODES = 1..76
  BY DEF ERROR_CODES
<1>2. \A i \in 1..76 : ERROR_CODES[i] \in ErrorCode
  BY <1>1 DEF ErrorCode, Range
<1>3. \A c \in Structural \cup Opaque : \E i \in 1..76 : ERROR_CODES[i] = c
  BY DEF Structural, Opaque, ERROR_CODES
<1> QED
  BY <1>2, <1>3

(* The codes of this layer are errors, but for the two that say a record   *)
(* holds something this implementation does not know.                      *)
LEMMA StructuralIsError ==
  ASSUME NEW code \in Structural, NEW path
  PROVE  issueOf(code, path) = [code |-> code, path |-> path, severity |-> "error"]
<1>1. code \in ErrorCode
  BY CodesKnown
<1>2. SEVERITY[code] = "error"
  BY <1>1 DEF SEVERITY, Structural
<1> QED
  BY <1>2 DEF issueOf, IssueAs

-----------------------------------------------------------------------------
(* Finite sets of issues: errors of this layer, codes that are tolerated,  *)
(* or what has no code but stands beside an error.                         *)
IsIssue(s) == s = IssueAs(s.code, s.path, s.severity)
IsError(s) == s.code \in Structural /\ s.severity = "error"
Sound(issues, tolerated) ==
  /\ IsFiniteSet(issues)
  /\ \A s \in issues : /\ IsIssue(s)
                       /\ \/ IsError(s) \/ s.code \in tolerated
                          \/ s.severity # "error" /\ \E e \in issues : IsError(e)

LEMMA SoundNone == \A tolerated : Sound({}, tolerated)
BY FS_EmptySet DEF Sound, IsError

LEMMA SoundOne ==
  ASSUME NEW code \in Structural, NEW path, NEW tolerated
  PROVE  Sound({issueOf(code, path)}, tolerated)
<1>1. IsFiniteSet({issueOf(code, path)})
  BY FS_Singleton
<1> QED
  BY <1>1, StructuralIsError DEF Sound, IsError, IsIssue, IssueAs

LEMMA SoundWhen ==
  ASSUME NEW code \in Structural, NEW path, NEW tolerated, NEW cond
  PROVE  Sound(OneWhen(cond, code, path), tolerated)
BY SoundOne, SoundNone DEF OneWhen, When

LEMMA SoundUnion ==
  ASSUME NEW A, NEW B, NEW tolerated, Sound(A, tolerated), Sound(B, tolerated)
  PROVE  Sound(A \cup B, tolerated)
<1>1. IsFiniteSet(A \cup B)
  BY FS_Union DEF Sound, IsError
<1> QED
  BY <1>1 DEF Sound, IsError

LEMMA FiniteImage ==
  ASSUME NEW f, IsFiniteSet(DOMAIN f)
  PROVE  IsFiniteSet({f[i] : i \in DOMAIN f})
<1> DEFINE T == {f[i] : i \in DOMAIN f}
           g == [i \in DOMAIN f |-> f[i]]
<1>1. g \in Surjection(DOMAIN f, T)
  BY DEF Surjection
<1> QED
  BY <1>1, FS_Surjection

LEMMA SoundFamily ==
  ASSUME NEW f, NEW tolerated, IsFiniteSet(DOMAIN f),
         \A i \in DOMAIN f : Sound(f[i], tolerated)
  PROVE  Sound(UNION {f[i] : i \in DOMAIN f}, tolerated)
<1>1. IsFiniteSet({f[i] : i \in DOMAIN f})
  BY FiniteImage
<1>2. \A T \in {f[i] : i \in DOMAIN f} : IsFiniteSet(T)
  BY DEF Sound, IsError
<1>3. IsFiniteSet(UNION {f[i] : i \in DOMAIN f})
  BY <1>1, <1>2, FS_UNION
<1> QED
  BY <1>3 DEF Sound, IsError

LEMMA SoundEach ==
  ASSUME NEW code, NEW path, NEW tolerated, IsFiniteSet(DOMAIN path),
         \A i \in DOMAIN path : code[i] \in Structural
  PROVE  Sound({issueOf(code[i], path[i]) : i \in DOMAIN path}, tolerated)
<1> DEFINE f == [i \in DOMAIN path |-> issueOf(code[i], path[i])]
           S == {issueOf(code[i], path[i]) : i \in DOMAIN path}
<1>1. S = {f[i] : i \in DOMAIN f}
  OBVIOUS
<1>2. IsFiniteSet({f[i] : i \in DOMAIN f})
  BY FiniteImage
<1>3. ASSUME NEW s \in S PROVE s.code \in Structural /\ s.severity = "error" /\ IsIssue(s)
  <2>1. PICK i \in DOMAIN path : s = issueOf(code[i], path[i])
    OBVIOUS
  <2> QED
    BY <2>1, StructuralIsError DEF IsIssue, IssueAs
<1> HIDE DEF f, S
<1>4. Sound(S, tolerated)
  BY <1>1, <1>2, <1>3 DEF Sound, IsError
<1> QED
  BY <1>4 DEF S

(* The parts of data.                                                      *)
LEMMA Parts ==
  ASSUME NEW data, DataSet(data), NEW v \in data
  PROVE  /\ \A k : Get(v, k) \in data
         /\ IsFiniteSet(Keys(v))
         /\ Elems(v) \in Seq(data)
         /\ IsFiniteSet(DOMAIN Elems(v)) /\ \A i \in DOMAIN Elems(v) : Elems(v)[i] \in data
<1>1. \A k : Get(v, k) \in data
  <2>1. ASSUME NEW k \in Keys(v) PROVE v.m[k] \in data
    <3>1. v.t = "map" /\ k \in DOMAIN v.m
      BY <2>1 DEF Keys
    <3> QED
      BY <3>1 DEF DataSet, Range
  <2> QED
    BY <2>1 DEF Get, DataSet
<1>2. IsFiniteSet(Keys(v))
  <2>1. CASE v.t = "map"
    <3>1. IsFiniteSet(DOMAIN v.m) /\ Keys(v) \in SUBSET (DOMAIN v.m)
      BY <2>1 DEF DataSet, Keys
    <3> QED
      BY <3>1, FS_Subset
  <2>2. CASE v.t # "map"
    BY <2>2, FS_EmptySet DEF Keys
  <2> QED
    BY <2>1, <2>2
<1>3. Elems(v) \in Seq(data)
  BY DEF Elems, DataSet
<1>4. DOMAIN Elems(v) = 1..Len(Elems(v)) /\ Len(Elems(v)) \in Nat
  BY <1>3
<1>5. IsFiniteSet(DOMAIN Elems(v))
  BY <1>4, FS_Interval
<1> QED
  BY <1>1, <1>2, <1>3, <1>5

-----------------------------------------------------------------------------
(* Schema issues.                                                          *)
LEMMA KindSound ==
  ASSUME NEW v, NEW kind, NEW path, NEW tolerated
  PROVE  /\ Sound({mapZodIssue(v, kind, path)}, tolerated)
         /\ Sound(KindIssues(v, kind, path), tolerated)
<1>1. PICK code \in Structural : mapZodIssue(v, kind, path) = issueOf(code, path)
  BY DEF mapZodIssue, Structural
<1>2. Sound({mapZodIssue(v, kind, path)}, tolerated)
  BY <1>1, SoundOne
<1> QED
  BY <1>2, SoundNone DEF KindIssues, When

LEMMA ElementSound ==
  ASSUME NEW data, DataSet(data), NEW v \in data, NEW kind, NEW path, NEW tolerated
  PROVE  Sound(ElementIssues(v, kind, path), tolerated)
<1> DEFINE f == [i \in DOMAIN Elems(v) |-> KindIssues(Elems(v)[i], kind, path \o << Idx(i) >>)]
<1>1. IsFiniteSet(DOMAIN f)
  BY Parts
<1>2. \A i \in DOMAIN f : Sound(f[i], tolerated)
  BY KindSound
<1>3. ElementIssues(v, kind, path) = UNION {f[i] : i \in DOMAIN f}
  BY DEF ElementIssues
<1> HIDE DEF f
<1> QED
  BY <1>1, <1>2, <1>3, SoundFamily

LEMMA MapSound ==
  ASSUME NEW data, DataSet(data), NEW v \in data, NEW schema, IsFiniteSet(DOMAIN schema),
         NEW closed, NEW path, NEW tolerated
  PROVE  Sound(MapIssues(v, schema, closed, path), tolerated)
<1> DEFINE fields == {f \in DOMAIN schema : ~schema[f][2] \/ Has(v, f)}
           others == IF closed THEN Keys(v) \ DOMAIN schema ELSE {}
           kinds == [f \in fields |-> KindIssues(Get(v, f), schema[f][1], path \o << f >>)]
           code == [k \in others |-> unknownKeyCode(path \o << k >>)]
           at == [k \in others |-> path \o << k >>]
<1>1. CASE v.t # "map"
  BY <1>1, KindSound DEF MapIssues
<1>2. CASE v.t = "map"
  <2>1. IsFiniteSet(fields) /\ IsFiniteSet(others)
    <3>1. fields \in SUBSET DOMAIN schema /\ others \in SUBSET Keys(v) /\ IsFiniteSet(Keys(v))
      BY Parts
    <3> HIDE DEF fields, others
    <3> QED
      BY <3>1, FS_Subset
  <2>2. \A k \in DOMAIN at : code[k] \in Structural
    BY DEF unknownKeyCode, Structural
  <2> DEFINE A == UNION {KindIssues(Get(v, f), schema[f][1], path \o << f >>) : f \in fields}
             B == {issueOf(unknownKeyCode(path \o << k >>), path \o << k >>) : k \in others}
  <2>3. Sound(B, tolerated)
    <3>1. IsFiniteSet(DOMAIN at)
      BY <2>1
    <3>2. B = {issueOf(code[k], at[k]) : k \in DOMAIN at}
      OBVIOUS
    <3> HIDE DEF code, at, B
    <3> QED
      BY <2>2, <3>1, <3>2, SoundEach
  <2>4. Sound(A, tolerated)
    <3>1. IsFiniteSet(DOMAIN kinds) /\ \A f \in DOMAIN kinds : Sound(kinds[f], tolerated)
      BY <2>1, KindSound
    <3>2. A = UNION {kinds[f] : f \in DOMAIN kinds}
      OBVIOUS
    <3> HIDE DEF kinds, A
    <3> QED
      BY <3>1, <3>2, SoundFamily
  <2>5. MapIssues(v, schema, closed, path) = A \cup B
    BY <1>2 DEF MapIssues
  <2> HIDE DEF A, B
  <2> QED
    BY <2>3, <2>4, <2>5, SoundUnion
<1> QED
  BY <1>1, <1>2

LEMMA SmallSound ==
  ASSUME NEW v, NEW len, NEW path, NEW tolerated, NEW code \in Structural
  PROVE  /\ Sound(LengthIssues(v, len, code, path), tolerated)
         /\ Sound(SaltIssues(v, path), tolerated)
         /\ Sound(NonText(v, path), tolerated)
<1>1. /\ "ENC_PASSPHRASE_SALT_TOO_SHORT" \in Structural
      /\ "ENC_PASSPHRASE_SALT_TOO_LONG" \in Structural /\ "SCHEMA_TYPE_MISMATCH" \in Structural
  BY DEF Structural
<1>2. /\ Sound(OneWhen(v.t = "bytes" /\ v.len < 16, "ENC_PASSPHRASE_SALT_TOO_SHORT", path),
               tolerated)
      /\ Sound(OneWhen(v.t = "bytes" /\ v.len > 64, "ENC_PASSPHRASE_SALT_TOO_LONG", path),
               tolerated)
  BY <1>1, SoundWhen
<1> QED
  BY <1>1, <1>2, SoundWhen, SoundUnion DEF LengthIssues, SaltIssues, NonText

LEMMA FiniteUnion ==
  ASSUME NEW A, NEW B, NEW C, IsFiniteSet(A), IsFiniteSet(B), C = A \cup B
  PROVE  IsFiniteSet(C)
BY FS_Union

LEMMA FiniteTriple == \A a, b, c : IsFiniteSet({a, b, c})
<1>1. ASSUME NEW a, NEW b, NEW c PROVE IsFiniteSet({a, b, c})
  <2> DEFINE A == {a}  B == {b}  C == {c}  AB == {a, b}  ABC == {a, b, c}
  <2>1. AB = A \cup B /\ ABC = AB \cup C
    OBVIOUS
  <2>2. IsFiniteSet(A) /\ IsFiniteSet(B) /\ IsFiniteSet(C)
    BY FS_Singleton
  <2> HIDE DEF A, B, C, AB, ABC
  <2>3. IsFiniteSet(ABC)
    BY <2>1, <2>2, FiniteUnion
  <2> QED
    BY <2>3 DEF ABC
<1> QED
  BY <1>1

(* The fields of each schema are a finite set.                             *)
LEMMA SchemasFinite ==
  /\ IsFiniteSet(DOMAIN PoeRecordSchema) /\ IsFiniteSet(DOMAIN EntrySchema)
  /\ \A f \in DOMAIN EntrySchema : IsFiniteSet(DOMAIN EntrySchema[f])
  /\ IsFiniteSet(DOMAIN EncScheme1Schema) /\ IsFiniteSet(DOMAIN SlotSchema)
  /\ IsFiniteSet(DOMAIN PassphraseBlockSchema) /\ IsFiniteSet(DOMAIN ARGON2_FLOORS)
<1> DEFINE One == {"v", "items", "merkle"}  Two == {"supersedes", "sigs", "crit"}
           Three == {"alg", "root", "leaf_count"}  Four == {"uris", "uris", "uris"}
           Five == {"scheme", "aead", "kem"}  Six == {"nonce", "slots", "slots_mac"}
           Seven == {"passphrase", "passphrase", "passphrase"}
           FiveSix == Five \cup Six
           Lists == {"items", "merkle", "sigs"}  Item == {"hashes", "uris", "enc"}
           Sig == {"cose_key", "cose_key", "cose_sign1"}  Slot == {"epk", "kem_ct", "wrap"}
           Block == {"alg", "salt", "params"}  Floors == {"m", "t", "p"}
<1>1. /\ DOMAIN PoeRecordSchema = One \cup Two
      /\ DOMAIN MerkleCommitSchema = Three \cup Four
      /\ DOMAIN EncScheme1Schema = FiveSix \cup Seven
  BY DEF PoeRecordSchema, MerkleCommitSchema, EncScheme1Schema
<1>2. /\ DOMAIN EntrySchema = Lists /\ DOMAIN ItemEntrySchema = Item
      /\ DOMAIN SigEntrySchema = Sig /\ DOMAIN SlotSchema = Slot
      /\ DOMAIN PassphraseBlockSchema = Block /\ DOMAIN ARGON2_FLOORS = Floors
  BY DEF EntrySchema, ItemEntrySchema, SigEntrySchema, SlotSchema, PassphraseBlockSchema,
         ARGON2_FLOORS
<1>3. /\ IsFiniteSet(One) /\ IsFiniteSet(Two) /\ IsFiniteSet(Three) /\ IsFiniteSet(Four)
      /\ IsFiniteSet(Five) /\ IsFiniteSet(Six) /\ IsFiniteSet(Seven)
  BY FiniteTriple
<1>4. /\ IsFiniteSet(Lists) /\ IsFiniteSet(Item) /\ IsFiniteSet(Sig)
      /\ IsFiniteSet(Slot) /\ IsFiniteSet(Block) /\ IsFiniteSet(Floors)
  BY FiniteTriple
<1>8. \A f \in Lists : f = "items" \/ f = "merkle" \/ f = "sigs"
  OBVIOUS
<1> HIDE DEF One, Two, Three, Four, Five, Six, Seven, Lists, Item, Sig, Slot, Block, Floors
<1>5. IsFiniteSet(FiveSix)
  BY <1>3, FiniteUnion
<1> HIDE DEF FiveSix
<1>6. /\ IsFiniteSet(DOMAIN PoeRecordSchema) /\ IsFiniteSet(DOMAIN MerkleCommitSchema)
      /\ IsFiniteSet(DOMAIN EncScheme1Schema)
  BY <1>1, <1>3, <1>5, FiniteUnion
<1>7. ASSUME NEW f \in DOMAIN EntrySchema PROVE IsFiniteSet(DOMAIN EntrySchema[f])
  <2>1. /\ EntrySchema["items"] = ItemEntrySchema /\ EntrySchema["merkle"] = MerkleCommitSchema
        /\ EntrySchema["sigs"] = SigEntrySchema
    BY DEF EntrySchema
  <2>2. f = "items" \/ f = "merkle" \/ f = "sigs"
    BY <1>2, <1>8
  <2> QED
    BY <1>2, <1>4, <1>6, <2>1, <2>2
<1> QED
  BY <1>2, <1>4, <1>6, <1>7

(* The schema's issues with one entry of a list.                           *)
EntryIssues(e, f, at) ==
  MapIssues(e, EntrySchema[f], TRUE, at)
    \cup ElementIssues(Get(e, "uris"), "text", at \o << "uris" >>)
    \cup (IF f # "items" THEN {}
          ELSE UNION {KindIssues(Get(Get(e, "hashes"), k), "bytes", at \o << "hashes", k >>) :
                        k \in Keys(Get(e, "hashes"))})

LEMMA EntrySound ==
  ASSUME NEW data, DataSet(data), NEW e \in data, NEW f \in DOMAIN EntrySchema, NEW at,
         NEW tolerated
  PROVE  Sound(EntryIssues(e, f, at), tolerated)
<1> DEFINE hashes == Get(e, "hashes")
           kinds == [k \in Keys(hashes) |->
                       KindIssues(Get(hashes, k), "bytes", at \o << "hashes", k >>)]
           A == MapIssues(e, EntrySchema[f], TRUE, at)
           B == ElementIssues(Get(e, "uris"), "text", at \o << "uris" >>)
           C == UNION {KindIssues(Get(hashes, k), "bytes", at \o << "hashes", k >>) :
                         k \in Keys(hashes)}
<1>1. Sound(A, tolerated)
  BY MapSound, SchemasFinite
<1>2. Get(e, "uris") \in data /\ hashes \in data
  BY Parts
<1>3. Sound(B, tolerated)
  BY <1>2, ElementSound
<1>4. Sound(C, tolerated)
  <2>1. IsFiniteSet(DOMAIN kinds) /\ \A k \in DOMAIN kinds : Sound(kinds[k], tolerated)
    BY <1>2, Parts, KindSound
  <2>2. C = UNION {kinds[k] : k \in DOMAIN kinds}
    OBVIOUS
  <2> HIDE DEF kinds, C
  <2> QED
    BY <2>1, <2>2, SoundFamily
<1> HIDE DEF A, B, C
<1>5. Sound(A \cup B, tolerated) /\ Sound(IF f # "items" THEN {} ELSE C, tolerated)
  BY <1>1, <1>3, <1>4, SoundUnion, SoundNone
<1>6. Sound(A \cup B \cup (IF f # "items" THEN {} ELSE C), tolerated)
  BY <1>5, SoundUnion
<1> QED
  BY <1>6 DEF A, B, C, EntryIssues

LEMMA RecordSound ==
  ASSUME NEW data, DataSet(data), NEW v \in data, NEW tolerated
  PROVE  Sound(PoeRecordIssues(v), tolerated)
<1> DEFINE Entries(f) == Elems(Get(v, f))
           Entry(f, i) == EntryIssues(Entries(f)[i], f, << f, Idx(i) >>)
           Under(f) == UNION {Entry(f, i) : i \in DOMAIN Entries(f)}
           A == MapIssues(v, PoeRecordSchema, FALSE, << >>)
           B == UNION {UNION {Entry(f, i) : i \in DOMAIN Entries(f)} : f \in DOMAIN EntrySchema}
           C == ElementIssues(Get(v, "crit"), "text", << "crit" >>)
           D == LengthIssues(Get(v, "supersedes"), 32, "SUPERSEDES_TX_INVALID_LENGTH",
                             << "supersedes" >>)
<1>1. PoeRecordIssues(v) = A \cup B \cup C \cup D
  BY DEF PoeRecordIssues, EntryIssues
<1>2. Sound(A, tolerated)
  BY MapSound, SchemasFinite
<1>3. Sound(C, tolerated) /\ Sound(D, tolerated)
  <2>1. "SUPERSEDES_TX_INVALID_LENGTH" \in Structural
    BY DEF Structural
  <2> QED
    BY <2>1, Parts, ElementSound, SmallSound
<1>4. ASSUME NEW f \in DOMAIN EntrySchema, NEW i \in DOMAIN Entries(f)
      PROVE  Sound(Entry(f, i), tolerated)
  <2> DEFINE e == Entries(f)[i]  at == << f, Idx(i) >>
  <2>1. e \in data
    BY Parts
  <2>2. Entry(f, i) = EntryIssues(e, f, at)
    OBVIOUS
  <2> HIDE DEF e, at
  <2>3. Sound(EntryIssues(e, f, at), tolerated)
    BY <2>1, EntrySound
  <2> QED
    BY <2>2, <2>3
<1>5. ASSUME NEW f \in DOMAIN EntrySchema PROVE Sound(Under(f), tolerated)
  <2> DEFINE g == [i \in DOMAIN Entries(f) |-> Entry(f, i)]  U == Under(f)
  <2>1. IsFiniteSet(DOMAIN g)
    BY Parts
  <2>2. \A i \in DOMAIN g : Sound(g[i], tolerated)
    BY <1>4
  <2>3. U = UNION {g[i] : i \in DOMAIN g}
    OBVIOUS
  <2>4. Sound(U, tolerated)
    <3> HIDE DEF g, U
    <3> QED
      BY <2>1, <2>2, <2>3, SoundFamily
  <2> QED
    BY <2>4
<1>6. Sound(B, tolerated)
  <2> DEFINE g == [f \in DOMAIN EntrySchema |-> Under(f)]
  <2>1. IsFiniteSet(DOMAIN g) /\ \A f \in DOMAIN g : Sound(g[f], tolerated)
    BY <1>5, SchemasFinite
  <2>2. B = UNION {g[f] : f \in DOMAIN g}
    OBVIOUS
  <2> HIDE DEF g, B
  <2> QED
    BY <2>1, <2>2, SoundFamily
<1> HIDE DEF A, B, C, D
<1>7. Sound(A \cup B, tolerated)
  BY <1>2, <1>6, SoundUnion
<1>8. Sound(A \cup B \cup C, tolerated)
  BY <1>7, <1>3, SoundUnion
<1> QED
  BY <1>1, <1>3, <1>8, SoundUnion

LEMMA EncSchemaSound ==
  ASSUME NEW data, DataSet(data), NEW enc \in data, NEW tolerated
  PROVE  Sound(EncScheme1Issues(enc), tolerated)
<1> DEFINE slots == Elems(Get(enc, "slots"))
           pp == Get(enc, "passphrase")
           g == [j \in DOMAIN slots |-> MapIssues(slots[j], SlotSchema, FALSE, << "slots", Idx(j) >>)]
           A == MapIssues(enc, EncScheme1Schema, TRUE, << >>)
           B == UNION {MapIssues(slots[j], SlotSchema, FALSE, << "slots", Idx(j) >>) :
                         j \in DOMAIN slots}
           C == LengthIssues(Get(enc, "slots_mac"), 32, "ENC_SLOTS_MAC_INVALID_LENGTH",
                             << "slots_mac" >>)
           P == MapIssues(pp, PassphraseBlockSchema, TRUE, << "passphrase" >>)
           S == SaltIssues(Get(pp, "salt"), << "passphrase", "salt" >>)
           D == IF pp.t # "map" THEN {} ELSE P \cup S
<1>1. EncScheme1Issues(enc) = A \cup B \cup C \cup D
  BY DEF EncScheme1Issues
<1>2. pp \in data /\ \A j \in DOMAIN slots : slots[j] \in data
  BY Parts
<1>3. Sound(A, tolerated) /\ Sound(P, tolerated)
  BY <1>2, MapSound, SchemasFinite
<1>4. Sound(C, tolerated) /\ Sound(S, tolerated)
  <2>1. "ENC_SLOTS_MAC_INVALID_LENGTH" \in Structural
    BY DEF Structural
  <2> QED
    BY <2>1, SmallSound
<1>5. Sound(B, tolerated)
  <2>1. IsFiniteSet(DOMAIN g)
    BY Parts
  <2>2. \A j \in DOMAIN g : Sound(g[j], tolerated)
    BY <1>2, MapSound, SchemasFinite
  <2>3. B = UNION {g[j] : j \in DOMAIN g}
    OBVIOUS
  <2> HIDE DEF g, B
  <2> QED
    BY <2>1, <2>2, <2>3, SoundFamily
<1> HIDE DEF A, B, C, P, S
<1>6. Sound(D, tolerated)
  BY <1>3, <1>4, SoundUnion, SoundNone
<1> HIDE DEF D
<1>7. Sound(A \cup B, tolerated)
  BY <1>3, <1>5, SoundUnion
<1>8. Sound(A \cup B \cup C, tolerated)
  BY <1>7, <1>4, SoundUnion
<1> QED
  BY <1>1, <1>6, <1>8, SoundUnion

(* The pre-guards.                                                         *)
LEMMA NonTextSound ==
  ASSUME NEW data, DataSet(data), NEW seq \in Seq(data), NEW paths, NEW tolerated,
         DOMAIN paths = DOMAIN seq
  PROVE  Sound(UNION {NonText(seq[i], paths[i]) : i \in DOMAIN seq}, tolerated)
<1> DEFINE g == [i \in DOMAIN seq |-> NonText(seq[i], paths[i])]
           B == UNION {NonText(seq[i], paths[i]) : i \in DOMAIN seq}
<1>1. IsFiniteSet(DOMAIN g)
  <2>1. DOMAIN seq = 1..Len(seq) /\ Len(seq) \in Nat
    OBVIOUS
  <2> QED
    BY <2>1, FS_Interval
<1>2. \A i \in DOMAIN g : Sound(g[i], tolerated)
  BY SmallSound DEF Structural
<1>3. B = UNION {g[i] : i \in DOMAIN g}
  OBVIOUS
<1> HIDE DEF g, B
<1>4. Sound(B, tolerated)
  BY <1>1, <1>2, <1>3, SoundFamily
<1> QED
  BY <1>4 DEF B

LEMMA SoundGrid ==
  ASSUME NEW F, NEW tolerated, IsFiniteSet(DOMAIN F),
         \A i \in DOMAIN F : IsFiniteSet(DOMAIN F[i])
                             /\ \A j \in DOMAIN F[i] : Sound(F[i][j], tolerated)
  PROVE  Sound(UNION {UNION {F[i][j] : j \in DOMAIN F[i]} : i \in DOMAIN F}, tolerated)
<1> DEFINE g == [i \in DOMAIN F |-> UNION {F[i][j] : j \in DOMAIN F[i]}]
           U == UNION {UNION {F[i][j] : j \in DOMAIN F[i]} : i \in DOMAIN F}
<1>1. ASSUME NEW i \in DOMAIN F PROVE Sound(g[i], tolerated)
  <2>1. Sound(UNION {F[i][j] : j \in DOMAIN F[i]}, tolerated)
    BY SoundFamily
  <2> QED
    BY <2>1
<1>2. U = UNION {g[i] : i \in DOMAIN g} /\ IsFiniteSet(DOMAIN g)
  OBVIOUS
<1>3. \A i \in DOMAIN g : Sound(g[i], tolerated)
  BY <1>1
<1>4. Sound(U, tolerated)
  <2> HIDE DEF g, U
  <2> QED
    BY <1>2, <1>3, SoundFamily
<1> QED
  BY <1>4 DEF U

LEMMA PreGuardSound ==
  ASSUME NEW data, DataSet(data), NEW v \in data, NEW tolerated
  PROVE  Sound(collectNonTextKeyMapIssues(v), tolerated)
<1> DEFINE Lists == {"items", "merkle", "sigs"}
           Fields == {"hashes", "enc", "enc"}
           F == [f \in Lists |-> [i \in DOMAIN Elems(Get(v, f)) |->
                   NonText(Elems(Get(v, f))[i], << f, Idx(i) >>)]]
           G == [f \in Fields |-> [i \in DOMAIN Elems(Get(v, "items")) |->
                   NonText(Get(Elems(Get(v, "items"))[i], f), << "items", Idx(i), f >>)]]
           A == NonText(v, << >>)
           B == UNION {UNION {NonText(Elems(Get(v, f))[i], << f, Idx(i) >>) :
                         i \in DOMAIN Elems(Get(v, f))} : f \in {"items", "merkle", "sigs"}}
           C == UNION {UNION {NonText(Get(Elems(Get(v, "items"))[i], f), << "items", Idx(i), f >>) :
                         i \in DOMAIN Elems(Get(v, "items"))} : f \in {"hashes", "enc"}}
<1>1. "SCHEMA_TYPE_MISMATCH" \in Structural
  BY DEF Structural
<1>2. \A x, path : Sound(NonText(x, path), tolerated)
  BY <1>1, SmallSound
<1>3. IsFiniteSet(Lists) /\ IsFiniteSet(Fields)
  BY FiniteTriple
<1>4. \A f : IsFiniteSet(DOMAIN Elems(Get(v, f)))
  BY Parts
<1>5. Sound(B, tolerated)
  <2>1. B = UNION {UNION {F[f][i] : i \in DOMAIN F[f]} : f \in DOMAIN F}
    OBVIOUS
  <2>2. IsFiniteSet(DOMAIN F)
    BY <1>3
  <2>3. \A f \in DOMAIN F : IsFiniteSet(DOMAIN F[f])
                            /\ \A i \in DOMAIN F[f] : Sound(F[f][i], tolerated)
    BY <1>2, <1>4
  <2> HIDE DEF F, B
  <2> QED
    BY <2>1, <2>2, <2>3, SoundGrid
<1>6. Sound(C, tolerated)
  <2>1. C = UNION {UNION {G[f][i] : i \in DOMAIN G[f]} : f \in DOMAIN G}
    OBVIOUS
  <2>2. IsFiniteSet(DOMAIN G)
    BY <1>3
  <2>3. \A f \in DOMAIN G : IsFiniteSet(DOMAIN G[f])
                            /\ \A i \in DOMAIN G[f] : Sound(G[f][i], tolerated)
    BY <1>2, <1>4
  <2> HIDE DEF G, C
  <2> QED
    BY <2>1, <2>2, <2>3, SoundGrid
<1>7. collectNonTextKeyMapIssues(v) = A \cup B \cup C
  BY DEF collectNonTextKeyMapIssues
<1>8. Sound(A, tolerated)
  BY <1>2
<1> HIDE DEF A, B, C
<1>9. Sound(A \cup B, tolerated)
  BY <1>5, <1>8, SoundUnion
<1> QED
  BY <1>6, <1>7, <1>9, SoundUnion

LEMMA EncPreGuardSound ==
  ASSUME NEW data, DataSet(data), NEW enc \in data, NEW tolerated
  PROVE  Sound(encInternalNonTextKeyIssues(enc), tolerated)
<1> DEFINE slots == Elems(Get(enc, "slots"))
           pp == Get(enc, "passphrase")
           g == [j \in DOMAIN slots |-> NonText(slots[j], << "slots", Idx(j) >>)]
           A == UNION {NonText(slots[j], << "slots", Idx(j) >>) : j \in DOMAIN slots}
           B == NonText(pp, << "passphrase" >>)
           C == NonText(Get(pp, "params"), << "passphrase", "params" >>)
<1>1. "SCHEMA_TYPE_MISMATCH" \in Structural
  BY DEF Structural
<1>2. \A x, path : Sound(NonText(x, path), tolerated)
  BY <1>1, SmallSound
<1>3. Sound(A, tolerated)
  <2>1. IsFiniteSet(DOMAIN g)
    BY Parts
  <2>2. A = UNION {g[j] : j \in DOMAIN g} /\ \A j \in DOMAIN g : Sound(g[j], tolerated)
    BY <1>2
  <2> HIDE DEF g, A
  <2> QED
    BY <2>1, <2>2, SoundFamily
<1>4. encInternalNonTextKeyIssues(enc) = A \cup B \cup C
  BY DEF encInternalNonTextKeyIssues
<1>5. Sound(B, tolerated) /\ Sound(C, tolerated)
  BY <1>2
<1> HIDE DEF A, B, C
<1>6. Sound(A \cup B, tolerated)
  BY <1>3, <1>5, SoundUnion
<1> QED
  BY <1>4, <1>5, <1>6, SoundUnion

-----------------------------------------------------------------------------
(* Domain issues.                                                          *)
LEMMA PresenceSound ==
  ASSUME NEW record, NEW tolerated
  PROVE  Sound(checkContentCommitmentPresence(record), tolerated)
<1> DEFINE Empty(f) == Elems(Get(record, f)) = << >>
           Lists == {"items", "merkle", "merkle"}
           g == [f \in Lists |-> OneWhen(Has(record, f) /\ Empty(f), "SCHEMA_TYPE_MISMATCH", << f >>)]
           A == UNION {OneWhen(Has(record, f) /\ Empty(f), "SCHEMA_TYPE_MISMATCH", << f >>) :
                         f \in {"items", "merkle"}}
<1>1. "SCHEMA_TYPE_MISMATCH" \in Structural /\ "SCHEMA_EMPTY_RECORD" \in Structural
  BY DEF Structural
<1>2. Sound(A, tolerated)
  <2>1. IsFiniteSet(DOMAIN g)
    BY FiniteTriple
  <2>2. A = UNION {g[f] : f \in DOMAIN g}
    OBVIOUS
  <2>3. \A f \in DOMAIN g : Sound(g[f], tolerated)
    BY <1>1, SoundWhen
  <2> HIDE DEF g, A
  <2> QED
    BY <2>1, <2>2, <2>3, SoundFamily
<1>3. Sound({issueOf("SCHEMA_EMPTY_RECORD", << >>)}, tolerated)
  BY <1>1, SoundOne
<1>4. checkContentCommitmentPresence(record)
        = IF Empty("items") /\ Empty("merkle") THEN {issueOf("SCHEMA_EMPTY_RECORD", << >>)} ELSE A
  BY DEF checkContentCommitmentPresence
<1> HIDE DEF A, Empty
<1> QED
  BY <1>2, <1>3, <1>4

LEMMA CritSound ==
  ASSUME NEW data, DataSet(data), NEW record \in data, NEW supported, NEW tolerated
  PROVE  Sound(checkCrit(record, supported), tolerated)
<1> DEFINE crit == Elems(Get(record, "crit"))
           Misshapen(i) == \/ crit[i].s \in TOP_LEVEL_BASE_KEYS
                           \/ ~isExtensionKey(crit[i].s)
                           \/ crit[i].s \notin Keys(record)
                           \/ \E j \in 1..(i - 1) : crit[j].s = crit[i].s
           Bad(i) == IF Misshapen(i)
                     THEN {issueOf("CRIT_SHAPE_INVALID", << "crit", Idx(i) >>)}
                     ELSE OneWhen(crit[i].s \notin supported, "EXTENSION_UNSUPPORTED_CRITICAL",
                                  << "crit", Idx(i) >>)
           A == OneWhen(Has(record, "crit") /\ crit = << >>, "SCHEMA_TYPE_MISMATCH", << "crit" >>)
           B == UNION {Bad(i) : i \in DOMAIN crit}
           g == [i \in DOMAIN crit |-> Bad(i)]
<1>1. /\ "SCHEMA_TYPE_MISMATCH" \in Structural /\ "CRIT_SHAPE_INVALID" \in Structural
      /\ "EXTENSION_UNSUPPORTED_CRITICAL" \in Structural
  BY DEF Structural
<1>2. checkCrit(record, supported) = A \cup B
  BY DEF checkCrit
<1>3. Sound(A, tolerated)
  BY <1>1, SoundWhen
<1>4. ASSUME NEW i PROVE Sound(Bad(i), tolerated)
  <2> HIDE DEF Misshapen
  <2> QED
    BY <1>1, SoundOne, SoundWhen
<1>5. Sound(B, tolerated)
  <2>1. IsFiniteSet(DOMAIN g)
    BY Parts
  <2> HIDE DEF Bad
  <2>2. B = UNION {g[i] : i \in DOMAIN g} /\ \A i \in DOMAIN g : Sound(g[i], tolerated)
    BY <1>4
  <2> HIDE DEF g, B
  <2> QED
    BY <2>1, <2>2, SoundFamily
<1> HIDE DEF A, B
<1> QED
  BY <1>2, <1>3, <1>5, SoundUnion

LEMMA HashesSound ==
  ASSUME NEW data, DataSet(data), NEW item \in data, NEW at, NEW tolerated
  PROVE  Sound(checkItemHashes(item, at), tolerated)
<1> DEFINE hashes == Get(item, "hashes")
           path == at \o << "hashes" >>
           Bad(k) == IF ~Registered(HASH_ALG_LENGTHS, k)
                     THEN {issueOf("UNSUPPORTED_HASH_ALG", path \o << k >>)}
                     ELSE OneWhen(hashes.m[k].len # LengthIn(HASH_ALG_LENGTHS, k),
                                  "HASH_DIGEST_LENGTH_MISMATCH", path \o << k >>)
           A == OneWhen(Keys(hashes) = {}, "SCHEMA_TYPE_MISMATCH", path)
           B == UNION {Bad(k) : k \in Keys(hashes)}
           g == [k \in Keys(hashes) |-> Bad(k)]
<1>1. /\ "SCHEMA_TYPE_MISMATCH" \in Structural /\ "UNSUPPORTED_HASH_ALG" \in Structural
      /\ "HASH_DIGEST_LENGTH_MISMATCH" \in Structural
  BY DEF Structural
<1>2. checkItemHashes(item, at) = A \cup B
  BY DEF checkItemHashes
<1>3. Sound(A, tolerated)
  BY <1>1, SoundWhen
<1>4. ASSUME NEW k PROVE Sound(Bad(k), tolerated)
  BY <1>1, SoundOne, SoundWhen
<1>5. Sound(B, tolerated)
  <2>1. IsFiniteSet(DOMAIN g)
    BY Parts
  <2> HIDE DEF Bad
  <2>2. B = UNION {g[k] : k \in DOMAIN g} /\ \A k \in DOMAIN g : Sound(g[k], tolerated)
    BY <1>4
  <2> HIDE DEF g, B
  <2> QED
    BY <2>1, <2>2, SoundFamily
<1> HIDE DEF A, B
<1> QED
  BY <1>2, <1>3, <1>5, SoundUnion

LEMMA UrisSound ==
  ASSUME NEW data, DataSet(data), NEW uris \in data, uris.t = "array" \/ uris = Missing,
         NEW path, NEW tolerated
  PROVE  Sound(checkUris(uris, path), tolerated)
<1> DEFINE Bad(i) == OneWhen(~isFetchSetUri(uris.a[i].uri), "INVALID_URI", path \o << Idx(i) >>)
           B == UNION {Bad(i) : i \in DOMAIN uris.a}
           g == [i \in DOMAIN uris.a |-> Bad(i)]
<1>1. "SCHEMA_TYPE_MISMATCH" \in Structural /\ "INVALID_URI" \in Structural
  BY DEF Structural
<1>2. checkUris(uris, path)
        = IF uris = Missing THEN {}
          ELSE IF uris.a = << >> THEN {issueOf("SCHEMA_TYPE_MISMATCH", path)} ELSE B
  BY DEF checkUris
<1>3. ASSUME NEW i PROVE Sound(Bad(i), tolerated)
  BY <1>1, SoundWhen
<1>4. CASE uris.t = "array"
  <2>1. IsFiniteSet(DOMAIN g)
    <3>1. uris.a \in Seq(data)
      BY <1>4 DEF DataSet
    <3>2. DOMAIN uris.a = 1..Len(uris.a) /\ Len(uris.a) \in Nat
      BY <3>1
    <3> QED
      BY <3>2, FS_Interval
  <2>2. Sound(B, tolerated)
    <3> HIDE DEF Bad
    <3>2. B = UNION {g[i] : i \in DOMAIN g} /\ \A i \in DOMAIN g : Sound(g[i], tolerated)
      BY <1>3
    <3> HIDE DEF g, B
    <3> QED
      BY <2>1, <3>2, SoundFamily
  <2>3. Sound({issueOf("SCHEMA_TYPE_MISMATCH", path)}, tolerated)
    BY <1>1, SoundOne
  <2> HIDE DEF B
  <2> QED
    BY <1>2, <2>2, <2>3, SoundNone
<1>5. CASE uris = Missing
  BY <1>2, <1>5, SoundNone
<1> QED
  BY <1>4, <1>5

(* A map that has no schema issue is one, with the fields of its schema.   *)
LEMMA MapShape ==
  ASSUME NEW v, NEW schema, NEW closed \in BOOLEAN, NEW path,
         MapIssues(v, schema, closed, path) = {}
  PROVE  /\ v.t = "map"
         /\ \A f \in DOMAIN schema :
              ~schema[f][2] \/ Has(v, f) => IsOfKind(Get(v, f), schema[f][1])
         /\ closed => Keys(v) \subseteq DOMAIN schema
<1>1. v.t = "map"
  BY DEF MapIssues
<1> DEFINE fields == {f \in DOMAIN schema : ~schema[f][2] \/ Has(v, f)}
           A == UNION {KindIssues(Get(v, f), schema[f][1], path \o << f >>) : f \in fields}
           B == {issueOf(unknownKeyCode(path \o << k >>), path \o << k >>) :
                   k \in IF closed THEN Keys(v) \ DOMAIN schema ELSE {}}
<1>2. MapIssues(v, schema, closed, path) = A \cup B
  BY <1>1 DEF MapIssues
<1>3. A = {} /\ B = {}
  <2> HIDE DEF A, B
  <2> QED
    BY <1>2
<1>4. ASSUME NEW f \in fields PROVE IsOfKind(Get(v, f), schema[f][1])
  <2>1. KindIssues(Get(v, f), schema[f][1], path \o << f >>) = {}
    BY <1>3
  <2> QED
    BY <2>1 DEF KindIssues, When
<1>5. ASSUME closed, NEW k \in Keys(v), k \notin DOMAIN schema PROVE FALSE
  <2>1. issueOf(unknownKeyCode(path \o << k >>), path \o << k >>) \in B
    BY <1>5
  <2> QED
    BY <1>3, <2>1
<1> QED
  BY <1>1, <1>4, <1>5

LEMMA EntryShape ==
  ASSUME NEW v, PoeRecordIssues(v) = {}
  PROVE  /\ MapIssues(v, PoeRecordSchema, FALSE, << >>) = {}
         /\ \A f \in DOMAIN EntrySchema : \A i \in DOMAIN Elems(Get(v, f)) :
              EntryIssues(Elems(Get(v, f))[i], f, << f, Idx(i) >>) = {}
<1> DEFINE Entry(f, i) == EntryIssues(Elems(Get(v, f))[i], f, << f, Idx(i) >>)
           A == MapIssues(v, PoeRecordSchema, FALSE, << >>)
           B == UNION {UNION {Entry(f, i) : i \in DOMAIN Elems(Get(v, f))} :
                         f \in DOMAIN EntrySchema}
           C == ElementIssues(Get(v, "crit"), "text", << "crit" >>)
           D == LengthIssues(Get(v, "supersedes"), 32, "SUPERSEDES_TX_INVALID_LENGTH",
                             << "supersedes" >>)
<1>1. PoeRecordIssues(v) = A \cup B \cup C \cup D
  BY DEF PoeRecordIssues, EntryIssues
<1>2. A = {} /\ B = {}
  <2> HIDE DEF A, B, C, D
  <2> QED
    BY <1>1
<1>3. ASSUME NEW f \in DOMAIN EntrySchema, NEW i \in DOMAIN Elems(Get(v, f))
      PROVE  Entry(f, i) = {}
  <2> HIDE DEF Entry
  <2>1. \A x \in Entry(f, i) : x \in B
    OBVIOUS
  <2> QED
    BY <1>2, <2>1
<1> QED
  BY <1>2, <1>3

(* The list of fetch URIs of an entry that has no schema issue.            *)
LEMMA UrisShape ==
  ASSUME NEW data, DataSet(data), NEW e \in data, NEW f \in {"items", "merkle"}, NEW at,
         EntryIssues(e, f, at) = {}
  PROVE  Get(e, "uris").t = "array" \/ Get(e, "uris") = Missing
<1> DEFINE A == MapIssues(e, EntrySchema[f], TRUE, at)
           B == ElementIssues(Get(e, "uris"), "text", at \o << "uris" >>)
           C == IF f # "items" THEN {}
                ELSE UNION {KindIssues(Get(Get(e, "hashes"), k), "bytes", at \o << "hashes", k >>) :
                              k \in Keys(Get(e, "hashes"))}
<1>1. A \cup B \cup C = {}
  BY DEF EntryIssues
<1>2. A = {}
  <2> HIDE DEF A, B, C
  <2> QED
    BY <1>1
<1>3. \A k \in DOMAIN EntrySchema[f] :
        ~EntrySchema[f][k][2] \/ Has(e, k) => IsOfKind(Get(e, k), EntrySchema[f][k][1])
  BY <1>2, MapShape
<1>4. "uris" \in DOMAIN EntrySchema[f] /\ EntrySchema[f]["uris"] = << "array", TRUE >>
  <2>1. EntrySchema["items"] = ItemEntrySchema /\ EntrySchema["merkle"] = MerkleCommitSchema
    BY DEF EntrySchema
  <2>2. /\ "uris" \in DOMAIN ItemEntrySchema /\ ItemEntrySchema["uris"] = << "array", TRUE >>
        /\ "uris" \in DOMAIN MerkleCommitSchema /\ MerkleCommitSchema["uris"] = << "array", TRUE >>
    BY DEF ItemEntrySchema, MerkleCommitSchema
  <2> QED
    BY <2>1, <2>2
<1>5. Has(e, "uris") => IsOfKind(Get(e, "uris"), "array")
  BY <1>3, <1>4
<1>6. IsOfKind(Get(e, "uris"), "array") => Get(e, "uris").t = "array"
  BY DEF IsOfKind
<1> QED
  BY <1>5, <1>6 DEF Has, Get

LEMMA DescribedSlotSound ==
  ASSUME NEW data, DataSet(data), NEW slot \in data,
         NEW kem \in DOMAIN KEM_SLOT_DESCRIPTORS, NEW path, NEW tolerated
  PROVE  Sound(checkDescribedSlot(slot, kem, path), tolerated)
<1> DEFINE d == KEM_SLOT_DESCRIPTORS[kem]
           foreign == IF d.field = "epk" THEN "kem_ct" ELSE "epk"
           InvalidAt(k) == issueOf("ENC_SLOT_INVALID_SHAPE", path \o << k >>)
           Field(f, len, code) ==
             IF ~Has(slot, f) THEN {InvalidAt(f)}
             ELSE OneWhen(Get(slot, f).len # len, code, path \o << f >>)
           others == Keys(slot) \ DOMAIN SlotSchema
           at == [k \in others |-> path \o << k >>]
           codes == [k \in others |-> "ENC_SLOT_INVALID_SHAPE"]
           A == When(Has(slot, foreign), InvalidAt(foreign))
           B == {InvalidAt(k) : k \in others}
           C == Field(d.field, d.fieldLength, d.code)
           D == Field("wrap", d.wrapLength, "WRAP_LENGTH_MISMATCH")
<1>1. checkDescribedSlot(slot, kem, path) = A \cup B \cup C \cup D
  BY DEF checkDescribedSlot
<1>2. /\ "ENC_SLOT_INVALID_SHAPE" \in Structural /\ "WRAP_LENGTH_MISMATCH" \in Structural
      /\ d.code \in Structural
  BY DEF Structural, KEM_SLOT_DESCRIPTORS
<1> HIDE DEF d
<1>3. \A k : Sound({InvalidAt(k)}, tolerated)
  BY <1>2, SoundOne
<1>4. Sound(A, tolerated)
  <2> HIDE DEF InvalidAt, foreign
  <2> QED
    BY <1>3, SoundNone DEF When
<1>5. \A f, len : \A code \in Structural : Sound(Field(f, len, code), tolerated)
  BY <1>2, <1>3, SoundWhen
<1>6. Sound(C, tolerated) /\ Sound(D, tolerated)
  BY <1>2, <1>5
<1>7. Sound(B, tolerated)
  <2>1. IsFiniteSet(others)
    <3>1. IsFiniteSet(Keys(slot)) /\ others \in SUBSET Keys(slot)
      BY Parts
    <3> HIDE DEF others
    <3> QED
      BY <3>1, FS_Subset
  <2>2. B = {issueOf(codes[k], at[k]) : k \in DOMAIN at}
    OBVIOUS
  <2>3. IsFiniteSet(DOMAIN at) /\ \A k \in DOMAIN at : codes[k] \in Structural
    BY <1>2, <2>1
  <2> HIDE DEF at, codes, B
  <2> QED
    BY <2>2, <2>3, SoundEach
<1> HIDE DEF A, B, C, D
<1>8. Sound(A \cup B, tolerated)
  BY <1>4, <1>7, SoundUnion
<1>9. Sound(A \cup B \cup C, tolerated)
  BY <1>6, <1>8, SoundUnion
<1> QED
  BY <1>1, <1>6, <1>9, SoundUnion

(* An issue without a code comes with one about the wrap.                  *)
LEMMA InheritedSlotSound ==
  ASSUME NEW data, DataSet(data), NEW slot \in data, NEW path, NEW tolerated
  PROVE  Sound(checkInheritedSlot(slot, path), tolerated) /\ checkInheritedSlot(slot, path) # {}
<1> DEFINE InvalidAt(k) == issueOf("ENC_SLOT_INVALID_SHAPE", path \o << k >>)
           others == Keys(slot) \ {"kem_ct", "wrap"}
           at == [k \in others |-> path \o << k >>]
           codes == [k \in others |-> "ENC_SLOT_INVALID_SHAPE"]
           codeless == IssueAs("undefined", path \o << "undefined" >>, "undefined")
           a == IF Has(slot, "kem_ct") THEN codeless ELSE InvalidAt("undefined")
           b == IF Has(slot, "wrap") THEN issueOf("WRAP_LENGTH_MISMATCH", path \o << "wrap" >>)
                ELSE InvalidAt("wrap")
           A == {InvalidAt(k) : k \in others}
<1>1. checkInheritedSlot(slot, path) = A \cup {a} \cup {b}
  BY DEF checkInheritedSlot
<1>2. "ENC_SLOT_INVALID_SHAPE" \in Structural /\ "WRAP_LENGTH_MISMATCH" \in Structural
  BY DEF Structural
<1>3. IsIssue(b) /\ IsError(b) /\ Sound({b}, tolerated)
  <2>1. \E code \in Structural : \E p : b = issueOf(code, p)
    BY <1>2
  <2> HIDE DEF b
  <2>2. PICK code \in Structural : \E p : b = issueOf(code, p)
    BY <2>1
  <2>3. PICK p : b = issueOf(code, p)
    BY <2>2
  <2> QED
    BY <2>3, StructuralIsError, SoundOne DEF IsIssue, IsError, IssueAs
<1>4. IsIssue(a) /\ (IsError(a) \/ a.severity # "error")
  <2>1. a = codeless \/ a = InvalidAt("undefined")
    OBVIOUS
  <2>2. CASE a = codeless
    BY <2>2 DEF IsIssue, IssueAs
  <2>3. CASE a = InvalidAt("undefined")
    <3> HIDE DEF a
    <3> QED
      BY <1>2, <2>3, StructuralIsError DEF IsIssue, IsError, IssueAs
  <2> HIDE DEF a, InvalidAt, codeless
  <2> QED
    BY <2>1, <2>2, <2>3
<1>5. Sound(A, tolerated)
  <2>1. IsFiniteSet(others)
    <3>1. IsFiniteSet(Keys(slot)) /\ others \in SUBSET Keys(slot)
      BY Parts
    <3> HIDE DEF others
    <3> QED
      BY <3>1, FS_Subset
  <2>2. A = {issueOf(codes[k], at[k]) : k \in DOMAIN at}
    OBVIOUS
  <2>3. IsFiniteSet(DOMAIN at) /\ \A k \in DOMAIN at : codes[k] \in Structural
    BY <1>2, <2>1
  <2> HIDE DEF at, codes, A
  <2> QED
    BY <2>2, <2>3, SoundEach
<1> HIDE DEF A, a, b
<1>6. Sound({a} \cup {b}, tolerated)
  <2>1. IsFiniteSet({a} \cup {b})
    BY FS_Singleton, FS_Union
  <2> QED
    BY <1>3, <1>4, <2>1 DEF Sound
<1>7. Sound(A \cup ({a} \cup {b}), tolerated)
  BY <1>5, <1>6, SoundUnion
<1>8. A \cup ({a} \cup {b}) = A \cup {a} \cup {b}
  OBVIOUS
<1> QED
  BY <1>1, <1>7, <1>8

LEMMA SlotSound ==
  ASSUME NEW data, DataSet(data), NEW slot \in data, NEW kem, NEW path, NEW tolerated
  PROVE  Sound(checkSlotShape(slot, kem, path), tolerated)
BY DescribedSlotSound, InheritedSlotSound DEF checkSlotShape

LEMMA PassphraseSound ==
  ASSUME NEW data, DataSet(data), NEW pp \in data, NEW opts, NEW path, NEW tolerated
  PROVE  Sound(checkPassphraseBlock(pp, opts, path), tolerated)
<1> DEFINE params == Get(pp, "params")
           Issue(code, name) == {issueOf(code, path \o << "params", name >>)}
           Param(name) ==
             IF Get(params, name) = Missing THEN Issue("SCHEMA_MISSING_REQUIRED", name)
             ELSE IF ~isUint(Get(params, name)) \/ ~uintWithin(Get(params, name), 0, UINT32_MAX)
             THEN Issue("SCHEMA_TYPE_MISMATCH", name)
             ELSE IF Get(params, name).n < ARGON2_FLOORS[name]
             THEN Issue("ENC_PASSPHRASE_ARGON2_PARAMS_TOO_LOW", name)
             ELSE IF \E c \in opts.ceilings : Get(params, name).n > c[name]
             THEN Issue("ENC_PASSPHRASE_PARAMS_EXCEED_POLICY", name) ELSE {}
           others == Keys(params) \ DOMAIN ARGON2_FLOORS
           at == [k \in others |-> path \o << "params", k >>]
           codes == [k \in others |-> "SCHEMA_UNKNOWN_FIELD"]
           g == [name \in DOMAIN ARGON2_FLOORS |-> Param(name)]
           A == {issueOf("ENC_PASSPHRASE_ALG_UNSUPPORTED", path \o << "alg" >>)}
           B == {issueOf("SCHEMA_UNKNOWN_FIELD", path \o << "params", k >>) : k \in others}
           C == UNION {Param(name) : name \in DOMAIN ARGON2_FLOORS}
<1>1. checkPassphraseBlock(pp, opts, path)
        = IF ~TextIn(Get(pp, "alg"), PASSPHRASE_KDF_ALGS) THEN A ELSE B \cup C
  BY DEF checkPassphraseBlock
<1>2. /\ "ENC_PASSPHRASE_ALG_UNSUPPORTED" \in Structural /\ "SCHEMA_UNKNOWN_FIELD" \in Structural
      /\ "SCHEMA_MISSING_REQUIRED" \in Structural /\ "SCHEMA_TYPE_MISMATCH" \in Structural
      /\ "ENC_PASSPHRASE_ARGON2_PARAMS_TOO_LOW" \in Structural
      /\ "ENC_PASSPHRASE_PARAMS_EXCEED_POLICY" \in Structural
  BY DEF Structural
<1>3. \A name : \A code \in Structural : Sound(Issue(code, name), tolerated)
  BY SoundOne
<1>4. ASSUME NEW name PROVE Sound(Param(name), tolerated)
  <2> HIDE DEF Issue, params
  <2> QED
    BY <1>2, <1>3, SoundNone
<1>5. Sound(B, tolerated)
  <2>1. IsFiniteSet(others)
    <3>1. params \in data
      BY Parts
    <3>2. IsFiniteSet(Keys(params)) /\ others \in SUBSET Keys(params)
      BY <3>1, Parts
    <3> HIDE DEF others
    <3> QED
      BY <3>2, FS_Subset
  <2>2. B = {issueOf(codes[k], at[k]) : k \in DOMAIN at}
    OBVIOUS
  <2>3. IsFiniteSet(DOMAIN at) /\ \A k \in DOMAIN at : codes[k] \in Structural
    BY <1>2, <2>1
  <2> HIDE DEF at, codes, B
  <2> QED
    BY <2>2, <2>3, SoundEach
<1>6. Sound(C, tolerated)
  <2> HIDE DEF Param
  <2>1. IsFiniteSet(DOMAIN g)
    BY SchemasFinite
  <2>2. C = UNION {g[name] : name \in DOMAIN g} /\ \A name \in DOMAIN g : Sound(g[name], tolerated)
    BY <1>4
  <2> HIDE DEF g, C
  <2> QED
    BY <2>1, <2>2, SoundFamily
<1>7. Sound(A, tolerated)
  BY <1>2, SoundOne
<1> HIDE DEF A, B, C
<1>8. Sound(B \cup C, tolerated)
  BY <1>5, <1>6, SoundUnion
<1> QED
  BY <1>1, <1>7, <1>8

LEMMA KeyPathSound ==
  ASSUME NEW enc, NEW path, NEW tolerated
  PROVE  Sound(KeyPathIssues(enc, path), tolerated)
<1> DEFINE slots == Has(enc, "slots")
           mac == Has(enc, "slots_mac")
           passphrase == Has(enc, "passphrase")
           kem == Has(enc, "kem")
           A == OneWhen(passphrase /\ (slots \/ mac \/ kem), "ENC_EXCLUSIVITY_VIOLATION", path)
           B == OneWhen(slots /\ ~mac, "ENC_SLOTS_MAC_REQUIRED", path)
           C == OneWhen(mac /\ ~slots, "ENC_SLOTS_REQUIRED", path)
           D == OneWhen(slots /\ ~kem, "ENC_KEM_REQUIRED", path)
           E == OneWhen(~slots /\ ~passphrase, "ENC_NO_KEY_PATH", path)
<1>1. KeyPathIssues(enc, path) = A \cup B \cup C \cup D \cup E
  BY DEF KeyPathIssues
<1>2. /\ "ENC_EXCLUSIVITY_VIOLATION" \in Structural /\ "ENC_SLOTS_MAC_REQUIRED" \in Structural
      /\ "ENC_SLOTS_REQUIRED" \in Structural /\ "ENC_KEM_REQUIRED" \in Structural
      /\ "ENC_NO_KEY_PATH" \in Structural
  BY DEF Structural
<1>3. /\ Sound(A, tolerated) /\ Sound(B, tolerated) /\ Sound(C, tolerated)
      /\ Sound(D, tolerated) /\ Sound(E, tolerated)
  BY <1>2, SoundWhen
<1> HIDE DEF A, B, C, D, E
<1>4. Sound(A \cup B, tolerated)
  BY <1>3, SoundUnion
<1>5. Sound(A \cup B \cup C, tolerated)
  BY <1>3, <1>4, SoundUnion
<1>6. Sound(A \cup B \cup C \cup D, tolerated)
  BY <1>3, <1>5, SoundUnion
<1> QED
  BY <1>1, <1>3, <1>6, SoundUnion

LEMMA Scheme1Sound ==
  ASSUME NEW data, DataSet(data), NEW enc \in data, NEW opts, NEW path, NEW tolerated
  PROVE  Sound(checkScheme1Envelope(enc, opts, path), tolerated)
<1> DEFINE slots == Elems(Get(enc, "slots"))
           at == path \o << "slots" >>
           kem == Get(enc, "kem").s
           Repeats(i) == /\ Material(slots[i], kem) # Missing
                         /\ \E j \in 1..(i - 1) :
                              Material(slots[j], kem) = Material(slots[i], kem)
           Slot(i) == checkSlotShape(slots[i], kem, at \o << Idx(i) >>)
           Twice(i) == OneWhen(Repeats(i), "ENC_SLOTS_DUPLICATE_KEM_MATERIAL",
                               at \o << Idx(i), SlotField(kem) >>)
           Both(i) == Slot(i) \cup Twice(i)
           g == [i \in DOMAIN slots |-> Both(i)]
           S == UNION {Both(i) : i \in DOMAIN slots}
           A == OneWhen(Get(enc, "nonce").len # LengthIn(AEAD_NONCE_LENGTHS, Get(enc, "aead").s),
                        "NONCE_LENGTH_MISMATCH", path \o << "nonce" >>)
           B == KeyPathIssues(enc, path)
           E1 == {issueOf("ENC_SLOTS_EMPTY", at)}
           E2 == {issueOf("ENC_SLOTS_TOO_MANY", at)}
           C == IF ~Has(enc, "slots") THEN {}
                ELSE IF slots = << >> THEN E1
                ELSE IF Len(slots) > opts.maxSlots THEN E2
                ELSE IF ~Has(enc, "kem") THEN {} ELSE S
           P == checkPassphraseBlock(Get(enc, "passphrase"), opts, path \o << "passphrase" >>)
           D == IF ~Has(enc, "passphrase") THEN {} ELSE P
<1>1. checkScheme1Envelope(enc, opts, path) = A \cup B \cup C \cup D
  BY DEF checkScheme1Envelope
<1>2. /\ "NONCE_LENGTH_MISMATCH" \in Structural /\ "ENC_SLOTS_EMPTY" \in Structural
      /\ "ENC_SLOTS_TOO_MANY" \in Structural
      /\ "ENC_SLOTS_DUPLICATE_KEM_MATERIAL" \in Structural
  BY DEF Structural
<1>3. Sound(A, tolerated) /\ Sound(E1, tolerated) /\ Sound(E2, tolerated)
  BY <1>2, SoundWhen, SoundOne
<1>4. Sound(B, tolerated)
  BY KeyPathSound
<1>5. Sound(P, tolerated)
  <2>1. Get(enc, "passphrase") \in data
    BY Parts
  <2> QED
    BY <2>1, PassphraseSound
<1>6. Sound(S, tolerated)
  <2>1. ASSUME NEW i \in DOMAIN slots PROVE Sound(Both(i), tolerated)
    <3>1. slots[i] \in data
      BY Parts
    <3> HIDE DEF kem, slots, at, Repeats
    <3>3. Sound(Slot(i), tolerated)
      BY <3>1, SlotSound
    <3>4. Sound(Twice(i), tolerated)
      BY <1>2, SoundWhen
    <3> HIDE DEF Slot, Twice
    <3> QED
      BY <3>3, <3>4, SoundUnion
  <2>2. IsFiniteSet(DOMAIN g)
    BY Parts
  <2> HIDE DEF Both
  <2>3. S = UNION {g[i] : i \in DOMAIN g} /\ \A i \in DOMAIN g : Sound(g[i], tolerated)
    BY <2>1
  <2> HIDE DEF g, S
  <2> QED
    BY <2>2, <2>3, SoundFamily
<1>7. Sound(C, tolerated) /\ Sound(D, tolerated)
  <2> HIDE DEF S, E1, E2, P, slots
  <2> QED
    BY <1>3, <1>5, <1>6, SoundNone
<1> HIDE DEF A, B, C, D
<1>8. Sound(A \cup B, tolerated)
  BY <1>3, <1>4, SoundUnion
<1>9. Sound(A \cup B \cup C, tolerated)
  BY <1>7, <1>8, SoundUnion
<1> QED
  BY <1>1, <1>7, <1>9, SoundUnion

(* Issues moved under a path are the issues they were.                     *)
Moved(issues, path) == {[s EXCEPT !.path = path \o s.path] : s \in issues}
LEMMA SoundMoved ==
  ASSUME NEW issues, NEW path, NEW tolerated, Sound(issues, tolerated)
  PROVE  Sound(Moved(issues, path), tolerated)
<1> DEFINE f == [s \in issues |-> [s EXCEPT !.path = path \o s.path]]
           M == {[s EXCEPT !.path = path \o s.path] : s \in issues}
<1>1. M = {f[s] : s \in DOMAIN f}
  OBVIOUS
<1>2. IsFiniteSet(DOMAIN f)
  BY DEF Sound, IsError
<1>3. ASSUME NEW s \in issues
      PROVE  LET m == [s EXCEPT !.path = path \o s.path] IN
             m.code = s.code /\ m.severity = s.severity /\ IsIssue(m)
  <2> DEFINE c == s.code  p == s.path  v == s.severity
             m == [s EXCEPT !.path = path \o s.path]
  <2>1. IsIssue(s)
    BY DEF Sound, IsError
  <2>4. s = [code |-> c, path |-> p, severity |-> v]
    BY <2>1 DEF IsIssue, IssueAs
  <2>5. m = [s EXCEPT !.path = path \o p]
    OBVIOUS
  <2> HIDE DEF c, p, v, m
  <2>2. m = [code |-> c, path |-> path \o p, severity |-> v]
    BY <2>4, <2>5
  <2> HIDE DEF m
  <2>3. m.code = c /\ m.severity = v /\ IsIssue(m)
    BY <2>2 DEF IsIssue, IssueAs
  <2> QED
    BY <2>3 DEF m, c, v
<1>4. ASSUME NEW m \in M PROVE \E s \in issues : m.code = s.code /\ m.severity = s.severity /\ IsIssue(m)
  BY <1>3
<1>5. Sound(M, tolerated)
  <2>1. IsFiniteSet(M)
    <3> HIDE DEF M, f
    <3> QED
      BY <1>1, <1>2, FiniteImage
  <2>2. ASSUME NEW s \in issues, IsError(s) PROVE \E m \in M : IsError(m)
    BY <1>3, <2>2 DEF IsError
  <2> HIDE DEF M
  <2>3. ASSUME NEW m \in M
        PROVE  /\ IsIssue(m)
               /\ \/ IsError(m) \/ m.code \in tolerated
                  \/ m.severity # "error" /\ \E e \in M : IsError(e)
    <3>1. PICK s \in issues : m.code = s.code /\ m.severity = s.severity /\ IsIssue(m)
      BY <1>4
    <3>2. \/ IsError(s) \/ s.code \in tolerated
          \/ s.severity # "error" /\ \E e \in issues : IsError(e)
      BY DEF Sound
    <3>3. CASE s.severity # "error" /\ \E e \in issues : IsError(e)
      BY <2>2, <3>1, <3>3
    <3> QED
      BY <3>1, <3>2, <3>3 DEF IsError
  <2> QED
    BY <2>1, <2>3 DEF Sound
<1> QED
  BY <1>5 DEF M, Moved

LEMMA UnsupportedFinite ==
  ASSUME NEW enc
  PROVE  /\ IsFiniteSet(UnsupportedIdentifiers(enc))
         /\ \A u \in UnsupportedIdentifiers(enc) : u[2] \in Structural
<1> DEFINE a == << "scheme", "UNSUPPORTED_ENVELOPE_SCHEME" >>
           b == << "kem", "UNSUPPORTED_KEM_ALG" >>
           c == << "aead", "UNSUPPORTED_AEAD_ALG" >>
           S == {a, b, c}
<1>1. UnsupportedIdentifiers(enc) \in SUBSET S
  BY DEF UnsupportedIdentifiers, When
<1>2. IsFiniteSet(S)
  BY FiniteTriple
<1>3. a[2] \in Structural /\ b[2] \in Structural /\ c[2] \in Structural
  BY DEF Structural
<1>4. \A u \in S : u[2] \in Structural
  <2> HIDE DEF a, b, c
  <2> QED
    BY <1>3
<1> HIDE DEF S
<1> QED
  BY <1>1, <1>2, <1>4, FS_Subset

LEMMA DispositionSound ==
  ASSUME NEW data, DataSet(data), NEW enc \in data, NEW opts, NEW path
  PROVE  Sound(envelopeDisposition(enc, opts, path), Opaque)
<1> DEFINE unsupported == UnsupportedIdentifiers(enc)
           strict == opts.role = "recipient_or_strict"
           each == IF strict THEN unsupported ELSE {}
           codes == [u \in each |-> u[2]]
           at == [u \in each |-> path \o << u[1] >>]
           O == {IssueAs("ENC_UNSUPPORTED", path, IF strict THEN "error" ELSE "info")}
           U == {issueOf(u[2], path \o << u[1] >>) : u \in each}
           D1 == {issueOf("SCHEMA_MISSING_REQUIRED", path \o << "scheme" >>)}
           D2 == {issueOf("SCHEMA_TYPE_MISMATCH", path \o << "scheme" >>)}
           D3 == {issueOf("UNAUTHENTICATED_CIPHER_FORBIDDEN", path \o << "aead" >>)}
           D4 == O \cup U
           D5 == Moved(encInternalNonTextKeyIssues(enc), path)
           D6 == Moved(EncScheme1Issues(enc), path)
           D7 == checkScheme1Envelope(enc, opts, path)
<1>1. envelopeDisposition(enc, opts, path)
        = IF ~Has(enc, "scheme") THEN D1 ELSE IF ~isUint(Get(enc, "scheme")) THEN D2
          ELSE IF TextIn(Get(enc, "aead"), UNAUTHENTICATED_CIPHERS) THEN D3
          ELSE IF unsupported # {} THEN D4
          ELSE IF encInternalNonTextKeyIssues(enc) # {} THEN D5
          ELSE IF EncScheme1Issues(enc) # {} THEN D6 ELSE D7
  BY DEF envelopeDisposition, Moved
<1>2. /\ "SCHEMA_MISSING_REQUIRED" \in Structural /\ "SCHEMA_TYPE_MISMATCH" \in Structural
      /\ "UNAUTHENTICATED_CIPHER_FORBIDDEN" \in Structural
  BY DEF Structural
<1>3. Sound(D1, Opaque) /\ Sound(D2, Opaque) /\ Sound(D3, Opaque)
  BY <1>2, SoundOne
<1>4. Sound(O, Opaque)
  <2>1. IsFiniteSet(O)
    BY FS_Singleton
  <2> QED
    BY <2>1 DEF Sound, IsError, Opaque, IsIssue, IssueAs
<1>5. Sound(U, Opaque)
  <2>1. IsFiniteSet(each) /\ \A u \in each : u[2] \in Structural
    BY UnsupportedFinite, FS_EmptySet
  <2>2. U = {issueOf(codes[u], at[u]) : u \in DOMAIN at}
    OBVIOUS
  <2> HIDE DEF each
  <2>3. IsFiniteSet(DOMAIN at) /\ \A u \in DOMAIN at : codes[u] \in Structural
    BY <2>1
  <2> HIDE DEF at, codes, U
  <2> QED
    BY <2>2, <2>3, SoundEach
<1>6. Sound(D4, Opaque)
  <2> HIDE DEF O, U
  <2> QED
    BY <1>4, <1>5, SoundUnion
<1>7. Sound(D5, Opaque) /\ Sound(D6, Opaque)
  <2>1. Sound(encInternalNonTextKeyIssues(enc), Opaque) /\ Sound(EncScheme1Issues(enc), Opaque)
    BY EncPreGuardSound, EncSchemaSound
  <2> QED
    BY <2>1, SoundMoved
<1>8. Sound(D7, Opaque)
  BY Scheme1Sound
<1> HIDE DEF D1, D2, D3, D4, D5, D6, D7
<1> QED
  BY <1>1, <1>3, <1>6, <1>7, <1>8

LEMMA ItemEncSound ==
  ASSUME NEW data, DataSet(data), NEW item \in data, NEW opts, NEW path
  PROVE  Sound(checkItemEnc(item, opts, path), Opaque)
<1> DEFINE enc == Get(item, "enc")
           A == OneWhen(\A k \in Keys(Get(item, "hashes")) : ~Registered(HASH_ALG_LENGTHS, k),
                        "ENC_REQUIRES_CONTENT_HASH", path)
           B == {issueOf("SCHEMA_TYPE_MISMATCH", path)}
           C == OneWhen(EncodedSize(enc) > opts.maxEncEnvelopeBytes, "ENC_ENVELOPE_TOO_LARGE", path)
           D == envelopeDisposition(enc, opts, path)
           E == IF enc.t # "map" THEN B ELSE C \cup D
<1>1. checkItemEnc(item, opts, path) = A \cup E
  BY DEF checkItemEnc
<1>2. /\ "SCHEMA_TYPE_MISMATCH" \in Structural /\ "ENC_REQUIRES_CONTENT_HASH" \in Structural
      /\ "ENC_ENVELOPE_TOO_LARGE" \in Structural
  BY DEF Structural
<1>3. Sound(A, Opaque) /\ Sound(B, Opaque) /\ Sound(C, Opaque)
  BY <1>2, SoundOne, SoundWhen
<1>4. Sound(D, Opaque)
  <2>1. enc \in data
    BY Parts
  <2> HIDE DEF enc
  <2> QED
    BY <2>1, DispositionSound
<1> HIDE DEF A, B, C, D
<1>5. Sound(E, Opaque)
  BY <1>3, <1>4, SoundUnion
<1> HIDE DEF E
<1> QED
  BY <1>1, <1>3, <1>5, SoundUnion

LEMMA MerkleSound ==
  ASSUME NEW data, DataSet(data), NEW commit \in data, NEW at, NEW tolerated,
         Get(commit, "uris").t = "array" \/ Get(commit, "uris") = Missing
  PROVE  Sound(checkMerkleCommit(commit, at), tolerated)
<1> DEFINE alg == Get(commit, "alg").s
           count == Get(commit, "leaf_count")
           A1 == {issueOf("UNSUPPORTED_MERKLE_COMMIT_ALG", at \o << "alg" >>)}
           A2 == OneWhen(Get(commit, "root").len # LengthIn(MERKLE_COMMIT_ALG_LENGTHS, alg),
                         "HASH_DIGEST_LENGTH_MISMATCH", at \o << "root" >>)
           A == IF ~Registered(MERKLE_COMMIT_ALG_LENGTHS, alg) THEN A1 ELSE A2
           B1 == {issueOf("SCHEMA_TYPE_MISMATCH", at \o << "leaf_count" >>)}
           B2 == OneWhen(~uintWithin(count, 1, UINT32_MAX),
                         "SCHEMA_MERKLE_LEAF_COUNT_INVALID", at \o << "leaf_count" >>)
           B == IF ~isUint(count) THEN B1 ELSE B2
           C == checkUris(Get(commit, "uris"), at \o << "uris" >>)
<1>1. checkMerkleCommit(commit, at) = A \cup B \cup C
  BY DEF checkMerkleCommit
<1>2. /\ "UNSUPPORTED_MERKLE_COMMIT_ALG" \in Structural
      /\ "HASH_DIGEST_LENGTH_MISMATCH" \in Structural /\ "SCHEMA_TYPE_MISMATCH" \in Structural
      /\ "SCHEMA_MERKLE_LEAF_COUNT_INVALID" \in Structural
  BY DEF Structural
<1>3. /\ Sound(A1, tolerated) /\ Sound(A2, tolerated)
      /\ Sound(B1, tolerated) /\ Sound(B2, tolerated)
  BY <1>2, SoundOne, SoundWhen
<1>4. Sound(C, tolerated)
  <2>1. Get(commit, "uris") \in data
    BY Parts
  <2> QED
    BY <2>1, UrisSound
<1> HIDE DEF A1, A2, B1, B2, C
<1>5. Sound(A, tolerated) /\ Sound(B, tolerated)
  BY <1>3
<1> HIDE DEF A, B
<1>6. Sound(A \cup B, tolerated)
  BY <1>5, SoundUnion
<1> QED
  BY <1>1, <1>4, <1>6, SoundUnion

LEMMA SigSound ==
  ASSUME NEW entry, NEW at
  PROVE  Sound(checkSigEntry(entry, at), Opaque)
<1> DEFINE path == at \o << "cose_key" >>
           I == inspectCoseKey(Get(entry, "cose_key"), path)
           keyIssues == IF Has(entry, "cose_key") THEN I ELSE {}
           cose == decodeCoseSign1(Get(entry, "cose_sign1"))
           alg == Get(cose.protected, "alg")
           M == {issueOf("MALFORMED_SIG_COSE_SIGN1", at)}
           A == OneWhen(alg.t # "int" \/ alg.n \notin KNOWN_SIG_ALG_IDS, "SIGNATURE_UNSUPPORTED", at)
           B == OneWhen(IsKey(Get(cose.protected, "kid")) /\ Has(entry, "cose_key"),
                        "SIG_ENTRY_KID_COSE_KEY_CONFLICT", at)
<1>1. checkSigEntry(entry, at)
        = IF keyIssues # {} THEN keyIssues
          ELSE IF ~cose.ok THEN M ELSE IF cose.payload # Null THEN M ELSE A \cup B
  BY DEF checkSigEntry
<1>2. /\ "MALFORMED_SIG_COSE_SIGN1" \in Structural /\ "SIG_PRIVATE_KEY_LEAKED" \in Structural
      /\ "SIG_ENTRY_KID_COSE_KEY_CONFLICT" \in Structural
  BY DEF Structural
<1>3. Sound(I, Opaque)
  <2>1. \/ I = {issueOf("SIG_PRIVATE_KEY_LEAKED", path)}
        \/ I = {issueOf("MALFORMED_SIG_COSE_SIGN1", path)} \/ I = {}
    BY DEF inspectCoseKey, OneWhen, When
  <2> HIDE DEF I, path
  <2> QED
    BY <1>2, <2>1, SoundOne, SoundNone
<1>4. Sound(M, Opaque) /\ Sound(B, Opaque)
  BY <1>2, SoundOne, SoundWhen
<1>5. Sound(A, Opaque)
  <2> DEFINE S == {issueOf("SIGNATURE_UNSUPPORTED", at)}
  <2>1. IsFiniteSet(S)
    BY FS_Singleton
  <2>2. Sound(S, Opaque)
    BY <2>1 DEF Sound, IsError, Opaque, IsIssue, IssueAs, issueOf
  <2>3. A = S \/ A = {}
    BY DEF OneWhen, When
  <2> HIDE DEF A, S
  <2> QED
    BY <2>2, <2>3, SoundNone
<1> HIDE DEF I, M, A, B, cose
<1>6. Sound(A \cup B, Opaque)
  BY <1>4, <1>5, SoundUnion
<1> QED
  BY <1>1, <1>3, <1>4, <1>6, SoundNone

LEMMA DomainSound ==
  ASSUME NEW data, DataSet(data), NEW record \in data, PoeRecordIssues(record) = {}, NEW opts
  PROVE  Sound(DomainIssues(record, opts), Opaque)
<1> DEFINE Entries(f) == Elems(Get(record, f))
           At(f, i) == << f, Idx(i) >>
           others == {k \in Keys(record) \ TOP_LEVEL_BASE_KEYS : ~isExtensionKey(k)}
           at == [k \in others |-> << k >>]
           codes == [k \in others |-> "SCHEMA_UNKNOWN_FIELD"]
           Item(item, here) ==
             checkItemHashes(item, here)
               \cup checkUris(Get(item, "uris"), here \o << "uris" >>)
               \cup (IF Has(item, "enc")
                     THEN checkItemEnc(item, opts, here \o << "enc" >>) ELSE {})
           items == [i \in DOMAIN Entries("items") |-> Item(Entries("items")[i], At("items", i))]
           merkle == [i \in DOMAIN Entries("merkle") |->
                        checkMerkleCommit(Entries("merkle")[i], At("merkle", i))]
           sigs == [i \in DOMAIN Entries("sigs") |->
                      checkSigEntry(Entries("sigs")[i], At("sigs", i))]
           A == checkContentCommitmentPresence(record)
           B == checkCrit(record, opts.supported)
           C == {issueOf("SCHEMA_UNKNOWN_FIELD", << k >>) : k \in others}
           D == UNION {Item(Entries("items")[i], At("items", i)) : i \in DOMAIN Entries("items")}
           E == UNION {checkMerkleCommit(Entries("merkle")[i], At("merkle", i)) :
                         i \in DOMAIN Entries("merkle")}
           F == OneWhen(Has(record, "sigs") /\ Entries("sigs") = << >>, "SCHEMA_TYPE_MISMATCH",
                        << "sigs" >>)
           G == UNION {checkSigEntry(Entries("sigs")[i], At("sigs", i)) :
                         i \in DOMAIN Entries("sigs")}
<1>1. DomainIssues(record, opts) = A \cup B \cup C \cup D \cup E \cup F \cup G
  BY DEF DomainIssues
<1>2. /\ "SCHEMA_UNKNOWN_FIELD" \in Structural /\ "SCHEMA_TYPE_MISMATCH" \in Structural
  BY DEF Structural
<1>3. Sound(A, Opaque) /\ Sound(B, Opaque) /\ Sound(F, Opaque)
  BY <1>2, PresenceSound, CritSound, SoundWhen
<1>4. Sound(C, Opaque)
  <2>1. IsFiniteSet(others)
    <3>1. IsFiniteSet(Keys(record)) /\ others \in SUBSET Keys(record)
      BY Parts
    <3> HIDE DEF others
    <3> QED
      BY <3>1, FS_Subset
  <2>2. C = {issueOf(codes[k], at[k]) : k \in DOMAIN at}
    OBVIOUS
  <2>3. IsFiniteSet(DOMAIN at) /\ \A k \in DOMAIN at : codes[k] \in Structural
    BY <1>2, <2>1
  <2> HIDE DEF at, codes, C
  <2> QED
    BY <2>2, <2>3, SoundEach
<1>5. \A f : /\ IsFiniteSet(DOMAIN Entries(f))
             /\ \A i \in DOMAIN Entries(f) : Entries(f)[i] \in data
  BY Parts
<1>6. DOMAIN EntrySchema = {"items", "merkle", "sigs"}
  BY DEF EntrySchema
<1>7. ASSUME NEW f \in {"items", "merkle"}, NEW i \in DOMAIN Entries(f)
      PROVE  Get(Entries(f)[i], "uris").t = "array" \/ Get(Entries(f)[i], "uris") = Missing
  <2> DEFINE e == Entries(f)[i]
  <2>1. EntryIssues(e, f, << f, Idx(i) >>) = {}
    BY <1>6, EntryShape
  <2>2. e \in data
    BY <1>5
  <2> HIDE DEF e
  <2>3. Get(e, "uris").t = "array" \/ Get(e, "uris") = Missing
    BY <2>1, <2>2, UrisShape
  <2> QED
    BY <2>3 DEF e
<1>8. ASSUME NEW item \in data, Get(item, "uris").t = "array" \/ Get(item, "uris") = Missing,
             NEW here
      PROVE  Sound(Item(item, here), Opaque)
  <2> DEFINE H == checkItemHashes(item, here)
             U == checkUris(Get(item, "uris"), here \o << "uris" >>)
             N == checkItemEnc(item, opts, here \o << "enc" >>)
             M == IF Has(item, "enc") THEN N ELSE {}
  <2>1. Get(item, "uris") \in data
    BY Parts
  <2>2. Sound(H, Opaque)
    BY HashesSound
  <2>3. Sound(U, Opaque)
    BY <1>8, <2>1, UrisSound
  <2>4. Sound(N, Opaque)
    BY ItemEncSound
  <2> HIDE DEF N
  <2>5. Sound(M, Opaque)
    BY <2>4, SoundNone
  <2> HIDE DEF H, U, M
  <2>6. Sound(H \cup U, Opaque)
    BY <2>2, <2>3, SoundUnion
  <2>7. Sound(H \cup U \cup M, Opaque)
    BY <2>5, <2>6, SoundUnion
  <2> QED
    BY <2>7 DEF H, U, M, N
<1>9. Sound(D, Opaque)
  <2>1. IsFiniteSet(DOMAIN items)
    BY <1>5
  <2> HIDE DEF Item
  <2>2. ASSUME NEW i \in DOMAIN items PROVE Sound(items[i], Opaque)
    BY <1>5, <1>7, <1>8
  <2>3. D = UNION {items[i] : i \in DOMAIN items}
    OBVIOUS
  <2> HIDE DEF items, D
  <2> QED
    BY <2>1, <2>2, <2>3, SoundFamily
<1>10. Sound(E, Opaque)
  <2>1. IsFiniteSet(DOMAIN merkle)
    BY <1>5
  <2>2. ASSUME NEW i \in DOMAIN merkle PROVE Sound(merkle[i], Opaque)
    <3> DEFINE e == Entries("merkle")[i]  here == At("merkle", i)
    <3>1. e \in data /\ (Get(e, "uris").t = "array" \/ Get(e, "uris") = Missing)
      BY <1>5, <1>7
    <3>2. merkle[i] = checkMerkleCommit(e, here)
      OBVIOUS
    <3> HIDE DEF e, here, merkle
    <3> QED
      BY <3>1, <3>2, MerkleSound
  <2>3. E = UNION {merkle[i] : i \in DOMAIN merkle}
    OBVIOUS
  <2> HIDE DEF merkle, E
  <2> QED
    BY <2>1, <2>2, <2>3, SoundFamily
<1>11. Sound(G, Opaque)
  <2>1. IsFiniteSet(DOMAIN sigs)
    BY <1>5
  <2>2. ASSUME NEW i \in DOMAIN sigs PROVE Sound(sigs[i], Opaque)
    BY SigSound
  <2>3. G = UNION {sigs[i] : i \in DOMAIN sigs}
    OBVIOUS
  <2> HIDE DEF sigs, G
  <2> QED
    BY <2>1, <2>2, <2>3, SoundFamily
<1> HIDE DEF A, B, C, D, E, F, G
<1>12. Sound(A \cup B, Opaque)
  BY <1>3, SoundUnion
<1>13. Sound(A \cup B \cup C, Opaque)
  BY <1>4, <1>12, SoundUnion
<1>14. Sound(A \cup B \cup C \cup D, Opaque)
  BY <1>9, <1>13, SoundUnion
<1>15. Sound(A \cup B \cup C \cup D \cup E, Opaque)
  BY <1>10, <1>14, SoundUnion
<1>16. Sound(A \cup B \cup C \cup D \cup E \cup F, Opaque)
  BY <1>3, <1>15, SoundUnion
<1> QED
  BY <1>1, <1>11, <1>16, SoundUnion

-----------------------------------------------------------------------------
(* The result.                                                             *)
LEMMA Listing ==
  ASSUME NEW S, IsFiniteSet(S)
  PROVE  /\ SetToSeq(S) \in Seq(S)
         /\ \A s \in S : \E i \in DOMAIN SetToSeq(S) : SetToSeq(S)[i] = s
<1> DEFINE n == Cardinality(S)
           f == SetToSeq(S)
<1>1. n \in Nat /\ ExistsBijection(1..n, S)
  BY FS_CardinalityType
<1>2. \E g \in [1..n -> S] : IsInjective(g)
  BY <1>1 DEF ExistsBijection, Bijection, Injection
<1>3. f \in [1..n -> S] /\ IsInjective(f)
  BY <1>2 DEF SetToSeq
<1>4. IsFiniteSet(1..n) /\ Cardinality(1..n) = n
  BY <1>1, FS_Interval
<1>5. f \in Injection(1..n, S)
  BY <1>3 DEF Injection
<1>6. f \in Surjection(1..n, S)
  <2> HIDE DEF f
  <2> QED
    BY <1>4, <1>5, FS_Injection
<1> HIDE DEF n, f
<1>7. f \in Seq(S)
  BY <1>1, <1>3
<1>8. \A s \in S : \E i \in DOMAIN f : f[i] = s
  BY <1>3, <1>6 DEF Surjection
<1> QED
  BY <1>7, <1>8 DEF f

LEMMA ValidationSound ==
  ASSUME NEW data, DataSet(data), NEW body, body.decodes => body.value \in data, NEW opts
  PROVE  Sound(ValidationIssues(body, opts), Opaque)
<1>1. Sound({issueOf("MALFORMED_CBOR", << >>)}, Opaque)
  <2>1. "MALFORMED_CBOR" \in Structural
    BY DEF Structural
  <2> QED
    BY <2>1, SoundOne
<1>2. ASSUME body.decodes
      PROVE  /\ Sound(collectNonTextKeyMapIssues(body.value), Opaque)
             /\ Sound(PoeRecordIssues(body.value), Opaque)
             /\ PoeRecordIssues(body.value) = {} => Sound(DomainIssues(body.value, opts), Opaque)
  BY <1>2, PreGuardSound, RecordSound, DomainSound
<1> QED
  BY <1>1, <1>2 DEF ValidationIssues

(* A record is valid exactly when no stage of the validation leaves an     *)
(* error: nothing is lost when the issues are sorted, a body that decodes  *)
(* has the schema's shape, and what is left of the domain checks is only   *)
(* what the code does not know.                                            *)
THEOREM ValidatedRecord ==
  ASSUME NEW data, DataSet(data), NEW body, body.decodes => body.value \in data, NEW opts
  PROVE  LET all == ValidationIssues(body, opts)
             result == validatePoeRecord(body, opts) IN
         /\ result.issues \in Seq(all)
         /\ \A s \in all : \E i \in DOMAIN result.issues : result.issues[i] = s
         /\ result.valid <=> \A s \in all : s.severity # "error"
         /\ result.valid => /\ body.decodes
                            /\ collectNonTextKeyMapIssues(body.value) = {}
                            /\ PoeRecordIssues(body.value) = {}
                            /\ all = DomainIssues(body.value, opts)
                            /\ \A s \in all : s.code \in Opaque
<1> DEFINE all == ValidationIssues(body, opts)
           list == SetToSeq(all)
           sorted == sortIssues(list)
<1>1. Sound(all, Opaque)
  BY ValidationSound
<1>2. list \in Seq(all) /\ \A s \in all : \E i \in DOMAIN list : list[i] = s
  BY <1>1, Listing DEF Sound, IsError
<1>3. validatePoeRecord(body, opts) = [valid |-> ErrorsOf(sorted) = {}, issues |-> sorted]
  BY DEF validatePoeRecord, Validated
<1> HIDE DEF all, list
<1>4. sorted \in Seq(all) /\ Len(sorted) = Len(list)
  BY <1>2, SortedList
<1>5. \A i \in DOMAIN list : \E j \in DOMAIN list : sorted[j] = list[i]
  BY <1>2, SortedList
<1>6. DOMAIN sorted = DOMAIN list /\ \A j \in DOMAIN sorted : sorted[j] \in all
  <2> HIDE DEF sorted
  <2> QED
    BY <1>2, <1>4
<1> HIDE DEF sorted
<1>7. ASSUME NEW s \in all PROVE \E j \in DOMAIN sorted : sorted[j] = s
  BY <1>2, <1>5, <1>6
<1>8. ErrorsOf(sorted) = {} <=> \A s \in all : s.severity # "error"
  <2> DEFINE bad == {i \in DOMAIN sorted : sorted[i].severity = "error"}
  <2>1. ErrorsOf(sorted) = {} <=> bad = {}
    BY DEF ErrorsOf
  <2>2. ASSUME NEW i \in bad PROVE ~ \A s \in all : s.severity # "error"
    BY <1>6
  <2>3. ASSUME NEW s \in all, s.severity = "error" PROVE bad # {}
    <3>1. PICK j \in DOMAIN sorted : sorted[j] = s
      BY <1>7
    <3> QED
      BY <2>3, <3>1
  <2> QED
    BY <2>1, <2>2, <2>3
<1>9. ASSUME \A s \in all : s.severity # "error"
      PROVE  /\ body.decodes /\ collectNonTextKeyMapIssues(body.value) = {}
             /\ PoeRecordIssues(body.value) = {} /\ all = DomainIssues(body.value, opts)
             /\ \A s \in all : s.code \in Opaque
  <2>1. \A s \in all : s.code \in Opaque
    BY <1>1, <1>9 DEF Sound, IsError
  <2>2. body.decodes
    <3>1. CASE ~body.decodes
      <4>1. all = {issueOf("MALFORMED_CBOR", << >>)}
        BY <3>1 DEF all, ValidationIssues
      <4>2. issueOf("MALFORMED_CBOR", << >>).severity = "error"
        <5>1. "MALFORMED_CBOR" \in Structural
          BY DEF Structural
        <5> QED
          BY <5>1, StructuralIsError
      <4> QED
        BY <4>1, <4>2, <1>9
    <3> QED
      BY <3>1
  <2>3. /\ Sound(collectNonTextKeyMapIssues(body.value), {})
        /\ Sound(PoeRecordIssues(body.value), {})
    BY <2>2, PreGuardSound, RecordSound
  <2>4. collectNonTextKeyMapIssues(body.value) = {}
    BY <2>2, <2>3, <1>9 DEF all, ValidationIssues, Sound, IsError
  <2>5. PoeRecordIssues(body.value) = {}
    BY <2>2, <2>3, <2>4, <1>9 DEF all, ValidationIssues, Sound, IsError
  <2>6. all = DomainIssues(body.value, opts)
    BY <2>2, <2>4, <2>5 DEF all, ValidationIssues
  <2> QED
    BY <2>1, <2>2, <2>4, <2>5, <2>6
<1>10. /\ validatePoeRecord(body, opts).valid = (ErrorsOf(sorted) = {})
       /\ validatePoeRecord(body, opts).issues = sorted
  BY <1>3
<1> QED
  BY <1>4, <1>7, <1>8, <1>9, <1>10 DEF all

=============================================================================
