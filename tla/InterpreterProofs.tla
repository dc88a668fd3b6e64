------------------------- MODULE InterpreterProofs -------------------------
(***************************************************************************)
(* Proofs about the BASIC interpreter, for every program and every order   *)
(* in which lines are typed, loaded, run and interrupted: its lines are in *)
(* order, its stacks keep within bounds, the indices it keeps mean the     *)
(* lines they were meant to, so that it goes where module ProgramFlow      *)
(* says, a program that is saved and loaded again is the program, and      *)
(* what expressions, assignments and READ make of the text of any line     *)
(* keeps variables, arrays and strings well formed.                        *)
(***************************************************************************)
EXTENDS Listing, FiniteSetTheorems, SequenceTheorems, WellFoundedInduction, TLAPS

----------------------------------------------------------------------------
(* Numbers.                                                                *)

(* Every set of natural numbers has a least element.                       *)
LEMMA LeastNumber ==
  ASSUME NEW S \in SUBSET Nat, S # {}
  PROVE  \E m \in S : \A o \in S : m <= o
<1> DEFINE Down(x) == {y \in S : y <= x}
           Downs == {Down(x) : x \in S}
           R == StrictSubsetOrdering(Nat)
<1>1. \A x \in S : Down(x) \in FiniteSubsetsOf(Nat)
  <2> SUFFICES ASSUME NEW x \in S PROVE Down(x) \in FiniteSubsetsOf(Nat)
    OBVIOUS
  <2>1. x \in Nat /\ Down(x) \in SUBSET Nat /\ \A y \in Down(x) : y <= x
    OBVIOUS
  <2> HIDE DEF Down
  <2>2. IsFiniteSet(Down(x))
    BY <2>1, FS_BoundedSetOfNaturals
  <2> QED
    BY <2>1, <2>2 DEF FiniteSubsetsOf
<1>2. Downs \subseteq FiniteSubsetsOf(Nat) /\ Downs # {}
  <2> HIDE DEF Down
  <2> QED
    BY <1>1
<1>3. \E D \in Downs : \A E \in Downs : ~ <<E, D>> \in R
  <2> HIDE DEF Downs, R
  <2>1. IsWellFoundedOn(StrictSubsetOrdering(Nat), FiniteSubsetsOf(Nat))
    BY FS_StrictSubsetOrderingWellFounded
  <2> QED
    BY <1>2, <2>1, WFMin DEF R
<1>4. PICK m \in S : \A o \in S : ~ <<Down(o), Down(m)>> \in R
  <2> HIDE DEF Down, R
  <2> QED
    BY <1>3
<1>5. ASSUME NEW o \in S, o < m
      PROVE  FALSE
  <2>0. o \in Nat /\ m \in Nat /\ o < m
    BY <1>5
  <2>1. Down(o) \subseteq Down(m) /\ m \in Down(m) /\ m \notin Down(o)
    <3>1. \A y \in S : y \in Nat
      OBVIOUS
    <3>2. \A y \in S : y <= o => y <= m
      BY <2>0, <3>1
    <3>3. m <= m /\ ~(m <= o)
      BY <2>0
    <3> QED
      BY <3>2, <3>3
  <2>2. Down(o) \in SUBSET Nat /\ Down(m) \in SUBSET Nat
    OBVIOUS
  <2> HIDE DEF Down
  <2>3. <<Down(o), Down(m)>> \in StrictSubsetOrdering(Nat)
    BY <2>1, <2>2 DEF StrictSubsetOrdering
  <2> QED
    BY <1>4, <2>3
<1> QED
  BY <1>4, <1>5

----------------------------------------------------------------------------
(* The lines and the binary search.                                        *)

Stmt == {line.stmt : line \in Source}
ProgramLine == [number : Number, stmt : Stmt]

(* Lines in order, with different numbers.                                 *)
Table(ls) ==
  /\ ls \in Seq(ProgramLine)
  /\ \A i, j \in 1 .. Len(ls) : i < j => ls[i].number < ls[j].number

LEMMA TableLength ==
  ASSUME NEW ls, Table(ls)
  PROVE  /\ Len(ls) \in Nat /\ DOMAIN ls = 1 .. Len(ls)
         /\ \A i \in 1 .. Len(ls) : ls[i] \in ProgramLine /\ ls[i].number \in Nat
<1>1. ls \in Seq(ProgramLine) /\ \A line \in ProgramLine : line.number \in Nat
  BY InterpreterAssumption DEF Table, ProgramLine
<1> QED
  BY <1>1, LenProperties, ElementOfSeq

(* What the search needs of the lines.                                     *)
Ordered(ls) ==
  /\ Len(ls) \in Nat
  /\ \A i \in 1 .. Len(ls) : ls[i].number \in Nat
  /\ \A i, j \in 1 .. Len(ls) : i < j => ls[i].number < ls[j].number

LEMMA OrderedLength ==
  ASSUME NEW ls, Ordered(ls)
  PROVE  Len(ls) \in Nat /\ \A i \in 1 .. Len(ls) : ls[i].number \in Nat
BY DEF Ordered

LEMMA TableOrdered == ASSUME NEW ls, Table(ls) PROVE Ordered(ls)
BY TableLength DEF Table, Ordered

(* The first r lines are those before a number.                            *)
Before(ls, number, r) == \A i \in 1 .. Len(ls) : ls[i].number < number <=> i <= r

LEMMA SomeBefore ==
  ASSUME NEW ls, Ordered(ls), NEW number \in Nat
  PROVE  \E r \in 0 .. Len(ls) : Before(ls, number, r)
<1> DEFINE S == {i \in Nat : i = Len(ls) + 1 \/ (i \in 1 .. Len(ls) /\ ~(ls[i].number < number))}
<1>1. Len(ls) + 1 \in S
  BY OrderedLength
<1>2. PICK m \in S : \A o \in S : m <= o
  BY <1>1, LeastNumber
<1> DEFINE r == m - 1
<1>3. r \in 0 .. Len(ls)
  BY <1>1, <1>2, OrderedLength
<1>4. ASSUME NEW i \in 1 .. Len(ls)
      PROVE  ls[i].number < number <=> i <= r
  <2>1. CASE i < m
    <3>1. i \notin S /\ i \in Nat /\ i # Len(ls) + 1
      BY <1>2, <2>1, OrderedLength
    <3>2. ls[i].number < number
      BY <3>1
    <3> QED
      BY <1>2, <2>1, <3>2
  <2>2. CASE ~(i < m)
    <3>1. m \in 1 .. Len(ls) /\ ~(ls[m].number < number)
      BY <1>2, <2>2, OrderedLength
    <3>2. m < i => ls[m].number < ls[i].number
      BY <3>1 DEF Ordered
    <3>3. m = i \/ m < i
      BY <2>2, <3>1
    <3> QED
      BY <2>2, <3>1, <3>2, <3>3, OrderedLength
  <2> QED
    BY <2>1, <2>2
<1> QED
  BY <1>3, <1>4 DEF Before

(* search of find_line_or_after, and what it comes to.                     *)
Half(f, ls, number, lo, hi) ==
  LET mid == (lo + hi) \div 2
  IN  IF lo >= hi THEN lo
      ELSE IF LineAt(ls, mid).number < number THEN f[<<mid + 1, hi>>] ELSE f[<<lo, mid>>]
Searching(f, ls, number) ==
  f = [range \in (0 .. Len(ls)) \X (0 .. Len(ls)) |-> Half(f, ls, number, range[1], range[2])]
Clipped(lo, hi, r) == IF lo >= hi \/ r <= lo THEN lo ELSE IF r >= hi THEN hi ELSE r

LEMMA Middle ==
  ASSUME NEW lo \in Nat, NEW hi \in Nat, lo < hi, NEW mid, mid = (lo + hi) \div 2
  PROVE  mid \in Nat /\ lo <= mid /\ mid < hi
OBVIOUS

LEMMA ClippedHalf ==
  ASSUME NEW lo \in Nat, NEW hi \in Nat, lo < hi, NEW r \in Nat, NEW mid \in Nat, lo <= mid, mid < hi
  PROVE  Clipped(lo, hi, r) = IF mid + 1 <= r THEN Clipped(mid + 1, hi, r) ELSE Clipped(lo, mid, r)
BY DEF Clipped

LEMMA SearchExists ==
  ASSUME NEW ls, Ordered(ls), NEW number \in Nat
  PROVE  \E f : Searching(f, ls, number)
<1>1. PICK r \in 0 .. Len(ls) : Before(ls, number, r)
  BY SomeBefore
<1> DEFINE D == 0 .. Len(ls)
           g == [range \in D \X D |-> Clipped(range[1], range[2], r)]
<1>2. ASSUME NEW lo \in D, NEW hi \in D
      PROVE  Clipped(lo, hi, r) = Half(g, ls, number, lo, hi)
  <2>1. CASE lo >= hi
    BY <2>1 DEF Clipped, Half
  <2>2. CASE ~(lo >= hi)
    <3> DEFINE mid == (lo + hi) \div 2
    <3>1. lo \in Nat /\ hi \in Nat /\ r \in Nat /\ lo < hi /\ mid = (lo + hi) \div 2
      BY <2>2, OrderedLength
    <3> HIDE DEF mid
    <3>2. mid \in Nat /\ lo <= mid /\ mid < hi
      BY <3>1, Middle
    <3>3. mid \in D /\ mid + 1 \in D /\ mid + 1 \in 1 .. Len(ls)
      BY <3>1, <3>2, OrderedLength
    <3>4. LineAt(ls, mid).number < number <=> mid + 1 <= r
      BY <1>1, <3>3 DEF Before, LineAt
    <3>5. g[<<mid + 1, hi>>] = Clipped(mid + 1, hi, r) /\ g[<<lo, mid>>] = Clipped(lo, mid, r)
      <4> HIDE DEF D
      <4> QED
        BY <3>3
    <3>6. Clipped(lo, hi, r) = IF mid + 1 <= r THEN Clipped(mid + 1, hi, r) ELSE Clipped(lo, mid, r)
      BY <3>1, <3>2, ClippedHalf
    <3> HIDE DEF g, D
    <3>7. Clipped(lo, hi, r) = IF LineAt(ls, mid).number < number THEN g[<<mid + 1, hi>>] ELSE g[<<lo, mid>>]
      BY <3>4, <3>5, <3>6
    <3> QED
      BY <2>2, <3>7 DEF mid, Half
  <2> QED
    BY <2>1, <2>2
<1>3. g = [range \in D \X D |-> Half(g, ls, number, range[1], range[2])]
  <2> DEFINE h == [range \in D \X D |-> Half(g, ls, number, range[1], range[2])]
  <2>1. ASSUME NEW range \in D \X D PROVE g[range] = h[range]
    <3>1. range[1] \in D /\ range[2] \in D
      OBVIOUS
    <3> QED
      BY <1>2, <3>1
  <2>2. g = h
    BY <2>1
  <2> QED
    BY <2>2
<1> QED
  BY <1>3 DEF Searching

LEMMA SearchFinds ==
  ASSUME NEW ls, Ordered(ls), NEW number \in Nat, NEW f, Searching(f, ls, number),
         NEW r \in 0 .. Len(ls), Before(ls, number, r),
         NEW lo \in 0 .. Len(ls), NEW hi \in 0 .. Len(ls)
  PROVE  f[<<lo, hi>>] = Clipped(lo, hi, r)
<1> DEFINE D == 0 .. Len(ls)
           Wrong(m) == \E a, b \in D : f[<<a, b>>] # Clipped(a, b, r) /\ (a >= b \/ b - a <= m)
           Bad == {m \in Nat : Wrong(m)}
<1>1. SUFFICES ASSUME Bad # {} PROVE FALSE
  <2>1. ASSUME f[<<lo, hi>>] # Clipped(lo, hi, r) PROVE Bad # {}
    <3>1. Len(ls) \in Nat
      BY OrderedLength
    <3>2. hi - lo <= Len(ls)
      BY <3>1
    <3>3. Wrong(Len(ls))
      BY <2>1, <3>2
    <3> QED
      BY <3>1, <3>3
  <2> QED
    BY <2>1
<1>2. PICK m \in Bad : \A o \in Bad : m <= o
  BY <1>1, LeastNumber
<1>3. m \in Nat /\ Wrong(m)
  BY <1>2
<1>4. PICK a \in D, b \in D : f[<<a, b>>] # Clipped(a, b, r) /\ (a >= b \/ b - a <= m)
  BY <1>3
<1>5. a \in Nat /\ b \in Nat /\ r \in Nat
  BY OrderedLength
<1>6. f[<<a, b>>] = Half(f, ls, number, a, b)
  <2> DEFINE p == <<a, b>>
  <2>1. p \in D \X D /\ p[1] = a /\ p[2] = b
    BY <1>4
  <2> HIDE DEF p
  <2>2. f[p] = Half(f, ls, number, p[1], p[2])
    BY <2>1 DEF Searching
  <2> QED
    BY <2>1, <2>2 DEF p
<1>7. a < b
  <2>1. a >= b => f[<<a, b>>] = Clipped(a, b, r)
    BY <1>6 DEF Half, Clipped
  <2> QED
    BY <1>4, <1>5, <2>1
<1> DEFINE mid == (a + b) \div 2
<1>8. mid \in Nat /\ a <= mid /\ mid < b
  BY <1>5, <1>7, Middle
<1>9. f[<<a, b>>] = IF LineAt(ls, mid).number < number THEN f[<<mid + 1, b>>] ELSE f[<<a, mid>>]
  BY <1>5, <1>6, <1>7 DEF Half
<1> HIDE DEF mid
<1>10. mid \in D /\ mid + 1 \in D /\ mid + 1 \in 1 .. Len(ls)
  BY <1>4, <1>8, OrderedLength
<1>11. LineAt(ls, mid).number < number <=> mid + 1 <= r
  BY <1>10 DEF Before, LineAt
<1>12. Clipped(a, b, r) = IF mid + 1 <= r THEN Clipped(mid + 1, b, r) ELSE Clipped(a, mid, r)
  BY <1>5, <1>7, <1>8, ClippedHalf
<1>13. PICK c \in D, d \in D : f[<<c, d>>] # Clipped(c, d, r) /\ d - c < m
  <2>1. b - a <= m
    BY <1>4, <1>5, <1>7
  <2>2. b - (mid + 1) < m /\ mid - a < m
    BY <1>3, <1>5, <1>8, <2>1
  <2>3. CASE mid + 1 <= r
    <3>1. f[<<mid + 1, b>>] # Clipped(mid + 1, b, r)
      BY <1>4, <1>9, <1>11, <1>12, <2>3
    <3> QED
      BY <1>10, <2>2, <3>1
  <2>4. CASE ~(mid + 1 <= r)
    <3>1. f[<<a, mid>>] # Clipped(a, mid, r)
      BY <1>4, <1>9, <1>11, <1>12, <2>4
    <3> QED
      BY <1>10, <2>2, <3>1
  <2> QED
    BY <2>3, <2>4
<1>14. m - 1 \in Nat /\ Wrong(m - 1)
  <2>1. m # 0
    <3>1. b - a <= m /\ b - a > 0
      BY <1>4, <1>5, <1>7
    <3> QED
      BY <1>3, <1>5, <3>1
  <2>2. c \in Int /\ d \in Int
    BY OrderedLength
  <2>3. m - 1 \in Nat /\ d - c <= m - 1
    BY <1>3, <1>13, <2>1, <2>2
  <2> QED
    BY <1>13, <2>3
<1>15. m - 1 \in Bad
  BY <1>14
<1> HIDE DEF Bad
<1> QED
  BY <1>2, <1>3, <1>15

(* find_line_or_after is the index of the first line not before number.    *)
LEMMA FindLineOrAfter ==
  ASSUME NEW ls, Ordered(ls), NEW number \in Nat
  PROVE  /\ find_line_or_after(ls, number) \in 0 .. Len(ls)
         /\ Before(ls, number, find_line_or_after(ls, number))
<1>1. PICK r \in 0 .. Len(ls) : Before(ls, number, r)
  BY SomeBefore
<1> DEFINE f == CHOOSE g : g = [range \in (0 .. Len(ls)) \X (0 .. Len(ls)) |->
                                  Half(g, ls, number, range[1], range[2])]
<1>2. find_line_or_after(ls, number) = f[<<0, Len(ls)>>]
  BY Zenon DEF find_line_or_after, Half
<1>3. \E g : g = [range \in (0 .. Len(ls)) \X (0 .. Len(ls)) |-> Half(g, ls, number, range[1], range[2])]
  BY SearchExists DEF Searching
<1>4. Searching(f, ls, number)
  <2>1. f = [range \in (0 .. Len(ls)) \X (0 .. Len(ls)) |-> Half(f, ls, number, range[1], range[2])]
    BY <1>3, Zenon
  <2> HIDE DEF f
  <2> QED
    BY <2>1 DEF Searching
<1> HIDE DEF f
<1>5. 0 \in 0 .. Len(ls) /\ Len(ls) \in 0 .. Len(ls)
  BY OrderedLength
<1>6. f[<<0, Len(ls)>>] = Clipped(0, Len(ls), r)
  BY <1>1, <1>4, <1>5, SearchFinds
<1>7. Clipped(0, Len(ls), r) = r
  BY OrderedLength DEF Clipped
<1> QED
  BY <1>1, <1>2, <1>6, <1>7

LEMMA FindLine ==
  ASSUME NEW ls, Table(ls), NEW number \in Nat
  PROVE  LET r == find_line_or_after(ls, number)
         IN  /\ find_line(ls, number) = {} => \A i \in 1 .. Len(ls) : ls[i].number # number
             /\ find_line(ls, number) # {} =>
                  /\ find_line(ls, number) = {r} /\ Min(find_line(ls, number)) = r
                  /\ r + 1 \in 1 .. Len(ls) /\ ls[r + 1].number = number
<1> DEFINE r == find_line_or_after(ls, number)
<1>1. r \in 0 .. Len(ls) /\ Before(ls, number, r) /\ Len(ls) \in Nat
  BY TableOrdered, FindLineOrAfter, TableLength
<1>2. find_line(ls, number) = IF r < Len(ls) /\ ls[r + 1].number = number THEN {r} ELSE {}
  BY DEF find_line, LineAt
<1>3. Min({r}) = r
  BY <1>1 DEF Min
<1> HIDE DEF r
<1>4. ASSUME NEW i \in 1 .. Len(ls), ls[i].number = number
      PROVE  r < Len(ls) /\ ls[r + 1].number = number
  <2>1. ~(i <= r) /\ i \in Nat /\ r \in Nat
    BY <1>1, <1>4, TableLength DEF Before
  <2>2. r + 1 \in 1 .. Len(ls) /\ r + 1 <= i
    BY <1>1, <2>1
  <2>3. ~(ls[r + 1].number < number) /\ ls[r + 1].number \in Nat
    BY <1>1, <2>1, <2>2, TableLength DEF Before
  <2>4. r + 1 < i => ls[r + 1].number < ls[i].number
    BY <2>2 DEF Table
  <2>5. r + 1 = i \/ r + 1 < i
    BY <2>1, <2>2
  <2> QED
    BY <1>1, <1>4, <2>1, <2>2, <2>3, <2>4, <2>5
<1>5. r < Len(ls) => r + 1 \in 1 .. Len(ls)
  BY <1>1
<1> QED
  BY <1>2, <1>3, <1>4, <1>5 DEF r

----------------------------------------------------------------------------
(* Changing a line.                                                        *)

LEMMA Cutting ==
  ASSUME NEW S, NEW s \in Seq(S), NEW k \in 1 .. Len(s)
  PROVE  /\ RemoveAt(s, k) \in Seq(S) /\ Len(RemoveAt(s, k)) = Len(s) - 1
         /\ \A i \in 1 .. Len(s) - 1 : RemoveAt(s, k)[i] = IF i < k THEN s[i] ELSE s[i + 1]
<1> DEFINE a == SubSeq(s, 1, k - 1)
           b == SubSeq(s, k + 1, Len(s))
<1>1. Len(s) \in Nat /\ k \in Nat /\ \A i \in 1 .. Len(s) : s[i] \in S
  BY LenProperties, ElementOfSeq
<1>2. a \in Seq(S) /\ Len(a) = k - 1 /\ \A i \in 1 .. k - 1 : a[i] = s[i]
  <2>1. \A i \in 1 .. k - 1 : s[i] \in S
    BY <1>1
  <2>2. a \in Seq(S) /\ Len(a) = (IF 1 <= k - 1 THEN (k - 1) - 1 + 1 ELSE 0) /\ \A i \in 1 .. (k - 1) - 1 + 1 : a[i] = s[1 + i - 1]
    BY <1>1, <2>1, SubSeqProperties
  <2> HIDE DEF a
  <2> QED
    BY <1>1, <2>2
<1>3. b \in Seq(S) /\ Len(b) = Len(s) - k /\ \A i \in 1 .. Len(s) - k : b[i] = s[k + i]
  <2>1. \A i \in k + 1 .. Len(s) : s[i] \in S
    BY <1>1
  <2>2. b \in Seq(S) /\ Len(b) = (IF k + 1 <= Len(s) THEN Len(s) - (k + 1) + 1 ELSE 0)
        /\ \A i \in 1 .. Len(s) - (k + 1) + 1 : b[i] = s[(k + 1) + i - 1]
    BY <1>1, <2>1, SubSeqProperties
  <2> HIDE DEF b
  <2> QED
    BY <1>1, <2>2
<1>4. RemoveAt(s, k) = a \o b
  BY DEF RemoveAt
<1> HIDE DEF a, b
<1>5. a \o b \in Seq(S) /\ Len(a \o b) = Len(a) + Len(b)
      /\ \A i \in 1 .. Len(a) + Len(b) : (a \o b)[i] = IF i <= Len(a) THEN a[i] ELSE b[i - Len(a)]
  BY <1>2, <1>3, ConcatProperties
<1>6. ASSUME NEW i \in 1 .. Len(s) - 1
      PROVE  (a \o b)[i] = IF i < k THEN s[i] ELSE s[i + 1]
  <2>1. (a \o b)[i] = IF i <= k - 1 THEN a[i] ELSE b[i - (k - 1)]
    BY <1>1, <1>2, <1>3, <1>5
  <2>2. CASE i < k
    BY <1>1, <1>2, <2>1, <2>2
  <2>3. CASE ~(i < k)
    <3>1. i - (k - 1) \in 1 .. Len(s) - k /\ k + (i - (k - 1)) = i + 1 /\ ~(i <= k - 1)
      BY <1>1, <2>3
    <3>2. b[i - (k - 1)] = s[i + 1]
      BY <1>3, <3>1
    <3> QED
      BY <2>1, <2>3, <3>1, <3>2
  <2> QED
    BY <2>2, <2>3
<1> QED
  BY <1>1, <1>2, <1>3, <1>4, <1>5, <1>6

(* t is s with e at k.                                                     *)
Inserted(t, S, s, k, e) ==
  /\ t \in Seq(S) /\ Len(t) = Len(s) + 1
  /\ \A i \in 1 .. Len(s) + 1 : t[i] = IF i < k THEN s[i] ELSE IF i = k THEN e ELSE s[i - 1]

LEMMA Inserting ==
  ASSUME NEW S, NEW s \in Seq(S), NEW k \in 1 .. Len(s) + 1, NEW e \in S
  PROVE  Inserted(InsertAt(s, k, e), S, s, k, e)
<1> DEFINE a == SubSeq(s, 1, k - 1)
           b == SubSeq(s, k, Len(s))
           c == Append(a, e)
<1>1. Len(s) \in Nat /\ k \in Nat /\ \A i \in 1 .. Len(s) : s[i] \in S
  BY LenProperties, ElementOfSeq
<1>2. a \in Seq(S) /\ Len(a) = k - 1 /\ \A i \in 1 .. k - 1 : a[i] = s[i]
  <2>1. \A i \in 1 .. k - 1 : s[i] \in S
    BY <1>1
  <2>2. a \in Seq(S) /\ Len(a) = (IF 1 <= k - 1 THEN (k - 1) - 1 + 1 ELSE 0) /\ \A i \in 1 .. (k - 1) - 1 + 1 : a[i] = s[1 + i - 1]
    BY <1>1, <2>1, SubSeqProperties
  <2> HIDE DEF a
  <2> QED
    BY <1>1, <2>2
<1>3. b \in Seq(S) /\ Len(b) = Len(s) - k + 1 /\ \A i \in 1 .. Len(s) - k + 1 : b[i] = s[k + i - 1]
  <2>1. \A i \in k .. Len(s) : s[i] \in S
    BY <1>1
  <2>2. b \in Seq(S) /\ Len(b) = (IF k <= Len(s) THEN Len(s) - k + 1 ELSE 0)
        /\ \A i \in 1 .. Len(s) - k + 1 : b[i] = s[k + i - 1]
    BY <1>1, <2>1, SubSeqProperties
  <2> HIDE DEF b
  <2> QED
    BY <1>1, <2>2
<1>4. InsertAt(s, k, e) = c \o b
  <2>1. a \o <<e>> = c
    BY <1>2, AppendIsConcat
  <2>2. InsertAt(s, k, e) = (a \o <<e>>) \o b
    BY DEF InsertAt
  <2> HIDE DEF a, b, c
  <2> QED
    BY <2>1, <2>2
<1>5. c \in Seq(S) /\ Len(c) = k /\ (\A i \in 1 .. k - 1 : c[i] = s[i]) /\ c[k] = e
  <2>1. c \in Seq(S) /\ Len(c) = Len(a) + 1 /\ (\A i \in 1 .. Len(a) : c[i] = a[i]) /\ c[Len(a) + 1] = e
    BY <1>2, AppendProperties
  <2>2. (k - 1) + 1 = k
    BY <1>1
  <2> HIDE DEF a, c
  <2> QED
    BY <1>2, <2>1, <2>2
<1> HIDE DEF a, b, c
<1>6. c \o b \in Seq(S) /\ Len(c \o b) = Len(c) + Len(b)
      /\ \A i \in 1 .. Len(c) + Len(b) : (c \o b)[i] = IF i <= Len(c) THEN c[i] ELSE b[i - Len(c)]
  BY <1>3, <1>5, ConcatProperties
<1>7. ASSUME NEW i \in 1 .. Len(s) + 1
      PROVE  (c \o b)[i] = IF i < k THEN s[i] ELSE IF i = k THEN e ELSE s[i - 1]
  <2>1. (c \o b)[i] = IF i <= k THEN c[i] ELSE b[i - k]
    BY <1>1, <1>3, <1>5, <1>6
  <2>2. CASE i < k
    BY <1>1, <1>5, <2>1, <2>2
  <2>3. CASE i = k
    <3>1. k <= k /\ ~(k < k)
      BY <1>1
    <3> QED
      BY <1>5, <2>1, <2>3, <3>1
  <2>4. CASE i > k
    <3>1. i - k \in 1 .. Len(s) - k + 1 /\ k + (i - k) - 1 = i - 1 /\ ~(i <= k) /\ ~(i < k) /\ i # k
      BY <1>1, <2>4
    <3>2. b[i - k] = s[i - 1]
      BY <1>3, <3>1
    <3> QED
      BY <2>1, <3>1, <3>2
  <2>5. i < k \/ i = k \/ i > k
    BY <1>1
  <2> QED
    BY <2>2, <2>3, <2>4, <2>5
<1>8. Inserted(c \o b, S, s, k, e)
  BY <1>1, <1>3, <1>5, <1>6, <1>7 DEF Inserted
<1> QED
  BY <1>4, <1>8

LinesOf(ls) == {ls[i] : i \in 1 .. Len(ls)}
Replaced(L, number, s) ==
  {line \in L : line.number # number}
    \cup (IF s = NoText THEN {} ELSE {[number |-> number, stmt |-> s]})

LEMMA RemovesLine ==
  ASSUME NEW ls, Table(ls), NEW k \in 1 .. Len(ls), NEW new, new = RemoveAt(ls, k)
  PROVE  Table(new) /\ LinesOf(new) = {line \in LinesOf(ls) : line.number # ls[k].number}
<1>1. Len(ls) \in Nat /\ k \in Nat /\ ls \in Seq(ProgramLine)
  BY TableLength DEF Table
<1>2. /\ new \in Seq(ProgramLine) /\ Len(new) = Len(ls) - 1
      /\ \A i \in 1 .. Len(ls) - 1 : new[i] = IF i < k THEN ls[i] ELSE ls[i + 1]
  BY <1>1, Cutting
<1> DEFINE old(i) == IF i < k THEN i ELSE i + 1
<1>3. \A i \in 1 .. Len(ls) - 1 : new[i] = ls[old(i)] /\ old(i) \in 1 .. Len(ls) /\ old(i) # k
  BY <1>1, <1>2
<1>4. \A i, j \in 1 .. Len(ls) - 1 : i < j => old(i) < old(j)
  BY <1>1
<1>5. \A i \in 1 .. Len(ls) : i # k => \E j \in 1 .. Len(ls) - 1 : old(j) = i
  <2> SUFFICES ASSUME NEW i \in 1 .. Len(ls), i # k PROVE \E j \in 1 .. Len(ls) - 1 : old(j) = i
    OBVIOUS
  <2>1. CASE i < k
    <3>1. i \in 1 .. Len(ls) - 1 /\ old(i) = i
      BY <1>1, <2>1
    <3> QED
      BY <3>1
  <2>2. CASE i > k
    <3>1. i - 1 \in 1 .. Len(ls) - 1 /\ old(i - 1) = i
      BY <1>1, <2>2
    <3> QED
      BY <3>1
  <2> QED
    BY <1>1, <2>1, <2>2
<1> HIDE DEF old
<1>6. Table(new)
  <2>1. \A i, j \in 1 .. Len(new) : i < j => new[i].number < new[j].number
    <3> SUFFICES ASSUME NEW i \in 1 .. Len(new), NEW j \in 1 .. Len(new), i < j
                 PROVE  new[i].number < new[j].number
      OBVIOUS
    <3>1. i \in 1 .. Len(ls) - 1 /\ j \in 1 .. Len(ls) - 1
      BY <1>2
    <3>2. old(i) \in 1 .. Len(ls) /\ old(j) \in 1 .. Len(ls) /\ old(i) < old(j)
      BY <1>3, <1>4, <3>1
    <3>3. ls[old(i)].number < ls[old(j)].number
      BY <3>2 DEF Table
    <3> QED
      BY <1>3, <3>1, <3>3
  <2> QED
    BY <1>2, <2>1 DEF Table
<1>7. \A i \in 1 .. Len(ls) : i # k => ls[i].number # ls[k].number
  <2> SUFFICES ASSUME NEW i \in 1 .. Len(ls), i # k PROVE ls[i].number # ls[k].number
    OBVIOUS
  <2>1. ls[i].number \in Nat /\ ls[k].number \in Nat
    BY TableLength
  <2>2. (i < k => ls[i].number < ls[k].number) /\ (k < i => ls[k].number < ls[i].number)
    BY DEF Table
  <2>3. i < k \/ k < i
    BY <1>1
  <2> QED
    BY <2>1, <2>2, <2>3
<1>8. LinesOf(new) = {line \in LinesOf(ls) : line.number # ls[k].number}
  <2>1. ASSUME NEW i \in 1 .. Len(new) PROVE new[i] \in {line \in LinesOf(ls) : line.number # ls[k].number}
    BY <1>2, <1>3, <1>7 DEF LinesOf
  <2>2. ASSUME NEW i \in 1 .. Len(ls), ls[i].number # ls[k].number PROVE ls[i] \in LinesOf(new)
    <3>1. i # k
      BY <2>2
    <3>2. PICK j \in 1 .. Len(ls) - 1 : old(j) = i
      BY <1>5, <3>1
    <3>3. new[j] = ls[i] /\ j \in 1 .. Len(new)
      BY <1>2, <1>3, <3>2
    <3> QED
      BY <3>3 DEF LinesOf
  <2> QED
    BY <2>1, <2>2 DEF LinesOf
<1> QED
  BY <1>6, <1>8

LEMMA ReplacesLine ==
  ASSUME NEW ls, Table(ls), NEW k \in 1 .. Len(ls), NEW line \in ProgramLine, line.number = ls[k].number,
         NEW new, new = [ls EXCEPT ![k] = line]
  PROVE  Table(new) /\ LinesOf(new) = {l \in LinesOf(ls) : l.number # line.number} \cup {line}
<1>1. Len(ls) \in Nat /\ k \in Nat /\ ls \in Seq(ProgramLine)
  BY TableLength DEF Table
<1>2. /\ new \in Seq(ProgramLine) /\ Len(new) = Len(ls)
      /\ \A i \in 1 .. Len(ls) : new[i] = IF i = k THEN line ELSE ls[i]
  BY <1>1, ExceptSeq
<1>3. \A i \in 1 .. Len(ls) : new[i].number = ls[i].number
  BY <1>2
<1>4. Table(new)
  BY <1>2, <1>3 DEF Table
<1>5. \A i \in 1 .. Len(ls) : i # k => ls[i].number # ls[k].number
  <2> SUFFICES ASSUME NEW i \in 1 .. Len(ls), i # k PROVE ls[i].number # ls[k].number
    OBVIOUS
  <2>1. ls[i].number \in Nat /\ ls[k].number \in Nat
    BY TableLength
  <2>2. (i < k => ls[i].number < ls[k].number) /\ (k < i => ls[k].number < ls[i].number)
    BY DEF Table
  <2>3. i < k \/ k < i
    BY <1>1
  <2> QED
    BY <2>1, <2>2, <2>3
<1>6. LinesOf(new) = {l \in LinesOf(ls) : l.number # line.number} \cup {line}
  <2>1. ASSUME NEW i \in 1 .. Len(new) PROVE new[i] \in {l \in LinesOf(ls) : l.number # line.number} \cup {line}
    BY <1>2, <1>5 DEF LinesOf
  <2>2. line = new[k] /\ k \in 1 .. Len(new)
    BY <1>2
  <2>3. ASSUME NEW i \in 1 .. Len(ls), ls[i].number # line.number PROVE ls[i] \in LinesOf(new)
    <3>1. new[i] = ls[i] /\ i \in 1 .. Len(new)
      BY <1>2, <2>3
    <3> QED
      BY <3>1 DEF LinesOf
  <2> QED
    BY <2>1, <2>2, <2>3 DEF LinesOf
<1> QED
  BY <1>4, <1>6

LEMMA InsertsLine ==
  ASSUME NEW ls, Table(ls), NEW line \in ProgramLine, NEW r \in 0 .. Len(ls), Before(ls, line.number, r),
         \A i \in 1 .. Len(ls) : ls[i].number # line.number,
         NEW new, new = InsertAt(ls, r + 1, line)
  PROVE  Table(new) /\ LinesOf(new) = LinesOf(ls) \cup {line}
<1> DEFINE k == r + 1
<1>1. Len(ls) \in Nat /\ k \in 1 .. Len(ls) + 1 /\ ls \in Seq(ProgramLine) /\ line.number \in Nat
  <2>1. line.number \in Nat
    BY InterpreterAssumption DEF ProgramLine
  <2>2. Len(ls) \in Nat /\ ls \in Seq(ProgramLine)
    BY TableLength DEF Table
  <2> QED
    BY <2>1, <2>2
<1>2. \A i \in 1 .. Len(ls) : IF i < k THEN ls[i].number < line.number ELSE line.number < ls[i].number
  <2> SUFFICES ASSUME NEW i \in 1 .. Len(ls)
               PROVE  IF i < k THEN ls[i].number < line.number ELSE line.number < ls[i].number
    OBVIOUS
  <2>1. ls[i].number < line.number <=> i <= r
    BY DEF Before
  <2>2. i <= r <=> i < k
    BY <1>1
  <2>3. ls[i].number \in Nat /\ ls[i].number # line.number
    BY TableLength
  <2> QED
    BY <1>1, <2>1, <2>2, <2>3
<1>3. new = InsertAt(ls, k, line)
  OBVIOUS
<1> HIDE DEF k
<1>4. /\ new \in Seq(ProgramLine) /\ Len(new) = Len(ls) + 1
      /\ \A i \in 1 .. Len(ls) + 1 : new[i] = IF i < k THEN ls[i] ELSE IF i = k THEN line ELSE ls[i - 1]
  <2>1. ls \in Seq(ProgramLine) /\ line \in ProgramLine /\ k \in 1 .. Len(ls) + 1
    BY <1>1
  <2>2. Inserted(InsertAt(ls, k, line), ProgramLine, ls, k, line)
    BY <2>1, Inserting
  <2> QED
    BY <1>3, <2>2 DEF Inserted
<1>5. Table(new)
  <2>1. \A i, j \in 1 .. Len(new) : i < j => new[i].number < new[j].number
    <3> SUFFICES ASSUME NEW i \in 1 .. Len(new), NEW j \in 1 .. Len(new), i < j
                 PROVE  new[i].number < new[j].number
      OBVIOUS
    <3>1. i \in 1 .. Len(ls) + 1 /\ j \in 1 .. Len(ls) + 1 /\ k \in Nat
      BY <1>1, <1>4
    <3>2. CASE j < k
      <4>1. i \in 1 .. Len(ls) /\ j \in 1 .. Len(ls) /\ i < k
        BY <1>1, <3>1, <3>2
      <4>2. new[i] = ls[i] /\ new[j] = ls[j]
        BY <1>4, <3>1, <3>2, <4>1
      <4> QED
        BY <4>1, <4>2 DEF Table
    <3>3. CASE j = k
      <4>1. i \in 1 .. Len(ls) /\ i < k /\ ~(j < k)
        BY <1>1, <3>1, <3>3
      <4>2. new[i] = ls[i] /\ new[j] = line
        BY <1>4, <3>1, <3>3, <4>1
      <4> QED
        BY <1>2, <4>1, <4>2
    <3>4. CASE j > k
      <4>1. j - 1 \in 1 .. Len(ls) /\ ~(j < k) /\ j # k /\ ~(j - 1 < k)
        BY <1>1, <3>1, <3>4
      <4>2. new[j] = ls[j - 1]
        BY <1>4, <3>1, <4>1
      <4>3. line.number < ls[j - 1].number
        BY <1>2, <4>1
      <4>4. CASE i = k
        <5>1. new[i] = line
          BY <1>4, <3>1, <4>4
        <5> QED
          BY <4>2, <4>3, <5>1
      <4>5. CASE i < k
        <5>1. i \in 1 .. Len(ls) /\ new[i] = ls[i]
          BY <1>1, <1>4, <3>1, <4>5
        <5>2. ls[i].number < line.number
          BY <1>2, <4>5, <5>1
        <5>3. ls[i].number \in Nat /\ ls[j - 1].number \in Nat /\ line.number \in Nat
          BY <1>1, <4>1, <5>1, TableLength
        <5>4. ls[i].number < ls[j - 1].number
          BY ONLY <4>3, <5>2, <5>3
        <5> QED
          BY <4>2, <5>1, <5>4
      <4>6. CASE i > k
        <5>1. i - 1 \in 1 .. Len(ls) /\ ~(i < k) /\ i # k /\ i - 1 < j - 1
          BY <1>1, <3>1, <4>6
        <5>2. new[i] = ls[i - 1]
          BY <1>4, <3>1, <5>1
        <5> QED
          BY <4>1, <4>2, <5>1, <5>2 DEF Table
      <4> QED
        BY <3>1, <4>4, <4>5, <4>6
    <3> QED
      BY <3>1, <3>2, <3>3, <3>4
  <2> QED
    BY <1>4, <2>1 DEF Table
<1>6. LinesOf(new) = LinesOf(ls) \cup {line}
  <2>1. ASSUME NEW i \in 1 .. Len(new) PROVE new[i] \in LinesOf(ls) \cup {line}
    <3>1. CASE i < k
      <4>1. i \in 1 .. Len(ls) /\ new[i] = ls[i]
        BY <1>1, <1>4, <3>1
      <4> QED
        BY <4>1 DEF LinesOf
    <3>2. CASE i = k
      BY <1>1, <1>4, <3>2
    <3>3. CASE i > k
      <4>1. i - 1 \in 1 .. Len(ls) /\ new[i] = ls[i - 1]
        BY <1>1, <1>4, <3>3
      <4> QED
        BY <4>1 DEF LinesOf
    <3> QED
      BY <1>1, <1>4, <3>1, <3>2, <3>3
  <2>2. line \in LinesOf(new)
    <3>1. k \in 1 .. Len(new) /\ new[k] = line
      BY <1>1, <1>4
    <3> QED
      BY <3>1 DEF LinesOf
  <2>3. ASSUME NEW i \in 1 .. Len(ls) PROVE ls[i] \in LinesOf(new)
    <3>1. CASE i < k
      <4>1. i \in 1 .. Len(new) /\ new[i] = ls[i]
        BY <1>1, <1>4, <3>1
      <4> QED
        BY <4>1 DEF LinesOf
    <3>2. CASE ~(i < k)
      <4>1. i + 1 \in 1 .. Len(ls) + 1 /\ ~(i + 1 < k) /\ i + 1 # k /\ (i + 1) - 1 = i
        BY <1>1, <3>2
      <4>2. i + 1 \in 1 .. Len(new) /\ new[i + 1] = ls[i]
        BY <1>4, <4>1
      <4> QED
        BY <4>2 DEF LinesOf
    <3> QED
      BY <3>1, <3>2
  <2> QED
    BY <2>1, <2>2, <2>3 DEF LinesOf
<1> QED
  BY <1>5, <1>6

(* insert_line replaces the line of its number, adds it or takes it out.   *)
LEMMA InsertLine ==
  ASSUME NEW ls, Table(ls), NEW number \in Number, NEW s \in Stmt
  PROVE  /\ Table(insert_line(ls, number, s))
         /\ LinesOf(insert_line(ls, number, s)) = Replaced(LinesOf(ls), number, s)
<1> DEFINE found == find_line(ls, number)
           r == find_line_or_after(ls, number)
           line == [number |-> number, stmt |-> s]
           new == insert_line(ls, number, s)
           L == LinesOf(ls)
<1>1. number \in Nat /\ line \in ProgramLine /\ line.number = number
  BY InterpreterAssumption DEF ProgramLine
<1>2. r \in 0 .. Len(ls) /\ Before(ls, number, r)
  BY <1>1, TableOrdered, FindLineOrAfter
<1>3. found = {} => \A l \in L : l.number # number
  BY <1>1, FindLine DEF LinesOf
<1>4. found # {} => Min(found) + 1 \in 1 .. Len(ls) /\ ls[Min(found) + 1].number = number
  BY <1>1, FindLine
<1>5. new = IF s = NoText THEN IF found = {} THEN ls ELSE RemoveAt(ls, Min(found) + 1)
            ELSE IF found # {} THEN [ls EXCEPT ![Min(found) + 1] = line]
            ELSE InsertAt(ls, r + 1, line)
  BY DEF insert_line
<1>6. Replaced(L, number, s) = {l \in L : l.number # number} \cup (IF s = NoText THEN {} ELSE {line})
  BY DEF Replaced
<1> HIDE DEF found, r, line, new
<1>7. CASE s = NoText /\ found = {}
  <2>1. new = ls /\ {l \in L : l.number # number} = L
    BY <1>3, <1>5, <1>7
  <2> QED
    BY <1>6, <1>7, <2>1 DEF new
<1>8. CASE s = NoText /\ found # {}
  <2>1. new = RemoveAt(ls, Min(found) + 1)
    BY <1>5, <1>8
  <2>2. Table(new) /\ LinesOf(new) = {l \in L : l.number # number}
    BY <1>4, <1>8, <2>1, RemovesLine
  <2> QED
    BY <1>6, <1>8, <2>2 DEF new
<1>9. CASE s # NoText /\ found # {}
  <2>1. new = [ls EXCEPT ![Min(found) + 1] = line]
    BY <1>5, <1>9
  <2> DEFINE k == Min(found) + 1
  <2>2. k \in 1 .. Len(ls) /\ line.number = ls[k].number /\ new = [ls EXCEPT ![k] = line]
    BY <1>1, <1>4, <1>9, <2>1
  <2> HIDE DEF k
  <2>3. Table(new) /\ LinesOf(new) = {l \in L : l.number # line.number} \cup {line}
    BY <1>1, <2>2, ReplacesLine
  <2> QED
    BY <1>1, <1>6, <1>9, <2>3 DEF new
<1>10. CASE s # NoText /\ found = {}
  <2>1. new = InsertAt(ls, r + 1, line)
    BY <1>5, <1>10
  <2>2. (\A i \in 1 .. Len(ls) : ls[i].number # line.number) /\ {l \in L : l.number # number} = L
    BY <1>1, <1>3, <1>10 DEF LinesOf
  <2>3. Table(new) /\ LinesOf(new) = L \cup {line}
    BY <1>1, <1>2, <2>1, <2>2, InsertsLine
  <2> QED
    BY <1>6, <1>10, <2>2, <2>3 DEF new
<1> QED
  BY <1>7, <1>8, <1>9, <1>10

(***************************************************************************)
(* What a file's lines make.                                               *)
(***************************************************************************)

Added(ls, line) ==
  IF line.number > 0 /\ line.stmt # NoText THEN insert_line(ls, line.number, line.stmt) ELSE ls

(* The folds over the lines of a file and over the figures of a number, of *)
(* a line or within it, are one, which knows by its name what it does.     *)
Shifted(n, c) == (n * 10 + DigitOf[c]) % Word
Taken(how, x, y) ==
  IF how = "line" THEN Added(x, y) ELSE IF how = "digit" THEN Shifted(x, y) ELSE x * 10 + DigitOf[y]

(* A fold over s, as a function of the places it has been over.            *)
Folded(how, f, c, s, n) ==
  f = [t \in SUBSET (1 .. n) |-> IF t = {} THEN c ELSE Taken(how, f[t \ {Max(t)}], s[Max(t)])]

LEMMA MaxLast ==
  ASSUME NEW n \in Nat, NEW t \in SUBSET (1 .. n + 1), n + 1 \in t
  PROVE  Max(t) = n + 1 /\ t \ {n + 1} \in SUBSET (1 .. n)
<1>1. \A y \in t : n + 1 >= y
  OBVIOUS
<1>2. \A x \in t : (\A y \in t : x >= y) => x = n + 1
  BY <1>1
<1>3. Max(t) \in t /\ \A y \in t : Max(t) >= y
  BY <1>1 DEF Max
<1>4. t \ {n + 1} \in SUBSET (1 .. n)
  OBVIOUS
<1> QED
  BY <1>2, <1>3, <1>4

LEMMA FoldFirst ==
  ASSUME NEW how, NEW c, NEW s
  PROVE  \E f : Folded(how, f, c, s, 0)
<1> DEFINE f == [t \in SUBSET (1 .. 0) |-> c]
<1>1. \A t \in SUBSET (1 .. 0) : t = {}
  OBVIOUS
<1>2. f = [t \in SUBSET (1 .. 0) |-> IF t = {} THEN c ELSE Taken(how, f[t \ {Max(t)}], s[Max(t)])]
  BY <1>1
<1> QED
  BY <1>2 DEF Folded

LEMMA FoldNext ==
  ASSUME NEW how, NEW c, NEW s, NEW n \in Nat, NEW f, Folded(how, f, c, s, n)
  PROVE  \E g : Folded(how, g, c, s, n + 1)
<1> DEFINE g == [t \in SUBSET (1 .. n + 1) |->
                   IF n + 1 \in t THEN Taken(how, f[t \ {n + 1}], s[n + 1]) ELSE f[t]]
           h == [t \in SUBSET (1 .. n + 1) |-> IF t = {} THEN c ELSE Taken(how, g[t \ {Max(t)}], s[Max(t)])]
<1>1. ASSUME NEW t \in SUBSET (1 .. n + 1) PROVE g[t] = h[t]
  <2>1. CASE n + 1 \in t
    <3>1. Max(t) = n + 1 /\ t \ {n + 1} \in SUBSET (1 .. n + 1) /\ n + 1 \notin t \ {n + 1}
      BY <2>1, MaxLast
    <3>2. g[t \ {n + 1}] = f[t \ {n + 1}]
      BY <3>1
    <3> QED
      BY <2>1, <3>1, <3>2
  <2>2. CASE n + 1 \notin t
    <3>1. t \in SUBSET (1 .. n)
      BY <2>2
    <3>2. t \ {Max(t)} \in SUBSET (1 .. n) /\ t \ {Max(t)} \in SUBSET (1 .. n + 1) /\ n + 1 \notin t \ {Max(t)}
      BY <2>2, <3>1
    <3>3. g[t] = f[t] /\ g[t \ {Max(t)}] = f[t \ {Max(t)}]
      BY <2>2, <3>2
    <3>4. f[t] = IF t = {} THEN c ELSE Taken(how, f[t \ {Max(t)}], s[Max(t)])
      BY <3>1 DEF Folded
    <3> QED
      BY <3>3, <3>4
  <2> QED
    BY <2>1, <2>2
<1>2. g = h
  <2>1. g = [t \in SUBSET (1 .. n + 1) |-> g[t]] /\ h = [t \in SUBSET (1 .. n + 1) |-> h[t]]
    OBVIOUS
  <2> HIDE DEF g, h
  <2> QED
    BY <1>1, <2>1
<1>3. Folded(how, g, c, s, n + 1)
  <2> HIDE DEF g
  <2> QED
    BY <1>2 DEF Folded
<1> QED
  BY <1>3

LEMMA FoldExists ==
  ASSUME NEW how, NEW c, NEW s, NEW n \in Nat
  PROVE  \E f : Folded(how, f, c, s, n)
<1> DEFINE Bad == {m \in Nat : ~ \E f : Folded(how, f, c, s, m)}
<1>1. SUFFICES ASSUME Bad # {} PROVE FALSE
  OBVIOUS
<1>2. PICK m \in Bad : \A o \in Bad : m <= o
  BY <1>1, LeastNumber
<1>3. m \in Nat /\ m # 0
  BY <1>2, FoldFirst
<1>4. m - 1 \in Nat /\ m - 1 \notin Bad /\ (m - 1) + 1 = m
  BY <1>2, <1>3
<1>5. \E f : Folded(how, f, c, s, (m - 1) + 1)
  BY <1>4, FoldNext
<1> QED
  BY <1>2, <1>4, <1>5

(* A fold goes from place to place.                                        *)
LEMMA FoldStart ==
  ASSUME NEW how, NEW c, NEW s, NEW n \in Nat, NEW f, Folded(how, f, c, s, n)
  PROVE  f[1 .. 0] = c
<1>1. 1 .. 0 \in SUBSET (1 .. n) /\ 1 .. 0 = {}
  OBVIOUS
<1> QED
  BY <1>1 DEF Folded

LEMMA FoldStep ==
  ASSUME NEW how, NEW c, NEW s, NEW n \in Nat, NEW f, Folded(how, f, c, s, n), NEW m \in 0 .. n - 1
  PROVE  f[1 .. m + 1] = Taken(how, f[1 .. m], s[m + 1])
<1>1. m \in Nat /\ 1 .. m + 1 \in SUBSET (1 .. m + 1) /\ m + 1 \in 1 .. m + 1
  OBVIOUS
<1>2. Max(1 .. m + 1) = m + 1
  BY <1>1, MaxLast
<1>3. (1 .. m + 1) \ {m + 1} = 1 .. m
  BY <1>1
<1>4. 1 .. m + 1 \in SUBSET (1 .. n) /\ 1 .. m + 1 # {}
  BY <1>1
<1>5. f[1 .. m + 1] = Taken(how, f[(1 .. m + 1) \ {Max(1 .. m + 1)}], s[Max(1 .. m + 1)])
  BY <1>4 DEF Folded
<1> QED
  BY <1>2, <1>3, <1>5

LEMMA FoldIs ==
  ASSUME NEW file, NEW n \in Nat, DOMAIN file = 1 .. n
  PROVE  \E f : Folded("line", f, <<>>, file, n) /\ deserialize_program(file) = f[1 .. n]
<1> DEFINE f == CHOOSE g : g = [t \in SUBSET DOMAIN file |->
                                  IF t = {} THEN <<>> ELSE Added(g[t \ {Max(t)}], file[Max(t)])]
<1>1. deserialize_program(file) = f[DOMAIN file]
  BY Zenon DEF deserialize_program, FoldLeft, MapThenFoldSet, Added
<1>2. PICK h : Folded("line", h, <<>>, file, n)
  BY FoldExists
<1>3. h = [t \in SUBSET DOMAIN file |-> IF t = {} THEN <<>> ELSE Added(h[t \ {Max(t)}], file[Max(t)])]
  BY <1>2 DEF Folded, Taken
<1>4. f = [t \in SUBSET DOMAIN file |-> IF t = {} THEN <<>> ELSE Added(f[t \ {Max(t)}], file[Max(t)])]
  BY <1>3, Zenon
<1> HIDE DEF f
<1> QED
  BY <1>1, <1>4 DEF Folded, Taken

(* The lines of the file up to m that the program keeps: the last of each  *)
(* number, of those that have text and a number above 0.                   *)
Kept(file, m) == {i \in 1 .. m : file[i].number # 0 /\ file[i].stmt # NoText}
Final(file, m) == {i \in Kept(file, m) : \A j \in Kept(file, m) : file[j].number = file[i].number => j <= i}
FinalLines(file, m) == {[number |-> file[i].number, stmt |-> file[i].stmt] : i \in Final(file, m)}

LEMMA FinalNext ==
  ASSUME NEW file, NEW m \in Nat
  PROVE  FinalLines(file, m + 1) =
           IF file[m + 1].number # 0 /\ file[m + 1].stmt # NoText
           THEN Replaced(FinalLines(file, m), file[m + 1].number, file[m + 1].stmt)
           ELSE FinalLines(file, m)
<1> DEFINE new == file[m + 1]
<1>1. CASE ~(new.number # 0 /\ new.stmt # NoText)
  <2>1. Kept(file, m + 1) = Kept(file, m)
    BY <1>1 DEF Kept
  <2>2. FinalLines(file, m + 1) = FinalLines(file, m)
    BY <2>1 DEF FinalLines, Final
  <2> QED
    BY <1>1, <2>2
<1>2. CASE new.number # 0 /\ new.stmt # NoText
  <2>1. Kept(file, m + 1) = Kept(file, m) \cup {m + 1} /\ \A i \in Kept(file, m) : i \in Nat /\ i <= m
    BY <1>2 DEF Kept
  <2>2. Final(file, m + 1) = {i \in Final(file, m) : file[i].number # new.number} \cup {m + 1}
    <3>1. ASSUME NEW i \in Kept(file, m)
          PROVE  i \in Final(file, m + 1) <=> i \in Final(file, m) /\ file[i].number # new.number
      <4>1. i \in Final(file, m + 1) <=>
              \A j \in Kept(file, m) \cup {m + 1} : file[j].number = file[i].number => j <= i
        BY <2>1, <3>1 DEF Final
      <4>2. ~(m + 1 <= i)
        BY <2>1, <3>1
      <4> QED
        BY <3>1, <4>1, <4>2 DEF Final
    <3>2. m + 1 \in Final(file, m + 1)
      <4>1. \A j \in Kept(file, m + 1) : j <= m + 1
        BY <2>1
      <4> QED
        BY <2>1, <4>1 DEF Final
    <3>3. Final(file, m + 1) \subseteq Kept(file, m) \cup {m + 1} /\ Final(file, m) \subseteq Kept(file, m)
      BY <2>1 DEF Final
    <3> QED
      BY <3>1, <3>2, <3>3
  <2>3. FinalLines(file, m + 1) =
          {line \in FinalLines(file, m) : line.number # new.number} \cup {[number |-> new.number, stmt |-> new.stmt]}
    BY <2>2 DEF FinalLines
  <2> QED
    BY <1>2, <2>3 DEF Replaced
<1> QED
  BY <1>1, <1>2

(* deserialize_program makes a table of the lines kept.                    *)
LEMMA Deserialized ==
  ASSUME NEW file \in Files \cup Autorun
  PROVE  /\ Table(deserialize_program(file))
         /\ LinesOf(deserialize_program(file)) = FinalLines(file, Len(file))
<1> DEFINE n == Len(file)
<1>1. /\ n \in Nat /\ DOMAIN file = 1 .. n
      /\ \A i \in 1 .. n : file[i] \in Source /\ file[i].number \in Number /\ file[i].number \in Nat /\ file[i].stmt \in Stmt
  <2>1. file \in Seq(Source)
    BY InterpreterAssumption
  <2>2. n \in Nat /\ DOMAIN file = 1 .. n /\ \A i \in 1 .. n : file[i] \in Source
    BY <2>1, LenProperties, ElementOfSeq
  <2> HIDE DEF n
  <2>3. \A line \in Source : line.number \in Number /\ line.number \in Nat /\ line.stmt \in Stmt
    BY InterpreterAssumption DEF Stmt
  <2> QED
    BY <2>2, <2>3
<1> HIDE DEF n
<1>2. PICK f : Folded("line", f, <<>>, file, n) /\ deserialize_program(file) = f[1 .. n]
  BY <1>1, FoldIs
<1> DEFINE Good(m) == Table(f[1 .. m]) /\ LinesOf(f[1 .. m]) = FinalLines(file, m)
           Bad == {m \in Nat : m <= n /\ ~Good(m)}
<1>3. SUFFICES ASSUME Bad # {} PROVE FALSE
  <2>1. n <= n
    BY <1>1
  <2> QED
    BY <1>1, <1>2, <2>1 DEF n
<1>4. PICK m \in Bad : \A o \in Bad : m <= o
  BY <1>3, LeastNumber
<1>5. m \in Nat /\ m <= n /\ ~Good(m)
  BY <1>4
<1>6. m # 0
  <2>1. f[1 .. 0] = <<>>
    BY <1>1, <1>2, FoldStart
  <2>2. 1 .. 0 = {}
    OBVIOUS
  <2>3. Table(<<>>) /\ LinesOf(<<>>) = {}
    BY DEF Table, LinesOf
  <2>4. FinalLines(file, 0) = {}
    BY <2>2 DEF FinalLines, Final, Kept
  <2>5. Good(0)
    BY <2>1, <2>2, <2>3, <2>4
  <2> QED
    BY <1>5, <2>5
<1> DEFINE o == m - 1
<1>7. o \in Nat /\ o + 1 = m /\ o < m /\ o <= n /\ m \in 1 .. n
  BY <1>1, <1>5, <1>6
<1>8. Good(o)
  <2> HIDE DEF Good, o
  <2>1. o \notin Bad
    BY <1>4, <1>5, <1>7
  <2> QED
    BY <1>7, <2>1
<1> HIDE DEF o, Bad
<1>9. f[1 .. m] = Added(f[1 .. o], file[m])
  <2>1. o \in 0 .. n - 1
    BY <1>1, <1>7
  <2>2. f[1 .. o + 1] = Taken("line", f[1 .. o], file[o + 1])
    BY <1>1, <1>2, <2>1, FoldStep
  <2> QED
    BY <1>7, <2>2 DEF Taken
<1> DEFINE ls == f[1 .. o]
           new == file[m]
<1>10. Table(ls) /\ LinesOf(ls) = FinalLines(file, o)
  BY <1>8
<1>11. new.number \in Number /\ new.number \in Nat /\ new.stmt \in Stmt
  BY <1>1, <1>7
<1>12. FinalLines(file, m) = IF new.number # 0 /\ new.stmt # NoText
                             THEN Replaced(FinalLines(file, o), new.number, new.stmt) ELSE FinalLines(file, o)
  BY <1>7, FinalNext
<1> HIDE DEF ls, new
<1>13. f[1 .. m] = Added(ls, new)
  BY <1>9 DEF ls, new
<1>14. Table(Added(ls, new)) /\ LinesOf(Added(ls, new)) = FinalLines(file, m)
  <2>1. new.number > 0 <=> new.number # 0
    BY <1>11
  <2>2. CASE new.number # 0 /\ new.stmt # NoText
    <3>1. Added(ls, new) = insert_line(ls, new.number, new.stmt)
      BY <2>1, <2>2 DEF Added
    <3>2. Table(insert_line(ls, new.number, new.stmt))
          /\ LinesOf(insert_line(ls, new.number, new.stmt)) = Replaced(LinesOf(ls), new.number, new.stmt)
      BY <1>10, <1>11, InsertLine
    <3> QED
      BY <1>10, <1>12, <2>2, <3>1, <3>2
  <2>3. CASE ~(new.number # 0 /\ new.stmt # NoText)
    <3>1. Added(ls, new) = ls
      BY <2>1, <2>3 DEF Added
    <3> QED
      BY <1>10, <1>12, <2>3, <3>1
  <2> QED
    BY <2>2, <2>3
<1>15. Good(m)
  BY <1>13, <1>14
<1> QED
  BY <1>5, <1>15

----------------------------------------------------------------------------
(* Stacks.                                                                 *)

LEMMA GreatestIn ==
  ASSUME NEW n \in Nat, NEW S \in SUBSET (1 .. n), S # {}
  PROVE  Max(S) \in S /\ Max(S) \in 1 .. n /\ \A y \in S : Max(S) >= y
<1> DEFINE Below == {n - x : x \in S}
<1>1. Below \in SUBSET Nat /\ Below # {}
  <2>1. \A x \in S : n - x \in Nat
    OBVIOUS
  <2> QED
    BY <2>1
<1>2. PICK b \in Below : \A o \in Below : b <= o
  BY <1>1, LeastNumber
<1>3. PICK m \in S : b = n - m
  BY <1>2
<1>4. ASSUME NEW y \in S PROVE m >= y
  <2>1. n - y \in Below
    OBVIOUS
  <2> HIDE DEF Below
  <2>2. n - m <= n - y
    BY <1>2, <1>3, <2>1
  <2>3. m \in Nat /\ y \in Nat
    OBVIOUS
  <2> QED
    BY <2>2, <2>3
<1>5. Max(S) \in S /\ \A y \in S : Max(S) >= y
  BY <1>4 DEF Max
<1> QED
  BY <1>5

LEMMA Push ==
  ASSUME NEW S, NEW s \in Seq(S), NEW e \in S
  PROVE  /\ Append(s, e) \in Seq(S) /\ Len(Append(s, e)) = Len(s) + 1 /\ Len(s) \in Nat
         /\ \A i \in 1 .. Len(s) + 1 : Append(s, e)[i] = IF i <= Len(s) THEN s[i] ELSE e
<1>1. Len(s) \in Nat
  BY LenProperties
<1>2. /\ Append(s, e) \in Seq(S) /\ Len(Append(s, e)) = Len(s) + 1
      /\ \A i \in 1 .. Len(s) : Append(s, e)[i] = s[i]
      /\ Append(s, e)[Len(s) + 1] = e
  BY AppendProperties
<1>3. \A i \in 1 .. Len(s) + 1 : i \in 1 .. Len(s) \/ (i = Len(s) + 1 /\ ~(i <= Len(s)))
  BY <1>1
<1> QED
  BY <1>1, <1>2, <1>3

LEMMA Shorten ==
  ASSUME NEW S, NEW s \in Seq(S), NEW k \in 1 .. Len(s)
  PROVE  /\ SubSeq(s, 1, k - 1) \in Seq(S) /\ Len(SubSeq(s, 1, k - 1)) = k - 1 /\ Len(s) \in Nat
         /\ \A i \in 1 .. k - 1 : SubSeq(s, 1, k - 1)[i] = s[i]
<1>1. Len(s) \in Nat /\ k \in Nat /\ \A i \in 1 .. Len(s) : s[i] \in S
  BY LenProperties, ElementOfSeq
<1>2. \A i \in 1 .. k - 1 : s[i] \in S
  BY <1>1
<1>3. /\ SubSeq(s, 1, k - 1) \in Seq(S)
      /\ Len(SubSeq(s, 1, k - 1)) = (IF 1 <= k - 1 THEN (k - 1) - 1 + 1 ELSE 0)
      /\ \A i \in 1 .. (k - 1) - 1 + 1 : SubSeq(s, 1, k - 1)[i] = s[1 + i - 1]
  BY <1>1, <1>2, SubSeqProperties
<1> DEFINE a == SubSeq(s, 1, k - 1)
<1> HIDE DEF a
<1>4. a \in Seq(S) /\ Len(a) = k - 1 /\ \A i \in 1 .. k - 1 : a[i] = s[i]
  <2>1. /\ a \in Seq(S) /\ Len(a) = (IF 1 <= k - 1 THEN (k - 1) - 1 + 1 ELSE 0)
        /\ \A i \in 1 .. (k - 1) - 1 + 1 : a[i] = s[1 + i - 1]
    BY <1>3 DEF a
  <2> QED
    BY <1>1, <2>1
<1> QED
  BY <1>1, <1>4 DEF a

LEMMA Pop ==
  ASSUME NEW S, NEW s \in Seq(S), s # <<>>
  PROVE  /\ Len(s) \in Nat \ {0} /\ Last(s) = s[Len(s)] /\ Last(s) \in S
         /\ Front(s) = SubSeq(s, 1, Len(s) - 1)
         /\ Front(s) \in Seq(S) /\ Len(Front(s)) = Len(s) - 1
         /\ \A i \in 1 .. Len(s) - 1 : Front(s)[i] = s[i]
<1>1. Len(s) \in Nat \ {0}
  BY LenProperties, EmptySeq
<1>2. Last(s) = s[Len(s)] /\ Front(s) = SubSeq(s, 1, Len(s) - 1)
  BY DEF Last, Front
<1>3. Len(s) \in 1 .. Len(s)
  BY <1>1
<1>4. s[Len(s)] \in S
  BY <1>3, ElementOfSeq
<1>5. /\ SubSeq(s, 1, Len(s) - 1) \in Seq(S) /\ Len(SubSeq(s, 1, Len(s) - 1)) = Len(s) - 1
      /\ \A i \in 1 .. Len(s) - 1 : SubSeq(s, 1, Len(s) - 1)[i] = s[i]
  BY <1>3, Shorten
<1> QED
  BY <1>1, <1>2, <1>4, <1>5

----------------------------------------------------------------------------
(* The invariant.                                                          *)

WithText(ls) == \A line \in LinesOf(ls) : line.stmt # NoText
Frames == {[var |-> s.var, limit |-> s.to, step |-> s.step, line_idx |-> n] : s \in Statements, n \in Nat}

(* A table of lines with text, and stacks within bounds, of indices.       *)
Bounded ==
  /\ Table(lines) /\ WithText(lines)
  /\ pc \in Nat
  /\ for_stack \in Seq(Frames) /\ Len(for_stack) <= FOR_STACK
  /\ gosub_stack \in Seq(Nat) /\ Len(gosub_stack) <= GOSUB_STACK
  /\ depth \in 0 .. MaxDepth /\ running \in BOOLEAN
  /\ running => depth > 0

Limits == FOR_STACK \in Nat /\ GOSUB_STACK \in Nat /\ MaxDepth \in Nat \ {0}

LEMMA LimitsHold == Limits
BY InterpreterAssumption DEF Limits

LEMMA NoStack ==
  ASSUME NEW S
  PROVE  <<>> \in Seq(S) /\ Len(<<>>) = 0
OBVIOUS

LEMMA NoTable == Table(<<>>) /\ WithText(<<>>) /\ LinesOf(<<>>) = {}
BY DEF Table, WithText, LinesOf

LEMMA FileTable ==
  ASSUME NEW file \in Files \cup Autorun
  PROVE  Table(deserialize_program(file)) /\ WithText(deserialize_program(file))
<1>1. Table(deserialize_program(file)) /\ LinesOf(deserialize_program(file)) = FinalLines(file, Len(file))
  BY Deserialized
<1>2. \A line \in FinalLines(file, Len(file)) : line.stmt # NoText
  BY DEF FinalLines, Final, Kept
<1> QED
  BY <1>1, <1>2 DEF WithText

LEMMA LineTable ==
  ASSUME NEW ls, Table(ls), WithText(ls), NEW line \in Typed
  PROVE  Table(insert_line(ls, line.number, line.stmt)) /\ WithText(insert_line(ls, line.number, line.stmt))
<1>1. line.number \in Number /\ line.stmt \in Stmt
  BY InterpreterAssumption DEF Source, Stmt
<1> DEFINE n == line.number
           s == line.stmt
<1> HIDE DEF n, s
<1>2. Table(insert_line(ls, n, s)) /\ LinesOf(insert_line(ls, n, s)) = Replaced(LinesOf(ls), n, s)
  BY <1>1, InsertLine DEF n, s
<1>3. \A l \in Replaced(LinesOf(ls), n, s) : l.stmt # NoText
  BY DEF Replaced, WithText
<1> QED
  BY <1>2, <1>3 DEF n, s, WithText

(* A line's statement, and the one after its THEN.                         *)
LEMMA LineStatement ==
  ASSUME NEW ls, Table(ls), WithText(ls), NEW i \in 1 .. Len(ls)
  PROVE  /\ ls[i].stmt \in Whole /\ ls[i].stmt \in Statements
         /\ ls[i].stmt.op = "if" => ls[i].stmt.then \in Statements
<1>1. ls[i] \in ProgramLine /\ ls[i].stmt # NoText
  BY TableLength DEF WithText, LinesOf
<1>2. ls[i].stmt \in Whole
  BY <1>1 DEF ProgramLine, Stmt, Whole
<1> QED
  BY <1>2 DEF Statements

LEMMA FindIndex ==
  ASSUME NEW ls, Table(ls), NEW number \in Nat
  PROVE  \A i \in find_line(ls, number) : i \in Nat /\ i + 1 \in 1 .. Len(ls) /\ ls[i + 1].number = number
<1>1. \A i \in find_line(ls, number) : i = find_line_or_after(ls, number)
  BY DEF find_line
<1>2. find_line_or_after(ls, number) \in Nat
  BY TableOrdered, FindLineOrAfter
<1> QED
  BY <1>1, <1>2, FindLine

LEMMA GotoBounded ==
  ASSUME Bounded, NEW number \in Nat, NEW next \in Nat, Goto(number, next)
  PROVE  Bounded'
<1>1. /\ pc' \in Nat /\ running' \in BOOLEAN /\ (running' => running)
      /\ UNCHANGED <<lines, for_stack, gosub_stack, depth>>
  BY FindIndex DEF Bounded, Goto, jump_to_line, Fail, stacks, text
<1> QED
  BY <1>1 DEF Bounded

LEMMA GosubBounded ==
  ASSUME Bounded, NEW number \in Nat, NEW next \in Nat, Gosub(number, next)
  PROVE  Bounded'
<1>1. UNCHANGED <<lines, for_stack, depth>>
  BY DEF Gosub, text
<1>2. pc' \in Nat /\ running' \in BOOLEAN /\ (running' => running)
  BY FindIndex DEF Bounded, Gosub, jump_to_line, Fail
<1>3. gosub_stack' \in Seq(Nat) /\ Len(gosub_stack') <= GOSUB_STACK
  <2>1. CASE Len(gosub_stack) >= GOSUB_STACK
    BY <2>1 DEF Gosub, Bounded
  <2>2. CASE ~(Len(gosub_stack) >= GOSUB_STACK)
    <3>1. gosub_stack' = Append(gosub_stack, next)
      BY <2>2 DEF Gosub
    <3>2. Len(gosub_stack') = Len(gosub_stack) + 1 /\ gosub_stack' \in Seq(Nat) /\ Len(gosub_stack) \in Nat
      BY <3>1, Push DEF Bounded
    <3> QED
      BY <2>2, <3>2, LimitsHold DEF Limits
  <2> QED
    BY <2>1, <2>2
<1> QED
  BY <1>1, <1>2, <1>3 DEF Bounded

LEMMA ForBounded ==
  ASSUME Bounded, NEW s \in Statements, NEW next \in Nat, exec_for(s, next)
  PROVE  Bounded'
<1>1. UNCHANGED <<lines, gosub_stack, depth>> /\ pc' = next
  BY DEF exec_for, text
<1>2. running' \in BOOLEAN /\ (running' => running)
  BY DEF Bounded, exec_for, Fail
<1>3. for_stack' \in Seq(Frames) /\ Len(for_stack') <= FOR_STACK
  <2>1. CASE Len(for_stack) >= FOR_STACK
    BY <2>1 DEF exec_for, Bounded
  <2>2. CASE ~(Len(for_stack) >= FOR_STACK)
    <3> DEFINE e == [var |-> s.var, limit |-> s.to, step |-> s.step, line_idx |-> next]
    <3>1. for_stack' = Append(for_stack, e)
      BY <2>2 DEF exec_for
    <3>2. e \in Frames
      BY DEF Frames
    <3> HIDE DEF e
    <3>3. Len(for_stack') = Len(for_stack) + 1 /\ for_stack' \in Seq(Frames) /\ Len(for_stack) \in Nat
      BY <3>1, <3>2, Push DEF Bounded
    <3> QED
      BY <2>2, <3>3, LimitsHold DEF Limits
  <2> QED
    BY <2>1, <2>2
<1> QED
  BY <1>1, <1>2, <1>3 DEF Bounded

(* The frame NEXT is about.                                                *)
LEMMA FrameIs ==
  ASSUME Bounded, NEW s, Frame(s) # {}
  PROVE  /\ Max(Frame(s)) \in Frame(s) /\ Max(Frame(s)) \in 1 .. Len(for_stack)
         /\ for_stack[Max(Frame(s))] \in Frames /\ for_stack[Max(Frame(s))].line_idx \in Nat
<1>1. Len(for_stack) \in Nat /\ \A i \in 1 .. Len(for_stack) : for_stack[i] \in Frames
  BY LenProperties, ElementOfSeq DEF Bounded
<1>2. Frame(s) \in SUBSET (1 .. Len(for_stack))
  BY DEF Frame
<1>3. \A frame \in Frames : frame.line_idx \in Nat
  BY DEF Frames
<1> QED
  BY <1>1, <1>2, <1>3, GreatestIn

LEMMA NextBounded ==
  ASSUME Bounded, NEW s \in Statements, NEW next \in Nat, exec_next(s, next)
  PROVE  Bounded'
<1>1. UNCHANGED <<lines, gosub_stack, depth>>
  BY DEF exec_next, text
<1>2. CASE Frame(s) = {}
  <2>1. pc' = next /\ running' = FALSE /\ for_stack' = for_stack
    BY <1>2 DEF exec_next, Fail
  <2> QED
    BY <1>1, <2>1 DEF Bounded
<1>3. CASE Frame(s) # {}
  <2> DEFINE i == Max(Frame(s))
             frame == for_stack[i]
  <2>1. IF Done(frame) THEN for_stack' = FramesBelow(i) /\ pc' = next
                       ELSE pc' = frame.line_idx /\ UNCHANGED for_stack
    BY <1>3 DEF exec_next
  <2>2. running' = running
    BY <1>3 DEF exec_next
  <2>3. i \in 1 .. Len(for_stack) /\ frame.line_idx \in Nat
    BY <1>3, FrameIs
  <2> HIDE DEF i, frame
  <2>4. SubSeq(for_stack, 1, i - 1) \in Seq(Frames) /\ Len(SubSeq(for_stack, 1, i - 1)) = i - 1 /\ Len(for_stack) \in Nat
    BY <2>3, Shorten DEF Bounded
  <2>5. FramesBelow(i) \in Seq(Frames) /\ Len(FramesBelow(i)) <= FOR_STACK
    <3>1. i - 1 <= FOR_STACK
      BY <2>3, <2>4, LimitsHold DEF Bounded, Limits
    <3> QED
      BY <2>4, <3>1 DEF FramesBelow
  <2>6. pc' \in Nat /\ for_stack' \in Seq(Frames) /\ Len(for_stack') <= FOR_STACK
    BY <2>1, <2>3, <2>5 DEF Bounded
  <2> QED
    BY <1>1, <2>2, <2>6 DEF Bounded
<1> QED
  BY <1>2, <1>3

LEMMA ReturnBounded ==
  ASSUME Bounded, NEW s, NEW next \in Nat, exec_return(s, next)
  PROVE  Bounded'
<1>1. UNCHANGED <<lines, for_stack, depth>>
  BY DEF exec_return, text
<1>2. CASE gosub_stack = <<>>
  <2>1. pc' = next /\ running' = FALSE /\ gosub_stack' = gosub_stack
    BY <1>2 DEF exec_return, Fail
  <2> QED
    BY <1>1, <2>1 DEF Bounded
<1>3. CASE gosub_stack # <<>>
  <2>1. pc' = Last(gosub_stack) /\ gosub_stack' = Front(gosub_stack) /\ running' = running
    BY <1>3 DEF exec_return
  <2>2. Last(gosub_stack) \in Nat /\ Front(gosub_stack) \in Seq(Nat)
        /\ Len(Front(gosub_stack)) = Len(gosub_stack) - 1 /\ Len(gosub_stack) \in Nat
    BY <1>3, Pop DEF Bounded
  <2>3. Len(gosub_stack') <= GOSUB_STACK
    BY <2>1, <2>2, LimitsHold DEF Bounded, Limits
  <2> QED
    BY <1>1, <2>1, <2>2, <2>3 DEF Bounded
<1> QED
  BY <1>2, <1>3

LEMMA ClearBounded ==
  ASSUME Bounded, NEW s, NEW next \in Nat, clear(s, next)
  PROVE  Bounded'
<1>1. lines' = <<>> /\ for_stack' = <<>> /\ gosub_stack' = <<>> /\ pc' = next /\ running' = running /\ depth' = depth
  BY DEF clear, Keep
<1> QED
  BY <1>1, NoTable, NoStack, LimitsHold DEF Bounded, Limits

LEMMA RunBounded ==
  ASSUME Bounded, NEW s, run(s)
  PROVE  Bounded'
<1>1. for_stack' = <<>> /\ gosub_stack' = <<>> /\ running' = TRUE /\ pc' = 0 /\ depth' = depth + 1 /\ lines' = lines
      /\ depth < MaxDepth
  BY DEF run
<1>2. depth' \in 0 .. MaxDepth /\ depth' > 0
  BY <1>1, LimitsHold DEF Bounded, Limits
<1> QED
  BY <1>1, <1>2, NoStack, LimitsHold DEF Bounded, Limits

LEMMA LoadBounded ==
  ASSUME Bounded, NEW s, NEW next \in Nat, exec_load(s, next)
  PROVE  Bounded'
<1>1. pc' = next /\ for_stack' = for_stack /\ gosub_stack' = gosub_stack /\ depth' = depth
  BY DEF exec_load, stacks
<1>2. running' \in BOOLEAN /\ (running' => running)
  <2>1. running' = running \/ running' = FALSE
    BY DEF exec_load, LoadFile, Fail
  <2>2. running \in BOOLEAN
    BY DEF Bounded
  <2>3. CASE running' = running
    BY <2>2, <2>3, Zenon
  <2>4. CASE running' = FALSE
    BY <2>4, Zenon
  <2> QED
    BY <2>1, <2>3, <2>4
<1>3. Table(lines') /\ WithText(lines')
  <2>1. lines' = lines \/ \E file \in Files : lines' = deserialize_program(file)
    BY DEF exec_load, LoadFile
  <2> QED
    BY <2>1, FileTable DEF Bounded
<1> QED
  BY <1>1, <1>2, <1>3 DEF Bounded

(* Statements that change neither the lines nor the stacks.                *)
LEMMA StillBounded ==
  ASSUME Bounded, pc' \in Nat, running' \in BOOLEAN, running' => running,
         UNCHANGED <<lines, for_stack, gosub_stack, depth>>
  PROVE  Bounded'
BY DEF Bounded

LEMMA ExecuteBounded ==
  ASSUME Bounded, NEW s \in Statements, NEW next \in Nat, Execute(s, next)
  PROVE  Bounded'
<1>0. /\ s.op \in {"goto", "gosub"} => s.target \in Nat
      /\ s.op = "on" => s.targets \subseteq Nat
  BY InterpreterAssumption
<1>1. CASE Otherwise(s, next)
  <2>1. pc' = next /\ UNCHANGED <<lines, for_stack, gosub_stack, depth>> /\ (running' = FALSE \/ running' = running)
    BY <1>1 DEF Otherwise, Fail, stacks, text
  <2>2. CASE running' = FALSE
    BY <2>1, <2>2, StillBounded DEF Bounded
  <2>3. CASE running' = running
    BY <2>1, <2>3, StillBounded DEF Bounded
  <2> QED
    BY <2>1, <2>2, <2>3
<1>2. CASE exec_let(s, next)
  BY <1>2, StillBounded DEF exec_let, Fail, stacks, text, Bounded
<1>3. CASE exec_for(s, next)
  BY <1>3, ForBounded
<1>4. CASE exec_next(s, next)
  BY <1>4, NextBounded
<1>5. CASE exec_goto(s, next)
  BY <1>0, <1>5, GotoBounded DEF exec_goto
<1>6. CASE exec_gosub(s, next)
  BY <1>0, <1>6, GosubBounded DEF exec_gosub
<1>7. CASE exec_on(s, next)
  <2>1. CASE pc' = next /\ Keep(<<store, stacks, data_ptr, text>>)
    BY <2>1, StillBounded DEF Keep, stacks, text, Bounded
  <2>2. CASE \E number \in s.targets : IF s.gosub THEN Gosub(number, next) ELSE Goto(number, next)
    <3>1. PICK number \in s.targets : Gosub(number, next) \/ Goto(number, next)
      BY <2>2
    <3>2. number \in Nat
      BY <1>0, <1>7 DEF exec_on
    <3> QED
      BY <3>1, <3>2, GosubBounded, GotoBounded
  <2> QED
    BY <1>7, <2>1, <2>2 DEF exec_on
<1>8. CASE exec_return(s, next)
  BY <1>8, ReturnBounded
<1>9. CASE exec_read(s, next)
  BY <1>9, StillBounded DEF exec_read, Fail, stacks, text, Bounded
<1>10. CASE exec_restore(s, next)
  BY <1>10, StillBounded DEF exec_restore, Keep, stacks, text, Bounded
<1>11. CASE exec_end(s, next)
  BY <1>11, StillBounded DEF exec_end, stacks, text, Bounded
<1>12. CASE run(s)
  BY <1>12, RunBounded
<1>13. CASE clear(s, next)
  BY <1>13, ClearBounded
<1>14. CASE exec_load(s, next)
  BY <1>14, LoadBounded
<1>15. CASE Wait(s, next)
  BY <1>15, StillBounded DEF Wait, Keep, stacks, Bounded
<1> QED
  BY <1>1, <1>2, <1>3, <1>4, <1>5, <1>6, <1>7, <1>8, <1>9, <1>10, <1>11, <1>12, <1>13, <1>14, <1>15 DEF Execute

LEMMA StatementBounded ==
  ASSUME Bounded, NEW s \in Whole, NEW next \in Nat, exec_statement(s, next)
  PROVE  Bounded'
<1>1. s \in Statements /\ (s.op = "if" => s.then \in Statements)
  BY DEF Statements
<1>2. CASE Execute(s, next)
  BY <1>1, <1>2, ExecuteBounded
<1>3. CASE exec_if(s, next)
  <2>1. CASE pc' = next /\ Keep(<<store, stacks, data_ptr, text>>)
    BY <2>1, StillBounded DEF Keep, stacks, text, Bounded
  <2>2. CASE Execute(s.then, next)
    BY <1>1, <1>3, <2>2, ExecuteBounded DEF exec_if
  <2> QED
    BY <1>3, <2>1, <2>2 DEF exec_if
<1> QED
  BY <1>2, <1>3 DEF exec_statement

(* The statement that the loop is at.                                      *)
LEMMA AtLine ==
  ASSUME Bounded, InLoop
  PROVE  /\ pc + 1 \in 1 .. Len(lines) /\ pc + 1 \in Nat
         /\ LineAt(lines, pc) = lines[pc + 1] /\ LineAt(lines, pc).stmt \in Whole
<1>1. pc \in Nat /\ pc < Len(lines) /\ Table(lines) /\ WithText(lines)
  BY DEF Bounded, InLoop
<1>2. pc + 1 \in 1 .. Len(lines)
  BY <1>1, TableLength
<1> QED
  BY <1>1, <1>2, LineStatement DEF LineAt

LEMMA BoundedStart ==
  ASSUME Init
  PROVE  Bounded
<1>1. for_stack = <<>> /\ gosub_stack = <<>> /\ pc = 0 /\ running = (depth = 1)
  BY DEF Init
<1>2. (lines = <<>> /\ depth = 0) \/ (\E file \in Autorun : lines = deserialize_program(file) /\ depth = 1)
  BY DEF Init
<1>3. Table(lines) /\ WithText(lines)
  BY <1>2, NoTable, FileTable
<1>4. depth \in 0 .. MaxDepth /\ running \in BOOLEAN /\ (running => depth > 0)
  <2>1. depth = 0 \/ depth = 1
    BY <1>2
  <2>2. depth \in 0 .. MaxDepth /\ (depth = 1 => depth > 0)
    BY <2>1, LimitsHold DEF Limits
  <2>3. CASE depth = 1
    <3>1. running = TRUE
      BY <1>1, <2>3, Zenon
    <3> QED
      BY <2>2, <2>3, <3>1
  <2>4. CASE depth # 1
    <3>1. running = FALSE
      BY <1>1, <2>4, Zenon
    <3> QED
      BY <2>2, <3>1
  <2> QED
    BY <2>3, <2>4
<1> QED
  BY <1>1, <1>3, <1>4, NoStack, LimitsHold DEF Bounded, Limits

(* What the keys do: those of INPUT, FORMAT and DOS end with Enter.        *)
LEMMA KeyDoes ==
  ASSUME TakeKey
  PROVE  /\ UNCHANGED <<pc, for_stack, gosub_stack, data_store, data_ptr, depth>>
         /\ keys # <<>> /\ keys' = Tail(keys)
         /\ running' = running \/ (running' = FALSE /\ lines' = lines)
         /\ \/ UNCHANGED <<lines, store>>
            \/ lines' = lines /\ waiting \in Var /\ \E x \in Value : store' = [store EXCEPT !.vars[waiting] = x]
            \/ waiting = "dos line" /\ LoadFile /\ running' = running
         /\ waiting' \in {waiting, "no"} \/ (waiting = "dos" /\ waiting' = "dos line") \/ (waiting = "dos line" /\ waiting' = "dos")
<1> DEFINE key == Head(keys)
<1>1. /\ UNCHANGED <<pc, for_stack, gosub_stack, data_store, data_ptr, depth>>
      /\ keys # <<>> /\ keys' = Tail(keys)
      /\ PauseKey \/ InputKey(key) \/ FormatKey(key) \/ EditorKey(key) \/ MenuKey(key) \/ DosLineKey(key)
  BY DEF TakeKey, stacks
<1> HIDE DEF key
<1>2. CASE PauseKey
  BY <1>1, <1>2 DEF PauseKey
<1>3. CASE InputKey(key)
  BY <1>1, <1>3 DEF InputKey
<1>4. CASE FormatKey(key)
  BY <1>1, <1>4 DEF FormatKey, Fail
<1>5. CASE EditorKey(key)
  BY <1>1, <1>5 DEF EditorKey, Choose
<1>6. CASE MenuKey(key)
  BY <1>1, <1>6 DEF MenuKey, Choose
<1>7. CASE DosLineKey(key)
  BY <1>1, <1>7 DEF DosLineKey
<1> QED
  BY <1>1, <1>2, <1>3, <1>4, <1>5, <1>6, <1>7

LEMMA KeyBounded ==
  ASSUME Bounded, TakeKey
  PROVE  Bounded'
<1>1. UNCHANGED <<pc, for_stack, gosub_stack, depth>> /\ (running' = running \/ running' = FALSE)
  BY KeyDoes
<1>2. running' \in BOOLEAN /\ (running' => running)
  <2>1. running \in BOOLEAN
    BY DEF Bounded
  <2>2. CASE running' = running
    BY <2>1, <2>2, Zenon
  <2>3. CASE running' = FALSE
    BY <2>3, Zenon
  <2> QED
    BY <1>1, <2>2, <2>3
<1>3. lines' = lines \/ \E file \in Files : lines' = deserialize_program(file)
  BY KeyDoes DEF LoadFile
<1>4. Table(lines') /\ WithText(lines')
  BY <1>3, FileTable DEF Bounded
<1> QED
  BY <1>1, <1>2, <1>4 DEF Bounded

LEMMA BoundedStep ==
  ASSUME Bounded, [Next]_all
  PROVE  Bounded'
<1>1. CASE Step
  <2>1. LineAt(lines, pc).stmt \in Whole /\ pc + 1 \in Nat
    BY <1>1, AtLine DEF Step
  <2> QED
    BY <1>1, <2>1, StatementBounded DEF Step
<1>2. CASE Break
  BY <1>2, StillBounded DEF Break, stacks, text, Bounded
<1>3. CASE RunReturns
  <2>1. running' = FALSE /\ depth' \in 0 .. MaxDepth /\ UNCHANGED <<lines, pc, for_stack, gosub_stack>>
    BY <1>3, LimitsHold DEF RunReturns, Bounded, Limits, stacks
  <2> QED
    BY <2>1 DEF Bounded
<1>4. CASE TakeKey
  BY <1>4, KeyBounded
<1>5. ASSUME NEW line \in Typed, handle_program_line(line)
      PROVE  Bounded'
  <2>1. lines' = insert_line(lines, line.number, line.stmt)
        /\ UNCHANGED <<pc, running, for_stack, gosub_stack, depth>>
    BY <1>5 DEF handle_program_line, stacks
  <2>2. Table(lines') /\ WithText(lines')
    BY <2>1, LineTable DEF Bounded
  <2> QED
    BY <2>1, <2>2 DEF Bounded
<1>6. ASSUME NEW s \in Command, Direct(s)
      PROVE  Bounded'
  <2>1. s \in Whole /\ pc \in Nat
    BY InterpreterAssumption DEF Whole, Bounded
  <2> QED
    BY <1>6, <2>1, StatementBounded DEF Direct
<1>7. ASSUME NEW key \in Key, Type(key)
      PROVE  Bounded'
  BY <1>7, StillBounded DEF Type, stacks, Bounded
<1>8. CASE run_editor
  BY <1>8, StillBounded DEF run_editor, stacks, Bounded
<1>9. CASE shutdown \/ UNCHANGED all
  BY <1>9, StillBounded DEF shutdown, all, stacks, Bounded
<1> QED
  BY <1>1, <1>2, <1>3, <1>4, <1>5, <1>6, <1>7, <1>8, <1>9 DEF Next

(* Whatever is typed, loaded and run, with programs of any length, the     *)
(* lines are in order with a number each, and the stacks and the nesting   *)
(* of run keep within their sizes: part of what TypeOK says.               *)
THEOREM LinesInOrder == Spec => [](InOrder /\ InBounds)
<1>1. Init => Bounded
  BY BoundedStart
<1>2. Bounded /\ [Next]_all => Bounded'
  BY BoundedStep
<1>3. Bounded => InOrder /\ InBounds
  <2> SUFFICES ASSUME Bounded PROVE InOrder /\ InBounds
    OBVIOUS
  <2>1. /\ Len(lines) \in Nat /\ DOMAIN lines = 1 .. Len(lines)
        /\ \A i \in 1 .. Len(lines) : lines[i] \in ProgramLine
    BY TableLength DEF Bounded
  <2>2. \A i \in 1 .. Len(lines) : lines[i].number \in Number
    BY <2>1 DEF ProgramLine
  <2>3. \A i \in 2 .. Len(lines) : i - 1 \in 1 .. Len(lines) /\ i \in 1 .. Len(lines) /\ i - 1 < i
    BY <2>1
  <2>4. \A i \in 2 .. Len(lines) : lines[i - 1].number < lines[i].number
    BY <2>3 DEF Bounded, Table
  <2> QED
    BY <2>1, <2>2, <2>4 DEF InOrder, InBounds, Bounded
<1> QED
  BY <1>1, <1>2, <1>3, PTL DEF Spec

----------------------------------------------------------------------------
(* Programs by line numbers.                                               *)

Prog(ls) == [n \in {ls[i].number : i \in DOMAIN ls} |-> ls[CHOOSE i \in DOMAIN ls : ls[i].number = n].stmt]

(* The number of the line at index p, if there is one.                     *)
Place(ls, p) == IF p >= Len(ls) THEN End ELSE ls[p + 1].number

LEMMA SameNumber ==
  ASSUME NEW ls, Table(ls), NEW i \in 1 .. Len(ls), NEW j \in 1 .. Len(ls), ls[i].number = ls[j].number
  PROVE  i = j
<1>1. (i < j => ls[i].number < ls[j].number) /\ (j < i => ls[j].number < ls[i].number)
  BY DEF Table
<1>2. ls[i].number \in Nat /\ Len(ls) \in Nat
  BY TableLength
<1>3. ~(i < j) /\ ~(j < i)
  BY <1>1, <1>2
<1> QED
  BY <1>2, <1>3

LEMMA ProgIs ==
  ASSUME NEW ls, Table(ls)
  PROVE  /\ DOMAIN Prog(ls) = {l.number : l \in LinesOf(ls)}
         /\ \A l \in LinesOf(ls) : Prog(ls)[l.number] = l.stmt
         /\ \A i \in 1 .. Len(ls) : ls[i].number \in DOMAIN Prog(ls) /\ Prog(ls)[ls[i].number] = ls[i].stmt
<1>1. DOMAIN ls = 1 .. Len(ls)
  BY TableLength
<1>2. DOMAIN Prog(ls) = {ls[i].number : i \in 1 .. Len(ls)}
  BY <1>1 DEF Prog
<1>3. ASSUME NEW i \in 1 .. Len(ls)
      PROVE  Prog(ls)[ls[i].number] = ls[i].stmt
  <2> DEFINE j == CHOOSE k \in DOMAIN ls : ls[k].number = ls[i].number
  <2>1. j \in 1 .. Len(ls) /\ ls[j].number = ls[i].number
    BY <1>1
  <2>2. Prog(ls)[ls[i].number] = ls[j].stmt
    BY <1>1 DEF Prog
  <2> HIDE DEF j
  <2>3. j = i
    BY <2>1, SameNumber
  <2> QED
    BY <2>2, <2>3
<1> QED
  BY <1>2, <1>3 DEF LinesOf

LEMMA NoProg == Prog(<<>>) = <<>>
<1>1. DOMAIN Prog(<<>>) = {} /\ DOMAIN <<>> = {}
  BY DEF Prog
<1> QED
  BY <1>1 DEF Prog

LEMMA LeastOf ==
  ASSUME NEW S, NEW m \in S, S \subseteq Nat, \A y \in S : m <= y
  PROVE  Flow!Min(S) = m
<1>1. \A x \in S : (\A y \in S : x <= y) => x = m
  OBVIOUS
<1>2. Flow!Min(S) \in S /\ \A y \in S : Flow!Min(S) <= y
  BY DEF Flow!Min
<1> QED
  BY <1>1, <1>2

(* The lines after a number, in terms of indices.                          *)
LEMMA AfterIs ==
  ASSUME NEW ls, Table(ls), NEW n \in Int, NEW p \in 0 .. Len(ls),
         \A i \in 1 .. Len(ls) : ls[i].number > n <=> i > p
  PROVE  Flow!After(Prog(ls), n) = Place(ls, p)
<1> DEFINE later == {m \in DOMAIN Prog(ls) : m > n}
<1>1. Len(ls) \in Nat /\ p \in Nat /\ DOMAIN ls = 1 .. Len(ls)
  BY TableLength
<1>2. later = {ls[i].number : i \in {k \in 1 .. Len(ls) : k > p}}
  <2>1. DOMAIN Prog(ls) = {ls[i].number : i \in 1 .. Len(ls)}
    BY <1>1 DEF Prog
  <2> QED
    BY <2>1
<1>3. Flow!After(Prog(ls), n) = IF later = {} THEN End ELSE Flow!Min(later)
  BY DEF Flow!After
<1> HIDE DEF later
<1>4. CASE p >= Len(ls)
  <2>1. later = {}
    BY <1>1, <1>2, <1>4
  <2> QED
    BY <1>3, <1>4, <2>1 DEF Place
<1>5. CASE ~(p >= Len(ls))
  <2>1. p + 1 \in 1 .. Len(ls) /\ p + 1 > p
    BY <1>1, <1>5
  <2>2. ls[p + 1].number \in later
    BY <1>2, <2>1
  <2>3. ASSUME NEW i \in 1 .. Len(ls), i > p
        PROVE  ls[p + 1].number <= ls[i].number
    <3>1. p + 1 < i => ls[p + 1].number < ls[i].number
      BY <2>1 DEF Table
    <3>2. p + 1 = i \/ p + 1 < i
      BY <1>1, <2>3
    <3>3. ls[p + 1].number \in Nat /\ ls[i].number \in Nat
      BY <2>1, TableLength
    <3> QED
      BY <3>1, <3>2, <3>3
  <2>4. \A y \in later : ls[p + 1].number <= y
    BY <1>2, <2>3
  <2>5. later \subseteq Nat
    BY <1>2, TableLength
  <2>6. Flow!Min(later) = ls[p + 1].number
    BY <2>2, <2>4, <2>5, LeastOf
  <2> QED
    BY <1>3, <1>5, <2>2, <2>6 DEF Place
<1> QED
  BY <1>4, <1>5

LEMMA AfterLine ==
  ASSUME NEW ls, Table(ls), NEW p \in 1 .. Len(ls)
  PROVE  Flow!After(Prog(ls), ls[p].number) = Place(ls, p)
<1>1. Len(ls) \in Nat /\ ls[p].number \in Nat /\ \A i \in 1 .. Len(ls) : ls[i].number \in Nat
  BY TableLength
<1>2. ASSUME NEW i \in 1 .. Len(ls)
      PROVE  ls[i].number > ls[p].number <=> i > p
  <2>1. (i < p => ls[i].number < ls[p].number) /\ (p < i => ls[p].number < ls[i].number)
    BY DEF Table
  <2>2. i < p \/ i = p \/ p < i
    BY <1>1
  <2> QED
    BY <1>1, <2>1, <2>2
<1>3. p \in 0 .. Len(ls) /\ ls[p].number \in Int
  BY <1>1
<1> QED
  BY <1>2, <1>3, AfterIs

LEMMA FirstLine ==
  ASSUME NEW ls, Table(ls)
  PROVE  Flow!First(Prog(ls)) = Place(ls, 0)
<1>1. Len(ls) \in Nat /\ \A i \in 1 .. Len(ls) : ls[i].number \in Nat
  BY TableLength
<1>2. \A i \in 1 .. Len(ls) : ls[i].number > -1 <=> i > 0
  BY <1>1
<1>3. 0 \in 0 .. Len(ls) /\ -1 \in Int
  BY <1>1
<1>4. Flow!After(Prog(ls), -1) = Place(ls, 0)
  BY <1>2, <1>3, AfterIs
<1> QED
  BY <1>4 DEF Flow!First

(* Changing a line changes the program at its number only.                 *)
LEMMA EditsOne ==
  ASSUME NEW ls, Table(ls), NEW new, Table(new), NEW n, NEW s, LinesOf(new) = Replaced(LinesOf(ls), n, s)
  PROVE  Flow!Restrict(Prog(new), DOMAIN Prog(new) \ {n}) = Flow!Restrict(Prog(ls), DOMAIN Prog(ls) \ {n})
<1> DEFINE D == DOMAIN Prog(ls) \ {n}
           E == DOMAIN Prog(new) \ {n}
<1>1. DOMAIN Prog(ls) = {l.number : l \in LinesOf(ls)} /\ DOMAIN Prog(new) = {l.number : l \in LinesOf(new)}
  BY ProgIs
<1>2. \A l : l.number # n => (l \in LinesOf(new) <=> l \in LinesOf(ls))
  BY DEF Replaced
<1>3. D = E
  BY <1>1, <1>2
<1>4. ASSUME NEW m \in D PROVE Prog(new)[m] = Prog(ls)[m]
  <2>1. PICK l \in LinesOf(ls) : l.number = m /\ m # n
    BY <1>1
  <2>2. l \in LinesOf(new)
    BY <1>2, <2>1
  <2>3. Prog(new)[l.number] = l.stmt /\ Prog(ls)[l.number] = l.stmt
    BY <2>1, <2>2, ProgIs
  <2> QED
    BY <2>1, <2>3
<1> HIDE DEF D, E
<1>5. [m \in E |-> Prog(new)[m]] = [m \in D |-> Prog(ls)[m]]
  BY <1>3, <1>4
<1> QED
  BY <1>5 DEF Flow!Restrict, D, E

(* deserialize_program makes of a file what the program should be.         *)
LEMMA FileProgram ==
  ASSUME NEW file \in Files \cup Autorun
  PROVE  Prog(deserialize_program(file)) = Flow!Program(file)
<1> DEFINE ls == deserialize_program(file)
           kept == Kept(file, Len(file))
           same(n) == {i \in kept : file[i].number = n}
<1>1. Table(ls) /\ LinesOf(ls) = FinalLines(file, Len(file))
  BY Deserialized
<1>2. Len(file) \in Nat
  BY InterpreterAssumption, LenProperties
<1>3. Flow!Program(file) = [n \in {file[i].number : i \in kept} |-> file[Flow!Max(same(n))].stmt]
  BY DEF Flow!Program, Kept
<1>4. ASSUME NEW n, same(n) # {}
      PROVE  /\ Flow!Max(same(n)) \in Final(file, Len(file)) /\ file[Flow!Max(same(n))].number = n
  <2>1. same(n) \in SUBSET (1 .. Len(file))
    BY DEF Kept
  <2>2. Flow!Max(same(n)) = Max(same(n))
    BY DEF Flow!Max, Max
  <2>3. Max(same(n)) \in same(n) /\ \A y \in same(n) : Max(same(n)) >= y
    BY <1>2, <1>4, <2>1, GreatestIn
  <2>4. \A y \in same(n) : y <= Max(same(n))
    BY <1>2, <2>1, <2>3
  <2> QED
    BY <2>2, <2>3, <2>4 DEF Final
<1> DEFINE D == {file[i].number : i \in kept}
<1>5. ASSUME NEW n \in D
      PROVE  /\ [number |-> n, stmt |-> file[Flow!Max(same(n))].stmt] \in LinesOf(ls)
  <2>1. same(n) # {}
    OBVIOUS
  <2> DEFINE m == Flow!Max(same(n))
  <2>2. m \in Final(file, Len(file)) /\ file[m].number = n
    BY <1>4, <2>1
  <2> HIDE DEF m
  <2> QED
    BY <1>1, <2>2 DEF m, FinalLines
<1>6. DOMAIN Prog(ls) \subseteq D
  <2>1. \A l \in LinesOf(ls) : l.number \in D
    BY <1>1 DEF FinalLines, Final
  <2> HIDE DEF D, ls
  <2>2. DOMAIN Prog(ls) = {l.number : l \in LinesOf(ls)}
    BY <1>1, ProgIs
  <2> QED
    BY <2>1, <2>2
<1> HIDE DEF D, kept, same, ls
<1>7. ASSUME NEW n \in D
      PROVE  n \in DOMAIN Prog(ls) /\ Prog(ls)[n] = file[Flow!Max(same(n))].stmt
  <2> DEFINE l == [number |-> n, stmt |-> file[Flow!Max(same(n))].stmt]
  <2>1. l \in LinesOf(ls) /\ l.number = n /\ l.stmt = file[Flow!Max(same(n))].stmt
    BY <1>5
  <2> HIDE DEF l
  <2> QED
    BY <1>1, <2>1, ProgIs
<1>8. Prog(ls) = [n \in DOMAIN Prog(ls) |-> Prog(ls)[n]]
  BY DEF Prog
<1>9. Flow!Program(file) = [n \in D |-> file[Flow!Max(same(n))].stmt]
  BY <1>3 DEF D
<1>10. DOMAIN Prog(ls) = D
  BY <1>6, <1>7
<1>11. Prog(ls) = Flow!Program(file)
  BY <1>7, <1>8, <1>9, <1>10
<1> QED
  BY <1>11 DEF ls

----------------------------------------------------------------------------
(* What the interpreter's state means, and the steps of ProgramFlow on it. *)

NowProg == Prog(lines)
NowAt == IF ~running THEN Stopped ELSE IF pc >= Len(lines) THEN End ELSE LineAt(lines, pc).number
NowLoops ==
  IF ~running THEN <<>>
  ELSE [i \in DOMAIN for_stack |-> [var |-> for_stack[i].var, line |-> NumberBefore(for_stack[i].line_idx)]]
NowCalls == IF ~running THEN <<>> ELSE [i \in DOMAIN gosub_stack |-> NumberBefore(gosub_stack[i])]
NowCurrent ==
  IF NowProg[NowAt].op = "if" THEN {NowProg[NowAt], NowProg[NowAt].then} ELSE {NowProg[NowAt]}

LEMMA FlowIdle ==
  ASSUME UNCHANGED <<NowProg, NowAt, NowLoops, NowCalls>>
  PROVE  UNCHANGED Flow!vars
BY DEF Flow!vars, NowProg, NowAt, NowLoops, NowCalls, Prog

LEMMA FlowStop ==
  ASSUME NowAt # Stopped, NowAt' = Stopped, NowLoops' = <<>>, NowCalls' = <<>>, NowProg' = NowProg
  PROVE  Flow!Next
<1>1. Flow!Stop
  BY DEF Flow!Stop, NowProg, NowAt, NowLoops, NowCalls, Prog
<1> QED
  BY <1>1 DEF Flow!Next

LEMMA FlowEdit ==
  ASSUME NowAt = Stopped, UNCHANGED <<NowAt, NowLoops, NowCalls>>, NEW n \in Number,
         Flow!Restrict(NowProg', DOMAIN NowProg' \ {n}) = Flow!Restrict(NowProg, DOMAIN NowProg \ {n})
  PROVE  Flow!Next
<1>1. Flow!Edit
  BY DEF Flow!Edit, NowProg, NowAt, NowLoops, NowCalls, Prog
<1> QED
  BY <1>1 DEF Flow!Next

LEMMA FlowReplace ==
  ASSUME NowAt = Stopped, UNCHANGED <<NowAt, NowLoops, NowCalls>>,
         NowProg' \in {Flow!Program(file) : file \in Files} \cup {<<>>}
  PROVE  Flow!Next
<1>1. Flow!Replace
  BY DEF Flow!Replace, NowProg, NowAt, NowLoops, NowCalls, Prog
<1> QED
  BY <1>1 DEF Flow!Next

LEMMA FlowRun ==
  ASSUME NowAt = Stopped, NowAt' = Flow!First(NowProg), NowLoops' = <<>>, NowCalls' = <<>>, NowProg' = NowProg
  PROVE  Flow!Next
<1>1. Flow!Run
  BY DEF Flow!Run, Flow!Start, NowProg, NowAt, NowLoops, NowCalls, Prog
<1> QED
  BY <1>1 DEF Flow!Next

(* The steps of a statement s at hand.                                     *)
AtHand(s) == NowAt # Stopped /\ NowAt # End /\ s \in NowCurrent

LEMMA FlowPass ==
  ASSUME NEW s, AtHand(s),
         s.op \notin {"goto", "gosub", "return", "for", "next", "end", "run", "clr", "bad"},
         NowAt' = Flow!After(NowProg, NowAt), UNCHANGED <<NowProg, NowLoops, NowCalls>>
  PROVE  Flow!Next
<1>1. Flow!Statement
  BY DEF Flow!Statement, Flow!Current, Flow!Pass, Flow!Advance, AtHand, NowCurrent, NowProg, NowAt, NowLoops, NowCalls, Prog
<1> QED
  BY <1>1 DEF Flow!Next

LEMMA FlowGoto ==
  ASSUME NEW s, AtHand(s), NEW n, \/ s.op = "goto" /\ n = s.target
                                  \/ s.op = "on" /\ n \in s.targets /\ ~s.gosub,
         n \in DOMAIN NowProg, NowAt' = n, UNCHANGED <<NowProg, NowLoops, NowCalls>>
  PROVE  Flow!Next
<1>1. Flow!Goto(n)
  BY DEF Flow!Goto, NowProg, NowAt, NowLoops, NowCalls, Prog
<1>2. Flow!Statement
  BY <1>1, ZenonT(30) DEF Flow!Statement, Flow!Current, AtHand, NowCurrent, NowProg, NowAt, Prog
<1> QED
  BY <1>2 DEF Flow!Next

LEMMA FlowGosub ==
  ASSUME NEW s, AtHand(s), NEW n, \/ s.op = "gosub" /\ n = s.target
                                  \/ s.op = "on" /\ n \in s.targets /\ s.gosub,
         n \in DOMAIN NowProg, NowAt' = n, NowCalls' = Append(NowCalls, NowAt), UNCHANGED <<NowProg, NowLoops>>
  PROVE  Flow!Next
<1>1. Flow!Gosub(n)
  BY DEF Flow!Gosub, NowProg, NowAt, NowLoops, NowCalls, Prog
<1>2. Flow!Statement
  BY <1>1, ZenonT(30) DEF Flow!Statement, Flow!Current, AtHand, NowCurrent, NowProg, NowAt, Prog
<1> QED
  BY <1>2 DEF Flow!Next

LEMMA FlowReturn ==
  ASSUME NEW s, AtHand(s), s.op = "return", NowCalls # <<>>,
         NowAt' = Flow!After(NowProg, NowCalls[Len(NowCalls)]),
         NowCalls' = SubSeq(NowCalls, 1, Len(NowCalls) - 1), UNCHANGED <<NowProg, NowLoops>>
  PROVE  Flow!Next
<1>1. Flow!Return(s)
  BY DEF Flow!Return, NowProg, NowAt, NowLoops, NowCalls, Prog
<1>2. Flow!Statement
  BY <1>1, ZenonT(30) DEF Flow!Statement, Flow!Current, AtHand, NowCurrent, NowProg, NowAt, Prog
<1> QED
  BY <1>2 DEF Flow!Next

LEMMA FlowFor ==
  ASSUME NEW s, AtHand(s), s.op = "for", NowAt' = Flow!After(NowProg, NowAt),
         NowLoops' = Append(NowLoops, [var |-> s.var, line |-> NowAt]), UNCHANGED <<NowProg, NowCalls>>
  PROVE  Flow!Next
<1>1. Flow!For(s)
  BY DEF Flow!For, Flow!Advance, NowProg, NowAt, NowLoops, NowCalls, Prog
<1>2. Flow!Statement
  BY <1>1, ZenonT(30) DEF Flow!Statement, Flow!Current, AtHand, NowCurrent, NowProg, NowAt, Prog
<1> QED
  BY <1>2 DEF Flow!Next

NowMine(s) == {i \in 1 .. Len(NowLoops) : s.var \in {NoVar, NowLoops[i].var}}

LEMMA FlowNextLoop ==
  ASSUME NEW s, AtHand(s), s.op = "next", NowMine(s) # {},
         \/ NowAt' = Flow!After(NowProg, NowLoops[Flow!Max(NowMine(s))].line) /\ UNCHANGED NowLoops
         \/ NowAt' = Flow!After(NowProg, NowAt) /\ NowLoops' = SubSeq(NowLoops, 1, Flow!Max(NowMine(s)) - 1),
         UNCHANGED <<NowProg, NowCalls>>
  PROVE  Flow!Next
<1>1. Flow!NextLoop(s)
  BY DEF Flow!NextLoop, Flow!Advance, NowMine, NowProg, NowAt, NowLoops, NowCalls, Prog
<1>2. Flow!Statement
  BY <1>1, ZenonT(30) DEF Flow!Statement, Flow!Current, AtHand, NowCurrent, NowProg, NowAt, Prog
<1> QED
  BY <1>2 DEF Flow!Next

LEMMA FlowClear ==
  ASSUME NEW s, AtHand(s), s.op = "clr", NowProg' = <<>>, NowAt' = End, NowLoops' = <<>>, NowCalls' = <<>>
  PROVE  Flow!Next
<1>1. Flow!Clear(s)
  BY DEF Flow!Clear, NowProg, NowAt, NowLoops, NowCalls, Prog
<1>2. Flow!Statement
  BY <1>1, ZenonT(30) DEF Flow!Statement, Flow!Current, AtHand, NowCurrent, NowProg, NowAt, Prog
<1> QED
  BY <1>2 DEF Flow!Next

LEMMA FlowStart ==
  ASSUME NEW s, AtHand(s), s.op = "run",
         NowAt' = Flow!First(NowProg), NowLoops' = <<>>, NowCalls' = <<>>, NowProg' = NowProg
  PROVE  Flow!Next
<1>1. Flow!Start(NowProg)
  BY DEF Flow!Start, NowProg, NowAt, NowLoops, NowCalls, Prog
<1>2. Flow!Statement
  BY <1>1, ZenonT(30) DEF Flow!Statement, Flow!Current, AtHand, NowCurrent, NowProg, NowAt, Prog
<1> QED
  BY <1>2 DEF Flow!Next

----------------------------------------------------------------------------
(* The stacks, as ProgramFlow has them.                                    *)

LoopOf(ls, frame) == [var |-> frame.var, line |-> ls[frame.line_idx].number]
LoopsOf(ls, fs) == [i \in 1 .. Len(fs) |-> LoopOf(ls, fs[i])]
CallsOf(ls, gs) == [i \in 1 .. Len(gs) |-> ls[gs[i]].number]

LEMMA PushIs ==
  ASSUME NEW S, NEW s \in Seq(S), NEW e \in S, NEW t \in Seq(S), Len(t) = Len(s) + 1,
         \A i \in 1 .. Len(s) : t[i] = s[i], t[Len(s) + 1] = e
  PROVE  t = Append(s, e)
<1>1. /\ Append(s, e) \in Seq(S) /\ Len(Append(s, e)) = Len(s) + 1 /\ Len(s) \in Nat
      /\ \A i \in 1 .. Len(s) + 1 : Append(s, e)[i] = IF i <= Len(s) THEN s[i] ELSE e
  BY Push
<1>2. \A i \in 1 .. Len(t) : t[i] = Append(s, e)[i]
  BY <1>1
<1> DEFINE a == Append(s, e)
<1> HIDE DEF a
<1>3. a \in Seq(S) /\ Len(t) = Len(a) /\ \A i \in 1 .. Len(t) : t[i] = a[i]
  BY <1>1, <1>2 DEF a
<1>4. t = a
  BY <1>3, SeqEqual
<1> QED
  BY <1>4 DEF a

LEMMA CutIs ==
  ASSUME NEW S, NEW s \in Seq(S), NEW k \in 1 .. Len(s), NEW t \in Seq(S), Len(t) = k - 1,
         \A i \in 1 .. k - 1 : t[i] = s[i]
  PROVE  t = SubSeq(s, 1, k - 1)
<1> DEFINE a == SubSeq(s, 1, k - 1)
<1>1. /\ a \in Seq(S) /\ Len(a) = k - 1 /\ \A i \in 1 .. k - 1 : a[i] = s[i]
  BY Shorten
<1> HIDE DEF a
<1>2. Len(t) = Len(a) /\ \A i \in 1 .. Len(t) : t[i] = a[i]
  BY <1>1
<1>3. t = a
  BY <1>1, <1>2, SeqEqual
<1> QED
  BY <1>3 DEF a

LEMMA CallsAre ==
  ASSUME NEW ls, Table(ls), NEW gs \in Seq(Nat), \A i \in 1 .. Len(gs) : gs[i] \in 1 .. Len(ls)
  PROVE  CallsOf(ls, gs) \in Seq(Nat) /\ Len(CallsOf(ls, gs)) = Len(gs) /\ Len(gs) \in Nat
<1>1. Len(gs) \in Nat /\ \A i \in 1 .. Len(gs) : ls[gs[i]].number \in Nat
  BY LenProperties, TableLength
<1>2. CallsOf(ls, gs) \in [1 .. Len(gs) -> Nat]
  BY <1>1 DEF CallsOf
<1>3. DOMAIN CallsOf(ls, gs) = 1 .. Len(gs)
  BY DEF CallsOf
<1> DEFINE c == CallsOf(ls, gs)
           n == Len(gs)
<1> HIDE DEF c, n
<1>4. c \in Seq(Nat)
  BY <1>1, <1>2, SeqDef DEF c, n
<1>5. Len(c) = n
  BY <1>1, <1>3, <1>4, LenProperties DEF c, n
<1> QED
  BY <1>1, <1>4, <1>5 DEF c, n

LEMMA CallsPush ==
  ASSUME NEW ls, Table(ls), NEW gs \in Seq(Nat), \A i \in 1 .. Len(gs) : gs[i] \in 1 .. Len(ls),
         NEW p \in 1 .. Len(ls)
  PROVE  CallsOf(ls, Append(gs, p)) = Append(CallsOf(ls, gs), ls[p].number)
<1> DEFINE new == Append(gs, p)
<1>1. p \in Nat /\ ls[p].number \in Nat
  BY TableLength
<1>2. /\ new \in Seq(Nat) /\ Len(new) = Len(gs) + 1 /\ Len(gs) \in Nat
      /\ \A i \in 1 .. Len(gs) + 1 : new[i] = IF i <= Len(gs) THEN gs[i] ELSE p
  BY <1>1, Push
<1>a. new[Len(gs) + 1] = p
  BY <1>1, AppendProperties
<1> HIDE DEF new
<1>3. ASSUME NEW i \in 1 .. Len(new) PROVE new[i] \in 1 .. Len(ls)
  <2>1. i \in 1 .. Len(gs) + 1 /\ new[i] = IF i <= Len(gs) THEN gs[i] ELSE p
    BY <1>2
  <2>2. i <= Len(gs) => i \in 1 .. Len(gs)
    BY <1>2, <2>1
  <2>3. CASE i <= Len(gs)
    BY <2>1, <2>2, <2>3
  <2>4. CASE ~(i <= Len(gs))
    BY <2>1, <2>4
  <2> QED
    BY <2>3, <2>4
<1>4. CallsOf(ls, gs) \in Seq(Nat) /\ Len(CallsOf(ls, gs)) = Len(gs)
  BY CallsAre
<1>5. CallsOf(ls, new) \in Seq(Nat) /\ Len(CallsOf(ls, new)) = Len(gs) + 1
  BY <1>2, <1>3, CallsAre
<1>6. ASSUME NEW i \in 1 .. Len(gs) PROVE CallsOf(ls, new)[i] = CallsOf(ls, gs)[i]
  <2>1. i \in 1 .. Len(new) /\ new[i] = gs[i]
    BY <1>2
  <2>2. CallsOf(ls, new)[i] = ls[new[i]].number
    BY <2>1 DEF CallsOf
  <2> QED
    BY <2>1, <2>2 DEF CallsOf
<1>7. CallsOf(ls, new)[Len(gs) + 1] = ls[p].number
  <2> DEFINE m == Len(gs) + 1
  <2>1. m \in 1 .. Len(new)
    BY <1>2
  <2> HIDE DEF m
  <2>2. CallsOf(ls, new)[m] = ls[new[m]].number
    BY <2>1 DEF CallsOf
  <2> QED
    BY <1>a, <2>2 DEF m
<1> DEFINE c == CallsOf(ls, gs)
           d == CallsOf(ls, new)
           e == ls[p].number
<1>b. /\ c \in Seq(Nat) /\ e \in Nat /\ d \in Seq(Nat) /\ Len(d) = Len(c) + 1
      /\ d[Len(c) + 1] = e /\ \A i \in 1 .. Len(c) : d[i] = c[i]
  BY <1>1, <1>4, <1>5, <1>6, <1>7
<1> HIDE DEF c, d, e
<1>8. d = Append(c, e)
  BY <1>b, PushIs
<1> QED
  BY <1>8 DEF c, d, e, new

LEMMA CallsPop ==
  ASSUME NEW ls, Table(ls), NEW gs \in Seq(Nat), \A i \in 1 .. Len(gs) : gs[i] \in 1 .. Len(ls), gs # <<>>
  PROVE  /\ CallsOf(ls, gs) # <<>> /\ CallsOf(ls, gs)[Len(CallsOf(ls, gs))] = ls[Last(gs)].number
         /\ Last(gs) \in 1 .. Len(ls)
         /\ CallsOf(ls, Front(gs)) = SubSeq(CallsOf(ls, gs), 1, Len(CallsOf(ls, gs)) - 1)
<1> DEFINE c == CallsOf(ls, gs)
           d == CallsOf(ls, Front(gs))
           n == Len(gs)
<1>1. /\ n \in Nat \ {0} /\ Last(gs) = gs[n]
      /\ Front(gs) \in Seq(Nat) /\ Len(Front(gs)) = n - 1
      /\ \A i \in 1 .. n - 1 : Front(gs)[i] = gs[i]
  BY Pop
<1>2. c \in Seq(Nat) /\ Len(c) = n
  BY CallsAre
<1>3. n \in 1 .. n
  BY <1>1
<1>4. ASSUME NEW i \in 1 .. Len(Front(gs)) PROVE Front(gs)[i] \in 1 .. Len(ls)
  <2>1. i \in 1 .. n - 1 /\ i \in 1 .. Len(gs)
    BY <1>1
  <2>2. Front(gs)[i] = gs[i]
    BY <1>1, <2>1
  <2> QED
    BY <2>1, <2>2
<1>5. d \in Seq(Nat) /\ Len(d) = n - 1
  BY <1>1, <1>4, CallsAre
<1>6. ASSUME NEW i \in 1 .. n - 1 PROVE d[i] = c[i]
  <2>1. Front(gs)[i] = gs[i] /\ i \in 1 .. Len(Front(gs)) /\ i \in 1 .. Len(gs)
    BY <1>1
  <2>2. d[i] = ls[Front(gs)[i]].number /\ c[i] = ls[gs[i]].number
    BY <2>1 DEF CallsOf
  <2> QED
    BY <2>1, <2>2
<1>7. c[n] = ls[gs[n]].number /\ gs[n] \in 1 .. Len(ls)
  BY <1>3 DEF CallsOf
<1>8. c # <<>>
  BY <1>1, <1>2, EmptySeq
<1> HIDE DEF c, d, n
<1>9. d = SubSeq(c, 1, n - 1)
  BY <1>2, <1>3, <1>5, <1>6, CutIs
<1> QED
  BY <1>1, <1>2, <1>7, <1>8, <1>9 DEF c, d

(* The same of loops.                                                      *)
Begun == {[var |-> s.var, line |-> n] : s \in Statements, n \in Nat}

LEMMA LoopsAre ==
  ASSUME NEW ls, Table(ls), NEW fs \in Seq(Frames), \A i \in 1 .. Len(fs) : fs[i].line_idx \in 1 .. Len(ls)
  PROVE  LoopsOf(ls, fs) \in Seq(Begun) /\ Len(LoopsOf(ls, fs)) = Len(fs) /\ Len(fs) \in Nat
<1>1. Len(fs) \in Nat /\ \A i \in 1 .. Len(fs) : ls[fs[i].line_idx].number \in Nat /\ fs[i] \in Frames
  BY LenProperties, ElementOfSeq, TableLength
<1>2. ASSUME NEW i \in 1 .. Len(fs) PROVE LoopOf(ls, fs[i]) \in Begun
  <2>1. PICK s \in Statements : fs[i].var = s.var
    BY <1>1 DEF Frames
  <2> QED
    BY <1>1, <2>1 DEF Begun, LoopOf
<1>3. LoopsOf(ls, fs) \in [1 .. Len(fs) -> Begun] /\ DOMAIN LoopsOf(ls, fs) = 1 .. Len(fs)
  BY <1>2 DEF LoopsOf
<1> DEFINE c == LoopsOf(ls, fs)
           n == Len(fs)
<1> HIDE DEF c, n
<1>4. c \in Seq(Begun)
  BY <1>1, <1>3, SeqDef DEF c, n
<1>5. Len(c) = n
  BY <1>1, <1>3, <1>4, LenProperties DEF c, n
<1> QED
  BY <1>1, <1>4, <1>5 DEF c, n

LEMMA LoopsPush ==
  ASSUME NEW ls, Table(ls), NEW fs \in Seq(Frames), \A i \in 1 .. Len(fs) : fs[i].line_idx \in 1 .. Len(ls),
         NEW frame \in Frames, frame.line_idx \in 1 .. Len(ls)
  PROVE  LoopsOf(ls, Append(fs, frame)) = Append(LoopsOf(ls, fs), LoopOf(ls, frame))
<1> DEFINE new == Append(fs, frame)
<1>1. LoopOf(ls, frame) \in Begun
  <2>1. ls[frame.line_idx].number \in Nat
    BY TableLength
  <2>2. PICK s \in Statements : frame.var = s.var
    BY DEF Frames
  <2> QED
    BY <2>1, <2>2 DEF Begun, LoopOf
<1>2. /\ new \in Seq(Frames) /\ Len(new) = Len(fs) + 1 /\ Len(fs) \in Nat
      /\ \A i \in 1 .. Len(fs) + 1 : new[i] = IF i <= Len(fs) THEN fs[i] ELSE frame
  BY Push
<1> HIDE DEF new
<1>3. \A i \in 1 .. Len(new) : new[i].line_idx \in 1 .. Len(ls)
  BY <1>2
<1>4. LoopsOf(ls, fs) \in Seq(Begun) /\ Len(LoopsOf(ls, fs)) = Len(fs)
  BY LoopsAre
<1>5. LoopsOf(ls, new) \in Seq(Begun) /\ Len(LoopsOf(ls, new)) = Len(fs) + 1
  BY <1>2, <1>3, LoopsAre
<1>6. \A i \in 1 .. Len(fs) : LoopsOf(ls, new)[i] = LoopsOf(ls, fs)[i]
  BY <1>2 DEF LoopsOf
<1>7. LoopsOf(ls, new)[Len(fs) + 1] = LoopOf(ls, frame)
  BY <1>2 DEF LoopsOf
<1>8. LoopsOf(ls, new) = Append(LoopsOf(ls, fs), LoopOf(ls, frame))
  BY <1>1, <1>4, <1>5, <1>6, <1>7, PushIs
<1> QED
  BY <1>8 DEF new

LEMMA LoopsCut ==
  ASSUME NEW ls, Table(ls), NEW fs \in Seq(Frames), \A i \in 1 .. Len(fs) : fs[i].line_idx \in 1 .. Len(ls),
         NEW k \in 1 .. Len(fs)
  PROVE  LoopsOf(ls, SubSeq(fs, 1, k - 1)) = SubSeq(LoopsOf(ls, fs), 1, k - 1)
<1> DEFINE new == SubSeq(fs, 1, k - 1)
           c == LoopsOf(ls, fs)
           d == LoopsOf(ls, new)
<1>1. /\ new \in Seq(Frames) /\ Len(new) = k - 1 /\ Len(fs) \in Nat
      /\ \A i \in 1 .. k - 1 : new[i] = fs[i]
  BY Shorten
<1> HIDE DEF new
<1>2. \A i \in 1 .. Len(new) : new[i].line_idx \in 1 .. Len(ls)
  BY <1>1
<1>3. c \in Seq(Begun) /\ Len(c) = Len(fs)
  BY LoopsAre
<1>4. d \in Seq(Begun) /\ Len(d) = k - 1
  BY <1>1, <1>2, LoopsAre
<1>5. \A i \in 1 .. k - 1 : d[i] = c[i]
  BY <1>1 DEF LoopsOf
<1> HIDE DEF c, d
<1>6. d = SubSeq(c, 1, k - 1)
  BY <1>3, <1>4, <1>5, CutIs
<1> QED
  BY <1>6 DEF c, d, new

----------------------------------------------------------------------------
(* The refinement.                                                         *)

(* The programs load no other.                                             *)
Loading == {"load", "dos"}
NoLoads == \A s \in {line.stmt : line \in Source} \ {NoText} :
              s.op \notin Loading /\ (s.op = "if" => s.then.op \notin Loading)

(* Only the user enters DOS, while no program runs.                        *)
Outside == waiting \in {"dos", "dos line"} => ~running

(* While a program runs, the indices on the stacks follow lines it has.    *)
Placed ==
  running =>
    /\ \A i \in 1 .. Len(gosub_stack) : gosub_stack[i] \in 1 .. Len(lines)
    /\ \A i \in 1 .. Len(for_stack) : for_stack[i].line_idx \in 1 .. Len(lines)

Meant ==
  /\ NowAt = IF ~running THEN Stopped ELSE Place(lines, pc)
  /\ NowLoops = IF ~running THEN <<>> ELSE LoopsOf(lines, for_stack)
  /\ NowCalls = IF ~running THEN <<>> ELSE CallsOf(lines, gosub_stack)

LEMMA MeantNow == Bounded => Meant
<1> SUFFICES ASSUME Bounded PROVE Meant
  OBVIOUS
<1>1. NowAt = IF ~running THEN Stopped ELSE Place(lines, pc)
  BY DEF NowAt, Place, LineAt
<1>2. DOMAIN for_stack = 1 .. Len(for_stack) /\ DOMAIN gosub_stack = 1 .. Len(gosub_stack)
  BY LenProperties DEF Bounded
<1>3. \A n \in Nat : NumberBefore(n) = lines[n].number
  <2>1. \A n \in Nat : (n - 1) + 1 = n
    OBVIOUS
  <2> QED
    BY <2>1 DEF NumberBefore, LineAt
<1>4. \A i \in 1 .. Len(gosub_stack) : gosub_stack[i] \in Nat
  BY ElementOfSeq DEF Bounded
<1>5. ASSUME NEW i \in 1 .. Len(for_stack) PROVE for_stack[i].line_idx \in Nat
  <2>1. for_stack[i] \in Frames
    BY ElementOfSeq DEF Bounded
  <2> QED
    BY <2>1 DEF Frames
<1>6. NowLoops = IF ~running THEN <<>> ELSE LoopsOf(lines, for_stack)
  BY <1>2, <1>3, <1>5 DEF NowLoops, LoopsOf, LoopOf
<1>7. NowCalls = IF ~running THEN <<>> ELSE CallsOf(lines, gosub_stack)
  BY <1>2, <1>3, <1>4 DEF NowCalls, CallsOf
<1> QED
  BY <1>1, <1>6, <1>7 DEF Meant

LEMMA MeantNext == Bounded' => Meant'
BY MeantNow, PTL

LEMMA NoLines == CallsOf(lines, <<>>) = <<>> /\ LoopsOf(lines, <<>>) = <<>>
BY DEF CallsOf, LoopsOf

(* Where the program is, and the statements at hand.                       *)
LEMMA Here ==
  ASSUME Bounded, InLoop
  PROVE  /\ running = TRUE /\ pc + 1 \in 1 .. Len(lines)
         /\ NowAt = lines[pc + 1].number /\ NowAt \in Nat /\ NowAt # Stopped /\ NowAt # End
         /\ NowProg[NowAt] = LineAt(lines, pc).stmt
         /\ Flow!After(NowProg, NowAt) = Place(lines, pc + 1)
<1>1. /\ pc + 1 \in 1 .. Len(lines) /\ LineAt(lines, pc) = lines[pc + 1]
      /\ running = TRUE /\ Table(lines) /\ pc \in Nat /\ pc < Len(lines)
  BY AtLine DEF InLoop, Bounded
<1>2. NowAt = lines[pc + 1].number /\ NowAt \in Nat
  <2>1. ~(pc >= Len(lines))
    BY <1>1, TableLength
  <2>2. NowAt = Place(lines, pc)
    BY <1>1, MeantNow DEF Meant
  <2>3. lines[pc + 1].number \in Nat
    BY <1>1, TableLength
  <2> QED
    BY <2>1, <2>2, <2>3 DEF Place
<1>3. NowAt # Stopped /\ NowAt # End
  BY <1>2 DEF Stopped, End
<1>4. NowProg[NowAt] = lines[pc + 1].stmt
  BY <1>1, <1>2, ProgIs DEF NowProg
<1>5. Flow!After(NowProg, NowAt) = Place(lines, pc + 1)
  BY <1>1, <1>2, AfterLine DEF NowProg
<1> QED
  BY <1>1, <1>2, <1>3, <1>4, <1>5

LEMMA Hands ==
  ASSUME Bounded, InLoop
  PROVE  LET s == LineAt(lines, pc).stmt IN AtHand(s) /\ (s.op = "if" => AtHand(s.then))
BY Here DEF AtHand, NowCurrent

(* An error, END or a break.                                               *)
LEMMA StopStep ==
  ASSUME Bounded, Bounded', running, ~running', lines' = lines
  PROVE  Flow!Next /\ Placed'
<1>1. NowAt' = Stopped /\ NowLoops' = <<>> /\ NowCalls' = <<>>
  BY DEF NowAt, NowLoops, NowCalls
<1>2. NowAt # Stopped
  <2>1. CASE pc >= Len(lines)
    BY <2>1 DEF NowAt, End, Stopped
  <2>2. CASE ~(pc >= Len(lines))
    <3>1. Len(lines) \in Nat /\ pc \in Nat /\ \A i \in 1 .. Len(lines) : lines[i].number \in Nat
      BY TableLength DEF Bounded
    <3>2. pc + 1 \in 1 .. Len(lines)
      BY <2>2, <3>1
    <3>3. NowAt = lines[pc + 1].number /\ NowAt \in Nat
      BY <2>2, <3>1, <3>2 DEF NowAt, LineAt
    <3> QED
      BY <3>3 DEF Stopped
  <2> QED
    BY <2>1, <2>2
<1>3. NowProg' = NowProg
  BY DEF NowProg
<1> QED
  BY <1>1, <1>2, <1>3, FlowStop DEF Placed

(* What changes nothing that ProgramFlow sees.                             *)
LEMMA StillStep ==
  ASSUME Placed, UNCHANGED <<lines, running, pc, for_stack, gosub_stack>>
  PROVE  UNCHANGED Flow!vars /\ Placed'
<1>1. UNCHANGED <<NowProg, NowAt, NowLoops, NowCalls>>
  BY DEF NowProg, NowAt, NowLoops, NowCalls, NumberBefore
<1>2. Placed'
  BY DEF Placed
<1> QED
  BY <1>1, <1>2, FlowIdle

(* What happens while no program runs, but for RUN and changes of lines.   *)
LEMMA IdleStep ==
  ASSUME ~running, ~running', lines' = lines
  PROVE  UNCHANGED Flow!vars /\ Placed'
<1>1. UNCHANGED <<NowProg, NowAt, NowLoops, NowCalls>>
  BY DEF NowProg, NowAt, NowLoops, NowCalls
<1> QED
  BY <1>1, FlowIdle DEF Placed

(* The steps of a statement s that the loop executes.                      *)
Going(s) == Bounded /\ Bounded' /\ Placed /\ InLoop /\ AtHand(s)

LEMMA PassStep ==
  ASSUME NEW s, Going(s),
         s.op \notin {"goto", "gosub", "return", "for", "next", "end", "run", "clr", "bad"},
         pc' = pc + 1, UNCHANGED <<lines, running, for_stack, gosub_stack>>
  PROVE  Flow!Next /\ Placed'
<1>1. running = TRUE /\ running' = TRUE /\ Flow!After(NowProg, NowAt) = Place(lines, pc + 1)
  BY Here DEF Going
<1>2. Meant /\ Meant'
  BY MeantNow, MeantNext DEF Going
<1>3. NowAt' = Flow!After(NowProg, NowAt)
  BY <1>1, <1>2 DEF Meant
<1>4. UNCHANGED <<NowProg, NowLoops, NowCalls>>
  BY <1>1, <1>2 DEF Meant, NowProg
<1>5. Placed'
  BY DEF Going, Placed
<1> QED
  BY <1>3, <1>4, <1>5, FlowPass DEF Going

LEMMA GotoStep ==
  ASSUME NEW s, Going(s), NEW n \in Nat, \/ s.op = "goto" /\ n = s.target
                                         \/ s.op = "on" /\ n \in s.targets /\ ~s.gosub,
         Goto(n, pc + 1)
  PROVE  Flow!Next /\ Placed'
<1>1. lines' = lines /\ for_stack' = for_stack /\ gosub_stack' = gosub_stack /\ running = TRUE
  BY Here DEF Goto, stacks, text, Going
<1>2. CASE find_line(lines, n) = {}
  <2>1. ~running'
    BY <1>2 DEF Goto, jump_to_line, Fail
  <2> QED
    BY <1>1, <2>1, StopStep DEF Going
<1>3. CASE find_line(lines, n) # {}
  <2>1. pc' \in find_line(lines, n) /\ running' = TRUE
    BY <1>1, <1>3 DEF Goto, jump_to_line
  <2>2. pc' \in Nat /\ pc' + 1 \in 1 .. Len(lines) /\ lines[pc' + 1].number = n
    <3>1. Table(lines)
      BY DEF Going, Bounded
    <3> QED
      BY <2>1, <3>1, FindIndex
  <2>3. n \in DOMAIN NowProg
    BY <2>2, ProgIs DEF NowProg, Going, Bounded
  <2>4. Meant /\ Meant'
    BY MeantNow, MeantNext DEF Going
  <2>5. NowAt' = n
    <3>1. ~(pc' >= Len(lines))
      BY <2>2, TableLength DEF Going, Bounded
    <3> QED
      BY <1>1, <2>1, <2>2, <2>4, <3>1 DEF Meant, Place
  <2>6. UNCHANGED <<NowProg, NowLoops, NowCalls>>
    BY <1>1, <2>1, <2>4 DEF Meant, NowProg
  <2>7. Placed'
    BY <1>1, <2>1 DEF Going, Placed
  <2> QED
    BY <2>3, <2>5, <2>6, <2>7, FlowGoto DEF Going
<1> QED
  BY <1>2, <1>3

LEMMA GosubStep ==
  ASSUME NEW s, Going(s), NEW n \in Nat, \/ s.op = "gosub" /\ n = s.target
                                         \/ s.op = "on" /\ n \in s.targets /\ s.gosub,
         Gosub(n, pc + 1)
  PROVE  Flow!Next /\ Placed'
<1>1. lines' = lines /\ for_stack' = for_stack /\ running = TRUE
  BY Here DEF Gosub, text, Going
<1>2. CASE Len(gosub_stack) >= GOSUB_STACK \/ find_line(lines, n) = {}
  <2>1. ~running'
    BY <1>2 DEF Gosub, jump_to_line, Fail
  <2> QED
    BY <1>1, <2>1, StopStep DEF Going
<1>3. CASE ~(Len(gosub_stack) >= GOSUB_STACK) /\ find_line(lines, n) # {}
  <2>1. pc' \in find_line(lines, n) /\ running' = TRUE /\ gosub_stack' = Append(gosub_stack, pc + 1)
    BY <1>1, <1>3 DEF Gosub, jump_to_line
  <2>2. pc' \in Nat /\ pc' + 1 \in 1 .. Len(lines) /\ lines[pc' + 1].number = n
    <3>1. Table(lines)
      BY DEF Going, Bounded
    <3> QED
      BY <2>1, <3>1, FindIndex
  <2>3. n \in DOMAIN NowProg
    BY <2>2, ProgIs DEF NowProg, Going, Bounded
  <2>4. Meant /\ Meant'
    BY MeantNow, MeantNext DEF Going
  <2>5. NowAt' = n
    <3>1. ~(pc' >= Len(lines))
      BY <2>2, TableLength DEF Going, Bounded
    <3> QED
      BY <1>1, <2>1, <2>2, <2>4, <3>1 DEF Meant, Place
  <2>6. UNCHANGED <<NowProg, NowLoops>>
    BY <1>1, <2>1, <2>4 DEF Meant, NowProg
  <2>7. /\ Table(lines) /\ gosub_stack \in Seq(Nat) /\ pc + 1 \in 1 .. Len(lines) /\ pc + 1 \in Nat
        /\ \A i \in 1 .. Len(gosub_stack) : gosub_stack[i] \in 1 .. Len(lines)
    BY <1>1, AtLine DEF Going, Bounded, Placed
  <2>8. NowCalls' = Append(NowCalls, NowAt)
    <3>1. CallsOf(lines, Append(gosub_stack, pc + 1)) = Append(CallsOf(lines, gosub_stack), lines[pc + 1].number)
      BY <2>7, CallsPush
    <3>2. NowAt = lines[pc + 1].number
      BY Here DEF Going
    <3> QED
      BY <1>1, <2>1, <2>4, <3>1, <3>2 DEF Meant
  <2>9. Placed'
    <3>1. Len(gosub_stack') = Len(gosub_stack) + 1 /\ Len(gosub_stack) \in Nat
          /\ \A i \in 1 .. Len(gosub_stack) + 1 :
               gosub_stack'[i] = IF i <= Len(gosub_stack) THEN gosub_stack[i] ELSE pc + 1
      BY <2>1, <2>7, Push
    <3>2. ASSUME NEW i \in 1 .. Len(gosub_stack) + 1 PROVE gosub_stack'[i] \in 1 .. Len(lines)
      <4>1. CASE i <= Len(gosub_stack)
        <5>1. i \in 1 .. Len(gosub_stack)
          BY <3>1, <4>1
        <5> QED
          BY <2>7, <3>1, <4>1, <5>1
      <4>2. CASE ~(i <= Len(gosub_stack))
        BY <2>7, <3>1, <4>2
      <4> QED
        BY <4>1, <4>2
    <3>3. \A i \in 1 .. Len(for_stack) : for_stack[i].line_idx \in 1 .. Len(lines)
      BY <1>1 DEF Going, Placed
    <3> QED
      BY <1>1, <3>1, <3>2, <3>3 DEF Placed
  <2> QED
    BY <2>3, <2>5, <2>6, <2>8, <2>9, FlowGosub DEF Going
<1> QED
  BY <1>2, <1>3

LEMMA ReturnStep ==
  ASSUME NEW s, Going(s), exec_return(s, pc + 1)
  PROVE  Flow!Next /\ Placed'
<1>1. lines' = lines /\ for_stack' = for_stack /\ running = TRUE /\ s.op = "return"
  BY Here DEF exec_return, text, Going
<1>2. CASE gosub_stack = <<>>
  <2>1. ~running'
    BY <1>2 DEF exec_return, Fail
  <2> QED
    BY <1>1, <2>1, StopStep DEF Going
<1>3. CASE gosub_stack # <<>>
  <2>1. pc' = Last(gosub_stack) /\ running' = TRUE /\ gosub_stack' = Front(gosub_stack)
    BY <1>1, <1>3 DEF exec_return
  <2>2. /\ Table(lines) /\ gosub_stack \in Seq(Nat)
        /\ \A i \in 1 .. Len(gosub_stack) : gosub_stack[i] \in 1 .. Len(lines)
    BY <1>1 DEF Going, Bounded, Placed
  <2>3. Meant /\ Meant'
    BY MeantNow, MeantNext DEF Going
  <2> DEFINE c == CallsOf(lines, gosub_stack)
             g == Last(gosub_stack)
  <2>4. /\ c # <<>> /\ c[Len(c)] = lines[g].number /\ g \in 1 .. Len(lines)
        /\ CallsOf(lines, Front(gosub_stack)) = SubSeq(c, 1, Len(c) - 1)
    BY <1>3, <2>2, CallsPop
  <2>5. NowCalls = c
    BY <1>1, <2>3 DEF Meant
  <2>6. NowCalls' = CallsOf(lines, Front(gosub_stack))
    BY <1>1, <2>1, <2>3 DEF Meant
  <2>7. NowAt' = Place(lines, g)
    BY <1>1, <2>1, <2>3 DEF Meant
  <2>8. UNCHANGED <<NowProg, NowLoops>>
    BY <1>1, <2>1, <2>3 DEF Meant, NowProg
  <2>9. Placed'
    <3>1. Len(gosub_stack') = Len(gosub_stack) - 1 /\ Len(gosub_stack) \in Nat
          /\ \A i \in 1 .. Len(gosub_stack) - 1 : gosub_stack'[i] = gosub_stack[i]
      BY <1>3, <2>1, <2>2, Pop
    <3>2. \A i \in 1 .. Len(gosub_stack) - 1 : gosub_stack'[i] \in 1 .. Len(lines)
      BY <2>2, <3>1
    <3>3. \A i \in 1 .. Len(for_stack) : for_stack[i].line_idx \in 1 .. Len(lines)
      BY <1>1 DEF Going, Placed
    <3> QED
      BY <1>1, <3>1, <3>2, <3>3 DEF Placed
  <2> HIDE DEF c, g
  <2>10. Flow!After(NowProg, lines[g].number) = Place(lines, g)
    BY <2>2, <2>4, AfterLine DEF NowProg
  <2>11. NowAt' = Flow!After(NowProg, NowCalls[Len(NowCalls)])
    BY <2>4, <2>5, <2>7, <2>10
  <2>12. NowCalls # <<>> /\ NowCalls' = SubSeq(NowCalls, 1, Len(NowCalls) - 1)
    BY <2>4, <2>5, <2>6
  <2> QED
    BY <1>1, <2>8, <2>9, <2>11, <2>12, FlowReturn DEF Going
<1> QED
  BY <1>2, <1>3

LEMMA ForStep ==
  ASSUME NEW s \in Statements, Going(s), exec_for(s, pc + 1)
  PROVE  Flow!Next /\ Placed'
<1>1. lines' = lines /\ gosub_stack' = gosub_stack /\ pc' = pc + 1 /\ running = TRUE /\ s.op = "for"
  BY Here DEF exec_for, text, Going
<1>2. CASE Len(for_stack) >= FOR_STACK
  <2>1. ~running'
    BY <1>2 DEF exec_for, Fail
  <2> QED
    BY <1>1, <2>1, StopStep DEF Going
<1>3. CASE ~(Len(for_stack) >= FOR_STACK)
  <2> DEFINE frame == [var |-> s.var, limit |-> s.to, step |-> s.step, line_idx |-> pc + 1]
  <2>1. running' = TRUE /\ for_stack' = Append(for_stack, frame)
    BY <1>1, <1>3 DEF exec_for
  <2>2. /\ Table(lines) /\ for_stack \in Seq(Frames) /\ pc + 1 \in 1 .. Len(lines) /\ pc + 1 \in Nat
        /\ \A i \in 1 .. Len(for_stack) : for_stack[i].line_idx \in 1 .. Len(lines)
    BY <1>1, AtLine DEF Going, Bounded, Placed
  <2>3. Meant /\ Meant'
    BY MeantNow, MeantNext DEF Going
  <2>4. frame \in Frames /\ frame.line_idx = pc + 1 /\ frame.var = s.var
    BY <2>2 DEF Frames
  <2> HIDE DEF frame
  <2>5. Flow!After(NowProg, NowAt) = Place(lines, pc + 1) /\ NowAt = lines[pc + 1].number
    BY Here DEF Going
  <2>6. NowAt' = Flow!After(NowProg, NowAt)
    BY <1>1, <2>1, <2>3, <2>5 DEF Meant
  <2>7. UNCHANGED <<NowProg, NowCalls>>
    BY <1>1, <2>1, <2>3 DEF Meant, NowProg
  <2>8. NowLoops' = Append(NowLoops, [var |-> s.var, line |-> NowAt])
    <3>1. LoopsOf(lines, Append(for_stack, frame)) = Append(LoopsOf(lines, for_stack), LoopOf(lines, frame))
      BY <2>2, <2>4, LoopsPush
    <3>2. LoopOf(lines, frame) = [var |-> s.var, line |-> NowAt]
      BY <2>4, <2>5 DEF LoopOf
    <3> QED
      BY <1>1, <2>1, <2>3, <3>1, <3>2 DEF Meant
  <2>9. Placed'
    <3>1. Len(for_stack') = Len(for_stack) + 1 /\ Len(for_stack) \in Nat
          /\ \A i \in 1 .. Len(for_stack) + 1 :
               for_stack'[i] = IF i <= Len(for_stack) THEN for_stack[i] ELSE frame
      BY <2>1, <2>2, <2>4, Push
    <3>2. ASSUME NEW i \in 1 .. Len(for_stack) + 1 PROVE for_stack'[i].line_idx \in 1 .. Len(lines)
      <4>1. CASE i <= Len(for_stack)
        <5>1. i \in 1 .. Len(for_stack)
          BY <3>1, <4>1
        <5> QED
          BY <2>2, <3>1, <4>1, <5>1
      <4>2. CASE ~(i <= Len(for_stack))
        BY <2>2, <2>4, <3>1, <4>2
      <4> QED
        BY <4>1, <4>2
    <3>3. \A i \in 1 .. Len(gosub_stack) : gosub_stack[i] \in 1 .. Len(lines)
      BY <1>1 DEF Going, Placed
    <3> QED
      BY <1>1, <3>1, <3>2, <3>3 DEF Placed
  <2> QED
    BY <1>1, <2>6, <2>7, <2>8, <2>9, FlowFor DEF Going
<1> QED
  BY <1>2, <1>3

LEMMA NextStep ==
  ASSUME NEW s \in Statements, Going(s), exec_next(s, pc + 1)
  PROVE  Flow!Next /\ Placed'
<1>1. lines' = lines /\ gosub_stack' = gosub_stack /\ running = TRUE /\ s.op = "next"
  BY Here DEF exec_next, text, Going
<1>2. CASE Frame(s) = {}
  <2>1. ~running'
    BY <1>2 DEF exec_next, Fail
  <2> QED
    BY <1>1, <2>1, StopStep DEF Going
<1>3. CASE Frame(s) # {}
  <2> DEFINE k == Max(Frame(s))
             frame == for_stack[k]
  <2>1. /\ running' = TRUE
        /\ IF Done(frame) THEN for_stack' = FramesBelow(k) /\ pc' = pc + 1
                          ELSE pc' = frame.line_idx /\ UNCHANGED for_stack
    BY <1>1, <1>3 DEF exec_next
  <2>2. /\ Table(lines) /\ for_stack \in Seq(Frames)
        /\ \A i \in 1 .. Len(for_stack) : for_stack[i].line_idx \in 1 .. Len(lines)
        /\ \A i \in 1 .. Len(gosub_stack) : gosub_stack[i] \in 1 .. Len(lines)
    BY <1>1 DEF Going, Bounded, Placed
  <2>3. Meant /\ Meant'
    BY MeantNow, MeantNext DEF Going
  <2>4. k \in 1 .. Len(for_stack) /\ frame \in Frames
    BY <1>3, FrameIs DEF Going
  <2> DEFINE c == LoopsOf(lines, for_stack)
  <2>5. c \in Seq(Begun) /\ Len(c) = Len(for_stack) /\ Len(for_stack) \in Nat
    BY <2>2, LoopsAre
  <2>6. NowLoops = c
    BY <1>1, <2>3 DEF Meant
  <2>7. \A i \in 1 .. Len(for_stack) : c[i].var = for_stack[i].var /\ c[i].line = lines[for_stack[i].line_idx].number
    BY DEF LoopsOf, LoopOf
  <2>8. NowMine(s) = Frame(s)
    <3> HIDE DEF c
    <3> QED
      BY <2>5, <2>6, <2>7 DEF NowMine, Frame
  <2>9. Flow!Max(NowMine(s)) = k
    BY <2>8 DEF Flow!Max, Max
  <2>10. UNCHANGED <<NowProg, NowCalls>>
    BY <1>1, <2>1, <2>3 DEF Meant, NowProg
  <2>11. CASE Done(frame)
    <3>1. for_stack' = SubSeq(for_stack, 1, k - 1) /\ pc' = pc + 1
      BY <2>1, <2>11 DEF FramesBelow
    <3>2. NowAt' = Place(lines, pc + 1)
      BY <1>1, <2>1, <2>3, <3>1 DEF Meant
    <3>3. Flow!After(NowProg, NowAt) = Place(lines, pc + 1)
      BY Here DEF Going
    <3>4. NowLoops' = LoopsOf(lines, SubSeq(for_stack, 1, k - 1))
      BY <1>1, <2>1, <2>3, <3>1 DEF Meant
    <3>5. LoopsOf(lines, SubSeq(for_stack, 1, k - 1)) = SubSeq(c, 1, k - 1)
      BY <2>2, <2>4, LoopsCut
    <3>6. Placed'
      <4>1. /\ Len(for_stack') = k - 1 /\ \A i \in 1 .. k - 1 : for_stack'[i] = for_stack[i]
        BY <2>2, <2>4, <3>1, Shorten
      <4>2. ASSUME NEW i \in 1 .. k - 1 PROVE for_stack'[i].line_idx \in 1 .. Len(lines)
        <5>1. i \in 1 .. Len(for_stack)
          BY <2>4, <2>5
        <5> QED
          BY <2>2, <4>1, <5>1
      <4> QED
        BY <1>1, <2>2, <4>1, <4>2 DEF Placed
    <3> HIDE DEF k, c
    <3>7. NowLoops' = SubSeq(NowLoops, 1, Flow!Max(NowMine(s)) - 1)
      BY <2>6, <2>9, <3>4, <3>5
    <3> QED
      BY <1>1, <1>3, <2>8, <2>10, <3>2, <3>3, <3>6, <3>7, FlowNextLoop DEF Going
  <2>12. CASE ~Done(frame)
    <3>1. for_stack' = for_stack /\ pc' = frame.line_idx
      BY <2>1, <2>12
    <3>2. NowAt' = Place(lines, frame.line_idx)
      BY <1>1, <2>1, <2>3, <3>1 DEF Meant
    <3>3. frame.line_idx \in 1 .. Len(lines) /\ c[k].line = lines[frame.line_idx].number
      BY <2>2, <2>4, <2>7
    <3>4. NowLoops' = NowLoops
      BY <1>1, <2>1, <2>3, <3>1 DEF Meant
    <3>5. Placed'
      BY <1>1, <2>2, <3>1 DEF Placed
    <3> HIDE DEF k, c, frame
    <3>6. Flow!After(NowProg, lines[frame.line_idx].number) = Place(lines, frame.line_idx)
      BY <2>2, <3>3, AfterLine DEF NowProg
    <3>7. NowAt' = Flow!After(NowProg, NowLoops[Flow!Max(NowMine(s))].line)
      BY <2>6, <2>9, <3>2, <3>3, <3>6
    <3> QED
      BY <1>1, <1>3, <2>8, <2>10, <3>4, <3>5, <3>7, FlowNextLoop DEF Going
  <2> QED
    BY <2>11, <2>12
<1> QED
  BY <1>2, <1>3

LEMMA ClearStep ==
  ASSUME NEW s, Going(s), clear(s, pc + 1)
  PROVE  Flow!Next /\ Placed'
<1>1. /\ lines' = <<>> /\ for_stack' = <<>> /\ gosub_stack' = <<>>
      /\ pc' = pc + 1 /\ running' = running /\ running = TRUE /\ s.op = "clr" /\ pc \in Nat
  BY Here DEF clear, Keep, Going, Bounded
<1>2. NowProg' = <<>>
  BY <1>1, NoProg DEF NowProg
<1>3. NowAt' = End
  <2>1. pc' >= Len(lines')
    BY <1>1
  <2> QED
    BY <1>1, <2>1 DEF NowAt
<1>4. NowLoops' = <<>> /\ NowCalls' = <<>>
  <2>1. LoopsOf(lines', for_stack') = <<>> /\ CallsOf(lines', gosub_stack') = <<>>
    BY <1>1 DEF LoopsOf, CallsOf
  <2> QED
    BY <1>1, <2>1, MeantNext DEF Meant, Going
<1>5. Placed'
  BY <1>1 DEF Placed
<1> QED
  BY <1>1, <1>2, <1>3, <1>4, <1>5, FlowClear DEF Going

(* RUN makes the program start afresh.                                     *)
LEMMA Afresh ==
  ASSUME Bounded, Bounded', NEW s, run(s)
  PROVE  /\ NowAt' = Flow!First(NowProg) /\ NowLoops' = <<>> /\ NowCalls' = <<>> /\ NowProg' = NowProg
         /\ Placed' /\ s.op = "run"
<1>1. lines' = lines /\ for_stack' = <<>> /\ gosub_stack' = <<>> /\ pc' = 0 /\ running' = TRUE /\ s.op = "run"
  BY DEF run
<1>2. NowAt' = Place(lines, 0)
  BY <1>1, MeantNext DEF Meant
<1>3. Flow!First(NowProg) = Place(lines, 0)
  BY FirstLine DEF NowProg, Bounded
<1>4. NowLoops' = <<>> /\ NowCalls' = <<>>
  <2>1. LoopsOf(lines', for_stack') = <<>> /\ CallsOf(lines', gosub_stack') = <<>>
    BY <1>1 DEF LoopsOf, CallsOf
  <2> QED
    BY <1>1, <2>1, MeantNext DEF Meant
<1>5. Placed' /\ NowProg' = NowProg
  BY <1>1 DEF Placed, NowProg
<1> QED
  BY <1>1, <1>2, <1>3, <1>4, <1>5

LEMMA ExecuteStep ==
  ASSUME NEW s \in Statements, Going(s), s.op \notin Loading, Execute(s, pc + 1)
  PROVE  Flow!Next /\ Placed'
<1>0. /\ s.op \in {"goto", "gosub"} => s.target \in Nat
      /\ s.op = "on" => s.targets \subseteq Nat
  BY InterpreterAssumption
<1>a. running = TRUE /\ running' \in BOOLEAN
  BY Here DEF Going, Bounded
<1>1. CASE Otherwise(s, pc + 1)
  <2>1. UNCHANGED <<lines, for_stack, gosub_stack>> /\ pc' = pc + 1 /\ s.op \in {"other", "data", "bad"}
        /\ (~running' \/ (s.op # "bad" /\ running' = running))
    BY <1>1 DEF Otherwise, Fail, stacks, text
  <2> QED
    BY <1>a, <2>1, PassStep, StopStep DEF Going
<1>2. CASE exec_let(s, pc + 1)
  <2>1. UNCHANGED <<lines, for_stack, gosub_stack>> /\ pc' = pc + 1 /\ s.op = "let"
        /\ (~running' \/ running' = running)
    BY <1>2 DEF exec_let, Fail, stacks, text
  <2> QED
    BY <1>a, <2>1, PassStep, StopStep DEF Going
<1>3. CASE exec_for(s, pc + 1)
  BY <1>3, ForStep
<1>4. CASE exec_next(s, pc + 1)
  BY <1>4, NextStep
<1>5. CASE exec_goto(s, pc + 1)
  BY <1>0, <1>5, GotoStep DEF exec_goto
<1>6. CASE exec_gosub(s, pc + 1)
  BY <1>0, <1>6, GosubStep DEF exec_gosub
<1>7. CASE exec_on(s, pc + 1)
  <2>1. CASE pc' = pc + 1 /\ Keep(<<store, stacks, data_ptr, text>>)
    <3>1. UNCHANGED <<lines, running, for_stack, gosub_stack>> /\ pc' = pc + 1 /\ s.op = "on"
      BY <1>7, <2>1 DEF Keep, stacks, text, exec_on
    <3> QED
      BY <3>1, PassStep
  <2>2. CASE \E number \in s.targets : IF s.gosub THEN Gosub(number, pc + 1) ELSE Goto(number, pc + 1)
    <3>1. PICK number \in s.targets : IF s.gosub THEN Gosub(number, pc + 1) ELSE Goto(number, pc + 1)
      BY <2>2
    <3>2. number \in Nat /\ s.op = "on"
      BY <1>0, <1>7 DEF exec_on
    <3>3. CASE s.gosub
      BY <3>1, <3>2, <3>3, GosubStep
    <3>4. CASE ~s.gosub
      BY <3>1, <3>2, <3>4, GotoStep
    <3> QED
      BY <3>3, <3>4
  <2> QED
    BY <1>7, <2>1, <2>2 DEF exec_on
<1>8. CASE exec_return(s, pc + 1)
  BY <1>8, ReturnStep
<1>9. CASE exec_read(s, pc + 1)
  <2>1. UNCHANGED <<lines, for_stack, gosub_stack>> /\ pc' = pc + 1 /\ s.op = "read"
        /\ (~running' \/ running' = running)
    BY <1>9 DEF exec_read, Fail, stacks, text
  <2> QED
    BY <1>a, <2>1, PassStep, StopStep DEF Going
<1>10. CASE exec_restore(s, pc + 1)
  <2>1. UNCHANGED <<lines, running, for_stack, gosub_stack>> /\ pc' = pc + 1 /\ s.op = "restore"
    BY <1>10 DEF exec_restore, Keep, stacks, text
  <2> QED
    BY <2>1, PassStep
<1>11. CASE exec_end(s, pc + 1)
  <2>1. lines' = lines /\ ~running'
    BY <1>11 DEF exec_end, text
  <2> QED
    BY <1>a, <2>1, StopStep DEF Going
<1>12. CASE run(s)
  BY <1>12, Afresh, FlowStart DEF Going
<1>13. CASE clear(s, pc + 1)
  BY <1>13, ClearStep
<1>14. CASE exec_load(s, pc + 1)
  BY <1>14 DEF exec_load, Loading
<1>15. CASE Wait(s, pc + 1)
  <2>1. UNCHANGED <<lines, running, for_stack, gosub_stack>> /\ pc' = pc + 1
        /\ s.op \in {"pause", "input", "format", "edit", "dos", "quit"}
    BY <1>15 DEF Wait, Keep, stacks
  <2> QED
    BY <2>1, PassStep
<1> QED
  BY <1>1, <1>2, <1>3, <1>4, <1>5, <1>6, <1>7, <1>8, <1>9, <1>10, <1>11, <1>12, <1>13, <1>14, <1>15 DEF Execute

LEMMA LoopStep ==
  ASSUME NoLoads, Bounded, Bounded', Placed, Step
  PROVE  Flow!Next /\ Placed'
<1> DEFINE s == LineAt(lines, pc).stmt
<1>1. InLoop /\ exec_statement(s, pc + 1)
  BY DEF Step
<1>2. AtHand(s) /\ (s.op = "if" => AtHand(s.then))
  BY <1>1, Hands
<1>3. s \in Whole /\ s \in Statements /\ (s.op = "if" => s.then \in Statements)
  <2>1. pc + 1 \in 1 .. Len(lines) /\ s = lines[pc + 1].stmt
    BY <1>1, AtLine
  <2> HIDE DEF s
  <2> QED
    BY <2>1, LineStatement DEF Bounded
<1>4. s.op \notin Loading /\ (s.op = "if" => s.then.op \notin Loading)
  <2>1. pc + 1 \in 1 .. Len(lines) /\ s = lines[pc + 1].stmt
    BY <1>1, AtLine
  <2>2. lines[pc + 1] \in ProgramLine /\ lines[pc + 1].stmt # NoText
    BY <2>1, TableLength DEF Bounded, WithText, LinesOf
  <2> HIDE DEF s
  <2>3. s \in {line.stmt : line \in Source} \ {NoText}
    BY <2>1, <2>2 DEF ProgramLine, Stmt
  <2> QED
    BY <2>3 DEF NoLoads
<1> HIDE DEF s
<1>5. CASE Execute(s, pc + 1)
  BY <1>1, <1>2, <1>3, <1>4, <1>5, ExecuteStep DEF Going
<1>6. CASE exec_if(s, pc + 1)
  <2>1. s.op = "if"
    BY <1>6 DEF exec_if
  <2>2. CASE pc' = pc + 1 /\ Keep(<<store, stacks, data_ptr, text>>)
    <3>1. UNCHANGED <<lines, running, for_stack, gosub_stack>> /\ pc' = pc + 1
      BY <2>2 DEF Keep, stacks, text
    <3> QED
      BY <1>1, <1>2, <2>1, <3>1, PassStep DEF Going
  <2>3. CASE Execute(s.then, pc + 1)
    BY <1>1, <1>2, <1>3, <1>4, <2>1, <2>3, ExecuteStep DEF Going
  <2> QED
    BY <1>6, <2>2, <2>3 DEF exec_if
<1> QED
  BY <1>1, <1>5, <1>6 DEF exec_statement

(* A statement without a number, while no program runs.                    *)
LEMMA IdleExecute ==
  ASSUME Bounded, Bounded', ~running, NEW s, NEW next \in Nat, Execute(s, next)
  PROVE  (Flow!Next \/ UNCHANGED Flow!vars) /\ Placed'
<1>a. running = FALSE
  BY DEF Bounded
<1>b. NowAt = Stopped
  BY DEF NowAt
<1>1. CASE run(s)
  BY <1>b, <1>1, Afresh, FlowRun
<1>2. CASE clear(s, next) \/ (exec_load(s, next) /\ running' = running)
  <2>1. ~running'
    BY <1>a, <1>2 DEF clear, Keep
  <2>2. UNCHANGED <<NowAt, NowLoops, NowCalls>> /\ Placed'
    BY <1>a, <2>1 DEF NowAt, NowLoops, NowCalls, Placed
  <2>3. lines' = lines \/ lines' = <<>> \/ \E file \in Files : lines' = deserialize_program(file)
    BY <1>2 DEF clear, exec_load, LoadFile
  <2>4. CASE lines' = lines
    BY <2>1, <2>4, IdleStep
  <2>5. CASE lines' # lines
    <3>1. CASE lines' = <<>>
      <4>1. NowProg' = <<>>
        BY <3>1, NoProg DEF NowProg
      <4> QED
        BY <1>b, <2>2, <4>1, FlowReplace
    <3>2. CASE \E file \in Files : lines' = deserialize_program(file)
      <4>1. PICK file \in Files : lines' = deserialize_program(file)
        BY <3>2
      <4>2. NowProg' = Flow!Program(file)
        BY <4>1, FileProgram DEF NowProg
      <4> QED
        BY <1>b, <2>2, <4>2, FlowReplace
    <3> QED
      BY <2>3, <2>5, <3>1, <3>2
  <2> QED
    BY <2>4, <2>5
<1>3. CASE exec_load(s, next) /\ running' # running
  <2>1. lines' = lines /\ ~running'
    BY <1>3 DEF exec_load, LoadFile, Fail
  <2> QED
    BY <2>1, IdleStep
<1>4. CASE ~run(s) /\ ~clear(s, next) /\ ~exec_load(s, next)
  <2>1. lines' = lines /\ ~running'
    <3>1. CASE Otherwise(s, next)
      BY <1>a, <3>1 DEF Otherwise, Fail, text
    <3>2. CASE exec_let(s, next)
      BY <1>a, <3>2 DEF exec_let, Fail, text
    <3>3. CASE exec_for(s, next)
      BY <1>a, <3>3 DEF exec_for, Fail, text
    <3>4. CASE exec_next(s, next)
      BY <1>a, <3>4 DEF exec_next, Fail, text
    <3>5. ASSUME NEW n, Goto(n, next)
          PROVE  lines' = lines /\ ~running'
      BY <1>a, <3>5 DEF Goto, jump_to_line, Fail, text
    <3>6. ASSUME NEW n, Gosub(n, next)
          PROVE  lines' = lines /\ ~running'
      BY <1>a, <3>6 DEF Gosub, jump_to_line, Fail, text
    <3>7. CASE exec_on(s, next)
      <4>1. CASE pc' = next /\ Keep(<<store, stacks, data_ptr, text>>)
        BY <1>a, <4>1 DEF Keep, text
      <4> QED
        BY <3>5, <3>6, <3>7, <4>1 DEF exec_on
    <3>8. CASE exec_return(s, next)
      BY <1>a, <3>8 DEF exec_return, Fail, text
    <3>9. CASE exec_read(s, next)
      BY <1>a, <3>9 DEF exec_read, Fail, text
    <3>10. CASE exec_restore(s, next)
      BY <1>a, <3>10 DEF exec_restore, Keep, text
    <3>11. CASE exec_end(s, next)
      BY <3>11 DEF exec_end, text
    <3>12. CASE Wait(s, next)
      BY <1>a, <3>12 DEF Wait, Keep
    <3> QED
      BY <1>4, <3>1, <3>2, <3>3, <3>4, <3>5, <3>6, <3>7, <3>8, <3>9, <3>10, <3>11, <3>12
         DEF Execute, exec_goto, exec_gosub
  <2> QED
    BY <2>1, IdleStep
<1> QED
  BY <1>1, <1>2, <1>3, <1>4

LEMMA FlowBegins ==
  ASSUME Init
  PROVE  Flow!Init /\ Placed
<1>1. for_stack = <<>> /\ gosub_stack = <<>> /\ pc = 0 /\ running = (depth = 1)
  BY DEF Init
<1>2. Bounded /\ Meant
  BY BoundedStart, MeantNow
<1>3. NowLoops = <<>> /\ NowCalls = <<>>
  <2>1. LoopsOf(lines, for_stack) = <<>> /\ CallsOf(lines, gosub_stack) = <<>>
    BY <1>1, NoLines
  <2> QED
    BY <1>2, <2>1 DEF Meant
<1>4. Placed
  BY <1>1 DEF Placed
<1>5. (NowProg = <<>> /\ NowAt = Stopped) \/ (\E file \in Autorun : NowProg = Flow!Program(file) /\ NowAt = Flow!First(NowProg))
  <2>1. CASE lines = <<>> /\ depth = 0
    <3>1. ~running
      <4>1. depth # 1
        BY <2>1
      <4> QED
        BY <1>1, <4>1, Zenon
    <3> QED
      BY <2>1, <3>1, NoProg DEF NowAt, NowProg
  <2>2. CASE \E file \in Autorun : lines = deserialize_program(file) /\ depth = 1
    <3>1. PICK file \in Autorun : lines = deserialize_program(file) /\ depth = 1
      BY <2>2
    <3>2. running
      BY <1>1, <3>1
    <3>3. NowProg = Flow!Program(file)
      BY <3>1, FileProgram DEF NowProg
    <3>4. NowAt = Place(lines, 0)
      BY <1>1, <1>2, <3>2 DEF Meant
    <3>5. Flow!First(NowProg) = Place(lines, 0)
      BY <1>2, FirstLine DEF NowProg, Bounded
    <3> QED
      BY <3>3, <3>4, <3>5
  <2> QED
    BY <2>1, <2>2 DEF Init
<1>6. Flow!Init
  BY <1>3, <1>5 DEF Flow!Init, NowProg, NowAt, NowLoops, NowCalls, Prog
<1> QED
  BY <1>4, <1>6

(* What a statement waits for afterwards, if for anything.                 *)
LEMMA ExecuteWaits ==
  ASSUME NEW s, NEW next, Execute(s, next)
  PROVE  waiting' = waiting \/ Wait(s, next)
<1>1. ASSUME NEW n, Goto(n, next) \/ Gosub(n, next)
      PROVE  waiting' = waiting
  BY <1>1 DEF Goto, Gosub, text
<1>2. CASE exec_on(s, next)
  <2>1. CASE Keep(<<store, stacks, data_ptr, text>>)
    BY <2>1 DEF Keep, text
  <2> QED
    BY <1>1, <1>2, <2>1 DEF exec_on
<1>3. CASE exec_goto(s, next) \/ exec_gosub(s, next)
  BY <1>1, <1>3 DEF exec_goto, exec_gosub
<1>4. CASE Otherwise(s, next) \/ exec_let(s, next) \/ exec_for(s, next) \/ exec_next(s, next)
  BY <1>4 DEF Otherwise, exec_let, exec_for, exec_next, text
<1>5. CASE exec_return(s, next) \/ exec_read(s, next) \/ exec_restore(s, next) \/ exec_end(s, next)
  BY <1>5 DEF exec_return, exec_read, exec_restore, exec_end, Keep, text
<1>6. CASE run(s) \/ clear(s, next) \/ exec_load(s, next)
  BY <1>6 DEF run, clear, exec_load, Keep
<1> QED
  BY <1>2, <1>3, <1>4, <1>5, <1>6 DEF Execute

LEMMA NoLetter == \A v \in Var : v \notin {"dos", "dos line"}
BY DEF Var, Letters

LEMMA WaitForDos ==
  ASSUME NEW s \in Statements, NEW next, waiting = "no", Execute(s, next), waiting' \in {"dos", "dos line"}
  PROVE  s.op = "dos" /\ running' = running
<1>1. Wait(s, next)
  BY ExecuteWaits
<1>2. s.op = "input" => s.var \in Var
  BY InterpreterAssumption
<1> QED
  BY <1>1, <1>2, NoLetter DEF Wait, Keep

LEMMA StatementWaits ==
  ASSUME NEW s \in Whole, NEW next, waiting = "no", exec_statement(s, next), waiting' \in {"dos", "dos line"}
  PROVE  (s.op = "dos" \/ (s.op = "if" /\ s.then.op = "dos")) /\ running' = running
<1>1. s \in Statements /\ (s.op = "if" => s.then \in Statements)
  BY DEF Statements
<1>2. CASE Execute(s, next)
  BY <1>1, <1>2, WaitForDos
<1>3. CASE exec_if(s, next)
  <2>1. CASE Keep(<<store, stacks, data_ptr, text>>)
    BY <2>1 DEF Keep, text
  <2>2. CASE Execute(s.then, next)
    BY <1>1, <1>3, <2>2, WaitForDos DEF exec_if
  <2> QED
    BY <1>3, <2>1, <2>2 DEF exec_if
<1> QED
  BY <1>2, <1>3 DEF exec_statement

LEMMA Idle ==
  ASSUME Bounded, depth = 0
  PROVE  ~running
<1>1. running \in BOOLEAN /\ (running => depth > 0)
  BY DEF Bounded
<1>2. ~(depth > 0)
  OBVIOUS
<1> QED
  BY <1>1, <1>2

LEMMA OutsideStep ==
  ASSUME NoLoads, Bounded, Outside, [Next]_all
  PROVE  Outside'
<1> SUFFICES ASSUME waiting' \in {"dos", "dos line"} PROVE ~running'
  BY DEF Outside
<1>1. CASE Step
  <2> DEFINE s == LineAt(lines, pc).stmt
  <2>1. waiting = "no" /\ exec_statement(s, pc + 1) /\ s \in Whole
    BY <1>1, AtLine DEF Step, InLoop
  <2>2. s.op = "dos" \/ (s.op = "if" /\ s.then.op = "dos")
    <3> HIDE DEF s
    <3> QED
      BY <2>1, StatementWaits
  <2>3. pc + 1 \in 1 .. Len(lines) /\ s = lines[pc + 1].stmt
    BY <1>1, AtLine DEF Step
  <2>4. lines[pc + 1] \in ProgramLine /\ lines[pc + 1].stmt # NoText
    BY <2>3, TableLength DEF Bounded, WithText, LinesOf
  <2> HIDE DEF s
  <2>5. s \in {line.stmt : line \in Source} \ {NoText}
    BY <2>3, <2>4 DEF ProgramLine, Stmt
  <2> QED
    BY <2>2, <2>5 DEF NoLoads, Loading
<1>2. CASE Break
  BY <1>2 DEF Break
<1>3. CASE RunReturns
  BY <1>3 DEF RunReturns
<1>4. CASE TakeKey
  <2>1. waiting \in {"dos", "dos line"}
    BY <1>4, KeyDoes
  <2>2. running' = running \/ running' = FALSE
    BY <1>4, KeyDoes
  <2> QED
    BY <2>1, <2>2 DEF Outside
<1>5. ASSUME NEW line \in Typed, handle_program_line(line)
      PROVE  ~running'
  BY <1>5 DEF handle_program_line, Reading
<1>6. ASSUME NEW s \in Command, Direct(s)
      PROVE  ~running'
  <2>1. waiting = "no" /\ exec_statement(s, pc) /\ depth = 0
    BY <1>6 DEF Direct, Reading
  <2>2. s \in Whole
    BY <1>6, InterpreterAssumption DEF Whole
  <2>3. ~running
    BY <2>1, Idle
  <2>4. running' = running
    BY <2>1, <2>2, StatementWaits
  <2> QED
    BY <2>3, <2>4
<1>7. ASSUME NEW key \in Key, Type(key)
      PROVE  ~running'
  BY <1>7 DEF Type, Outside
<1>8. CASE run_editor
  BY <1>8 DEF run_editor
<1>9. CASE shutdown \/ UNCHANGED all
  BY <1>9 DEF shutdown, all, Outside
<1> QED
  BY <1>1, <1>2, <1>3, <1>4, <1>5, <1>6, <1>7, <1>8, <1>9 DEF Next

LEMMA FlowStep ==
  ASSUME NoLoads, Bounded, Bounded', Placed, Outside, [Next]_all
  PROVE  (Flow!Next \/ UNCHANGED Flow!vars) /\ Placed'
<1>a. running \in BOOLEAN
  BY DEF Bounded
<1>1. CASE Step
  BY <1>1, LoopStep
<1>2. CASE Break \/ RunReturns
  <2>1. lines' = lines /\ ~running'
    BY <1>2 DEF Break, RunReturns, text
  <2> QED
    BY <2>1, StopStep, IdleStep
<1>3. CASE TakeKey
  <2>1. UNCHANGED <<pc, for_stack, gosub_stack>>
    BY <1>3, KeyDoes
  <2>2. CASE lines' = lines
    <3>1. running' = running \/ ~running'
      BY <1>3, KeyDoes
    <3>2. CASE running' = running
      BY <2>1, <2>2, <3>2, StillStep
    <3>3. CASE ~running'
      BY <2>2, <3>3, StopStep, IdleStep
    <3> QED
      BY <3>1, <3>2, <3>3
  <2>3. CASE lines' # lines
    <3>1. waiting = "dos line" /\ LoadFile /\ running' = running
      BY <1>3, <2>3, KeyDoes
    <3>2. ~running /\ ~running'
      BY <3>1 DEF Outside
    <3>3. NowAt = Stopped /\ UNCHANGED <<NowAt, NowLoops, NowCalls>> /\ Placed'
      BY <3>2 DEF NowAt, NowLoops, NowCalls, Placed
    <3>4. PICK file \in Files : lines' = deserialize_program(file)
      BY <3>1 DEF LoadFile
    <3>5. NowProg' = Flow!Program(file)
      BY <3>4, FileProgram DEF NowProg
    <3> QED
      BY <3>3, <3>5, FlowReplace
  <2> QED
    BY <2>2, <2>3
<1>4. ASSUME NEW line \in Typed, handle_program_line(line)
      PROVE  (Flow!Next \/ UNCHANGED Flow!vars) /\ Placed'
  <2>1. lines' = insert_line(lines, line.number, line.stmt) /\ UNCHANGED <<pc, running, for_stack, gosub_stack>> /\ depth = 0
    BY <1>4 DEF handle_program_line, Reading, stacks
  <2>2. ~running
    BY <2>1 DEF Bounded
  <2> DEFINE n == line.number
             s == line.stmt
  <2>3. n \in Number /\ s \in Stmt
    BY InterpreterAssumption DEF Source, Stmt
  <2> HIDE DEF n, s
  <2>4. Table(lines) /\ Table(lines') /\ LinesOf(lines') = Replaced(LinesOf(lines), n, s)
    <3>1. lines' = insert_line(lines, n, s)
      BY <2>1 DEF n, s
    <3> QED
      BY <2>3, <3>1, InsertLine DEF Bounded
  <2>5. NowAt = Stopped /\ UNCHANGED <<NowAt, NowLoops, NowCalls>> /\ Placed'
    BY <2>1, <2>2 DEF NowAt, NowLoops, NowCalls, Placed
  <2>6. Flow!Restrict(NowProg', DOMAIN NowProg' \ {n}) = Flow!Restrict(NowProg, DOMAIN NowProg \ {n})
    BY <2>4, EditsOne DEF NowProg
  <2> QED
    BY <2>3, <2>5, <2>6, FlowEdit
<1>5. ASSUME NEW s \in Command, Direct(s)
      PROVE  (Flow!Next \/ UNCHANGED Flow!vars) /\ Placed'
  <2>1. ~running /\ pc \in Nat
    BY <1>5 DEF Direct, Reading, Bounded
  <2>2. CASE Execute(s, pc)
    BY <2>1, <2>2, IdleExecute
  <2>3. CASE exec_if(s, pc)
    <3>1. CASE pc' = pc /\ Keep(<<store, stacks, data_ptr, text>>)
      BY <3>1, StillStep DEF Keep, stacks, text
    <3>2. CASE Execute(s.then, pc)
      BY <2>1, <3>2, IdleExecute
    <3> QED
      BY <2>3, <3>1, <3>2 DEF exec_if
  <2> QED
    BY <1>5, <2>2, <2>3 DEF Direct, exec_statement
<1>6. ASSUME NEW key \in Key, Type(key)
      PROVE  (Flow!Next \/ UNCHANGED Flow!vars) /\ Placed'
  BY <1>6, StillStep DEF Type, stacks
<1>7. CASE run_editor
  BY <1>7, StillStep DEF run_editor, stacks
<1>8. CASE shutdown \/ UNCHANGED all
  BY <1>8, StillStep DEF shutdown, all, stacks
<1> QED
  BY <1>1, <1>2, <1>3, <1>4, <1>5, <1>6, <1>7, <1>8 DEF Next

(* The program goes where its line numbers say, for any program that loads *)
(* no other, whatever is typed, loaded or interrupted: the interpreter,    *)
(* with its indices on its stacks, implements ProgramFlow.                 *)
THEOREM FollowsLineNumbers ==
  ASSUME NoLoads
  PROVE  Spec => FlowSpec
<1>1. Init => Bounded /\ Placed /\ Outside /\ Flow!Init
  BY BoundedStart, FlowBegins DEF Init, Outside
<1>2. Bounded /\ Placed /\ Outside /\ [Next]_all => Bounded' /\ Placed' /\ Outside' /\ [Flow!Next]_(Flow!vars)
  BY BoundedStep, OutsideStep, FlowStep
<1> QED
  BY <1>1, <1>2, PTL DEF Spec, FlowSpec, Flow!Spec

----------------------------------------------------------------------------
(* A number is written as its figures, and read back from them.            *)

Figures == ToSet(Digits)

(* The figures of the numbers up to n.                                     *)
Written(f, n) ==
  f = [k \in 0 .. n |-> IF k < 10 THEN <<Digits[k + 1]>> ELSE Append(f[k \div 10], Digits[(k % 10) + 1])]

LEMMA Tenths ==
  ASSUME NEW k \in Nat
  PROVE  /\ k \div 10 \in Nat /\ k % 10 \in 0 .. 9 /\ k = (k \div 10) * 10 + (k % 10)
         /\ k >= 10 => k \div 10 < k
OBVIOUS

LEMMA WrittenExists == ASSUME NEW n \in Nat PROVE \E f : Written(f, n)
<1> DEFINE Bad == {m \in Nat : ~ \E f : Written(f, m)}
<1>1. SUFFICES ASSUME Bad # {} PROVE FALSE
  OBVIOUS
<1>2. PICK m \in Bad : \A o \in Bad : m <= o
  BY <1>1, LeastNumber
<1>3. m # 0
  <2> DEFINE f == [k \in 0 .. 0 |-> <<Digits[k + 1]>>]
  <2>1. f = [k \in 0 .. 0 |-> IF k < 10 THEN <<Digits[k + 1]>> ELSE Append(f[k \div 10], Digits[(k % 10) + 1])]
    OBVIOUS
  <2>2. Written(f, 0)
    <3> HIDE DEF f
    <3> QED
      BY <2>1 DEF Written
  <2> QED
    BY <1>2, <2>2
<1>4. m \in Nat /\ m - 1 \in Nat /\ m - 1 \notin Bad
  BY <1>2, <1>3
<1>5. PICK f : Written(f, m - 1)
  BY <1>4
<1> DEFINE New(e, k) == IF k < 10 THEN <<Digits[k + 1]>> ELSE Append(e[k \div 10], Digits[(k % 10) + 1])
           g == [k \in 0 .. m |-> IF k = m THEN New(f, m) ELSE f[k]]
           h == [k \in 0 .. m |-> New(g, k)]
<1>6. ASSUME NEW k \in 0 .. m PROVE g[k] = h[k]
  <2>1. k >= 10 => k \div 10 \in 0 .. m - 1 /\ k \div 10 \in 0 .. m /\ k \div 10 # m
    BY <1>4, Tenths
  <2>2. k >= 10 => g[k \div 10] = f[k \div 10]
    BY <2>1
  <2>3. k # m => f[k] = New(f, k)
    <3>1. k # m => k \in 0 .. m - 1
      BY <1>4
    <3> QED
      BY <1>5, <3>1 DEF Written
  <2>4. g[k] = New(f, k)
    BY <2>3
  <2>5. ~(k >= 10) => k < 10
    OBVIOUS
  <2>6. New(f, k) = New(g, k)
    <3> HIDE DEF g
    <3> QED
      BY <2>2, <2>5
  <2> QED
    BY <2>4, <2>6
<1>7. g = h
  <2>1. g = [k \in 0 .. m |-> g[k]] /\ h = [k \in 0 .. m |-> h[k]]
    OBVIOUS
  <2> HIDE DEF g, h
  <2> QED
    BY <1>6, <2>1
<1>8. Written(g, m)
  <2> HIDE DEF g
  <2> QED
    BY <1>7 DEF Written
<1> QED
  BY <1>2, <1>8

LEMMA FormatIs ==
  ASSUME NEW n \in Nat
  PROVE  \E f : Written(f, n) /\ format_u64(n) = f[n]
<1> DEFINE f == CHOOSE g : g = [k \in 0 .. n |-> IF k < 10 THEN <<Digits[k + 1]>>
                                                 ELSE Append(g[k \div 10], Digits[(k % 10) + 1])]
<1>1. format_u64(n) = f[n]
  BY Zenon DEF format_u64
<1>2. \E g : g = [k \in 0 .. n |-> IF k < 10 THEN <<Digits[k + 1]>>
                                   ELSE Append(g[k \div 10], Digits[(k % 10) + 1])]
  BY WrittenExists DEF Written
<1>3. f = [k \in 0 .. n |-> IF k < 10 THEN <<Digits[k + 1]>> ELSE Append(f[k \div 10], Digits[(k % 10) + 1])]
  BY <1>2, Zenon
<1> HIDE DEF f
<1> QED
  BY <1>1, <1>3 DEF Written

(* The figures of a digit and of a longer number.                          *)
LEMMA FormatNext ==
  ASSUME NEW n \in Nat
  PROVE  format_u64(n) = IF n < 10 THEN <<Digits[n + 1]>> ELSE Append(format_u64(n \div 10), Digits[(n % 10) + 1])
<1>1. PICK f : Written(f, n) /\ format_u64(n) = f[n]
  BY FormatIs
<1>2. n \div 10 \in Nat /\ n \div 10 <= n
  BY Tenths
<1>3. PICK g : Written(g, n \div 10) /\ format_u64(n \div 10) = g[n \div 10]
  BY <1>2, FormatIs
<1>4. \A k \in 0 .. n \div 10 : f[k] = g[k]
  <2> DEFINE Bad == {k \in Nat : k <= n \div 10 /\ f[k] # g[k]}
  <2>1. SUFFICES ASSUME Bad # {} PROVE FALSE
    BY <1>2
  <2>2. PICK k \in Bad : \A o \in Bad : k <= o
    BY <2>1, LeastNumber
  <2>3. k \in 0 .. n \div 10 /\ k \in 0 .. n /\ k \in Nat
    BY <1>2, <2>2
  <2>4. f[k] = IF k < 10 THEN <<Digits[k + 1]>> ELSE Append(f[k \div 10], Digits[(k % 10) + 1])
    BY <1>1, <2>3 DEF Written
  <2>5. g[k] = IF k < 10 THEN <<Digits[k + 1]>> ELSE Append(g[k \div 10], Digits[(k % 10) + 1])
    BY <1>3, <2>3 DEF Written
  <2>6. k >= 10 => f[k \div 10] = g[k \div 10]
    <3> SUFFICES ASSUME k >= 10 PROVE f[k \div 10] = g[k \div 10]
      OBVIOUS
    <3>1. k \div 10 \in Nat /\ k \div 10 < k /\ k \div 10 <= n \div 10
      BY <1>2, <2>3, Tenths
    <3>2. k \div 10 \notin Bad
      BY <2>2, <2>3, <3>1
    <3> QED
      BY <3>1, <3>2
  <2>7. k < 10 \/ k >= 10
    BY <2>3
  <2> QED
    BY <2>2, <2>4, <2>5, <2>6, <2>7
<1>5. f[n] = IF n < 10 THEN <<Digits[n + 1]>> ELSE Append(f[n \div 10], Digits[(n % 10) + 1])
  <2>1. n \in 0 .. n
    OBVIOUS
  <2> QED
    BY <1>1, <2>1 DEF Written
<1>6. f[n \div 10] = format_u64(n \div 10)
  BY <1>2, <1>3, <1>4
<1> QED
  BY <1>1, <1>5, <1>6

LEMMA DigitsAre ==
  /\ \A k \in 0 .. 9 : Digits[k + 1] \in Figures /\ DigitOf[Digits[k + 1]] = k
  /\ "\n" \notin Figures /\ "\r" \notin Figures /\ " " \notin Figures
<1>1. Digits = <<"0", "1", "2", "3", "4", "5", "6", "7", "8", "9">>
  BY DEF Digits
<1>2. DOMAIN Digits = 1 .. 10 /\ \A k \in 0 .. 9 : k + 1 \in 1 .. 10
  BY <1>1
<1>3. \A k \in 0 .. 9 : Digits[k + 1] \in Figures
  BY <1>2 DEF Figures, ToSet
<1>4. Figures = {"0", "1", "2", "3", "4", "5", "6", "7", "8", "9"}
  <2>1. Figures = {Digits[i] : i \in 1 .. 10}
    BY <1>2 DEF Figures, ToSet
  <2>2. \A i \in 1 .. 10 : i \in {1, 2, 3, 4, 5, 6, 7, 8, 9, 10}
    OBVIOUS
  <2> QED
    BY <1>1, <2>1, <2>2
<1>5. ASSUME NEW k \in 0 .. 9, NEW j \in 0 .. 9, Digits[k + 1] = Digits[j + 1]
      PROVE  k = j
  <2>1. k \in {0, 1, 2, 3, 4, 5, 6, 7, 8, 9} /\ j \in {0, 1, 2, 3, 4, 5, 6, 7, 8, 9}
    OBVIOUS
  <2> QED
    BY <1>1, <1>5, <2>1
<1>6. ASSUME NEW k \in 0 .. 9 PROVE DigitOf[Digits[k + 1]] = k
  <2>1. DigitOf[Digits[k + 1]] = CHOOSE d \in 0 .. 9 : Digits[d + 1] = Digits[k + 1]
    BY <1>3 DEF DigitOf, Figures
  <2> DEFINE d == CHOOSE d \in 0 .. 9 : Digits[d + 1] = Digits[k + 1]
  <2>2. d \in 0 .. 9 /\ Digits[d + 1] = Digits[k + 1]
    OBVIOUS
  <2> HIDE DEF d
  <2> QED
    BY <1>5, <2>1, <2>2 DEF d
<1>7. "\n" \notin Figures /\ "\r" \notin Figures /\ " " \notin Figures
  BY <1>4
<1> QED
  BY <1>3, <1>6, <1>7

LEMMA NumberIs ==
  ASSUME NEW s, NEW n \in Nat, DOMAIN s = 1 .. n
  PROVE  \E f : Folded("digit", f, 0, s, n) /\ number_of(s) = f[1 .. n]
<1> DEFINE f == CHOOSE g : g = [t \in SUBSET DOMAIN s |->
                                  IF t = {} THEN 0 ELSE Shifted(g[t \ {Max(t)}], s[Max(t)])]
<1>1. number_of(s) = f[DOMAIN s]
  BY ZenonT(60) DEF number_of, FoldLeft, MapThenFoldSet, Shifted
<1>2. PICK h : Folded("digit", h, 0, s, n)
  BY FoldExists
<1>3. h = [t \in SUBSET DOMAIN s |-> IF t = {} THEN 0 ELSE Shifted(h[t \ {Max(t)}], s[Max(t)])]
  BY <1>2 DEF Folded, Taken
<1>4. f = [t \in SUBSET DOMAIN s |-> IF t = {} THEN 0 ELSE Shifted(f[t \ {Max(t)}], s[Max(t)])]
  BY <1>3, Zenon
<1> HIDE DEF f
<1> QED
  BY <1>1, <1>4 DEF Folded, Taken

LEMMA NumberEmpty == number_of(<<>>) = 0
<1>1. DOMAIN <<>> = 1 .. 0
  OBVIOUS
<1>2. PICK f : Folded("digit", f, 0, <<>>, 0) /\ number_of(<<>>) = f[1 .. 0]
  <2>1. 0 \in Nat
    OBVIOUS
  <2> QED
    BY ONLY <1>1, <2>1, NumberIs
<1> QED
  BY <1>2, FoldStart

LEMMA NumberNext ==
  ASSUME NEW s, NEW t, NEW n \in Nat, DOMAIN s = 1 .. n, DOMAIN t = 1 .. n + 1, \A i \in 1 .. n : s[i] = t[i]
  PROVE  number_of(t) = Shifted(number_of(s), t[n + 1])
<1>1. PICK f : Folded("digit", f, 0, s, n) /\ number_of(s) = f[1 .. n]
  BY NumberIs
<1>2. PICK g : Folded("digit", g, 0, t, n + 1) /\ number_of(t) = g[1 .. n + 1]
  <2>1. n + 1 \in Nat
    OBVIOUS
  <2> QED
    BY <2>1, NumberIs
<1>a. n + 1 \in Nat
  OBVIOUS
<1> DEFINE Bad == {m \in Nat : m <= n /\ f[1 .. m] # g[1 .. m]}
<1>3. Bad = {}
  <2>1. SUFFICES ASSUME Bad # {} PROVE FALSE
    OBVIOUS
  <2>2. PICK m \in Bad : \A o \in Bad : m <= o
    BY <2>1, LeastNumber
  <2>3. m # 0
    <3>1. f[1 .. 0] = 0
      BY <1>1, FoldStart
    <3>2. g[1 .. 0] = 0
      BY <1>a, <1>2, FoldStart
    <3> QED
      BY <2>2, <3>1, <3>2
  <2>4. PICK o \in Nat : o + 1 = m /\ o \notin Bad /\ o \in 0 .. n - 1 /\ o \in 0 .. (n + 1) - 1
    <3>1. m - 1 \in Nat /\ (m - 1) + 1 = m /\ m - 1 \notin Bad
      BY <2>2, <2>3
    <3> QED
      BY <2>2, <3>1
  <2>5. f[1 .. o] = g[1 .. o]
    BY <2>2, <2>4
  <2>6. f[1 .. o + 1] = Taken("digit", f[1 .. o], s[o + 1])
    BY ONLY <1>1, <2>4, n \in Nat, FoldStep
  <2>7. g[1 .. o + 1] = Taken("digit", g[1 .. o], t[o + 1])
    BY ONLY <1>a, <1>2, <2>4, FoldStep
  <2>8. s[m] = t[m]
    BY <2>2, <2>3
  <2> QED
    BY <2>2, <2>4, <2>5, <2>6, <2>7, <2>8
<1>4. f[1 .. n] = g[1 .. n]
  <2>1. n \notin Bad /\ n <= n
    BY <1>3
  <2> QED
    BY <2>1
<1>5. g[1 .. n + 1] = Taken("digit", g[1 .. n], t[n + 1])
  <2>1. n \in 0 .. (n + 1) - 1
    OBVIOUS
  <2> QED
    BY <1>2, <2>1, FoldStep
<1> QED
  BY <1>1, <1>2, <1>4, <1>5 DEF Taken

(* A number of 16 bits is read as it was written.                          *)
Fits(n) == n < Word

LEMMA FitsWord == ASSUME NEW n \in Nat, Fits(n) PROVE n % Word = n
BY SMT DEF Fits, Word

LEMMA FitsLess == ASSUME NEW n \in Nat, Fits(n), NEW m \in Nat, m <= n PROVE Fits(m)
BY SMT DEF Fits, Word

(* The figures of n; those of the number that ends with one digit more.    *)
Spells(t, n) == t \in Seq(Figures) /\ number_of(t) = n
OneMore(n, v, d) == n = v * 10 + d

LEMMA OneFigure ==
  ASSUME NEW s, NEW v, Spells(s, v), NEW d \in 0 .. 9, NEW n \in Nat, Fits(n), OneMore(n, v, d)
  PROVE  Spells(Append(s, Digits[d + 1]), n)
<1> DEFINE t == Append(s, Digits[d + 1])
<1> DEFINE c == Digits[d + 1]
<1>1. c \in Figures /\ DigitOf[c] = d /\ s \in Seq(Figures) /\ number_of(s) = v /\ n = v * 10 + d
  BY DigitsAre DEF Spells, OneMore
<1>2. t = Append(s, c)
  OBVIOUS
<1> HIDE DEF c, t
<1>3. /\ t \in Seq(Figures) /\ Len(s) \in Nat /\ DOMAIN s = 1 .. Len(s)
      /\ DOMAIN t = 1 .. Len(s) + 1 /\ t[Len(s) + 1] = c /\ \A i \in 1 .. Len(s) : s[i] = t[i]
  BY <1>1, <1>2
<1>4. number_of(t) = Shifted(number_of(s), c)
  <2>1. number_of(t) = Shifted(number_of(s), t[Len(s) + 1])
    BY <1>3, NumberNext
  <2> QED
    BY <1>3, <2>1
<1>5. Shifted(number_of(s), c) = n % Word
  BY <1>1 DEF Shifted
<1>6. n % Word = n
  BY FitsWord
<1> QED
  BY <1>3, <1>4, <1>5, <1>6 DEF Spells, t

LEMMA ReadsWritten == ASSUME NEW n \in Nat, Fits(n) PROVE Spells(format_u64(n), n) /\ format_u64(n) # <<>>
<1> DEFINE Good(m) == Spells(format_u64(m), m) /\ format_u64(m) # <<>>
           Bad == {m \in Nat : Fits(m) /\ ~Good(m)}
<1>1. SUFFICES ASSUME Bad # {} PROVE FALSE
  OBVIOUS
<1>2. PICK m \in Bad : \A o \in Bad : m <= o
  BY <1>1, LeastNumber
<1>3. /\ m \in Nat /\ Fits(m) /\ m % 10 \in 0 .. 9 /\ m \div 10 \in Nat /\ m = (m \div 10) * 10 + (m % 10)
      /\ m >= 10 => m \div 10 < m
  BY <1>2, Tenths
<1>4. format_u64(m) = IF m < 10 THEN <<Digits[m + 1]>> ELSE Append(format_u64(m \div 10), Digits[(m % 10) + 1])
  BY <1>3, FormatNext
<1>5. ASSUME NEW s, NEW v, Spells(s, v), NEW d \in 0 .. 9, OneMore(m, v, d), format_u64(m) = Append(s, Digits[d + 1])
      PROVE  FALSE
  <2>1. Spells(Append(s, Digits[d + 1]), m)
    BY <1>3, <1>5, OneFigure
  <2>2. format_u64(m) # <<>>
    BY <1>5 DEF Spells
  <2>3. Good(m)
    BY <1>5, <2>1, <2>2
  <2> QED
    BY <1>2, <2>3
<1>6. CASE m < 10
  <2>1. m \in 0 .. 9 /\ OneMore(m, 0, m)
    BY <1>3, <1>6 DEF OneMore
  <2>2. Spells(<<>>, 0) /\ Append(<<>>, Digits[m + 1]) = <<Digits[m + 1]>>
    BY NumberEmpty DEF Spells
  <2>3. format_u64(m) = Append(<<>>, Digits[m + 1])
    BY <1>4, <1>6, <2>2
  <2> QED
    BY <1>5, <2>1, <2>2, <2>3
<1>7. CASE m >= 10
  <2>1. m \div 10 \notin Bad /\ m \div 10 <= m
    BY <1>2, <1>3, <1>7
  <2>2. Good(m \div 10)
    BY <1>3, <2>1, FitsLess
  <2>3. format_u64(m) = Append(format_u64(m \div 10), Digits[(m % 10) + 1])
    BY <1>3, <1>4, <1>7
  <2>4. OneMore(m, m \div 10, m % 10)
    BY <1>3 DEF OneMore
  <2> QED
    BY <1>3, <1>5, <2>2, <2>3, <2>4
<1> QED
  BY <1>3, <1>6, <1>7

----------------------------------------------------------------------------
(* The text of a file: sequences, one behind the other.                    *)

(* The first n sequences of ss, one behind the other.                      *)
Flattened(f, ss, n) == f = [i \in 1 .. n |-> IF i = 1 THEN ss[i] ELSE f[i - 1] \o ss[i]]

LEMMA FlatExists == ASSUME NEW ss, NEW n \in Nat PROVE \E f : Flattened(f, ss, n)
<1> DEFINE Bad == {m \in Nat : ~ \E f : Flattened(f, ss, m)}
<1>1. SUFFICES ASSUME Bad # {} PROVE FALSE
  OBVIOUS
<1>2. PICK m \in Bad : \A o \in Bad : m <= o
  BY <1>1, LeastNumber
<1>3. m # 0
  <2>1. Flattened(<<>>, ss, 0)
    <3>1. 1 .. 0 = {}
      OBVIOUS
    <3> QED
      BY <3>1 DEF Flattened
  <2> QED
    BY <1>2, <2>1
<1>4. m \in Nat /\ m - 1 \in Nat /\ m - 1 \notin Bad
  BY <1>2, <1>3
<1>5. PICK f : Flattened(f, ss, m - 1)
  BY <1>4
<1> DEFINE g == [i \in 1 .. m |-> IF i = m THEN IF m = 1 THEN ss[m] ELSE f[m - 1] \o ss[m] ELSE f[i]]
           h == [i \in 1 .. m |-> IF i = 1 THEN ss[i] ELSE g[i - 1] \o ss[i]]
<1>6. ASSUME NEW i \in 1 .. m PROVE g[i] = h[i]
  <2>1. i # 1 => i - 1 \in 1 .. m - 1 /\ g[i - 1] = f[i - 1]
    BY <1>4
  <2>2. i # m => f[i] = IF i = 1 THEN ss[i] ELSE f[i - 1] \o ss[i]
    <3> SUFFICES ASSUME i # m PROVE f[i] = IF i = 1 THEN ss[i] ELSE f[i - 1] \o ss[i]
      OBVIOUS
    <3>1. i \in 1 .. m - 1
      BY <1>4
    <3> QED
      BY <1>5, <3>1 DEF Flattened
  <2> QED
    BY <2>1, <2>2
<1>7. g = h
  <2>1. g = [i \in 1 .. m |-> g[i]] /\ h = [i \in 1 .. m |-> h[i]]
    OBVIOUS
  <2> HIDE DEF g, h
  <2> QED
    BY <1>6, <2>1
<1>8. Flattened(g, ss, m)
  <2> HIDE DEF g
  <2> QED
    BY <1>7 DEF Flattened
<1> QED
  BY <1>2, <1>8

LEMMA FlattenIs ==
  ASSUME NEW ss, Len(ss) \in Nat, Len(ss) # 0
  PROVE  \E f : Flattened(f, ss, Len(ss)) /\ FlattenSeq(ss) = f[Len(ss)]
<1> DEFINE f == CHOOSE g : g = [i \in 1 .. Len(ss) |-> IF i = 1 THEN ss[i] ELSE g[i - 1] \o ss[i]]
<1>1. FlattenSeq(ss) = f[Len(ss)]
  BY Zenon DEF FlattenSeq
<1>2. \E g : g = [i \in 1 .. Len(ss) |-> IF i = 1 THEN ss[i] ELSE g[i - 1] \o ss[i]]
  BY FlatExists DEF Flattened
<1>3. f = [i \in 1 .. Len(ss) |-> IF i = 1 THEN ss[i] ELSE f[i - 1] \o ss[i]]
  BY <1>2, Zenon
<1> HIDE DEF f
<1> QED
  BY <1>1, <1>3 DEF Flattened

(* P marks where in D the first n sequences of ss start, and D ends.       *)
Spot(p, j) == p + j - 1
Marked(P, ss, n, D) ==
  /\ P \in [1 .. n + 1 -> Nat] /\ P[1] = 1 /\ Len(D) \in Nat /\ P[n + 1] = Len(D) + 1
  /\ \A k \in 1 .. n : P[k + 1] = P[k] + Len(ss[k]) /\ P[k + 1] <= P[n + 1]
  /\ \A k \in 1 .. n : \A j \in 1 .. Len(ss[k]) : D[Spot(P[k], j)] = ss[k][j]

LEMMA SpotIn ==
  ASSUME NEW p \in Nat, p >= 1, NEW l \in Nat, NEW j \in 1 .. l, NEW n \in Nat, p + l <= n + 1
  PROVE  Spot(p, j) \in 1 .. n
BY DEF Spot

LEMMA MarksNext ==
  ASSUME NEW C, NEW ss, NEW m \in Nat, NEW D \in Seq(C), NEW P, Marked(P, ss, m, D), ss[m + 1] \in Seq(C),
         \A k \in 1 .. m : Len(ss[k]) \in Nat
  PROVE  D \o ss[m + 1] \in Seq(C) /\ \E Q : Marked(Q, ss, m + 1, D \o ss[m + 1])
<1> DEFINE x == ss[m + 1]
           E == D \o x
           Q == [k \in 1 .. m + 2 |-> IF k = m + 2 THEN P[m + 1] + Len(x) ELSE P[k]]
<1>1. /\ x \in Seq(C) /\ Len(x) \in Nat /\ P \in [1 .. m + 1 -> Nat] /\ P[1] = 1 /\ Len(D) \in Nat
      /\ P[m + 1] = Len(D) + 1
      /\ \A k \in 1 .. m : P[k + 1] = P[k] + Len(ss[k]) /\ P[k + 1] <= P[m + 1]
  BY DEF Marked
<1>2. /\ E \in Seq(C) /\ Len(E) = Len(D) + Len(x)
      /\ \A i \in 1 .. Len(D) : E[i] = D[i]
      /\ \A j \in 1 .. Len(x) : E[Len(D) + j] = x[j]
  <2> HIDE DEF x
  <2> QED
    BY <1>1
<1>3. ASSUME NEW k \in 1 .. m, NEW j \in 1 .. Len(ss[k])
      PROVE  E[Spot(P[k], j)] = ss[k][j]
  <2> HIDE DEF x, E, Q
  <2>1. P[k] \in Nat /\ k \in 1 .. m + 1 /\ Len(ss[k]) \in Nat /\ P[k] + Len(ss[k]) <= Len(D) + 1
    BY <1>1
  <2>2. P[k] >= 1
    <3>1. k = 1 \/ k - 1 \in 1 .. m
      OBVIOUS
    <3> DEFINE Bad == {i \in Nat : i \in 1 .. m /\ P[i] < 1}
    <3>2. SUFFICES ASSUME Bad # {} PROVE FALSE
      BY <2>1
    <3>3. PICK i \in Bad : \A o \in Bad : i <= o
      BY <3>2, LeastNumber
    <3>4. i # 1 /\ i - 1 \in 1 .. m /\ i - 1 \notin Bad /\ (i - 1) + 1 = i
      <4>1. i \in Nat /\ i \in 1 .. m /\ P[i] < 1
        BY <3>3
      <4>0. P[1] = 1
        BY <1>1
      <4>2. i # 1
        BY ONLY <4>0, <4>1
      <4>3. i - 1 \in Nat /\ i - 1 \in 1 .. m /\ (i - 1) + 1 = i /\ ~(i <= i - 1)
        BY ONLY m \in Nat, <4>1, <4>2
      <4> HIDE DEF Bad
      <4>4. i - 1 \notin Bad
        BY <3>3, <4>3, Zenon
      <4> QED
        BY <4>2, <4>3, <4>4, Zenon
    <3>5. P[i] = P[i - 1] + Len(ss[i - 1]) /\ P[i - 1] \in Nat /\ Len(ss[i - 1]) \in Nat /\ P[i - 1] >= 1
      <4>1. P[(i - 1) + 1] = P[i - 1] + Len(ss[i - 1])
        BY <1>1, <3>4
      <4>2. i - 1 \in 1 .. m + 1
        BY <3>4
      <4> QED
        BY <1>1, <3>4, <4>1, <4>2
    <3> QED
      BY <3>3, <3>5
  <2>3. Spot(P[k], j) \in 1 .. Len(D)
    BY <1>1, <2>1, <2>2, SpotIn
  <2>4. D[Spot(P[k], j)] = ss[k][j]
    BY DEF Marked
  <2> QED
    BY <1>2, <2>3, <2>4
<1>4. ASSUME NEW j \in 1 .. Len(x) PROVE E[Spot(P[m + 1], j)] = x[j]
  <2> HIDE DEF x, E, Q
  <2>1. Spot(P[m + 1], j) = Len(D) + j
    BY <1>1 DEF Spot
  <2> QED
    BY <1>2, <2>1
<1>5. /\ Q \in [1 .. (m + 1) + 1 -> Nat] /\ Q[1] = 1 /\ Q[(m + 1) + 1] = Len(E) + 1
      /\ Q[m + 1] = P[m + 1] /\ \A k \in 1 .. m + 1 : Q[k] = P[k]
  <2>1. (m + 1) + 1 = m + 2 /\ m + 2 \in 1 .. m + 2 /\ m + 1 \in 1 .. m + 1 /\ 1 \in 1 .. m + 1
        /\ P[m + 1] + Len(x) = Len(E) + 1 /\ Len(E) + 1 \in Nat
    <3> HIDE DEF x, E, Q
    <3> QED
      BY <1>1, <1>2
  <2>2. \A k \in 1 .. m + 2 : k # m + 2 => k \in 1 .. m + 1
    OBVIOUS
  <2>3. \A k \in 1 .. m + 1 : k \in 1 .. m + 2 /\ k # m + 2
    OBVIOUS
  <2> HIDE DEF x, E
  <2> QED
    BY <1>1, <2>1, <2>2, <2>3
<1>6. ASSUME NEW k \in 1 .. m + 1
      PROVE  Q[k + 1] = Q[k] + Len(ss[k]) /\ Q[k + 1] <= Q[(m + 1) + 1]
  <2>1. CASE k = m + 1
    <3>1. Q[k + 1] = Len(E) + 1 /\ Q[k] = Len(D) + 1 /\ ss[k] = x
      BY <1>1, <1>5, <2>1
    <3>2. Len(E) = Len(D) + Len(x) /\ Len(D) \in Nat /\ Len(x) \in Nat /\ Q[(m + 1) + 1] = Len(E) + 1
      BY <1>1, <1>2, <1>5
    <3> HIDE DEF x, E, Q
    <3> QED
      BY ONLY <3>1, <3>2
  <2>2. CASE k # m + 1
    <3>1. k \in 1 .. m /\ k + 1 \in 1 .. m + 1
      BY <2>2
    <3>2. Q[k + 1] = P[k + 1] /\ Q[k] = P[k] /\ P[k + 1] = P[k] + Len(ss[k]) /\ P[k + 1] <= P[m + 1]
          /\ P[k + 1] \in Nat /\ P[m + 1] <= Len(E) + 1
      <4> HIDE DEF Q, E, x
      <4>1. k \in 1 .. m + 1 /\ Q[k + 1] = P[k + 1] /\ Q[k] = P[k]
        BY ONLY m \in Nat, k \in 1 .. m + 1, <1>5, <3>1
      <4>2. P[k + 1] = P[k] + Len(ss[k]) /\ P[k + 1] <= P[m + 1] /\ P[k + 1] \in Nat
        BY ONLY <1>1, <3>1
      <4>3. P[m + 1] <= Len(E) + 1
        BY ONLY <1>1, <1>2
      <4> QED
        BY <4>1, <4>2, <4>3, Zenon
    <3>3. Q[(m + 1) + 1] = Len(E) + 1 /\ Len(E) \in Nat /\ P[m + 1] \in Nat
      <4> HIDE DEF Q, E, x
      <4> QED
        BY <1>1, <1>2, <1>5
    <3> HIDE DEF Q, E
    <3> QED
      BY ONLY <3>2, <3>3
  <2> QED
    BY <2>1, <2>2
<1>7. ASSUME NEW k \in 1 .. m + 1, NEW j \in 1 .. Len(ss[k])
      PROVE  E[Spot(Q[k], j)] = ss[k][j]
  <2>1. Q[k] = P[k]
    BY <1>5
  <2>2. k = m + 1 \/ k \in 1 .. m
    OBVIOUS
  <2> HIDE DEF Q, E
  <2> QED
    BY <1>3, <1>4, <2>1, <2>2
<1>8. Marked(Q, ss, m + 1, E)
  <2>1. Len(E) \in Nat
    BY <1>1, <1>2
  <2> HIDE DEF Q, E
  <2> QED
    BY <1>5, <1>6, <1>7, <2>1 DEF Marked
<1> QED
  BY <1>2, <1>8

LEMMA NothingFlat == FlattenSeq(<<>>) = <<>>
<1>1. Len(<<>>) = 0
  OBVIOUS
<1> QED
  BY <1>1, Zenon DEF FlattenSeq

LEMMA MarksExist ==
  ASSUME NEW C, NEW ss \in Seq(Seq(C))
  PROVE  FlattenSeq(ss) \in Seq(C) /\ \E P : Marked(P, ss, Len(ss), FlattenSeq(ss))
<1> DEFINE n == Len(ss)
<1>1. n \in Nat /\ \A i \in 1 .. n : ss[i] \in Seq(C) /\ Len(ss[i]) \in Nat
  OBVIOUS
<1> HIDE DEF n
<1>2. <<>> \in Seq(C) /\ Marked([k \in 1 .. 1 |-> 1], ss, 0, <<>>)
  BY DEF Marked
<1>3. CASE n = 0
  <2>1. ss = <<>>
    BY <1>3 DEF n
  <2> QED
    BY <1>2, <1>3, <2>1, NothingFlat DEF n
<1>4. CASE n # 0
  <2>1. PICK f : Flattened(f, ss, n) /\ FlattenSeq(ss) = f[n]
    BY <1>1, <1>4, FlattenIs DEF n
  <2> DEFINE D(m) == IF m = 0 THEN <<>> ELSE f[m]
             Good(m) == D(m) \in Seq(C) /\ \E P : Marked(P, ss, m, D(m))
             Bad == {m \in Nat : m <= n /\ ~Good(m)}
  <2>2. Bad = {}
    <3>1. SUFFICES ASSUME Bad # {} PROVE FALSE
      OBVIOUS
    <3>2. PICK m \in Bad : \A o \in Bad : m <= o
      BY <3>1, LeastNumber
    <3>3. m # 0
      <4>1. D(0) = <<>>
        OBVIOUS
      <4>2. Good(0)
        <5> HIDE DEF D
        <5> QED
          BY <1>2, <4>1
      <4> QED
        BY <3>2, <4>2
    <3>4. PICK o \in Nat : o + 1 = m /\ o \notin Bad /\ o + 1 \in 1 .. n
      <4> HIDE DEF Good
      <4>1. m - 1 \in Nat /\ (m - 1) + 1 = m /\ m - 1 \notin Bad
        BY <3>2, <3>3
      <4> QED
        BY <1>1, <3>2, <3>3, <4>1
    <3>5. Good(o)
      <4> HIDE DEF Good
      <4>1. o <= n
        BY <1>1, <3>4
      <4> QED
        BY <3>4, <4>1
    <3>6. D(o + 1) = D(o) \o ss[o + 1]
      <4>1. f[o + 1] = IF o + 1 = 1 THEN ss[o + 1] ELSE f[(o + 1) - 1] \o ss[o + 1]
        BY <2>1, <3>4 DEF Flattened
      <4>2. (o + 1) - 1 = o /\ (o + 1 = 1 <=> o = 0) /\ o + 1 # 0
        OBVIOUS
      <4>3. ss[o + 1] \in Seq(C)
        BY <1>1, <3>4
      <4>4. <<>> \o ss[o + 1] = ss[o + 1]
        BY <4>3
      <4> QED
        BY <4>1, <4>2, <4>4
    <3> DEFINE d == D(o)
    <3>7. PICK P : Marked(P, ss, o, d)
      BY <3>5
    <3>8. d \in Seq(C)
      BY <3>5
    <3>9. ss[o + 1] \in Seq(C) /\ \A k \in 1 .. o : Len(ss[k]) \in Nat
      BY <1>1, <3>4
    <3> HIDE DEF d
    <3>10. d \o ss[o + 1] \in Seq(C) /\ \E Q : Marked(Q, ss, o + 1, d \o ss[o + 1])
      BY ONLY <3>7, <3>8, <3>9, o \in Nat, MarksNext
    <3>11. D(o + 1) = d \o ss[o + 1]
      <4> HIDE DEF D
      <4> QED
        BY <3>6 DEF d
    <3>12. Good(o + 1)
      <4> HIDE DEF D
      <4> QED
        BY <3>10, <3>11
    <3> HIDE DEF Good
    <3> QED
      BY <3>2, <3>4, <3>12
  <2>3. Good(n)
    <3> HIDE DEF Good
    <3>1. n <= n
      BY <1>1
    <3> QED
      BY <1>1, <2>2, <3>1
  <2>4. D(n) = FlattenSeq(ss)
    BY <1>4, <2>1
  <2> HIDE DEF D
  <2> QED
    BY <2>3, <2>4 DEF n
<1> QED
  BY <1>3, <1>4

----------------------------------------------------------------------------
(* Reading a file.                                                         *)

Newline == {"\n", "\r"}
Until(data, i, S) == Min({j \in i .. Len(data) + 1 : j > Len(data) \/ data[j] \in S})

(* e is where the characters of S that start at i end; or, up to.          *)
Ends(data, i, S, e) ==
  /\ e \in i .. Len(data) + 1
  /\ \A j \in i .. e - 1 : data[j] \in S
  /\ e > Len(data) \/ data[e] \notin S
Reaches(data, i, S, e) ==
  /\ e \in i .. Len(data) + 1
  /\ \A j \in i .. e - 1 : data[j] \notin S
  /\ e > Len(data) \/ data[e] \in S

LEMMA MinIs ==
  ASSUME NEW S \in SUBSET Nat, NEW e \in S, \A j \in S : e <= j
  PROVE  Min(S) = e
<1>1. \A x \in S : (\A y \in S : x <= y) => x = e
  <2> SUFFICES ASSUME NEW x \in S, \A y \in S : x <= y PROVE x = e
    OBVIOUS
  <2>1. x <= e /\ e <= x /\ x \in Nat /\ e \in Nat
    OBVIOUS
  <2> QED
    BY <2>1
<1>2. Min(S) \in S /\ \A y \in S : Min(S) <= y
  BY DEF Min
<1> QED
  BY <1>1, <1>2

LEMMA EndOfIs ==
  ASSUME NEW data, Len(data) \in Nat, NEW i \in Nat, NEW S, NEW e, Ends(data, i, S, e)
  PROVE  EndOf(data, i, S) = e
<1> DEFINE T == {j \in i .. Len(data) + 1 : j > Len(data) \/ data[j] \notin S}
<1>1. T \in SUBSET Nat /\ e \in T /\ e \in Nat
  BY DEF Ends
<1>2. ASSUME NEW j \in T PROVE e <= j
  <2>1. SUFFICES ASSUME j < e PROVE FALSE
    BY <1>1
  <2>2. j \in i .. e - 1 /\ j <= Len(data)
    BY <1>1, <2>1 DEF Ends
  <2>3. data[j] \in S /\ ~(j > Len(data))
    BY <2>2 DEF Ends
  <2> QED
    BY <2>3
<1> HIDE DEF T
<1>3. Min(T) = e
  BY <1>1, <1>2, MinIs
<1> QED
  BY <1>3 DEF EndOf, T

LEMMA UntilIs ==
  ASSUME NEW data, Len(data) \in Nat, NEW i \in Nat, NEW S, NEW e, Reaches(data, i, S, e)
  PROVE  Until(data, i, S) = e
<1> DEFINE T == {j \in i .. Len(data) + 1 : j > Len(data) \/ data[j] \in S}
<1>1. T \in SUBSET Nat /\ e \in T /\ e \in Nat
  BY DEF Reaches
<1>2. ASSUME NEW j \in T PROVE e <= j
  <2>1. SUFFICES ASSUME j < e PROVE FALSE
    BY <1>1
  <2>2. j \in i .. e - 1 /\ j <= Len(data)
    BY <1>1, <2>1 DEF Reaches
  <2>3. data[j] \notin S /\ ~(j > Len(data))
    BY <2>2 DEF Reaches
  <2> QED
    BY <2>3
<1> HIDE DEF T
<1>3. Min(T) = e
  BY <1>1, <1>2, MinIs
<1> QED
  BY <1>3 DEF Until, T

LEMMA EndOfEnds ==
  ASSUME NEW data, Len(data) \in Nat, NEW i \in 1 .. Len(data) + 1, NEW S
  PROVE  Ends(data, i, S, EndOf(data, i, S))
<1> DEFINE T == {j \in i .. Len(data) + 1 : j > Len(data) \/ data[j] \notin S}
<1>1. T \in SUBSET Nat /\ Len(data) + 1 \in T
  OBVIOUS
<1>2. PICK e \in T : \A o \in T : e <= o
  <2> HIDE DEF T
  <2> QED
    BY <1>1, LeastNumber
<1>3. \A j \in i .. e - 1 : data[j] \in S
  <2> SUFFICES ASSUME NEW j \in i .. e - 1 PROVE data[j] \in S
    OBVIOUS
  <2>1. e \in Nat /\ e <= Len(data) + 1 /\ i \in Nat
    BY <1>1, <1>2
  <2>2. j \in i .. Len(data) + 1 /\ ~(e <= j)
    BY <2>1
  <2>3. j \notin T
    <3> HIDE DEF T
    <3> QED
      BY <1>2, <2>2
  <2> QED
    BY <2>2, <2>3
<1>4. Ends(data, i, S, e)
  BY <1>2, <1>3 DEF Ends
<1> QED
  BY <1>4, EndOfIs

LEMMA UntilReaches ==
  ASSUME NEW data, Len(data) \in Nat, NEW i \in 1 .. Len(data) + 1, NEW S
  PROVE  Reaches(data, i, S, Until(data, i, S))
<1> DEFINE T == {j \in i .. Len(data) + 1 : j > Len(data) \/ data[j] \in S}
<1>1. T \in SUBSET Nat /\ Len(data) + 1 \in T
  OBVIOUS
<1>2. PICK e \in T : \A o \in T : e <= o
  <2> HIDE DEF T
  <2> QED
    BY <1>1, LeastNumber
<1>3. \A j \in i .. e - 1 : data[j] \notin S
  <2> SUFFICES ASSUME NEW j \in i .. e - 1 PROVE data[j] \notin S
    OBVIOUS
  <2>1. e \in Nat /\ e <= Len(data) + 1 /\ i \in Nat
    BY <1>1, <1>2
  <2>2. j \in i .. Len(data) + 1 /\ ~(e <= j)
    BY <2>1
  <2>3. j \notin T
    <3> HIDE DEF T
    <3> QED
      BY <1>2, <2>2
  <2> QED
    BY <2>2, <2>3
<1>4. Reaches(data, i, S, e)
  BY <1>2, <1>3 DEF Reaches
<1> QED
  BY <1>4, UntilIs

(* The parts of the line that is read from i on.                           *)
First(data, i) == EndOf(data, i, Newline \cup {" "})
Past(data, i)  == EndOf(data, First(data, i), Figures)
Words(data, i) == EndOf(data, Past(data, i), {" "})
Stop(data, i)  == Until(data, Words(data, i), Newline)
LineRead(data, i) ==
  [number |-> number_of(SubSeq(data, First(data, i), Past(data, i) - 1)),
   stmt   |-> SubSeq(data, Words(data, i), Stop(data, i) - 1)]

ReadFrom(f, data, i) ==
  IF First(data, i) > Len(data) THEN <<>>
  ELSE IF Words(data, i) = Stop(data, i) THEN f[Stop(data, i)]
  ELSE <<LineRead(data, i)>> \o f[Stop(data, i)]

(* What is read from each of the last places on.                           *)
ReadingTo(f, data, k) ==
  f = [i \in (Len(data) + 1) - k .. Len(data) + 1 |-> ReadFrom(f, data, i)]

LEMMA StopAfter ==
  ASSUME NEW data, Len(data) \in Nat, NEW i \in 1 .. Len(data) + 1, ~(First(data, i) > Len(data))
  PROVE  Stop(data, i) \in i + 1 .. Len(data) + 1
<1> DEFINE a == First(data, i)
           b == Past(data, i)
           c == Words(data, i)
           d == Stop(data, i)
           Blank == Newline \cup {" "}
<1>1. Ends(data, i, Blank, a)
  BY EndOfEnds DEF First
<1>2. a \in i .. Len(data) + 1 /\ a \in 1 .. Len(data) + 1
  <2> HIDE DEF a, Blank
  <2> QED
    BY <1>1 DEF Ends
<1>3. Ends(data, a, Figures, b)
  <2> HIDE DEF a
  <2> QED
    BY <1>2, EndOfEnds DEF Past, a
<1>4. b \in a .. Len(data) + 1 /\ b \in 1 .. Len(data) + 1
  <2> HIDE DEF b, a
  <2> QED
    BY <1>2, <1>3 DEF Ends
<1>5. Ends(data, b, {" "}, c)
  <2> HIDE DEF b
  <2> QED
    BY <1>4, EndOfEnds DEF Words, b
<1>6. c \in b .. Len(data) + 1 /\ c \in 1 .. Len(data) + 1
  <2> HIDE DEF c, b
  <2>1. c \in b .. Len(data) + 1
    BY <1>5 DEF Ends
  <2> QED
    BY <1>4, <2>1
<1>7. Reaches(data, c, Newline, d)
  <2> HIDE DEF c
  <2> QED
    BY <1>6, UntilReaches DEF Stop, c
<1>8. d \in c .. Len(data) + 1
  BY <1>7 DEF Reaches
<1>9. data[a] \notin Newline /\ ~(a > Len(data))
  BY <1>1 DEF Ends
<1>10. d # a
  BY <1>7, <1>9 DEF Reaches
<1> HIDE DEF a, b, c, d
<1>11. d \in i + 1 .. Len(data) + 1
  BY <1>2, <1>4, <1>6, <1>8, <1>10
<1> QED
  BY <1>11 DEF d

LEMMA NothingLeft ==
  ASSUME NEW data, Len(data) \in Nat
  PROVE  First(data, Len(data) + 1) > Len(data)
<1>1. Ends(data, Len(data) + 1, Newline \cup {" "}, First(data, Len(data) + 1))
  <2>1. Len(data) + 1 \in 1 .. Len(data) + 1
    OBVIOUS
  <2> QED
    BY <2>1, EndOfEnds DEF First
<1>2. First(data, Len(data) + 1) \in Len(data) + 1 .. Len(data) + 1
  BY <1>1 DEF Ends
<1> QED
  BY <1>2

LEMMA ReadingExists ==
  ASSUME NEW data, Len(data) \in Nat, NEW n \in 0 .. Len(data)
  PROVE  \E f : ReadingTo(f, data, n)
<1> DEFINE e == Len(data) + 1
           Bad == {k \in Nat : k <= Len(data) /\ ~ \E f : ReadingTo(f, data, k)}
<1>1. SUFFICES ASSUME Bad # {} PROVE FALSE
  OBVIOUS
<1>2. PICK k \in Bad : \A o \in Bad : k <= o
  BY <1>1, LeastNumber
<1>3. k # 0
  <2> DEFINE f == [i \in e - 0 .. e |-> <<>>]
  <2>1. \A i \in e - 0 .. e : i = Len(data) + 1
    OBVIOUS
  <2>2. \A i \in e - 0 .. e : ReadFrom(f, data, i) = <<>>
    <3> HIDE DEF f
    <3> QED
      BY <2>1, NothingLeft DEF ReadFrom
  <2>3. ReadingTo(f, data, 0)
    <3>1. f = [i \in e - 0 .. e |-> ReadFrom(f, data, i)]
      BY <2>2
    <3> HIDE DEF f
    <3> QED
      BY <3>1 DEF ReadingTo
  <2> QED
    BY <1>2, <2>3
<1>4. PICK o \in Nat : o + 1 = k /\ o \notin Bad /\ o < Len(data)
  <2>1. k - 1 \in Nat /\ (k - 1) + 1 = k /\ k - 1 \notin Bad
    BY <1>2, <1>3
  <2> QED
    BY <1>2, <2>1
<1>5. PICK f : ReadingTo(f, data, o)
  BY <1>4
<1> DEFINE a == e - k
           g == [i \in a .. e |-> IF i = a THEN ReadFrom(f, data, a) ELSE f[i]]
           h == [i \in a .. e |-> ReadFrom(g, data, i)]
<1>6. a \in 1 .. e /\ e - o = a + 1
  BY <1>2, <1>4
<1>7. ASSUME NEW i \in a .. e PROVE g[i] = h[i]
  <2>1. i # a => i \in e - o .. e
    BY <1>6
  <2>2. i # a => f[i] = ReadFrom(f, data, i)
    BY <1>5, <2>1 DEF ReadingTo
  <2>3. g[i] = ReadFrom(f, data, i)
    <3> HIDE DEF a
    <3> QED
      BY <2>2
  <2>4. ReadFrom(g, data, i) = ReadFrom(f, data, i)
    <3>1. CASE First(data, i) > Len(data)
      BY <3>1 DEF ReadFrom
    <3>2. CASE ~(First(data, i) > Len(data))
      <4>1. i \in 1 .. Len(data) + 1
        BY <1>6
      <4>2. Stop(data, i) \in i + 1 .. Len(data) + 1
        BY <3>2, <4>1, StopAfter
      <4>3. Stop(data, i) \in a .. e /\ Stop(data, i) # a
        BY <1>6, <4>1, <4>2
      <4>4. g[Stop(data, i)] = f[Stop(data, i)]
        <5> HIDE DEF a, e
        <5> QED
          BY <4>3
      <4> HIDE DEF g
      <4> QED
        BY <4>4 DEF ReadFrom
    <3> QED
      BY <3>1, <3>2
  <2>5. h[i] = ReadFrom(g, data, i)
    <3> HIDE DEF g, a
    <3> QED
      OBVIOUS
  <2> HIDE DEF g, h
  <2> QED
    BY <2>3, <2>4, <2>5
<1>8. g = h
  <2>1. g = [i \in a .. e |-> g[i]] /\ h = [i \in a .. e |-> h[i]]
    OBVIOUS
  <2> HIDE DEF g, h
  <2> QED
    BY <1>7, <2>1
<1>9. ReadingTo(g, data, k)
  <2> HIDE DEF g
  <2> QED
    BY <1>8 DEF ReadingTo
<1> QED
  BY <1>2, <1>9

LEMMA FileLinesIs ==
  ASSUME NEW data, Len(data) \in Nat
  PROVE  \E f : ReadingTo(f, data, Len(data)) /\ FileLines(data) = f[1]
<1> DEFINE f == CHOOSE g : g = [i \in 1 .. Len(data) + 1 |-> ReadFrom(g, data, i)]
<1>1. FileLines(data) = f[1]
  BY ZenonT(60) DEF FileLines, ReadFrom, LineRead, First, Past, Words, Stop, Until, Newline, Figures
<1>2. (Len(data) + 1) - Len(data) = 1 /\ Len(data) \in 0 .. Len(data)
  OBVIOUS
<1>3. PICK h : ReadingTo(h, data, Len(data))
  BY <1>2, ReadingExists
<1>4. h = [i \in 1 .. Len(data) + 1 |-> ReadFrom(h, data, i)]
  BY <1>2, <1>3 DEF ReadingTo
<1>5. f = [i \in 1 .. Len(data) + 1 |-> ReadFrom(f, data, i)]
  BY <1>4, Zenon
<1> HIDE DEF f
<1>6. ReadingTo(f, data, Len(data))
  BY <1>2, <1>5 DEF ReadingTo
<1> QED
  BY <1>1, <1>6

----------------------------------------------------------------------------
(* Reading a line of a file, which may be cut short.                       *)

LEMMA Slice ==
  ASSUME NEW C, NEW s \in Seq(C), NEW D, NEW t \in Seq(D), NEW a \in Nat \ {0}, NEW b \in Nat, b <= Len(s),
         b = a + Len(t) - 1, \A j \in 1 .. Len(t) : s[Spot(a, j)] = t[j]
  PROVE  SubSeq(s, a, b) = t
<1>1. Len(t) \in Nat /\ Len(s) \in Nat /\ t = [j \in 1 .. Len(t) |-> t[j]]
  OBVIOUS
<1>2. SubSeq(s, a, b) = [j \in 1 .. Len(t) |-> s[Spot(a, j)]]
  <2>1. SubSeq(s, a, b) = [j \in 1 .. (1 + b) - a |-> s[j + a - 1]]
    OBVIOUS
  <2>2. (1 + b) - a = Len(t) /\ \A j \in 1 .. Len(t) : j + a - 1 = Spot(a, j)
    BY <1>1 DEF Spot
  <2> QED
    BY <2>1, <2>2
<1> QED
  BY <1>1, <1>2

(* Figures, a space and text of a line stand in data from p on, as far as  *)
(* data goes.                                                              *)
Holds(data, p, fig, txt) ==
  LET d == Len(fig)
      e == Len(txt)
  IN  /\ \A j \in 1 .. d : Spot(p, j) <= Len(data) => data[Spot(p, j)] = fig[j]
      /\ p + d <= Len(data) => data[p + d] = " "
      /\ \A j \in 1 .. e : Spot(p + d + 1, j) <= Len(data) => data[Spot(p + d + 1, j)] = txt[j]
      /\ p + d + e + 1 <= Len(data) => data[p + d + e + 1] = "\n"

Proper(fig, txt) ==
  /\ fig \in Seq(Figures) /\ Len(fig) \in Nat /\ Len(fig) # 0
  /\ \E C : txt \in Seq(C)
  /\ Len(txt) \in Nat /\ Len(txt) # 0 /\ txt[1] # " "
  /\ \A j \in 1 .. Len(txt) : txt[j] \notin Newline

LEMMA ProperLengths ==
  ASSUME NEW fig, NEW txt, Proper(fig, txt)
  PROVE  /\ fig \in Seq(Figures) /\ Len(fig) \in Nat /\ Len(fig) # 0 /\ 1 \in 1 .. Len(fig)
         /\ Len(txt) \in Nat /\ Len(txt) # 0 /\ 1 \in 1 .. Len(txt) /\ txt[1] # " "
<1>1. /\ fig \in Seq(Figures) /\ Len(fig) \in Nat /\ Len(fig) # 0
      /\ Len(txt) \in Nat /\ Len(txt) # 0 /\ txt[1] # " "
  BY Zenon DEF Proper
<1>2. ASSUME NEW n, n \in Nat, n # 0 PROVE 1 \in 1 .. n
  BY <1>2
<1> QED
  BY <1>1, <1>2, Zenon

LEMMA ProperFigures ==
  ASSUME NEW fig, NEW txt, Proper(fig, txt), NEW j \in 1 .. Len(fig)
  PROVE  fig[j] \in Figures
<1>1. fig \in Seq(Figures)
  BY ProperLengths
<1> QED
  BY <1>1

LEMMA ProperText ==
  ASSUME NEW fig, NEW txt, Proper(fig, txt), NEW j \in 1 .. Len(txt)
  PROVE  txt[j] \notin Newline
BY Zenon DEF Proper

(* Reading starts at p, or at the end of the line before.                  *)
StartsAt(data, i, p) == i \in Nat \ {0} /\ (i = p \/ (i + 1 = p /\ i <= Len(data) /\ data[i] = "\n"))

Upto(x, data) == IF x <= Len(data) THEN x ELSE Len(data) + 1

LEMMA FirstIs ==
  ASSUME NEW data, Len(data) \in Nat, NEW p \in Nat \ {0}, p <= Len(data), NEW fig, NEW txt, Proper(fig, txt),
         Holds(data, p, fig, txt), NEW i, StartsAt(data, i, p)
  PROVE  First(data, i) = p
<1> DEFINE Blank == Newline \cup {" "}
<1>1. data[p] = fig[1] /\ fig[1] \in Figures
  <2>1. 1 \in 1 .. Len(fig) /\ Spot(p, 1) = p /\ fig[1] \in Figures
    <3>1. 1 \in 1 .. Len(fig)
      BY ProperLengths, Zenon
    <3>2. fig[1] \in Figures
      BY <3>1, ProperFigures, Zenon
    <3>3. Spot(p, 1) = p
      BY DEF Spot
    <3> QED
      BY <3>1, <3>2, <3>3
  <2> QED
    BY <2>1 DEF Holds
<1>2. data[p] \notin Blank
  BY <1>1, DigitsAre DEF Newline
<1>3. i \in Nat /\ i <= p /\ \A j \in i .. p - 1 : data[j] = "\n"
  <2>1. i = p \/ (i + 1 = p /\ data[i] = "\n")
    BY DEF StartsAt
  <2>2. i \in Nat
    BY DEF StartsAt
  <2> QED
    BY <2>1, <2>2
<1>4. Ends(data, i, Blank, p)
  <2>1. "\n" \in Blank
    BY DEF Newline
  <2> HIDE DEF Blank
  <2> QED
    BY <1>2, <1>3, <2>1 DEF Ends
<1> HIDE DEF Blank
<1>5. EndOf(data, i, Blank) = p
  BY <1>3, <1>4, EndOfIs
<1> QED
  BY <1>5 DEF First, Blank

LEMMA PastIs ==
  ASSUME NEW data, Len(data) \in Nat, NEW p \in Nat \ {0}, p <= Len(data), NEW fig, NEW txt, Proper(fig, txt),
         Holds(data, p, fig, txt)
  PROVE  EndOf(data, p, Figures) = Upto(p + Len(fig), data)
<1> DEFINE d == Len(fig)
           e == Upto(p + d, data)
<1>1. d \in Nat /\ d # 0 /\ \A j \in 1 .. d : fig[j] \in Figures
  BY ProperLengths, ProperFigures
<1>2. e \in p .. Len(data) + 1 /\ e <= p + d /\ (e = Len(data) + 1 \/ (e = p + d /\ e <= Len(data)))
  <2> HIDE DEF d
  <2> QED
    BY <1>1 DEF Upto
<1>3. ASSUME NEW j \in p .. e - 1 PROVE data[j] \in Figures
  <2> DEFINE k == j - p + 1
  <2>1. k \in 1 .. d /\ Spot(p, k) = j /\ j <= Len(data)
    <3> HIDE DEF e, d
    <3> QED
      BY <1>1, <1>2 DEF Spot
  <2> HIDE DEF k
  <2>2. data[Spot(p, k)] = fig[k]
    BY <2>1 DEF Holds
  <2> QED
    BY <1>1, <2>1, <2>2
<1>4. e > Len(data) \/ data[e] \notin Figures
  <2>1. e = p + d /\ e <= Len(data) => data[e] = " "
    <3> HIDE DEF e
    <3> QED
      BY DEF Holds
  <2>2. e = p + d /\ e <= Len(data) => data[e] \notin Figures
    <3> HIDE DEF e
    <3> QED
      BY <2>1, DigitsAre, Zenon
  <2>3. e = Len(data) + 1 => e > Len(data)
    <3> HIDE DEF e
    <3> QED
      OBVIOUS
  <2> HIDE DEF e, d
  <2> QED
    BY <1>2, <2>2, <2>3
<1>5. Ends(data, p, Figures, e)
  <2> HIDE DEF e
  <2> QED
    BY <1>2, <1>3, <1>4 DEF Ends
<1> HIDE DEF e
<1>6. EndOf(data, p, Figures) = e
  BY <1>5, EndOfIs
<1> QED
  BY <1>6 DEF e

LEMMA WordsAre ==
  ASSUME NEW data, Len(data) \in Nat, NEW p \in Nat \ {0}, p <= Len(data), NEW fig, NEW txt, Proper(fig, txt),
         Holds(data, p, fig, txt)
  PROVE  EndOf(data, Upto(p + Len(fig), data), {" "}) = Upto(p + Len(fig) + 1, data)
<1> DEFINE d == Len(fig)
           q == Upto(p + d, data)
           e == Upto(p + d + 1, data)
<1>1. d \in Nat /\ d # 0
  BY ProperLengths
<1>2. q \in Nat /\ e \in q .. Len(data) + 1
  <2> HIDE DEF d
  <2> QED
    BY <1>1 DEF Upto
<1>3. ASSUME NEW j \in q .. e - 1 PROVE data[j] = " "
  <2>1. j = p + d /\ p + d <= Len(data)
    <3> HIDE DEF d
    <3> QED
      BY <1>1 DEF Upto
  <2> QED
    BY <2>1 DEF Holds
<1>4. e > Len(data) \/ data[e] # " "
  <2>1. 1 \in 1 .. Len(txt) /\ txt[1] # " "
    BY ProperLengths
  <2>2. Spot(p + d + 1, 1) <= Len(data) => data[Spot(p + d + 1, 1)] = txt[1]
    BY <2>1 DEF Holds
  <2>3. Spot(p + d + 1, 1) = p + d + 1
    <3> HIDE DEF d
    <3> QED
      BY <1>1 DEF Spot
  <2>4. p + d + 1 <= Len(data) => e = p + d + 1
    BY DEF Upto
  <2>5. ~(p + d + 1 <= Len(data)) => e > Len(data)
    BY DEF Upto
  <2> HIDE DEF d, e
  <2> QED
    BY <2>1, <2>2, <2>3, <2>4, <2>5
<1>5. Ends(data, q, {" "}, e)
  <2> HIDE DEF e, q
  <2> QED
    BY <1>2, <1>3, <1>4 DEF Ends
<1> HIDE DEF e, q
<1>6. EndOf(data, q, {" "}) = e
  BY <1>2, <1>5, EndOfIs
<1> QED
  BY <1>6 DEF e, q

LEMMA StopIs ==
  ASSUME NEW data, Len(data) \in Nat, NEW p \in Nat \ {0}, p <= Len(data), NEW fig, NEW txt, Proper(fig, txt),
         Holds(data, p, fig, txt)
  PROVE  Until(data, Upto(p + Len(fig) + 1, data), Newline) = Upto(p + Len(fig) + Len(txt) + 1, data)
<1> DEFINE d == Len(fig)
           l == Len(txt)
           q == Upto(p + d + 1, data)
           e == Upto(p + d + l + 1, data)
<1>1. d \in Nat /\ d # 0 /\ l \in Nat /\ l # 0
  BY ProperLengths
<1>2. q \in Nat /\ e \in q .. Len(data) + 1
  <2> HIDE DEF d, l
  <2> QED
    BY <1>1 DEF Upto
<1>3. ASSUME NEW j \in q .. e - 1 PROVE data[j] \notin Newline
  <2> DEFINE k == j - (p + d)
  <2>1. k \in 1 .. l /\ Spot(p + d + 1, k) = j /\ j <= Len(data)
    <3> HIDE DEF d, l
    <3> QED
      BY <1>1 DEF Upto, Spot
  <2> HIDE DEF k
  <2>2. data[Spot(p + d + 1, k)] = txt[k]
    BY <2>1 DEF Holds
  <2>3. txt[k] \notin Newline
    BY <2>1, ProperText
  <2> QED
    BY <2>1, <2>2, <2>3
<1>4. e > Len(data) \/ data[e] \in Newline
  <2>1. p + d + l + 1 <= Len(data) => data[p + d + l + 1] = "\n"
    BY DEF Holds
  <2>2. "\n" \in Newline
    BY DEF Newline
  <2>3. p + d + l + 1 <= Len(data) => e = p + d + l + 1
    BY DEF Upto
  <2>4. ~(p + d + l + 1 <= Len(data)) => e > Len(data)
    BY DEF Upto
  <2> HIDE DEF e, d, l
  <2> QED
    BY <2>1, <2>2, <2>3, <2>4
<1>5. Reaches(data, q, Newline, e)
  <2> HIDE DEF e, q
  <2> QED
    BY <1>2, <1>3, <1>4 DEF Reaches
<1> HIDE DEF e, q
<1>6. Until(data, q, Newline) = e
  BY <1>2, <1>5, UntilIs
<1> QED
  BY <1>6 DEF e, q

(* The parts of the line that starts at p.                                 *)
LEMMA LineParts ==
  ASSUME NEW C, NEW data \in Seq(C), NEW p \in Nat \ {0}, p <= Len(data), NEW fig, NEW txt, Proper(fig, txt),
         Holds(data, p, fig, txt), NEW i, StartsAt(data, i, p),
         NEW x, x = p + Len(fig), NEW y, y = x + Len(txt)
  PROVE  First(data, i) = p /\ Past(data, i) = Upto(x, data)
         /\ Words(data, i) = Upto(x + 1, data) /\ Stop(data, i) = Upto(y + 1, data)
<1>a. Len(data) \in Nat
  OBVIOUS
<1>1. Len(data) \in Nat /\ Len(fig) \in Nat /\ Len(txt) \in Nat
  BY <1>a, ProperLengths, Zenon
<1>2. First(data, i) = p
  BY <1>1, FirstIs
<1>3. Past(data, i) = Upto(x, data)
  <2>1. Past(data, i) = EndOf(data, p, Figures)
    BY <1>2 DEF Past
  <2> QED
    BY <1>1, <2>1, PastIs
<1>4. Words(data, i) = Upto(x + 1, data)
  <2>1. Words(data, i) = EndOf(data, Upto(p + Len(fig), data), {" "})
    BY <1>3 DEF Words
  <2>2. Words(data, i) = Upto(p + Len(fig) + 1, data)
    BY <1>1, <2>1, WordsAre, Zenon
  <2> QED
    BY <2>2
<1>5. Stop(data, i) = Upto(y + 1, data)
  <2>1. Stop(data, i) = Until(data, Upto(p + Len(fig) + 1, data), Newline)
    BY <1>4 DEF Stop
  <2>2. Stop(data, i) = Upto(p + Len(fig) + Len(txt) + 1, data)
    BY <1>1, <2>1, StopIs, Zenon
  <2>3. p + Len(fig) + Len(txt) = y
    BY ONLY x = p + Len(fig), y = x + Len(txt)
  <2> QED
    BY <2>2, <2>3
<1> QED
  BY <1>2, <1>3, <1>4, <1>5

(* Where the parts lie, in a line that is there up to its text.            *)
LEMMA UptoIs ==
  ASSUME NEW data, Len(data) \in Nat, NEW x \in Nat
  PROVE  /\ x <= Len(data) => Upto(x, data) = x
         /\ Len(data) < x => Upto(x, data) = Len(data) + 1
BY DEF Upto

LEMMA FiguresRead ==
  ASSUME NEW C, NEW data \in Seq(C), NEW p \in Nat \ {0}, NEW fig, NEW txt, Proper(fig, txt),
         Holds(data, p, fig, txt), NEW x, x = p + Len(fig), x <= Len(data)
  PROVE  SubSeq(data, p, x - 1) = fig
<1>a. Len(data) \in Nat
  OBVIOUS
<1>1. fig \in Seq(Figures) /\ Len(fig) \in Nat /\ Len(data) \in Nat
  BY <1>a, ProperLengths, Zenon
<1>2. x - 1 \in Nat /\ x - 1 <= Len(data) /\ x - 1 = p + Len(fig) - 1
  BY <1>1
<1>3. ASSUME NEW j \in 1 .. Len(fig) PROVE data[Spot(p, j)] = fig[j]
  <2>1. Spot(p, j) <= Len(data)
    BY <1>1 DEF Spot
  <2> QED
    BY <2>1 DEF Holds
<1> QED
  BY <1>1, <1>2, <1>3, Slice

LEMMA TextRead ==
  ASSUME NEW C, NEW data \in Seq(C), NEW p \in Nat \ {0}, NEW fig, NEW txt, Proper(fig, txt),
         Holds(data, p, fig, txt), NEW x, x = p + Len(fig), NEW k \in 0 .. Len(txt), x + k <= Len(data)
  PROVE  SubSeq(data, x + 1, x + k) = SubSeq(txt, 1, k)
<1>a. Len(data) \in Nat
  OBVIOUS
<1>1. Len(fig) \in Nat /\ Len(txt) \in Nat /\ Len(data) \in Nat
  BY <1>a, ProperLengths, Zenon
<1>2. PICK D : txt \in Seq(D)
  BY Zenon DEF Proper
<1> DEFINE cut == SubSeq(txt, 1, k)
<1>3. cut \in Seq(D) /\ Len(cut) = k /\ \A j \in 1 .. k : cut[j] = txt[j]
  <2>1. \A j \in 1 .. k : j \in 1 .. Len(txt)
    BY <1>1
  <2> QED
    BY <1>1, <1>2, <2>1
<1> HIDE DEF cut
<1>4. ASSUME NEW j \in 1 .. Len(cut) PROVE data[Spot(x + 1, j)] = cut[j]
  <2>1. j \in 1 .. k /\ j \in 1 .. Len(txt) /\ Spot(x + 1, j) <= Len(data)
    BY <1>1, <1>3 DEF Spot
  <2>2. data[Spot(x + 1, j)] = txt[j]
    BY <2>1 DEF Holds
  <2> QED
    BY <1>3, <2>1, <2>2
<1>5. x + 1 \in Nat \ {0} /\ x + k \in Nat /\ x + k = (x + 1) + k - 1
  BY <1>1
<1>6. SubSeq(data, x + 1, x + k) = cut
  BY <1>3, <1>4, <1>5, Slice
<1> QED
  BY <1>6 DEF cut

(* A whole line, a line cut in its text, and one cut before it.            *)
Entry(n, s) == [number |-> n, stmt |-> s]
ReadsTo(data, i, e, j) == \A f : ReadFrom(f, data, i) = <<e>> \o f[j]

LEMMA ReadsWhole ==
  ASSUME NEW C, NEW data \in Seq(C), NEW p \in Nat \ {0}, p <= Len(data), NEW fig, NEW txt, Proper(fig, txt),
         Holds(data, p, fig, txt), NEW i, StartsAt(data, i, p), p + Len(fig) + Len(txt) <= Len(data)
  PROVE  ReadsTo(data, i, Entry(number_of(fig), txt), p + Len(fig) + Len(txt) + 1)
<1> DEFINE x == p + Len(fig)
           y == x + Len(txt)
<1>0. y <= Len(data)
  OBVIOUS
<1>a. Len(data) \in Nat
  OBVIOUS
<1>b. Len(fig) \in Nat /\ Len(txt) \in Nat /\ Len(txt) # 0
  BY ProperLengths, Zenon
<1>1. Len(fig) \in Nat /\ Len(txt) \in Nat /\ Len(txt) # 0 /\ Len(data) \in Nat /\ x \in Nat
  BY <1>a, <1>b
<1>2. x < y /\ y \in Nat /\ x <= Len(data) /\ y = x + Len(txt)
  <2> HIDE DEF x
  <2> QED
    BY <1>0, <1>1
<1> HIDE DEF x, y
<1>3. First(data, i) = p /\ Past(data, i) = Upto(x, data)
      /\ Words(data, i) = Upto(x + 1, data) /\ Stop(data, i) = Upto(y + 1, data)
  BY LineParts DEF x, y
<1>4. Past(data, i) = x /\ Words(data, i) = x + 1
  BY <1>1, <1>2, <1>3 DEF Upto
<1>5. Stop(data, i) = y + 1
  <2>1. Stop(data, i) = Upto(y + 1, data) /\ y \in Nat /\ y <= Len(data) /\ Len(data) \in Nat
    BY <1>0, <1>1, <1>2, <1>3, Zenon
  <2> QED
    BY ONLY <2>1 DEF Upto
<1>6. SubSeq(data, p, x - 1) = fig
  BY <1>2, FiguresRead DEF x
<1>7. SubSeq(data, x + 1, y) = SubSeq(txt, 1, Len(txt))
  <2>1. Len(txt) \in 0 .. Len(txt)
    BY <1>1
  <2> QED
    BY <1>2, <2>1, TextRead DEF x
<1>8. SubSeq(txt, 1, Len(txt)) = txt
  <2>1. PICK D : txt \in Seq(D)
    BY Zenon DEF Proper
  <2> QED
    BY <2>1
<1>9. LineRead(data, i) = Entry(number_of(fig), txt)
  <2>1. (y + 1) - 1 = y
    BY <1>2
  <2> QED
    BY <1>3, <1>4, <1>5, <1>6, <1>7, <1>8, <2>1 DEF LineRead, Entry
<1>10. ~(p > Len(data)) /\ x + 1 # y + 1
  BY <1>1, <1>2
<1> QED
  BY <1>3, <1>4, <1>5, <1>9, <1>10 DEF ReadFrom, ReadsTo, x, y

LEMMA ReadsPart ==
  ASSUME NEW C, NEW data \in Seq(C), NEW p \in Nat \ {0}, p <= Len(data), NEW fig, NEW txt, Proper(fig, txt),
         Holds(data, p, fig, txt), NEW i, StartsAt(data, i, p),
         NEW k \in 1 .. Len(txt) - 1, Len(data) = p + Len(fig) + k
  PROVE  ReadsTo(data, i, Entry(number_of(fig), SubSeq(txt, 1, k)), Len(data) + 1)
<1> DEFINE x == p + Len(fig)
           y == x + Len(txt)
<1>a. Len(data) \in Nat
  OBVIOUS
<1>b. Len(fig) \in Nat /\ Len(txt) \in Nat /\ Len(txt) # 0
  BY ProperLengths, Zenon
<1>1. Len(fig) \in Nat /\ Len(txt) \in Nat /\ Len(txt) # 0 /\ Len(data) \in Nat /\ x \in Nat
  BY <1>a, <1>b
<1>2. x < Len(data) /\ y \in Nat /\ Len(data) < y /\ Len(data) = x + k
  <2>1. Len(data) = x + k
    OBVIOUS
  <2> HIDE DEF x
  <2> QED
    BY <1>1, <2>1
<1> HIDE DEF x
<1>3. First(data, i) = p /\ Past(data, i) = Upto(x, data)
      /\ Words(data, i) = Upto(x + 1, data) /\ Stop(data, i) = Upto(y + 1, data)
  BY LineParts DEF x
<1>4. Past(data, i) = x /\ Words(data, i) = x + 1
  BY <1>1, <1>2, <1>3 DEF Upto
<1>5. Stop(data, i) = Len(data) + 1
  <2> HIDE DEF y
  <2> QED
    BY <1>1, <1>2, <1>3 DEF Upto
<1> HIDE DEF y
<1>6. SubSeq(data, p, x - 1) = fig
  <2>1. x = p + Len(fig) /\ x <= Len(data)
    BY <1>1, <1>2 DEF x
  <2> QED
    BY <2>1, FiguresRead
<1>7. SubSeq(data, x + 1, Len(data)) = SubSeq(txt, 1, k)
  <2>1. k \in 0 .. Len(txt) /\ x + k <= Len(data)
    BY <1>1, <1>2
  <2>2. SubSeq(data, x + 1, x + k) = SubSeq(txt, 1, k)
    BY <2>1, TextRead DEF x
  <2> QED
    BY <1>2, <2>2
<1>8. LineRead(data, i) = Entry(number_of(fig), SubSeq(txt, 1, k))
  <2>1. (Len(data) + 1) - 1 = Len(data)
    BY <1>1
  <2> QED
    BY <1>3, <1>4, <1>5, <1>6, <1>7, <2>1 DEF LineRead, Entry
<1>9. ~(p > Len(data)) /\ x + 1 # Len(data) + 1
  BY <1>1, <1>2
<1> QED
  BY <1>3, <1>4, <1>5, <1>8, <1>9 DEF ReadFrom, ReadsTo

LEMMA ReadsNone ==
  ASSUME NEW C, NEW data \in Seq(C), NEW p \in Nat \ {0}, p <= Len(data), NEW fig, NEW txt, Proper(fig, txt),
         Holds(data, p, fig, txt), NEW i, StartsAt(data, i, p), NEW f, Len(data) <= p + Len(fig)
  PROVE  ReadFrom(f, data, i) = f[Len(data) + 1]
<1> DEFINE x == p + Len(fig)
           y == x + Len(txt)
<1>a. Len(data) \in Nat
  OBVIOUS
<1>b. Len(fig) \in Nat /\ Len(txt) \in Nat
  BY ProperLengths, Zenon
<1>1. Len(fig) \in Nat /\ Len(txt) \in Nat /\ Len(data) \in Nat /\ x \in Nat /\ y \in Nat /\ Len(data) <= x /\ x <= y
  BY <1>a, <1>b
<1> HIDE DEF x
<1>2. First(data, i) = p /\ Words(data, i) = Upto(x + 1, data) /\ Stop(data, i) = Upto(y + 1, data)
  BY LineParts DEF x
<1> HIDE DEF y
<1>3. Words(data, i) = Len(data) + 1 /\ Stop(data, i) = Len(data) + 1
  BY <1>1, <1>2 DEF Upto
<1>4. ~(p > Len(data))
  BY <1>1
<1> QED
  BY <1>2, <1>3, <1>4 DEF ReadFrom

----------------------------------------------------------------------------
(* The text of a line.                                                     *)

Chars == STRING \cup Figures \cup {" ", "\n"}

(* A line as SAVE needs it, and the line as LOAD reads it: whole, or only  *)
(* the first k characters of it.                                           *)
Writable(line) ==
  /\ line.number \in Nat /\ Fits(line.number)
  /\ Text(line.stmt) \in Seq(Chars)
  /\ Proper(format_u64(line.number), Text(line.stmt))
WholeEntry(line) == Entry(line.number, Text(line.stmt))
CutEntry(line, k) == Entry(line.number, SubSeq(Text(line.stmt), 1, k))

LEMMA WritableLine ==
  ASSUME NEW line, Writable(line)
  PROVE  /\ line.number \in Nat /\ number_of(format_u64(line.number)) = line.number
         /\ format_u64(line.number) \in Seq(Chars) /\ Text(line.stmt) \in Seq(Chars)
         /\ Proper(format_u64(line.number), Text(line.stmt))
<1>1. /\ line.number \in Nat /\ Fits(line.number) /\ Text(line.stmt) \in Seq(Chars)
      /\ Proper(format_u64(line.number), Text(line.stmt))
  BY Zenon DEF Writable
<1>2. Spells(format_u64(line.number), line.number)
  BY <1>1, ReadsWritten, Zenon
<1>3. format_u64(line.number) \in Seq(Figures) /\ number_of(format_u64(line.number)) = line.number
  BY <1>2, Zenon DEF Spells
<1>4. format_u64(line.number) \in Seq(Chars)
  <2>1. Figures \subseteq Chars
    BY DEF Chars
  <2>2. \A s \in Seq(Figures) : s \in Seq(Chars)
    BY <2>1
  <2> QED
    BY <1>3, <2>2, Zenon
<1> QED
  BY <1>1, <1>3, <1>4, Zenon

(* Where the parts of a line are in its text.                              *)
TwoParts(s, a, b, C) ==
  /\ s \in Seq(C) /\ Len(s) = Len(a) + Len(b)
  /\ \A j \in 1 .. Len(a) : s[j] = a[j]
  /\ \A j \in 1 .. Len(b) : s[Len(a) + j] = b[j]

LEMMA Concat == ASSUME NEW C, NEW a \in Seq(C), NEW b \in Seq(C) PROVE TwoParts(a \o b, a, b, C)
BY DEF TwoParts

FourParts(s, a, b, c, d, C) ==
  /\ s \in Seq(C) /\ Len(s) = Len(a) + Len(c) + 2
  /\ s[Len(a) + 1] = b /\ s[Len(a) + Len(c) + 2] = d
  /\ \A j \in 1 .. Len(a) : s[j] = a[j]
  /\ \A j \in 1 .. Len(c) : s[Len(a) + 1 + j] = c[j]

LEMMA Joined ==
  ASSUME NEW C, NEW a \in Seq(C), NEW b \in C, NEW c \in Seq(C), NEW d \in C
  PROVE  FourParts(a \o <<b>> \o c \o <<d>>, a, b, c, d, C)
<1> DEFINE s == a \o <<b>> \o c \o <<d>>
           x == <<b>>
           u == a \o x
           v == u \o c
           y == <<d>>
<1>0. /\ Len(a) \in Nat /\ Len(c) \in Nat /\ s = v \o y
      /\ x \in Seq(C) /\ Len(x) = 1 /\ x[1] = b /\ y \in Seq(C) /\ Len(y) = 1 /\ y[1] = d /\ 1 \in 1 .. 1
  OBVIOUS
<1>1. u = a \o x /\ v = u \o c
  OBVIOUS
<1> HIDE DEF x, y, u, v, s
<1>2. u \in Seq(C) /\ Len(u) = Len(a) + 1 /\ u[Len(a) + 1] = b /\ \A j \in 1 .. Len(a) : u[j] = a[j]
  <2>1. TwoParts(u, a, x, C)
    BY ONLY <1>0, <1>1, a \in Seq(C), Concat
  <2> QED
    BY ONLY <1>0, <2>1 DEF TwoParts
<1>3. /\ v \in Seq(C) /\ Len(v) = Len(u) + Len(c)
      /\ \A j \in 1 .. Len(u) : v[j] = u[j]
      /\ \A j \in 1 .. Len(c) : v[Len(u) + j] = c[j]
  <2>1. TwoParts(v, u, c, C)
    BY ONLY <1>1, <1>2, c \in Seq(C), Concat
  <2> QED
    BY ONLY <2>1, Zenon DEF TwoParts
<1>4. /\ s \in Seq(C) /\ Len(s) = Len(v) + 1 /\ s[Len(v) + 1] = d
      /\ \A j \in 1 .. Len(v) : s[j] = v[j]
  <2>1. TwoParts(s, v, y, C)
    BY ONLY <1>0, <1>3, Concat
  <2> QED
    BY ONLY <1>0, <2>1 DEF TwoParts
<1>5. /\ Len(v) = Len(a) + Len(c) + 1 /\ Len(v) + 1 = Len(a) + Len(c) + 2
      /\ Len(a) \in Nat /\ Len(c) \in Nat /\ Len(u) = Len(a) + 1
  BY ONLY <1>0, <1>2, <1>3
<1>6. s \in Seq(C) /\ Len(s) = Len(a) + Len(c) + 2 /\ s[Len(a) + Len(c) + 2] = d
  BY ONLY <1>4, <1>5
<1>7. ASSUME NEW j \in 1 .. Len(a) PROVE s[j] = a[j]
  <2>1. j \in 1 .. Len(u) /\ j \in 1 .. Len(v)
    BY ONLY <1>5, j \in 1 .. Len(a)
  <2> QED
    BY ONLY <1>2, <1>3, <1>4, <2>1, j \in 1 .. Len(a)
<1>8. s[Len(a) + 1] = b
  <2>1. Len(a) + 1 \in 1 .. Len(u) /\ Len(a) + 1 \in 1 .. Len(v)
    BY ONLY <1>5
  <2> QED
    BY ONLY <1>2, <1>3, <1>4, <2>1
<1>9. ASSUME NEW j \in 1 .. Len(c) PROVE s[Len(a) + 1 + j] = c[j]
  <2>1. Len(u) + j \in 1 .. Len(v) /\ Len(u) + j = Len(a) + 1 + j
    BY ONLY <1>5, j \in 1 .. Len(c)
  <2>2. s[Len(u) + j] = v[Len(u) + j] /\ v[Len(u) + j] = c[j]
    BY ONLY <1>3, <1>4, <2>1, j \in 1 .. Len(c)
  <2> QED
    BY ONLY <2>1, <2>2
<1> QED
  BY <1>6, <1>7, <1>8, <1>9, Zenon DEF FourParts, s

LEMMA LineJoined ==
  ASSUME NEW line, Writable(line)
  PROVE  LET a == format_u64(line.number)
             c == Text(line.stmt)
         IN  /\ FourParts(LineText(line), a, " ", c, "\n", Chars)
             /\ Len(a) \in Nat /\ Len(c) \in Nat /\ Len(LineText(line)) \in Nat
<1> DEFINE a == format_u64(line.number)
           c == Text(line.stmt)
           s == LineText(line)
<1>1. a \in Seq(Chars) /\ c \in Seq(Chars)
  BY WritableLine, Zenon
<1>2. " " \in Chars /\ "\n" \in Chars
  BY DEF Chars
<1>3. s = a \o <<" ">> \o c \o <<"\n">>
  BY DEF LineText
<1> HIDE DEF a, c, s
<1>4. FourParts(s, a, " ", c, "\n", Chars)
  BY ONLY <1>1, <1>2, <1>3, Joined
<1>5. Len(a) \in Nat /\ Len(c) \in Nat
  BY ONLY <1>1
<1>6. Len(s) = Len(a) + Len(c) + 2
  BY ONLY <1>4, Zenon DEF FourParts
<1>7. Len(s) \in Nat
  BY ONLY <1>5, <1>6
<1> QED
  BY <1>4, <1>5, <1>7 DEF a, c, s

(* The text of a line, in the data up to their end.                        *)
LEMMA LineHolds ==
  ASSUME NEW line, Writable(line), NEW D, NEW p \in Nat \ {0},
         \A j \in 1 .. Len(LineText(line)) : D[Spot(p, j)] = LineText(line)[j],
         NEW data, \A j \in Nat \ {0} : j <= Len(data) => data[j] = D[j]
  PROVE  Holds(data, p, format_u64(line.number), Text(line.stmt))
<1> DEFINE a == format_u64(line.number)
           c == Text(line.stmt)
           s == LineText(line)
<1>1. FourParts(s, a, " ", c, "\n", Chars) /\ Len(a) \in Nat /\ Len(c) \in Nat /\ Len(s) \in Nat
  BY LineJoined
<1>4. \A j \in 1 .. Len(s) : D[Spot(p, j)] = s[j]
  OBVIOUS
<1> HIDE DEF a, c, s
<1>a. /\ s \in Seq(Chars) /\ Len(s) = Len(a) + Len(c) + 2
      /\ s[Len(a) + 1] = " " /\ s[Len(a) + Len(c) + 2] = "\n"
      /\ \A j \in 1 .. Len(a) : s[j] = a[j]
      /\ \A j \in 1 .. Len(c) : s[Len(a) + 1 + j] = c[j]
  BY <1>1, Zenon DEF FourParts
<1>5. Len(s) = Len(a) + Len(c) + 2 /\ s[Len(a) + 1] = " " /\ s[Len(a) + Len(c) + 2] = "\n"
  BY <1>a, Zenon
<1>6. ASSUME NEW j \in 1 .. Len(a) PROVE s[j] = a[j]
  BY <1>a
<1>7. ASSUME NEW j \in 1 .. Len(c) PROVE s[Len(a) + 1 + j] = c[j]
  BY <1>a
<1>8. Len(a) \in Nat /\ Len(c) \in Nat /\ Len(s) \in Nat /\ Len(s) = Len(a) + Len(c) + 2
  BY <1>1, <1>5, Zenon
<1>9. ASSUME NEW j \in 1 .. Len(s), Spot(p, j) <= Len(data) PROVE data[Spot(p, j)] = s[j]
  <2>1. Spot(p, j) \in Nat \ {0}
    BY <1>8 DEF Spot
  <2> QED
    BY <1>4, <1>9, <2>1
<1>10. \A j \in 1 .. Len(a) : Spot(p, j) <= Len(data) => data[Spot(p, j)] = a[j]
  <2> SUFFICES ASSUME NEW j \in 1 .. Len(a), Spot(p, j) <= Len(data) PROVE data[Spot(p, j)] = a[j]
    OBVIOUS
  <2>1. j \in 1 .. Len(s)
    BY ONLY <1>8, j \in 1 .. Len(a)
  <2> QED
    BY <1>6, <1>9, <2>1
<1>11. p + Len(a) <= Len(data) => data[p + Len(a)] = " "
  <2>1. Len(a) + 1 \in 1 .. Len(s) /\ Spot(p, Len(a) + 1) = p + Len(a)
    BY ONLY <1>8, p \in Nat \ {0} DEF Spot
  <2> QED
    BY <1>5, <1>9, <2>1
<1>12. \A j \in 1 .. Len(c) : Spot(p + Len(a) + 1, j) <= Len(data) => data[Spot(p + Len(a) + 1, j)] = c[j]
  <2> SUFFICES ASSUME NEW j \in 1 .. Len(c), Spot(p + Len(a) + 1, j) <= Len(data)
               PROVE  data[Spot(p + Len(a) + 1, j)] = c[j]
    OBVIOUS
  <2>1. Len(a) + 1 + j \in 1 .. Len(s) /\ Spot(p, Len(a) + 1 + j) = Spot(p + Len(a) + 1, j)
    BY ONLY <1>8, p \in Nat \ {0}, j \in 1 .. Len(c) DEF Spot
  <2> QED
    BY <1>7, <1>9, <2>1
<1>13. p + Len(a) + Len(c) + 1 <= Len(data) => data[p + Len(a) + Len(c) + 1] = "\n"
  <2>1. Len(a) + Len(c) + 2 \in 1 .. Len(s) /\ Spot(p, Len(a) + Len(c) + 2) = p + Len(a) + Len(c) + 1
    BY ONLY <1>8, p \in Nat \ {0} DEF Spot
  <2> QED
    BY <1>5, <1>9, <2>1
<1>14. Holds(data, p, a, c)
  BY <1>10, <1>11, <1>12, <1>13, Zenon DEF Holds
<1> QED
  BY <1>14 DEF a, c

----------------------------------------------------------------------------
(* What LOAD reads of what SAVE writes.                                    *)

TextLine == [number : Nat, stmt : Seq(Chars)]

(* x is what is read from line k of ls on: whole lines, and the last of    *)
(* them maybe cut; or all the lines there are.                             *)
ReadSome(x, ls, k) ==
  /\ x \in Seq(TextLine) /\ Len(x) + k <= Len(ls) + 1
  /\ \A j \in 1 .. Len(x) : j # Len(x) => x[j] = WholeEntry(ls[Spot(k, j)])
  /\ Len(x) # 0 => \E c \in 1 .. Len(Text(ls[Spot(k, Len(x))].stmt)) : x[Len(x)] = CutEntry(ls[Spot(k, Len(x))], c)

ReadAll(x, ls, k) ==
  /\ Len(x) + k = Len(ls) + 1
  /\ \A j \in 1 .. Len(x) : x[j] = WholeEntry(ls[Spot(k, j)])

LEMMA EntryIs ==
  ASSUME NEW line, Writable(line)
  PROVE  /\ Len(Text(line.stmt)) \in Nat \ {0} /\ CutEntry(line, Len(Text(line.stmt))) = WholeEntry(line)
         /\ \A c \in 1 .. Len(Text(line.stmt)) : CutEntry(line, c) \in TextLine
<1> DEFINE t == Text(line.stmt)
<1>1. line.number \in Nat /\ t \in Seq(Chars) /\ Proper(format_u64(line.number), t)
  BY WritableLine, Zenon
<1>2. Len(t) # 0
  BY <1>1, ProperLengths, Zenon
<1> HIDE DEF t
<1>3. Len(t) \in Nat /\ SubSeq(t, 1, Len(t)) = t
  BY <1>1
<1>4. \A c \in 1 .. Len(t) : SubSeq(t, 1, c) \in Seq(Chars)
  <2> SUFFICES ASSUME NEW c \in 1 .. Len(t) PROVE SubSeq(t, 1, c) \in Seq(Chars)
    OBVIOUS
  <2>1. \A j \in 1 .. c : t[j] \in Chars
    BY <1>1, <1>3
  <2> QED
    BY <1>1, <1>3, <2>1
<1>5. ASSUME NEW c \in 1 .. Len(t) PROVE CutEntry(line, c) \in TextLine
  BY <1>1, <1>4 DEF CutEntry, Entry, TextLine, t
<1>6. CutEntry(line, Len(t)) = WholeEntry(line)
  BY <1>3 DEF CutEntry, WholeEntry, t
<1> QED
  BY <1>2, <1>3, <1>5, <1>6 DEF t

LEMMA NoneRead ==
  ASSUME NEW ls, Len(ls) \in Nat, NEW k \in 1 .. Len(ls) + 1
  PROVE  ReadSome(<<>>, ls, k) /\ (k = Len(ls) + 1 => ReadAll(<<>>, ls, k))
<1>1. <<>> \in Seq(TextLine) /\ Len(<<>>) = 0
  OBVIOUS
<1>2. 0 + k <= Len(ls) + 1 /\ 1 .. 0 = {} /\ (k = Len(ls) + 1 => 0 + k = Len(ls) + 1)
  OBVIOUS
<1>3. ReadSome(<<>>, ls, k)
  BY ONLY <1>1, <1>2 DEF ReadSome
<1>4. k = Len(ls) + 1 => ReadAll(<<>>, ls, k)
  BY ONLY <1>1, <1>2 DEF ReadAll
<1> QED
  BY <1>3, <1>4

LEMMA PartRead ==
  ASSUME NEW ls, Len(ls) \in Nat, NEW k \in 1 .. Len(ls), Writable(ls[k]),
         NEW c \in 1 .. Len(Text(ls[k].stmt))
  PROVE  ReadSome(<<CutEntry(ls[k], c)>>, ls, k)
<1> DEFINE x == <<CutEntry(ls[k], c)>>
<1>1. CutEntry(ls[k], c) \in TextLine
  BY EntryIs, Zenon
<1>2. x \in Seq(TextLine) /\ Len(x) = 1 /\ x[1] = CutEntry(ls[k], c)
  BY <1>1
<1>3. Spot(k, 1) = k /\ 1 + k <= Len(ls) + 1 /\ \A j \in 1 .. 1 : j = 1
  BY DEF Spot
<1> HIDE DEF x
<1> QED
  BY ONLY <1>2, <1>3, c \in 1 .. Len(Text(ls[k].stmt)) DEF ReadSome, x

LEMMA OneRead ==
  ASSUME NEW ls, Len(ls) \in Nat, NEW k \in 1 .. Len(ls), Writable(ls[k]), NEW y, ReadSome(y, ls, k + 1)
  PROVE  /\ ReadSome(<<WholeEntry(ls[k])>> \o y, ls, k)
         /\ ReadAll(y, ls, k + 1) => ReadAll(<<WholeEntry(ls[k])>> \o y, ls, k)
<1> DEFINE e == WholeEntry(ls[k])
           u == <<e>>
           x == u \o y
           m == Len(y)
<1>1. /\ y \in Seq(TextLine) /\ m + (k + 1) <= Len(ls) + 1
      /\ \A j \in 1 .. m : j # m => y[j] = WholeEntry(ls[Spot(k + 1, j)])
      /\ m # 0 => \E c \in 1 .. Len(Text(ls[Spot(k + 1, m)].stmt)) : y[m] = CutEntry(ls[Spot(k + 1, m)], c)
  BY Zenon DEF ReadSome
<1>2. PICK c \in 1 .. Len(Text(ls[k].stmt)) : e = CutEntry(ls[k], c) /\ e \in TextLine
  <2>1. Len(Text(ls[k].stmt)) \in Nat \ {0} /\ CutEntry(ls[k], Len(Text(ls[k].stmt))) = WholeEntry(ls[k])
        /\ \A c \in 1 .. Len(Text(ls[k].stmt)) : CutEntry(ls[k], c) \in TextLine
    BY EntryIs, Zenon
  <2>2. Len(Text(ls[k].stmt)) \in 1 .. Len(Text(ls[k].stmt))
    BY <2>1
  <2> QED
    BY <2>1, <2>2, Zenon
<1> HIDE DEF e
<1>3. u \in Seq(TextLine) /\ Len(u) = 1 /\ u[1] = e /\ m \in Nat
  BY <1>1, <1>2
<1>4. x = u \o y
  OBVIOUS
<1> HIDE DEF u, x, m
<1>5. /\ x \in Seq(TextLine) /\ Len(x) = 1 + m /\ x[1] = e
      /\ \A j \in 1 .. m : x[1 + j] = y[j]
  <2>1. TwoParts(x, u, y, TextLine)
    BY ONLY <1>1, <1>3, <1>4, Concat
  <2>2. /\ x \in Seq(TextLine) /\ Len(x) = Len(u) + Len(y) /\ \A j \in 1 .. Len(u) : x[j] = u[j]
        /\ \A j \in 1 .. Len(y) : x[Len(u) + j] = y[j]
    BY ONLY <2>1, Zenon DEF TwoParts
  <2>3. 1 \in 1 .. 1
    OBVIOUS
  <2> QED
    BY ONLY <1>3, <2>2, <2>3 DEF m
<1>6. ASSUME NEW j \in 1 .. 1 + m, j # 1
      PROVE  \E i \in 1 .. m : j = 1 + i /\ x[j] = y[i] /\ Spot(k, j) = Spot(k + 1, i) /\ (i = m <=> j = 1 + m)
  <2>1. j - 1 \in 1 .. m /\ j = 1 + (j - 1) /\ Spot(k, j) = Spot(k + 1, j - 1) /\ (j - 1 = m <=> j = 1 + m)
    BY ONLY <1>3, <1>6, Len(ls) \in Nat, k \in 1 .. Len(ls) DEF Spot
  <2> QED
    BY <1>5, <2>1, Zenon
<1>7. Spot(k, 1) = k
  BY DEF Spot
<1>8. ASSUME NEW j \in 1 .. 1 + m, j # 1 + m PROVE x[j] = WholeEntry(ls[Spot(k, j)])
  <2>1. CASE j = 1
    BY <1>5, <1>7, <2>1 DEF e
  <2>2. CASE j # 1
    <3>1. PICK i \in 1 .. m : x[j] = y[i] /\ Spot(k, j) = Spot(k + 1, i) /\ i # m
      BY <1>6, <1>8, <2>2, Zenon
    <3> QED
      BY <1>1, <3>1, Zenon
  <2> QED
    BY <2>1, <2>2
<1>9. \E b \in 1 .. Len(Text(ls[Spot(k, 1 + m)].stmt)) : x[1 + m] = CutEntry(ls[Spot(k, 1 + m)], b)
  <2>1. CASE m = 0
    <3>1. 1 + m = 1
      BY <2>1
    <3> QED
      BY <1>2, <1>5, <1>7, <3>1
  <2>2. CASE m # 0
    <3>1. 1 + m \in 1 .. 1 + m /\ 1 + m # 1
      BY <1>3, <2>2
    <3>2. PICK i \in 1 .. m : x[1 + m] = y[i] /\ Spot(k, 1 + m) = Spot(k + 1, i) /\ i = m
      BY <1>6, <3>1, Zenon
    <3>3. x[1 + m] = y[m] /\ Spot(k, 1 + m) = Spot(k + 1, m)
      BY <3>2, Zenon
    <3> QED
      BY <1>1, <2>2, <3>3, Zenon
  <2> QED
    BY <2>1, <2>2
<1>10. (1 + m) + k <= Len(ls) + 1
  BY <1>1, <1>3
<1>11. ReadSome(x, ls, k)
  BY ONLY <1>5, <1>8, <1>9, <1>10, Zenon DEF ReadSome
<1>12. ASSUME ReadAll(y, ls, k + 1) PROVE ReadAll(x, ls, k)
  <2>1. m + (k + 1) = Len(ls) + 1 /\ \A j \in 1 .. m : y[j] = WholeEntry(ls[Spot(k + 1, j)])
    BY <1>12, Zenon DEF ReadAll, m
  <2>2. (1 + m) + k = Len(ls) + 1
    BY <1>3, <2>1
  <2>3. ASSUME NEW j \in 1 .. 1 + m PROVE x[j] = WholeEntry(ls[Spot(k, j)])
    <3>1. CASE j = 1
      BY <1>5, <1>7, <3>1 DEF e
    <3>2. CASE j # 1
      <4>1. PICK i \in 1 .. m : x[j] = y[i] /\ Spot(k, j) = Spot(k + 1, i)
        BY <1>6, <3>2, Zenon
      <4> QED
        BY <2>1, <4>1, Zenon
    <3> QED
      BY <3>1, <3>2
  <2> QED
    BY ONLY <1>5, <2>2, <2>3, Zenon DEF ReadAll
<1> QED
  BY <1>11, <1>12 DEF x, u, e

(* data are the first of the characters D, the texts of the lines ls, one  *)
(* behind the other, which start at P; f is what is read from each place.  *)
Saved(ls, P, D, data, f) ==
  /\ Len(ls) \in Nat /\ \A k \in 1 .. Len(ls) : Writable(ls[k])
  /\ Marked(P, [k \in 1 .. Len(ls) |-> LineText(ls[k])], Len(ls), D)
  /\ data \in Seq(Chars) /\ Len(data) <= Len(D)
  /\ \A j \in Nat \ {0} : j <= Len(data) => data[j] = D[j]
  /\ ReadingTo(f, data, Len(data))

(* Reading is to go on where a line starts, or before it, or is over.      *)
ReadAt(data, i, p) ==
  /\ i \in 1 .. Len(data) + 1
  /\ p > Len(data) \/ StartsAt(data, i, p)
  /\ p > Len(data) => i = Len(data) + 1 \/ StartsAt(data, i, p)

Recovered(data, D, ls, x, k) == ReadSome(x, ls, k) /\ (Len(data) = Len(D) => ReadAll(x, ls, k))

LEMMA AtEnd ==
  ASSUME NEW data, Len(data) \in Nat, NEW i, NEW p \in Nat, ReadAt(data, i, p), p > Len(data)
  PROVE  First(data, i) > Len(data)
<1>1. i \in 1 .. Len(data) + 1 /\ (i = Len(data) + 1 \/ StartsAt(data, i, p))
  BY Zenon DEF ReadAt
<1>2. i = Len(data) + 1 \/ (i = Len(data) /\ data[i] = "\n")
  BY <1>1 DEF StartsAt
<1>3. CASE i = Len(data) + 1
  BY <1>3, NothingLeft
<1>4. CASE i = Len(data) /\ data[i] = "\n"
  <2> DEFINE Blank == Newline \cup {" "}
             e == First(data, i)
  <2>1. data[i] \in Blank
    BY <1>4 DEF Newline
  <2>2. Ends(data, i, Blank, e)
    BY <1>1, EndOfEnds DEF First
  <2> HIDE DEF Blank, e
  <2>3. e \in i .. Len(data) + 1 /\ (e > Len(data) \/ data[e] \notin Blank)
    BY <2>2 DEF Ends
  <2>4. e # i
    BY <1>4, <2>1, <2>3
  <2>5. e > Len(data)
    BY <1>4, <2>3, <2>4
  <2> QED
    BY <2>5 DEF e
<1> QED
  BY <1>2, <1>3, <1>4

LEMMA ReadingAt ==
  ASSUME NEW data, Len(data) \in Nat, NEW f, ReadingTo(f, data, Len(data)), NEW i \in 1 .. Len(data) + 1
  PROVE  /\ f[i] = ReadFrom(f, data, i) /\ f[Len(data) + 1] = <<>>
         /\ First(data, i) > Len(data) => f[i] = <<>>
<1>1. (Len(data) + 1) - Len(data) = 1 /\ Len(data) + 1 \in 1 .. Len(data) + 1
  OBVIOUS
<1>2. \A j \in 1 .. Len(data) + 1 : f[j] = ReadFrom(f, data, j)
  BY <1>1 DEF ReadingTo
<1>3. First(data, Len(data) + 1) > Len(data)
  BY NothingLeft
<1>4. \A j \in 1 .. Len(data) + 1 : First(data, j) > Len(data) => ReadFrom(f, data, j) = <<>>
  BY DEF ReadFrom
<1> QED
  BY <1>1, <1>2, <1>3, <1>4

LEMMA MarkFrom ==
  ASSUME NEW n \in Nat, NEW ss, NEW D, NEW P, Marked(P, ss, n, D), \A k \in 1 .. n : Len(ss[k]) \in Nat,
         NEW k \in 1 .. n + 1
  PROVE  P[k] \in Nat \ {0}
<1>1. /\ P \in [1 .. n + 1 -> Nat] /\ P[1] = 1
      /\ \A i \in 1 .. n : P[i + 1] = P[i] + Len(ss[i])
  BY Zenon DEF Marked
<1> DEFINE Bad == {i \in Nat : i \in 1 .. n + 1 /\ P[i] = 0}
<1>2. SUFFICES ASSUME Bad # {} PROVE FALSE
  BY <1>1
<1>3. PICK i \in Bad : \A o \in Bad : i <= o
  BY <1>2, LeastNumber
<1>4. PICK o \in Nat : o + 1 = i /\ o \in 1 .. n /\ o \in 1 .. n + 1 /\ o \notin Bad
  <2>1. i # 1
    BY <1>1, <1>3
  <2>2. i - 1 \in Nat /\ (i - 1) + 1 = i /\ i - 1 \in 1 .. n /\ i - 1 \in 1 .. n + 1 /\ i - 1 \notin Bad
    BY <1>3, <2>1
  <2> QED
    BY <2>2
<1>5. P[o + 1] = P[o] + Len(ss[o]) /\ P[o] \in Nat /\ Len(ss[o]) \in Nat /\ P[o] # 0
  BY <1>1, <1>4
<1>6. P[i] # 0
  BY <1>4, <1>5
<1> QED
  BY <1>3, <1>6

(* A line, where it is in the data.                                        *)
LEMMA SavedLine ==
  ASSUME NEW ls, NEW P, NEW D, NEW data, NEW f, Saved(ls, P, D, data, f), NEW k \in 1 .. Len(ls)
  PROVE  LET fig == format_u64(ls[k].number)
             txt == Text(ls[k].stmt)
         IN  /\ Writable(ls[k]) /\ Proper(fig, txt) /\ Holds(data, P[k], fig, txt) /\ number_of(fig) = ls[k].number
             /\ P[k] \in Nat \ {0} /\ Len(fig) \in Nat /\ Len(txt) \in Nat
             /\ P[k + 1] = P[k] + Len(fig) + Len(txt) + 2 /\ P[k + 1] <= Len(D) + 1 /\ Len(D) \in Nat
<1> DEFINE n == Len(ls)
           ss == [i \in 1 .. n |-> LineText(ls[i])]
           fig == format_u64(ls[k].number)
           txt == Text(ls[k].stmt)
<1>1. /\ n \in Nat /\ Writable(ls[k]) /\ Marked(P, ss, n, D)
      /\ \A i \in 1 .. n : Writable(ls[i])
      /\ \A j \in Nat \ {0} : j <= Len(data) => data[j] = D[j]
  BY Zenon DEF Saved
<1>2. Proper(fig, txt) /\ number_of(fig) = ls[k].number
  BY <1>1, WritableLine, Zenon
<1>3. Len(fig) \in Nat /\ Len(txt) \in Nat
  BY <1>2, ProperLengths, Zenon
<1>4. ASSUME NEW i \in 1 .. n PROVE Len(ss[i]) \in Nat
  <2>1. Writable(ls[i]) /\ ss[i] = LineText(ls[i])
    BY <1>1
  <2>2. Len(LineText(ls[i])) \in Nat
    BY <2>1, LineJoined
  <2> QED
    BY <2>1, <2>2
<1> HIDE DEF n
<1>5. P[k] \in Nat \ {0}
  <2>1. k \in 1 .. n + 1 /\ n \in Nat
    BY <1>1 DEF n
  <2> HIDE DEF ss
  <2> QED
    BY <1>1, <1>4, <2>1, MarkFrom
<1>6. /\ P[k + 1] = P[k] + Len(ss[k]) /\ P[k + 1] <= P[n + 1] /\ P[n + 1] = Len(D) + 1 /\ Len(D) \in Nat
      /\ \A j \in 1 .. Len(ss[k]) : D[Spot(P[k], j)] = ss[k][j]
  <2>1. k \in 1 .. n
    BY DEF n
  <2> HIDE DEF ss
  <2> QED
    BY <1>1, <2>1, Zenon DEF Marked
<1>7. ss[k] = LineText(ls[k])
  BY DEF n
<1> HIDE DEF ss
<1>8. Holds(data, P[k], fig, txt) /\ Len(ss[k]) = Len(fig) + Len(txt) + 2
  <2>1. \A j \in 1 .. Len(LineText(ls[k])) : D[Spot(P[k], j)] = LineText(ls[k])[j]
    BY <1>6, <1>7, Zenon
  <2>2. FourParts(LineText(ls[k]), fig, " ", txt, "\n", Chars)
    BY <1>1, LineJoined
  <2>3. Holds(data, P[k], fig, txt)
    BY <1>1, <1>5, <2>1, LineHolds, Zenon
  <2> QED
    BY <1>7, <2>2, <2>3, Zenon DEF FourParts
<1> HIDE DEF fig, txt
<1>9. P[k + 1] = P[k] + Len(fig) + Len(txt) + 2 /\ P[k + 1] <= Len(D) + 1 /\ Len(D) \in Nat
  BY ONLY <1>3, <1>5, <1>6, <1>8
<1> QED
  BY <1>1, <1>2, <1>3, <1>5, <1>8, <1>9, Zenon DEF fig, txt

(* What is read from a line on, given what is read from the next.          *)
LEMMA ReadsOn ==
  ASSUME NEW ls, NEW P, NEW D, NEW data, NEW f, Saved(ls, P, D, data, f), NEW k \in 1 .. Len(ls),
         \A i : ReadAt(data, i, P[k + 1]) => Recovered(data, D, ls, f[i], k + 1),
         NEW i, ReadAt(data, i, P[k])
  PROVE  Recovered(data, D, ls, f[i], k)
<1> DEFINE L == Len(data)
           p == P[k]
           fig == format_u64(ls[k].number)
           txt == Text(ls[k].stmt)
           x == p + Len(fig)
           y == x + Len(txt)
<1>1. /\ Len(ls) \in Nat /\ data \in Seq(Chars) /\ L <= Len(D) /\ ReadingTo(f, data, L)
  BY Zenon DEF Saved
<1>2. L \in Nat
  BY <1>1
<1>3. /\ Writable(ls[k]) /\ Proper(fig, txt) /\ Holds(data, p, fig, txt) /\ number_of(fig) = ls[k].number
      /\ p \in Nat \ {0} /\ Len(fig) \in Nat /\ Len(txt) \in Nat
      /\ P[k + 1] = y + 2 /\ y + 2 <= Len(D) + 1 /\ Len(D) \in Nat
  BY SavedLine
<1>4. Len(txt) # 0 /\ k \in 1 .. Len(ls) + 1
  <2>1. Len(txt) # 0
    BY <1>3, ProperLengths, Zenon
  <2> QED
    BY <1>1, <2>1
<1> HIDE DEF p, fig, txt
<1>5. x \in Nat /\ y \in Nat /\ p <= x /\ x < y /\ y + 1 <= Len(D)
  BY <1>2, <1>3, <1>4
<1>6. i \in 1 .. L + 1 /\ f[i] = ReadFrom(f, data, i) /\ f[L + 1] = <<>>
      /\ (First(data, i) > L => f[i] = <<>>)
  <2>1. i \in 1 .. L + 1
    BY Zenon DEF ReadAt
  <2> QED
    BY <1>1, <1>2, <2>1, ReadingAt
<1>7. ReadSome(<<>>, ls, k)
  BY <1>1, <1>4, NoneRead
<1>8. CASE p > L
  <2>1. First(data, i) > L
    BY <1>2, <1>3, <1>8, AtEnd DEF p
  <2>2. L # Len(D)
    BY <1>2, <1>3, <1>5, <1>8
  <2> QED
    BY <1>6, <1>7, <2>1, <2>2, Zenon DEF Recovered
<1>9. CASE ~(p > L)
  <2>1. p <= L
    BY <1>2, <1>3, <1>9
  <2>2. StartsAt(data, i, p)
    BY <1>9, Zenon DEF ReadAt, p
  <2>3. CASE y <= L
    <3>1. ReadsTo(data, i, Entry(number_of(fig), txt), y + 1)
      BY <1>1, <1>3, <2>1, <2>2, <2>3, ReadsWhole
    <3>2. f[i] = <<WholeEntry(ls[k])>> \o f[y + 1]
      BY <1>3, <1>6, <3>1, Zenon DEF ReadsTo, WholeEntry, txt
    <3>3. ReadAt(data, y + 1, y + 2)
      <4>1. y + 1 \in 1 .. L + 1 /\ y + 1 \in Nat \ {0} /\ (y + 1) + 1 = y + 2
        BY <1>2, <1>5, <2>3
      <4>2. CASE y + 1 <= L
        <5>1. data[y + 1] = "\n"
          BY <1>3, <4>2, Zenon DEF Holds
        <5>2. StartsAt(data, y + 1, y + 2)
          BY <4>1, <4>2, <5>1, Zenon DEF StartsAt
        <5> QED
          BY <4>1, <5>2, Zenon DEF ReadAt
      <4>3. CASE ~(y + 1 <= L)
        <5>1. y + 1 = L + 1 /\ y + 2 > L
          BY <1>2, <1>5, <2>3, <4>3
        <5> QED
          BY <4>1, <5>1, Zenon DEF ReadAt
      <4> QED
        BY <4>2, <4>3
    <3>4. Recovered(data, D, ls, f[y + 1], k + 1)
      BY <1>3, <3>3, Zenon
    <3> DEFINE z == f[y + 1]
    <3>5. ReadSome(z, ls, k + 1) /\ (L = Len(D) => ReadAll(z, ls, k + 1))
      BY <3>4, Zenon DEF Recovered
    <3> HIDE DEF z, L
    <3>6. /\ ReadSome(<<WholeEntry(ls[k])>> \o z, ls, k)
          /\ ReadAll(z, ls, k + 1) => ReadAll(<<WholeEntry(ls[k])>> \o z, ls, k)
      BY <1>1, <1>3, <3>5, OneRead
    <3> QED
      BY <3>2, <3>5, <3>6, Zenon DEF Recovered, z, L
  <2>4. CASE ~(y <= L)
    <3>1. L # Len(D)
      BY <1>2, <1>3, <1>5, <2>4
    <3>2. SUFFICES ReadSome(f[i], ls, k)
      BY <3>1, Zenon DEF Recovered
    <3>3. CASE L <= x
      <4>1. ReadFrom(f, data, i) = f[L + 1]
        BY <1>1, <1>3, <2>1, <2>2, <3>3, ReadsNone
      <4> QED
        BY <1>6, <1>7, <4>1, Zenon
    <3>4. CASE ~(L <= x)
      <4> DEFINE c == L - x
      <4>1. c \in 1 .. Len(txt) - 1 /\ c \in 1 .. Len(txt) /\ L = x + c
        <5> HIDE DEF x, L
        <5> QED
          BY <1>2, <1>3, <1>5, <2>4, <3>4
      <4> HIDE DEF c
      <4>2. ReadsTo(data, i, Entry(number_of(fig), SubSeq(txt, 1, c)), L + 1)
        BY <1>1, <1>3, <2>1, <2>2, <4>1, ReadsPart
      <4>3. f[i] = <<CutEntry(ls[k], c)>> \o <<>>
        BY <1>3, <1>6, <4>2, Zenon DEF ReadsTo, CutEntry, txt
      <4>4. <<CutEntry(ls[k], c)>> \o <<>> = <<CutEntry(ls[k], c)>>
        OBVIOUS
      <4>5. ReadSome(<<CutEntry(ls[k], c)>>, ls, k)
        BY <1>1, <1>3, <4>1, PartRead DEF txt
      <4> QED
        BY <4>3, <4>4, <4>5, Zenon
    <3> QED
      BY <3>3, <3>4
  <2> QED
    BY <2>3, <2>4
<1> QED
  BY <1>8, <1>9

LEMMA ReadsLines ==
  ASSUME NEW ls, NEW P, NEW D, NEW data, NEW f, Saved(ls, P, D, data, f)
  PROVE  Recovered(data, D, ls, f[1], 1)
<1> DEFINE n == Len(ls)
           L == Len(data)
           Good(k) == \A i : ReadAt(data, i, P[k]) => Recovered(data, D, ls, f[i], k)
           Bad == {m \in Nat : m <= n /\ ~Good((n + 1) - m)}
<1>1. /\ n \in Nat /\ data \in Seq(Chars) /\ L <= Len(D) /\ ReadingTo(f, data, L) /\ L \in Nat
      /\ Marked(P, [k \in 1 .. n |-> LineText(ls[k])], n, D)
  <2>1. /\ n \in Nat /\ data \in Seq(Chars) /\ L <= Len(D) /\ ReadingTo(f, data, L)
        /\ Marked(P, [k \in 1 .. n |-> LineText(ls[k])], n, D)
    BY Zenon DEF Saved
  <2> QED
    BY <2>1
<1>2. P[1] = 1 /\ P[n + 1] = Len(D) + 1 /\ Len(D) \in Nat
  BY <1>1, Zenon DEF Marked
<1>3. Good(n + 1)
  <2> SUFFICES ASSUME NEW i, ReadAt(data, i, P[n + 1]) PROVE Recovered(data, D, ls, f[i], n + 1)
    OBVIOUS
  <2>1. P[n + 1] \in Nat /\ P[n + 1] > L
    BY <1>1, <1>2
  <2>2. First(data, i) > L
    BY <1>1, <2>1, AtEnd
  <2>3. f[i] = <<>>
    <3>1. i \in 1 .. L + 1
      BY Zenon DEF ReadAt
    <3> QED
      BY <1>1, <2>2, <3>1, ReadingAt
  <2>4. n + 1 \in 1 .. n + 1
    BY <1>1
  <2>5. ReadSome(<<>>, ls, n + 1) /\ ReadAll(<<>>, ls, n + 1)
    BY <1>1, <2>4, NoneRead
  <2> QED
    BY <2>3, <2>5, Zenon DEF Recovered
<1>4. Bad = {}
  <2>1. SUFFICES ASSUME Bad # {} PROVE FALSE
    OBVIOUS
  <2> HIDE DEF Good
  <2>2. PICK m \in Bad : \A o \in Bad : m <= o
    BY <2>1, LeastNumber
  <2>3. m # 0
    <3>1. (n + 1) - 0 = n + 1
      BY <1>1
    <3> QED
      BY <1>3, <2>2, <3>1
  <2> DEFINE k == (n + 1) - m
  <2>4. k \in 1 .. n /\ Good(k + 1)
    <3>1. m - 1 \in Nat /\ m - 1 <= n /\ (n + 1) - (m - 1) = k + 1 /\ k \in 1 .. n /\ ~(m <= m - 1)
      BY <1>1, <2>2, <2>3
    <3>2. m - 1 \notin Bad
      BY <2>2, <3>1
    <3> QED
      BY <3>1, <3>2
  <2>5. Good(k)
    <3> HIDE DEF k
    <3> QED
      BY <2>4, ReadsOn DEF Good
  <2> QED
    BY <2>2, <2>5
<1>5. Good(1)
  <2> HIDE DEF Good
  <2>1. n \in Nat /\ n <= n /\ (n + 1) - n = 1
    BY <1>1
  <2>2. n \notin Bad
    BY <1>4
  <2> QED
    BY <2>1, <2>2
<1>6. ReadAt(data, 1, 1)
  <2>1. 1 \in 1 .. L + 1 /\ 1 \in Nat \ {0}
    BY <1>1
  <2>2. StartsAt(data, 1, 1)
    BY ONLY <2>1 DEF StartsAt
  <2> QED
    BY <2>1, <2>2, Zenon DEF ReadAt
<1> QED
  BY <1>2, <1>5, <1>6, Zenon

----------------------------------------------------------------------------
(* Lines that come in order are put one behind the other.                  *)

LEMMA LastBefore ==
  ASSUME NEW ls, Ordered(ls), NEW number \in Nat, \A i \in 1 .. Len(ls) : ls[i].number < number
  PROVE  find_line_or_after(ls, number) = Len(ls)
<1> DEFINE r == find_line_or_after(ls, number)
           n == Len(ls)
<1>1. r \in 0 .. n /\ Before(ls, number, r) /\ n \in Nat
  BY FindLineOrAfter, OrderedLength
<1> HIDE DEF r
<1>2. ASSUME r # n PROVE FALSE
  <2>1. r + 1 \in 1 .. n /\ ~(r + 1 <= r)
    BY <1>1, <1>2
  <2> QED
    BY <1>1, <2>1 DEF Before
<1> QED
  BY <1>2 DEF r

LEMMA InsertLast ==
  ASSUME NEW S, NEW ls \in Seq(S), Ordered(ls), NEW number \in Nat, \A i \in 1 .. Len(ls) : ls[i].number < number,
         NEW s, s # NoText, Entry(number, s) \in S
  PROVE  Inserted(insert_line(ls, number, s), S, ls, Len(ls) + 1, Entry(number, s))
<1> DEFINE n == Len(ls)
           e == Entry(number, s)
<1>1. find_line_or_after(ls, number) = n
  BY LastBefore
<1>2. n \in Nat /\ ~(n < n) /\ n + 1 \in 1 .. n + 1
  BY OrderedLength
<1>3. find_line(ls, number) = {}
  BY <1>1, <1>2 DEF find_line
<1>4. insert_line(ls, number, s) = InsertAt(ls, n + 1, e)
  BY <1>1, <1>3, Zenon DEF insert_line, Entry
<1>5. Inserted(InsertAt(ls, n + 1, e), S, ls, n + 1, e)
  <2> HIDE DEF e, n
  <2>1. n + 1 \in 1 .. Len(ls) + 1 /\ e \in S
    BY <1>2 DEF n, e
  <2> QED
    BY <2>1, Inserting
<1> QED
  BY <1>4, <1>5

(* Lines of a file with numbers in order, and something on each.           *)
InFile(x, S) ==
  /\ x \in Seq(S)
  /\ \A i \in 1 .. Len(x) : x[i].number \in Nat /\ x[i].stmt # NoText /\ x[i] = Entry(x[i].number, x[i].stmt)
  /\ \A i, j \in 1 .. Len(x) : i < j => x[i].number < x[j].number

(* y is the first m lines of x but the first d of them.                    *)
Without(y, S, x, d, m) ==
  /\ y \in Seq(S)
  /\ Len(y) = IF m <= d THEN 0 ELSE m - d
  /\ \A i \in 1 .. Len(y) : y[i] = x[i + d]

LEMMA WithoutNext ==
  ASSUME NEW S, NEW x, InFile(x, S), NEW d \in Nat, \A i \in 1 .. Len(x) : x[i].number > 0 <=> i > d,
         NEW m \in Nat, m + 1 <= Len(x), NEW y, Without(y, S, x, d, m)
  PROVE  Without(Added(y, x[m + 1]), S, x, d, m + 1)
<1> DEFINE e == x[m + 1]
           L == Len(y)
<1>1. /\ y \in Seq(S) /\ L = IF m <= d THEN 0 ELSE m - d
      /\ \A i \in 1 .. L : y[i] = x[i + d]
  BY Zenon DEF Without
<1>2. /\ x \in Seq(S)
      /\ \A i \in 1 .. Len(x) : x[i].number \in Nat /\ x[i].stmt # NoText /\ x[i] = Entry(x[i].number, x[i].stmt)
      /\ \A i, j \in 1 .. Len(x) : i < j => x[i].number < x[j].number
  BY Zenon DEF InFile
<1>3. m + 1 \in 1 .. Len(x) /\ Len(x) \in Nat /\ L \in Nat
  BY <1>1, <1>2
<1>4. /\ e.number \in Nat /\ e.stmt # NoText /\ e = Entry(e.number, e.stmt) /\ e \in S
      /\ e.number > 0 <=> m + 1 > d
  <2>1. e \in S
    BY <1>2, <1>3
  <2> QED
    BY <1>2, <1>3, <2>1, Zenon
<1> HIDE DEF L
<1>5. CASE m + 1 <= d
  <2>1. ~(e.number > 0)
    <3> HIDE DEF e
    <3> QED
      BY <1>4, <1>5
  <2>2. Added(y, e) = y
    BY <2>1, Zenon DEF Added
  <2>3. m <= d
    BY <1>5
  <2> QED
    BY <1>1, <1>5, <2>2, <2>3 DEF Without, L
<1>6. CASE ~(m + 1 <= d)
  <2>1. m >= d /\ L = m - d /\ e.number > 0 /\ L + 1 = (m + 1) - d /\ (L + 1) + d = m + 1
    <3> HIDE DEF e
    <3> QED
      BY <1>1, <1>4, <1>6
  <2>2. Added(y, e) = insert_line(y, e.number, e.stmt)
    BY <1>4, <2>1, Zenon DEF Added
  <2>3. \A i \in 1 .. L : y[i] = x[i + d] /\ i + d \in 1 .. Len(x) /\ i + d < m + 1
    BY <1>1, <1>3, <2>1
  <2>4. Ordered(y)
    <3>1. \A i \in 1 .. L : y[i].number \in Nat
      BY <1>2, <2>3
    <3>2. \A i, j \in 1 .. L : i < j => i + d < j + d
      BY <1>3
    <3>3. \A i, j \in 1 .. L : i < j => y[i].number < y[j].number
      BY <1>2, <2>3, <3>2
    <3> QED
      BY <1>3, <3>1, <3>3 DEF Ordered, L
  <2>5. \A i \in 1 .. L : y[i].number < e.number
    BY <1>2, <1>3, <2>3
  <2>6. Entry(e.number, e.stmt) \in S
    BY <1>4, Zenon
  <2> HIDE DEF e
  <2>7. Inserted(insert_line(y, e.number, e.stmt), S, y, L + 1, Entry(e.number, e.stmt))
    BY <1>1, <1>4, <2>4, <2>5, <2>6, InsertLast DEF L
  <2> DEFINE z == Added(y, e)
  <2>8. /\ z \in Seq(S) /\ Len(z) = L + 1
        /\ \A i \in 1 .. L + 1 : z[i] = IF i < L + 1 THEN y[i] ELSE IF i = L + 1 THEN e ELSE y[i - 1]
    BY <1>4, <2>2, <2>7, Zenon DEF Inserted, L
  <2> HIDE DEF z
  <2>9. ASSUME NEW i \in 1 .. L + 1 PROVE z[i] = x[i + d]
    <3>1. CASE i = L + 1
      <4>1. ~(i < L + 1) /\ i + d = m + 1
        BY <1>3, <2>1, <3>1
      <4> QED
        BY <2>8, <3>1, <4>1 DEF e
    <3>2. CASE i # L + 1
      <4>1. i < L + 1 /\ i \in 1 .. L
        BY <1>3, <3>2
      <4> QED
        BY <2>3, <2>8, <4>1
    <3> QED
      BY <3>1, <3>2
  <2>10. Len(z) = IF m + 1 <= d THEN 0 ELSE (m + 1) - d
    BY <1>6, <2>1, <2>8
  <2>11. Without(z, S, x, d, m + 1)
    BY <2>8, <2>9, <2>10, Zenon DEF Without
  <2> QED
    BY <2>11 DEF z, e
<1> QED
  BY <1>5, <1>6

(* What is kept of lines in order: all of them with a number above 0.      *)
LEMMA LoadsInOrder ==
  ASSUME NEW S, NEW x, InFile(x, S), NEW d \in Nat, \A i \in 1 .. Len(x) : x[i].number > 0 <=> i > d
  PROVE  Without(deserialize_program(x), S, x, d, Len(x))
<1> DEFINE n == Len(x)
<1>1. n \in Nat /\ DOMAIN x = 1 .. n
  <2>1. x \in Seq(S)
    BY Zenon DEF InFile
  <2> QED
    BY <2>1
<1> HIDE DEF n
<1>2. PICK f : Folded("line", f, <<>>, x, n) /\ deserialize_program(x) = f[1 .. n]
  BY <1>1, FoldIs
<1> DEFINE Good(m) == Without(f[1 .. m], S, x, d, m)
           Bad == {m \in Nat : m <= n /\ ~Good(m)}
<1>3. Bad = {}
  <2>1. SUFFICES ASSUME Bad # {} PROVE FALSE
    OBVIOUS
  <2> HIDE DEF Good
  <2>2. PICK m \in Bad : \A o \in Bad : m <= o
    BY <2>1, LeastNumber
  <2>3. m # 0
    <3>1. f[1 .. 0] = <<>>
      BY <1>1, <1>2, FoldStart
    <3>2. <<>> \in Seq(S) /\ Len(<<>>) = 0 /\ 0 <= d /\ 1 .. 0 = {}
      OBVIOUS
    <3>3. Good(0)
      BY ONLY <3>1, <3>2 DEF Without, Good
    <3> QED
      BY <2>2, <3>3
  <2>4. PICK o \in Nat : o + 1 = m /\ o + 1 <= n /\ Good(o)
    <3>1. m - 1 \in Nat /\ (m - 1) + 1 = m /\ m - 1 \notin Bad /\ m - 1 <= n /\ m <= n
      BY <1>1, <2>2, <2>3
    <3> QED
      BY <3>1
  <2>5. f[1 .. o + 1] = Added(f[1 .. o], x[o + 1])
    <3>1. o \in 0 .. n - 1
      BY <1>1, <2>4
    <3>2. f[1 .. o + 1] = Taken("line", f[1 .. o], x[o + 1])
      BY <1>1, <1>2, <3>1, FoldStep
    <3> QED
      BY <3>2 DEF Taken
  <2>6. Good(o + 1)
    <3> DEFINE y == f[1 .. o]
    <3>1. Without(y, S, x, d, o) /\ o + 1 <= Len(x)
      BY <2>4 DEF Good, n
    <3> HIDE DEF y
    <3>2. Without(Added(y, x[o + 1]), S, x, d, o + 1)
      BY <2>4, <3>1, WithoutNext
    <3> QED
      BY <2>5, <3>2, Zenon DEF Good, y
  <2> QED
    BY <2>2, <2>4, <2>6
<1>4. Good(n)
  <2> HIDE DEF Good
  <2>1. n <= n /\ n \notin Bad
    BY <1>1, <1>3
  <2> QED
    BY <1>1, <2>1
<1> QED
  BY <1>2, <1>4, Zenon DEF n

----------------------------------------------------------------------------
(* What is saved survives.                                                 *)

LEMMA WordIs == Word \in Nat
BY DEF Word

(* What a file holds that was saved: the lines, or the first of them.      *)
LEMMA SavedIs ==
  ASSUME NEW ls, Len(ls) \in Nat, DOMAIN ls = 1 .. Len(ls), \A k \in 1 .. Len(ls) : Writable(ls[k])
  PROVE  LET data == serialize_program(ls)
             x    == FileLines(data)
         IN  ReadSome(x, ls, 1) /\ (Len(data) < PROGRAM_BUF_SIZE => ReadAll(x, ls, 1))
<1> DEFINE n == Len(ls)
           ss == [k \in 1 .. n |-> LineText(ls[k])]
           D == FlattenSeq(ss)
           data == serialize_program(ls)
           B == PROGRAM_BUF_SIZE
<1>1. ss \in Seq(Seq(Chars)) /\ Len(ss) = n
  <2>1. ASSUME NEW k \in 1 .. n PROVE LineText(ls[k]) \in Seq(Chars)
    <3>1. FourParts(LineText(ls[k]), format_u64(ls[k].number), " ", Text(ls[k].stmt), "\n", Chars)
      BY LineJoined
    <3> QED
      BY <3>1, Zenon DEF FourParts
  <2> QED
    BY <2>1
<1>2. ss = [i \in DOMAIN ls |-> LineText(ls[i])]
  OBVIOUS
<1>3. data = Cut(D, B)
  BY <1>2 DEF serialize_program
<1> HIDE DEF ss, D, data
<1>4. PICK P : D \in Seq(Chars) /\ Marked(P, ss, n, D)
  BY <1>1, MarksExist DEF D
<1>5. B \in Nat /\ Len(D) \in Nat
  <2>1. PROGRAM_BUF_SIZE \in Nat
    BY ListingAssumption, Zenon
  <2>2. Len(D) \in Nat
    BY <1>4
  <2> QED
    BY <2>1, <2>2
<1>6. Min({B, Len(D)}) = IF B <= Len(D) THEN B ELSE Len(D)
  <2>1. {B, Len(D)} \in SUBSET Nat
    BY <1>5
  <2>2. CASE B <= Len(D)
    <3>1. B \in {B, Len(D)} /\ \A j \in {B, Len(D)} : B <= j
      BY <1>5, <2>2
    <3> QED
      BY <2>1, <2>2, <3>1, MinIs
  <2>3. CASE ~(B <= Len(D))
    <3>1. Len(D) \in {B, Len(D)} /\ \A j \in {B, Len(D)} : Len(D) <= j
      BY <1>5, <2>3
    <3> QED
      BY <2>1, <2>3, <3>1, MinIs
  <2> QED
    BY <2>2, <2>3
<1> DEFINE l == Min({B, Len(D)})
<1>7. data = SubSeq(D, 1, l)
  BY <1>3 DEF Cut
<1>8. l \in Nat /\ l <= Len(D) /\ (l < B => l = Len(D))
  BY <1>5, <1>6
<1> HIDE DEF l, B
<1>9. data \in Seq(Chars) /\ Len(data) = l /\ \A j \in 1 .. l : data[j] = D[j]
  <2>1. \A j \in 1 .. l : D[j] \in Chars
    BY <1>4, <1>5, <1>8
  <2> QED
    BY <1>4, <1>5, <1>7, <1>8, <2>1
<1>10. PICK f : ReadingTo(f, data, Len(data)) /\ FileLines(data) = f[1]
  BY <1>8, <1>9, FileLinesIs
<1>11. \A j \in Nat \ {0} : j <= Len(data) => data[j] = D[j]
  BY <1>8, <1>9
<1>12. Saved(ls, P, D, data, f)
  BY <1>4, <1>8, <1>9, <1>10, <1>11, Zenon DEF Saved, ss
<1>13. Recovered(data, D, ls, f[1], 1)
  BY <1>12, ReadsLines
<1> QED
  BY <1>8, <1>9, <1>10, <1>13, Zenon DEF Recovered, data, B

(* The lines of a program can be saved.                                    *)
LEMMA ProgramWritable ==
  ASSUME NEW line \in ProgramLine, line.stmt # NoText
  PROVE  Writable(line) /\ \A c \in 1 .. Len(Text(line.stmt)) : SubSeq(Text(line.stmt), 1, c) # NoText
<1> DEFINE t == Text(line.stmt)
<1>1. line.number \in Number /\ line.stmt \in Stmt
  BY DEF ProgramLine
<1>2. line.number \in Nat /\ Fits(line.number)
  <2>1. line.number \in 0 .. Word - 1
    BY <1>1, ListingAssumption
  <2> QED
    BY <2>1, WordIs DEF Fits
<1>3. /\ t \in Seq(STRING) /\ t # <<>> /\ t[1] # " "
      /\ \A i \in DOMAIN t : t[i] \notin Newline /\ SubSeq(t, 1, i) # NoText
  BY <1>1, ListingAssumption, Zenon DEF Stmt, Newline
<1> HIDE DEF t
<1>4. t \in Seq(Chars) /\ Len(t) \in Nat /\ Len(t) # 0 /\ DOMAIN t = 1 .. Len(t)
  <2>1. STRING \subseteq Chars
    BY DEF Chars
  <2>2. t \in Seq(STRING) /\ t # <<>>
    BY <1>3, Zenon
  <2>3. t \in Seq(Chars)
    <3>1. Len(t) \in Nat /\ t = [j \in 1 .. Len(t) |-> t[j]] /\ \A j \in 1 .. Len(t) : t[j] \in STRING
      BY ONLY <2>2
    <3>2. \A j \in 1 .. Len(t) : t[j] \in Chars
      BY <2>1, <3>1, Zenon
    <3>3. [j \in 1 .. Len(t) |-> t[j]] \in Seq(Chars)
      BY ONLY <3>1, <3>2
    <3> QED
      BY <3>1, <3>3, Zenon
  <2>4. Len(t) \in Nat /\ Len(t) # 0 /\ DOMAIN t = 1 .. Len(t)
    BY ONLY <2>2
  <2> QED
    BY <2>3, <2>4
<1>5. Spells(format_u64(line.number), line.number) /\ format_u64(line.number) # <<>>
  BY <1>2, ReadsWritten
<1>6. /\ format_u64(line.number) \in Seq(Figures) /\ Len(format_u64(line.number)) \in Nat
      /\ Len(format_u64(line.number)) # 0
  <2> DEFINE g == format_u64(line.number)
  <2>1. g \in Seq(Figures) /\ g # <<>>
    BY <1>5, Zenon DEF Spells
  <2> HIDE DEF g
  <2>2. Len(g) \in Nat /\ Len(g) # 0
    BY <2>1
  <2> QED
    BY <2>1, <2>2 DEF g
<1>7. Proper(format_u64(line.number), t)
  BY <1>3, <1>4, <1>6, Zenon DEF Proper
<1>8. Writable(line)
  BY <1>2, <1>4, <1>7, Zenon DEF Writable, t
<1> QED
  BY <1>3, <1>4, <1>8, Zenon DEF t

(* The start of a text is a prefix of it.                                  *)
LEMMA PrefixIs ==
  ASSUME NEW C, NEW t \in Seq(C), NEW c \in 1 .. Len(t)
  PROVE  IsPrefix(SubSeq(t, 1, c), t)
<1>1. Len(t) \in Nat /\ \A j \in 1 .. c : t[j] \in C
  OBVIOUS
<1>2. Len(SubSeq(t, 1, c)) = c /\ SubSeq(SubSeq(t, 1, c), 1, c) = SubSeq(t, 1, c) /\ c <= Len(t)
  BY <1>1
<1> QED
  BY <1>2 DEF IsPrefix

(* The lines but line 0: how many there are before them.                   *)
Zero(ls) == IF ls # <<>> /\ ls[1].number = 0 THEN 1 ELSE 0

LEMMA ZeroIs ==
  ASSUME NEW ls, Table(ls)
  PROVE  /\ Zero(ls) \in {0, 1} /\ Zero(ls) <= Len(ls)
         /\ \A i \in 1 .. Len(ls) : ls[i].number > 0 <=> i > Zero(ls)
<1> DEFINE n == Len(ls)
<1>1. n \in Nat /\ (\A i \in 1 .. n : ls[i].number \in Nat) /\ \A i, j \in 1 .. n : i < j => ls[i].number < ls[j].number
  BY TableOrdered DEF Ordered
<1>2. ls = <<>> <=> n = 0
  <2>1. ls \in Seq(ProgramLine)
    BY DEF Table
  <2> QED
    BY <2>1
<1> HIDE DEF n
<1>3. CASE n = 0
  BY <1>2, <1>3 DEF Zero, n
<1>4. CASE n # 0
  <2>1. 1 \in 1 .. n /\ ls # <<>>
    BY <1>1, <1>2, <1>4
  <2>2. ls[1].number \in Nat /\ \A i \in 1 .. n : i = 1 \/ ls[1].number < ls[i].number
    <3>1. \A i \in 1 .. n : i = 1 \/ 1 < i
      BY <1>1
    <3> QED
      BY <1>1, <2>1, <3>1
  <2>3. CASE ls[1].number = 0
    <3>1. Zero(ls) = 1
      BY <2>1, <2>3 DEF Zero
    <3>2. \A i \in 1 .. n : ls[i].number > 0 <=> i > 1
      BY <1>1, <2>2, <2>3
    <3> QED
      BY <1>1, <1>4, <3>1, <3>2 DEF n
  <2>4. CASE ls[1].number # 0
    <3>1. Zero(ls) = 0
      BY <2>4 DEF Zero
    <3>2. \A i \in 1 .. n : ls[i].number > 0 <=> i > 0
      BY <1>1, <2>2, <2>4
    <3> QED
      BY <1>1, <3>1, <3>2 DEF n
  <2> QED
    BY <2>3, <2>4
<1> QED
  BY <1>3, <1>4

LEMMA NumberedIs ==
  ASSUME NEW ls, Table(ls)
  PROVE  /\ Numbered(ls) \in Seq(ProgramLine) /\ Len(Numbered(ls)) = Len(ls) - Zero(ls)
         /\ \A i \in 1 .. Len(ls) - Zero(ls) : Numbered(ls)[i] = ls[i + Zero(ls)]
<1>1. ls \in Seq(ProgramLine) /\ Len(ls) \in Nat
  BY TableLength DEF Table
<1>2. CASE ls # <<>> /\ ls[1].number = 0
  <2>1. Numbered(ls) = Tail(ls) /\ Zero(ls) = 1
    BY <1>2 DEF Numbered, Zero
  <2>2. Tail(ls) \in Seq(ProgramLine) /\ Len(Tail(ls)) = Len(ls) - 1 /\ \A i \in 1 .. Len(ls) - 1 : Tail(ls)[i] = ls[i + 1]
    BY <1>1, <1>2
  <2> QED
    BY <2>1, <2>2
<1>3. CASE ~(ls # <<>> /\ ls[1].number = 0)
  <2>1. Numbered(ls) = ls /\ Zero(ls) = 0
    BY <1>3, Zenon DEF Numbered, Zero
  <2>2. Len(ls) - 0 = Len(ls) /\ \A i \in 1 .. Len(ls) : i + 0 = i
    BY <1>1
  <2> QED
    BY <1>1, <2>1, <2>2
<1> QED
  BY <1>2, <1>3

(* Each line that is read is a line of the program, at least its start.    *)
LEMMA ReadIs ==
  ASSUME NEW ls, Len(ls) \in Nat, \A i \in 1 .. Len(ls) : Writable(ls[i]), NEW x, ReadSome(x, ls, 1)
  PROVE  /\ x \in Seq(TextLine) /\ Len(x) <= Len(ls)
         /\ \A j \in 1 .. Len(x) : \E c \in 1 .. Len(Text(ls[j].stmt)) : x[j] = CutEntry(ls[j], c)
         /\ \A j \in 1 .. Len(x) : j # Len(x) => x[j] = WholeEntry(ls[j])
<1>1. /\ x \in Seq(TextLine) /\ Len(x) + 1 <= Len(ls) + 1
      /\ \A j \in 1 .. Len(x) : j # Len(x) => x[j] = WholeEntry(ls[Spot(1, j)])
      /\ Len(x) # 0 => \E c \in 1 .. Len(Text(ls[Spot(1, Len(x))].stmt)) : x[Len(x)] = CutEntry(ls[Spot(1, Len(x))], c)
  BY Zenon DEF ReadSome
<1>2. Len(x) \in Nat
  BY <1>1
<1>3. \A j \in 1 .. Len(x) : Spot(1, j) = j
  BY DEF Spot
<1>4. Len(x) # 0 => Spot(1, Len(x)) = Len(x)
  BY <1>2 DEF Spot
<1>5. Len(x) <= Len(ls) /\ \A j \in 1 .. Len(x) : j \in 1 .. Len(ls) /\ Len(x) # 0
  BY <1>1, <1>2
<1>6. \A j \in 1 .. Len(x) : j # Len(x) => x[j] = WholeEntry(ls[j])
  BY <1>1, <1>3
<1>7. ASSUME NEW j \in 1 .. Len(x) PROVE \E c \in 1 .. Len(Text(ls[j].stmt)) : x[j] = CutEntry(ls[j], c)
  <2>1. CASE j = Len(x)
    BY <1>1, <1>4, <1>5, <2>1, Zenon
  <2>2. CASE j # Len(x)
    <3> DEFINE l == Len(Text(ls[j].stmt))
    <3>1. l \in Nat \ {0} /\ CutEntry(ls[j], l) = WholeEntry(ls[j])
      BY <1>5, EntryIs, Zenon
    <3>2. l \in 1 .. l
      BY <3>1
    <3> QED
      BY <1>6, <2>2, <3>1, <3>2, Zenon
  <2> QED
    BY <2>1, <2>2
<1> QED
  BY <1>1, <1>5, <1>6, <1>7, Zenon

(* What is read of a program that was saved is in order, and its lines are *)
(* lines of the program, at least their starts.                            *)
LEMMA FileIs ==
  ASSUME NEW ls, Table(ls), WithText(ls)
  PROVE  LET data == serialize_program(ls)
             x    == FileLines(data)
         IN  /\ \A i \in 1 .. Len(ls) : Writable(ls[i])
             /\ InFile(x, TextLine)
             /\ Len(x) \in Nat /\ Len(x) <= Len(ls)
             /\ \A j \in 1 .. Len(x) : /\ x[j].number = ls[j].number
                                       /\ IsPrefix(x[j].stmt, Text(ls[j].stmt))
             /\ \A j \in 1 .. Len(x) : j # Len(x) => x[j] = WholeEntry(ls[j])
             /\ Len(data) < PROGRAM_BUF_SIZE => Len(x) = Len(ls) /\ \A j \in 1 .. Len(x) : x[j] = WholeEntry(ls[j])
<1> DEFINE data == serialize_program(ls)
           x == FileLines(data)
           T(i) == Text(ls[i].stmt)
<1>1. Len(ls) \in Nat /\ DOMAIN ls = 1 .. Len(ls) /\ \A i \in 1 .. Len(ls) : ls[i] \in ProgramLine /\ ls[i].number \in Nat
  BY TableLength, Zenon
<1>2. \A i, j \in 1 .. Len(ls) : i < j => ls[i].number < ls[j].number
  BY Zenon DEF Table
<1>3. ASSUME NEW i \in 1 .. Len(ls)
      PROVE  /\ Writable(ls[i]) /\ \A c \in 1 .. Len(T(i)) : SubSeq(T(i), 1, c) # NoText
  <2>1. ls[i] \in ProgramLine
    BY <1>1, Zenon
  <2>2. ls[i].stmt # NoText
    BY <1>1 DEF WithText, LinesOf
  <2> QED
    BY <2>1, <2>2, ProgramWritable, Zenon
<1>4. \A i \in 1 .. Len(ls) : Writable(ls[i])
  BY <1>3, Zenon
<1>5. ReadSome(x, ls, 1) /\ (Len(data) < PROGRAM_BUF_SIZE => ReadAll(x, ls, 1))
  BY <1>1, <1>4, SavedIs, Zenon
<1> HIDE DEF x, data
<1>6. /\ x \in Seq(TextLine) /\ Len(x) <= Len(ls)
      /\ \A j \in 1 .. Len(x) : \E c \in 1 .. Len(T(j)) : x[j] = CutEntry(ls[j], c)
      /\ \A j \in 1 .. Len(x) : j # Len(x) => x[j] = WholeEntry(ls[j])
  <2>1. /\ x \in Seq(TextLine) /\ Len(x) <= Len(ls)
        /\ \A j \in 1 .. Len(x) : \E c \in 1 .. Len(Text(ls[j].stmt)) : x[j] = CutEntry(ls[j], c)
        /\ \A j \in 1 .. Len(x) : j # Len(x) => x[j] = WholeEntry(ls[j])
    <3>1. Len(ls) \in Nat
      BY <1>1, Zenon
    <3>2. ReadSome(x, ls, 1)
      BY <1>5, Zenon
    <3> HIDE DEF T
    <3> QED
      BY ONLY <1>4, <3>1, <3>2, ReadIs
  <2> QED
    BY <2>1, Zenon DEF T
<1>7. Len(x) \in Nat
  BY <1>6
<1>8. \A j \in 1 .. Len(x) : j \in 1 .. Len(ls)
  BY <1>1, <1>6, <1>7
<1>9. ASSUME NEW j \in 1 .. Len(x)
      PROVE  /\ x[j].number = ls[j].number /\ x[j].stmt # NoText
             /\ x[j] = Entry(x[j].number, x[j].stmt) /\ IsPrefix(x[j].stmt, T(j))
  <2>1. PICK c \in 1 .. Len(T(j)) : x[j] = CutEntry(ls[j], c)
    BY <1>6, Zenon
  <2>2. x[j].number = ls[j].number /\ x[j].stmt = SubSeq(T(j), 1, c)
    BY <2>1 DEF CutEntry, Entry
  <2>3. x[j] = Entry(x[j].number, x[j].stmt)
    BY <2>1, <2>2, Zenon DEF CutEntry
  <2>4. T(j) \in Seq(Chars)
    BY <1>4, <1>8, Zenon DEF Writable
  <2>5. IsPrefix(SubSeq(T(j), 1, c), T(j))
    <3> HIDE DEF T
    <3> QED
      BY <2>1, <2>4, PrefixIs, Zenon
  <2>6. SubSeq(T(j), 1, c) # NoText
    BY <1>3, <1>8, <2>1, Zenon
  <2> QED
    BY <2>2, <2>3, <2>5, <2>6, Zenon
<1>10. InFile(x, TextLine)
  <2>1. \A j \in 1 .. Len(x) : x[j].number \in Nat /\ x[j].stmt # NoText /\ x[j] = Entry(x[j].number, x[j].stmt)
    BY <1>1, <1>8, <1>9, Zenon
  <2>2. \A i, j \in 1 .. Len(x) : i < j => x[i].number < x[j].number
    <3> TAKE i, j \in 1 .. Len(x)
    <3>1. i < j => ls[i].number < ls[j].number
      BY <1>2, <1>8, Zenon
    <3>2. x[i].number = ls[i].number /\ x[j].number = ls[j].number
      BY <1>9, Zenon
    <3> QED
      BY <3>1, <3>2, Zenon
  <2> QED
    BY <1>6, <2>1, <2>2, Zenon DEF InFile
<1>11. ASSUME Len(data) < PROGRAM_BUF_SIZE
       PROVE  Len(x) = Len(ls) /\ \A j \in 1 .. Len(x) : x[j] = WholeEntry(ls[j])
  <2>1. Len(x) + 1 = Len(ls) + 1 /\ \A j \in 1 .. Len(x) : x[j] = WholeEntry(ls[Spot(1, j)])
    BY <1>5, <1>11, Zenon DEF ReadAll
  <2>2. \A j \in 1 .. Len(x) : Spot(1, j) = j
    BY DEF Spot
  <2>3. Len(x) = Len(ls)
    BY <1>1, <1>7, <2>1
  <2> QED
    BY <2>1, <2>2, <2>3, Zenon
<1> QED
  BY <1>4, <1>6, <1>7, <1>9, <1>10, <1>11, Zenon DEF T, x, data

(* A program that is saved and loaded survives.                            *)
LEMMA SavedAndLoaded ==
  ASSUME Table(lines), WithText(lines)
  PROVE  Survives
<1> DEFINE numbered == Numbered(lines)
           whole == [i \in DOMAIN numbered |-> [numbered[i] EXCEPT !.stmt = Text(@)]]
           data == serialize_program(lines)
           x == FileLines(data)
           back == Loaded(data)
           last == Len(back)
           n == Len(lines)
           d == Zero(lines)
           T(i) == Text(lines[i].stmt)
<1>1. /\ InFile(x, TextLine) /\ Len(x) \in Nat /\ Len(x) <= n
      /\ \A i \in 1 .. n : Writable(lines[i])
      /\ \A j \in 1 .. Len(x) : x[j].number = lines[j].number /\ IsPrefix(x[j].stmt, T(j))
      /\ \A j \in 1 .. Len(x) : j # Len(x) => x[j] = WholeEntry(lines[j])
      /\ Len(data) < PROGRAM_BUF_SIZE => Len(x) = n /\ \A j \in 1 .. Len(x) : x[j] = WholeEntry(lines[j])
  BY FileIs, Zenon
<1>2. n \in Nat /\ d \in {0, 1} /\ d <= n /\ \A i \in 1 .. n : lines[i].number > 0 <=> i > d
  BY TableLength, ZeroIs, Zenon
<1>3. \A i \in 1 .. n : lines[i] \in ProgramLine
  BY TableLength, Zenon
<1>4. numbered \in Seq(ProgramLine) /\ Len(numbered) = n - d /\ \A i \in 1 .. n - d : numbered[i] = lines[i + d]
  BY NumberedIs, Zenon
<1>5. Without(back, TextLine, x, d, Len(x))
  <2>1. \A j \in 1 .. Len(x) : j \in 1 .. n
    BY <1>1, <1>2
  <2>2. \A j \in 1 .. Len(x) : x[j].number > 0 <=> j > d
    BY <1>1, <1>2, <2>1, Zenon
  <2>3. d \in Nat
    BY <1>2
  <2> HIDE DEF d, data
  <2> QED
    BY <1>1, <2>2, <2>3, LoadsInOrder, Zenon DEF Loaded
<1> HIDE DEF back, x, data, numbered, n, d, T
<1>6. back \in Seq(TextLine) /\ last = (IF Len(x) <= d THEN 0 ELSE Len(x) - d) /\ \A i \in 1 .. last : back[i] = x[i + d]
  BY <1>5, Zenon DEF Without
<1>7. last \in Nat
  BY <1>6
<1>8. \A i \in 1 .. n - d : i + d \in 1 .. n
  BY <1>2
<1>9. DOMAIN whole = 1 .. n - d /\ \A i \in 1 .. n - d : whole[i] = WholeEntry(lines[i + d])
  <2>1. DOMAIN numbered = 1 .. n - d /\ n - d \in Nat
    BY <1>2, <1>4
  <2>2. ASSUME NEW i \in 1 .. n - d PROVE whole[i] = WholeEntry(lines[i + d])
    <3>1. numbered[i] \in ProgramLine /\ numbered[i] = lines[i + d]
      BY <1>3, <1>4, <1>8, Zenon
    <3>2. whole[i] = [numbered[i] EXCEPT !.stmt = Text(@)]
      BY <2>1, Zenon
    <3>3. whole[i] = [number |-> numbered[i].number, stmt |-> Text(numbered[i].stmt)]
      BY <3>1, <3>2 DEF ProgramLine
    <3> QED
      BY <3>1, <3>3, Zenon DEF WholeEntry, Entry
  <2> QED
    BY <2>1, <2>2, Zenon
<1>10. whole \in Seq(TextLine) /\ Len(whole) = n - d
  <2>1. \A i \in 1 .. n - d : WholeEntry(lines[i + d]) \in TextLine
    <3> TAKE i \in 1 .. n - d
    <3>1. Writable(lines[i + d])
      BY <1>1, <1>8, Zenon
    <3>2. lines[i + d].number \in Nat /\ Text(lines[i + d].stmt) \in Seq(Chars)
      BY <3>1, Zenon DEF Writable
    <3> QED
      BY <3>2 DEF WholeEntry, Entry, TextLine
  <2>2. whole = [i \in 1 .. n - d |-> whole[i]]
    BY <1>9, Zenon
  <2>3. \A i \in 1 .. n - d : whole[i] \in TextLine
    BY <1>9, <2>1, Zenon
  <2>4. n - d \in Nat
    BY <1>2
  <2> HIDE DEF whole
  <2> QED
    BY <2>2, <2>3, <2>4
<1> HIDE DEF whole
<1>11. last <= n - d /\ \A i \in 1 .. last : i + d \in 1 .. Len(x) /\ i \in 1 .. n - d
  <2> HIDE DEF last
  <2> QED
    BY <1>1, <1>2, <1>6, <1>7
<1>12. ASSUME Len(data) < PROGRAM_BUF_SIZE PROVE back = whole
  <2>1. last = n - d
    BY <1>1, <1>2, <1>6, <1>12
  <2>2. \A i \in 1 .. last : back[i] = whole[i]
    BY <1>1, <1>6, <1>9, <1>11, <1>12, Zenon
  <2> QED
    BY <1>6, <1>10, <2>1, <2>2
<1>13. ASSUME last > 0
       PROVE  /\ last <= Len(whole)
              /\ Front(back) = SubSeq(whole, 1, last - 1)
              /\ back[last].number = whole[last].number
              /\ IsPrefix(back[last].stmt, whole[last].stmt)
  <2>1. last \in 1 .. last
    BY <1>7, <1>13
  <2>2. back[last] = x[last + d] /\ whole[last] = WholeEntry(lines[last + d]) /\ last + d \in 1 .. Len(x)
    BY <1>6, <1>9, <1>11, <2>1, Zenon
  <2>3. back[last].number = lines[last + d].number /\ IsPrefix(back[last].stmt, T(last + d))
    BY <1>1, <2>2, Zenon
  <2>4. whole[last].number = lines[last + d].number /\ whole[last].stmt = T(last + d)
    BY <2>2 DEF WholeEntry, Entry, T
  <2>5. Front(back) = SubSeq(whole, 1, last - 1)
    <3>1. ASSUME NEW i \in 1 .. last - 1 PROVE back[i] = whole[i]
      <4>1. i \in 1 .. last /\ i # last
        BY <1>7
      <4>2. i + d \in 1 .. Len(x) /\ i + d # Len(x)
        <5>1. i + d \in 1 .. Len(x)
          BY <1>11, <4>1, Zenon
        <5>2. last + d \in 1 .. Len(x) /\ i < last
          BY <2>2, <1>7
        <5> QED
          BY <1>1, <1>2, <1>7, <5>1, <5>2
      <4>3. x[i + d] = WholeEntry(lines[i + d])
        BY <1>1, <4>2, Zenon
      <4> QED
        BY <1>6, <1>9, <1>11, <4>1, <4>3, Zenon
    <3>2. Front(back) = SubSeq(back, 1, last - 1)
      BY DEF Front
    <3>3. back \in Seq(TextLine) /\ whole \in Seq(TextLine) /\ last <= Len(whole)
      BY <1>6, <1>10, <1>11
    <3> QED
      BY <1>7, <3>1, <3>2, <3>3
  <2> QED
    BY <1>10, <1>11, <2>3, <2>4, <2>5
<1> QED
  BY <1>12, <1>13, Zenon DEF Survives, numbered, whole, data, back, last

(* SAVE and LOAD keep every program that can be typed, of any size, for    *)
(* any size of the buffer: what comes back is the program without line 0,  *)
(* or, of one that does not fit, its first lines and maybe a part of one.  *)
THEOREM ProgramSurvives == Spec => []Survives
<1>1. ASSUME Bounded PROVE Survives
  BY <1>1, SavedAndLoaded DEF Bounded
<1>2. Init => Bounded
  BY BoundedStart
<1>3. Bounded /\ [Next]_all => Bounded'
  BY BoundedStep
<1> QED
  BY <1>1, <1>2, <1>3, PTL DEF Spec

(* The functions on D with values in T, by argument.                       *)
Made(D, T) == {g \in [D -> UNION {T[x] : x \in D}] : \A x \in D : g[x] \in T[x]}

(* B makes values of T of such functions, and looks at smaller arguments   *)
(* only.                                                                   *)
Decreasing(D, T, size, B) ==
  \A g, h \in Made(D, T) : \A x \in D :
    (\A y \in D : size[y] < size[x] => g[y] = h[y]) => B[g][x] = B[h][x]

(* A recursion whose arguments have a size that gets smaller.  It has a    *)
(* solution with values in T, and only one.                                *)
Recursive(D, T, N, size, B) ==
  /\ \A x \in D : T[x] # {}
  /\ N \in Nat /\ size \in [D -> 0 .. N]
  /\ B \in [Made(D, T) -> Made(D, T)] /\ Decreasing(D, T, size, B)

(* By a greatest size up to which there is a solution.                     *)
LEMMA RecursionExists ==
  ASSUME NEW D, NEW T, NEW N, NEW size, NEW B, Recursive(D, T, N, size, B)
  PROVE  \E g \in Made(D, T) : g = B[g]
<1> USE DEF Recursive
<1> DEFINE G == Made(D, T)
           SoFar(g, k) == \A x \in D : size[x] < k => g[x] = B[g][x]
           Bad == {k \in Nat : ~ \E g \in G : SoFar(g, k)}
<1>1. Bad = {}
  <2>1. SUFFICES ASSUME Bad # {} PROVE FALSE
    OBVIOUS
  <2>2. PICK m \in Bad : \A o \in Bad : m <= o
    BY <2>1, LeastNumber
  <2>3. m # 0
    <3> DEFINE g == [x \in D |-> CHOOSE y : y \in T[x]]
    <3>1. \A x \in D : g[x] \in T[x]
      OBVIOUS
    <3>2. g \in G
      <4>1. DOMAIN g = D /\ g = [x \in D |-> g[x]]
        OBVIOUS
      <4> HIDE DEF g
      <4> QED
        BY <3>1, <4>1 DEF Made
    <3>3. \A x \in D : ~(size[x] < 0)
      OBVIOUS
    <3> HIDE DEF g
    <3>4. 0 \notin Bad
      BY <3>2, <3>3
    <3> QED
      BY <2>2, <3>4
  <2>4. m - 1 \in Nat /\ m - 1 \notin Bad /\ m \in Nat
    BY <2>2, <2>3
  <2>5. PICK g \in G : SoFar(g, m - 1)
    BY <2>4
  <2> DEFINE h == [x \in D |-> IF size[x] < m THEN B[g][x] ELSE g[x]]
  <2>6. B[g] \in G
    OBVIOUS
  <2>7. \A x \in D : g[x] \in T[x] /\ B[g][x] \in T[x]
    BY <2>6 DEF Made
  <2>8. h \in G
    <3>1. \A x \in D : h[x] \in T[x]
      BY <2>7
    <3>2. DOMAIN h = D /\ h = [x \in D |-> h[x]]
      OBVIOUS
    <3> HIDE DEF h
    <3> QED
      BY <3>1, <3>2 DEF Made
  <2>9. ASSUME NEW x \in D, size[x] < m PROVE h[x] = B[h][x]
    <3>1. ASSUME NEW y \in D, size[y] < size[x] PROVE g[y] = h[y]
      <4>1. size[y] < m - 1 /\ size[y] < m
        BY <2>4, <2>9, <3>1
      <4>2. g[y] = B[g][y]
        BY <2>5, <4>1
      <4> QED
        BY <4>1, <4>2
    <3> HIDE DEF h
    <3>2. B[g][x] = B[h][x]
      BY <2>8, <3>1 DEF Decreasing
    <3>3. h[x] = B[g][x]
      BY <2>9 DEF h
    <3> QED
      BY <3>2, <3>3
  <2> HIDE DEF h
  <2>10. m \notin Bad
    BY <2>8, <2>9
  <2> QED
    BY <2>2, <2>10
<1>2. N + 1 \in Nat /\ \A x \in D : size[x] < N + 1
  OBVIOUS
<1>3. PICK g \in G : SoFar(g, N + 1)
  BY <1>1, <1>2
<1>4. \A x \in D : g[x] = B[g][x]
  BY <1>2, <1>3
<1>5. B[g] \in G
  OBVIOUS
<1>6. g = [x \in D |-> g[x]] /\ B[g] = [x \in D |-> B[g][x]]
  BY <1>5 DEF Made
<1>7. g = B[g]
  BY <1>4, <1>6
<1> QED
  BY <1>7

Determined(D, N, size, f, g) ==
  /\ f = [x \in D |-> f[x]] /\ g = [x \in D |-> g[x]]
  /\ N \in Nat /\ size \in [D -> 0 .. N]
  /\ \A x \in D : (\A y \in D : size[y] < size[x] => f[y] = g[y]) => f[x] = g[x]

(* By a smallest argument at which two solutions differ.                   *)
LEMMA SameRecursion ==
  ASSUME NEW D, NEW N, NEW size, NEW f, NEW g, Determined(D, N, size, f, g)
  PROVE  f = g
<1> USE DEF Determined
<1> DEFINE Bad == {k \in Nat : \E x \in D : size[x] = k /\ f[x] # g[x]}
<1>1. Bad = {}
  <2>1. SUFFICES ASSUME Bad # {} PROVE FALSE
    OBVIOUS
  <2>2. PICK m \in Bad : \A o \in Bad : m <= o
    BY <2>1, LeastNumber
  <2>3. PICK x \in D : size[x] = m /\ f[x] # g[x]
    BY <2>2
  <2>4. ASSUME NEW y \in D, size[y] < size[x] PROVE f[y] = g[y]
    <3>1. size[y] \in Nat /\ size[y] \notin Bad
      BY <2>2, <2>3, <2>4
    <3> QED
      BY <3>1
  <2> QED
    BY <2>3, <2>4
<1>2. \A x \in D : size[x] \in Nat
  OBVIOUS
<1>3. \A x \in D : f[x] = g[x]
  BY <1>1, <1>2
<1> QED
  BY <1>3

(* The value of a sequence of figures is a natural number.                 *)
LEMMA DecimalIs ==
  ASSUME NEW s, NEW n \in Nat, DOMAIN s = 1 .. n
  PROVE  \E f : Folded("decimal", f, 0, s, n) /\ FoldLeft(LAMBDA x, c : x * 10 + DigitOf[c], 0, s) = f[1 .. n]
<1> DEFINE f == CHOOSE g : g = [t \in SUBSET DOMAIN s |->
                                  IF t = {} THEN 0 ELSE g[t \ {Max(t)}] * 10 + DigitOf[s[Max(t)]]]
<1>1. FoldLeft(LAMBDA x, c : x * 10 + DigitOf[c], 0, s) = f[DOMAIN s]
  BY ZenonT(60) DEF FoldLeft, MapThenFoldSet
<1>2. PICK h : Folded("decimal", h, 0, s, n)
  BY FoldExists
<1>3. h = [t \in SUBSET DOMAIN s |-> IF t = {} THEN 0 ELSE h[t \ {Max(t)}] * 10 + DigitOf[s[Max(t)]]]
  BY <1>2 DEF Folded, Taken
<1>4. f = [t \in SUBSET DOMAIN s |-> IF t = {} THEN 0 ELSE f[t \ {Max(t)}] * 10 + DigitOf[s[Max(t)]]]
  BY <1>3, Zenon
<1> HIDE DEF f
<1> QED
  BY <1>1, <1>4 DEF Folded, Taken

LEMMA FigureValue == \A c \in Figures : DigitOf[c] \in 0 .. 9
<1>1. \A k \in 0 .. 9 : Digits[k + 1] \in Figures /\ DigitOf[Digits[k + 1]] = k
  BY DigitsAre
<1>2. DOMAIN Digits = 1 .. 10
  BY DEF Digits
<1>3. \A c \in Figures : \E i \in 1 .. 10 : Digits[i] = c
  BY <1>2 DEF Figures, ToSet
<1>4. \A c \in Figures : \E k \in 0 .. 9 : Digits[k + 1] = c
  <2>1. \A i \in 1 .. 10 : i - 1 \in 0 .. 9 /\ (i - 1) + 1 = i
    OBVIOUS
  <2> QED
    BY <1>3, <2>1
<1> QED
  BY <1>1, <1>4

LEMMA DecimalNat ==
  ASSUME NEW s \in Seq(Figures)
  PROVE  FoldLeft(LAMBDA x, c : x * 10 + DigitOf[c], 0, s) \in Nat
<1> DEFINE n == Len(s)
<1>1. n \in Nat /\ DOMAIN s = 1 .. n /\ \A i \in 1 .. n : s[i] \in Figures
  OBVIOUS
<1> HIDE DEF n
<1>2. PICK f : Folded("decimal", f, 0, s, n) /\ FoldLeft(LAMBDA x, c : x * 10 + DigitOf[c], 0, s) = f[1 .. n]
  BY <1>1, DecimalIs
<1> DEFINE Bad == {m \in Nat : m <= n /\ f[1 .. m] \notin Nat}
<1>3. Bad = {}
  <2>1. SUFFICES ASSUME Bad # {} PROVE FALSE
    OBVIOUS
  <2>2. PICK m \in Bad : \A o \in Bad : m <= o
    BY <2>1, LeastNumber
  <2>3. m # 0
    BY <1>1, <1>2, <2>2, FoldStart
  <2>4. PICK o \in Nat : o + 1 = m /\ o + 1 <= n /\ f[1 .. o] \in Nat
    <3>1. m - 1 \in Nat /\ (m - 1) + 1 = m /\ m - 1 \notin Bad /\ m - 1 <= n /\ m <= n
      BY <1>1, <2>2, <2>3
    <3> QED
      BY <3>1
  <2>5. o \in 0 .. n - 1 /\ o + 1 \in 1 .. n
    BY <1>1, <2>4
  <2>6. f[1 .. o + 1] = Taken("decimal", f[1 .. o], s[o + 1])
    <3>1. Folded("decimal", f, 0, s, n) /\ n \in Nat /\ o \in 0 .. n - 1
      BY <1>1, <1>2, <2>5
    <3> HIDE DEF Bad
    <3> QED
      BY ONLY <3>1, FoldStep
  <2>7. f[1 .. o + 1] = f[1 .. o] * 10 + DigitOf[s[o + 1]]
    BY <2>6 DEF Taken
  <2>8. DigitOf[s[o + 1]] \in Nat
    BY <1>1, <2>5, FigureValue
  <2>9. f[1 .. o + 1] \in Nat
    BY <2>4, <2>7, <2>8
  <2> QED
    BY <2>2, <2>4, <2>9
<1>4. n <= n /\ n \in Nat
  BY <1>1
<1>5. f[1 .. n] \in Nat
  BY <1>3, <1>4
<1> QED
  BY <1>2, <1>5

----------------------------------------------------------------------------
(* The tokens of a line.  Any string may stand for a character; names      *)
(* begin with a letter.                                                    *)

Character == STRING
Signs == {"\"", "+", "-", "*", "/", "%", "=", "<", ">", "(", ")", ",", ";"}
Kinds ==
  {"number", "string", "string variable", "ident", "bad", "<=", "<>", ">="} \cup Signs
    \cup {entry[2] : entry \in KeywordTable}
Named(kind) == kind \in {"ident", "string variable"}
Tokens ==
  {tok \in [kind : Kinds, val : Int, str : Seq(Character)] : Named(tok.kind) => tok.str[1] \in Letters}

(* A token is read at i of line, and the line goes on behind it.           *)
TokenRead(line, i, next) ==
  next.token \in Tokens /\ next.end \in i + 1 .. Len(line) + 1

LEMMA TokenIs ==
  ASSUME NEW k, NEW x
  PROVE  /\ Token(k) = [kind |-> k, val |-> 0, str |-> <<>>]
         /\ [Token(k) EXCEPT !.val = x] = [kind |-> k, val |-> x, str |-> <<>>]
         /\ [Token(k) EXCEPT !.str = x] = [kind |-> k, val |-> 0, str |-> x]
BY DEF Token

LEMMA TokenIn ==
  ASSUME NEW k \in Kinds, NEW v \in Int, NEW s \in Seq(Character), s[1] \in Letters \/ ~Named(k)
  PROVE  [kind |-> k, val |-> v, str |-> s] \in Tokens
<1> DEFINE tok == [kind |-> k, val |-> v, str |-> s]
<1>1. tok \in [kind : Kinds, val : Int, str : Seq(Character)]
  OBVIOUS
<1>2. tok.kind = k /\ tok.str = s
  OBVIOUS
<1> HIDE DEF tok
<1>3. Named(tok.kind) => tok.str[1] \in Letters
  BY <1>2
<1>4. tok \in Tokens
  BY <1>1, <1>3 DEF Tokens
<1> QED
  BY <1>4 DEF tok

LEMMA NoChars == <<>> \in Seq(Character)
OBVIOUS

LEMMA PlainToken ==
  ASSUME NEW kind \in Kinds, ~Named(kind)
  PROVE  /\ Token(kind) \in Tokens
         /\ \A v \in Int : [Token(kind) EXCEPT !.val = v] \in Tokens
         /\ \A s \in Seq(Character) : [Token(kind) EXCEPT !.str = s] \in Tokens
<1>1. 0 \in Int
  OBVIOUS
<1>2. \A v \in Int, s \in Seq(Character) : [kind |-> kind, val |-> v, str |-> s] \in Tokens
  BY TokenIn
<1>3. Token(kind) = [kind |-> kind, val |-> 0, str |-> <<>>]
  BY DEF Token
<1>4. \A v \in Int : [Token(kind) EXCEPT !.val = v] = [kind |-> kind, val |-> v, str |-> <<>>]
  BY TokenIs
<1>5. \A s \in Seq(Character) : [Token(kind) EXCEPT !.str = s] = [kind |-> kind, val |-> 0, str |-> s]
  BY TokenIs
<1>6. \A v \in Int : [Token(kind) EXCEPT !.val = v] \in Tokens
  BY <1>2, <1>4, NoChars, Zenon
<1>7. \A s \in Seq(Character) : [Token(kind) EXCEPT !.str = s] \in Tokens
  BY <1>1, <1>2, <1>5, Zenon
<1>8. Token(kind) \in Tokens
  BY <1>1, <1>2, <1>3, NoChars, Zenon
<1> QED
  BY <1>6, <1>7, <1>8, Zenon

LEMMA SliceIn ==
  ASSUME NEW C, NEW s \in Seq(C), NEW a \in Nat \ {0}, NEW b \in Nat, b <= Len(s)
  PROVE  /\ SubSeq(s, a, b) \in Seq(C)
         /\ a <= b => Len(SubSeq(s, a, b)) = b - a + 1 /\ SubSeq(s, a, b)[1] = s[a]
         /\ a > b => SubSeq(s, a, b) = <<>>
<1>1. SubSeq(s, a, b) = [j \in 1 .. (1 + b) - a |-> s[j + a - 1]]
  OBVIOUS
<1>2. \A j \in 1 .. (1 + b) - a : s[j + a - 1] \in C
  <2>1. \A j \in 1 .. (1 + b) - a : j + a - 1 \in 1 .. Len(s)
    OBVIOUS
  <2> QED
    BY <2>1, ElementOfSeq
<1>3. a > b => 1 .. (1 + b) - a = {} /\ 1 .. 0 = {}
  OBVIOUS
<1>4. SubSeq(s, a, b) \in Seq(C)
  BY <1>1, <1>2, (1 + b) - a \in Int
<1> QED
  BY <1>1, <1>2, <1>3, <1>4

LEMMA MinOfTwo ==
  ASSUME NEW a \in Nat, NEW b \in Nat
  PROVE  Min({a, b}) = IF a <= b THEN a ELSE b
<1>1. CASE a <= b
  BY <1>1, MinIs
<1>2. CASE ~(a <= b)
  BY <1>2, MinIs
<1> QED
  BY <1>1, <1>2

LEMMA CutIn ==
  ASSUME NEW C, NEW s \in Seq(C), NEW n \in Nat \ {0}
  PROVE  Cut(s, n) \in Seq(C) /\ (Len(s) >= 1 => Cut(s, n)[1] = s[1])
<1>1. Len(s) \in Nat
  OBVIOUS
<1> DEFINE b == Min({n, Len(s)})
<1>2. b \in Nat /\ b <= Len(s) /\ (Len(s) >= 1 => 1 <= b)
  BY <1>1, MinOfTwo
<1>3. Cut(s, n) = SubSeq(s, 1, b)
  BY DEF Cut
<1> HIDE DEF b
<1> QED
  BY <1>2, <1>3, SliceIn

LEMMA TokenSizes ==
  MAX_TOKENS \in Nat \ {0} /\ MAX_TOKEN_LEN - 1 \in Nat \ {0} /\ MAX_NAME \in Nat \ {0} /\ MAX_ELEMENTS \in Nat
BY ExpressionAssumption

(* Whatever a token begins with, one is read, and something of the line    *)
(* with it: what tokenize rests on to end.                                 *)
LEMMA NumberAtIs ==
  ASSUME NEW line \in Seq(Character), NEW i \in 1 .. Len(line), line[i] \in Figures
  PROVE  TokenRead(line, i, NumberAt(line, i))
<1>0. Len(line) \in Nat
  OBVIOUS
<1> DEFINE e == EndOf(line, i, ToSet(Digits))
<1>1. Ends(line, i, Figures, e)
  BY <1>0, EndOfEnds DEF Figures
<1> HIDE DEF e
<1>2. e \in i + 1 .. Len(line) + 1
  BY <1>0, <1>1 DEF Ends
<1> DEFINE s == SubSeq(line, i, e - 1)
<1>3. s \in Seq(Figures)
  <2>1. s = [j \in 1 .. e - i |-> line[j + i - 1]]
    BY <1>0, <1>2
  <2>2. \A j \in 1 .. e - i : j + i - 1 \in i .. e - 1
    BY <1>0, <1>2
  <2>3. \A j \in 1 .. e - i : line[j + i - 1] \in Figures
    BY <1>1, <2>2 DEF Ends
  <2>4. e - i \in Nat
    BY <1>0, <1>2
  <2> HIDE DEF s
  <2> QED
    BY <2>1, <2>3, <2>4
<1> HIDE DEF s
<1> DEFINE v == FoldLeft(LAMBDA n, c : n * 10 + DigitOf[c], 0, s)
<1>4. v \in Nat
  BY <1>3, DecimalNat
<1>5. NumberAt(line, i) = [token |-> [Token("number") EXCEPT !.val = v], end |-> e]
  BY DEF NumberAt, v, s, e
<1>6. "number" \in Kinds /\ ~Named("number")
  BY DEF Kinds, Named
<1> HIDE DEF v
<1>7. [Token("number") EXCEPT !.val = v] \in Tokens
  <2>1. v \in Int
    BY <1>4
  <2> QED
    BY <1>6, <2>1, PlainToken
<1> QED
  BY <1>2, <1>5, <1>7 DEF TokenRead

LEMMA StringAtIs ==
  ASSUME NEW line \in Seq(Character), NEW i \in 1 .. Len(line)
  PROVE  TokenRead(line, i, StringAt(line, i))
<1>0. Len(line) \in Nat /\ i + 1 \in 1 .. Len(line) + 1
  OBVIOUS
<1> DEFINE u == Until(line, i + 1, {"\""})
           e == Min({u, Len(line)}) + 1
<1>1. u \in i + 1 .. Len(line) + 1
  BY <1>0, UntilReaches DEF Reaches
<1> HIDE DEF u
<1>2. e \in i + 1 .. Len(line) + 1
  BY <1>0, <1>1, MinOfTwo
<1> DEFINE s == Cut(SubSeq(line, i + 1, u - 1), MAX_TOKEN_LEN - 1)
<1>3. s \in Seq(Character)
  <2>1. SubSeq(line, i + 1, u - 1) \in Seq(Character)
    BY <1>0, <1>1, SliceIn
  <2> QED
    BY <2>1, CutIn, TokenSizes
<1>4. StringAt(line, i) = [token |-> [Token("string") EXCEPT !.str = s], end |-> e]
  <2>1. u = Min({j \in i + 1 .. Len(line) + 1 : j > Len(line) \/ line[j] = "\""})
    <3>1. {j \in i + 1 .. Len(line) + 1 : j > Len(line) \/ line[j] = "\""}
            = {j \in i + 1 .. Len(line) + 1 : j > Len(line) \/ line[j] \in {"\""}}
      OBVIOUS
    <3> QED
      BY <3>1 DEF u, Until
  <2> QED
    BY <2>1 DEF StringAt
<1> HIDE DEF s, e
<1>5. "string" \in Kinds /\ ~Named("string")
  BY DEF Kinds, Named
<1>6. [Token("string") EXCEPT !.str = s] \in Tokens
  BY <1>3, <1>5, PlainToken
<1> QED
  BY <1>2, <1>4, <1>6 DEF TokenRead

LEMMA KeywordKinds == \A w \in DOMAIN Keywords : Keywords[w] \in Kinds
<1> SUFFICES ASSUME NEW w \in DOMAIN Keywords PROVE Keywords[w] \in Kinds
  OBVIOUS
<1>1. \E entry \in KeywordTable : entry[1] = w
  BY DEF Keywords
<1>2. (CHOOSE entry \in KeywordTable : entry[1] = w) \in KeywordTable
  BY <1>1
<1>3. Keywords[w] = (CHOOSE entry \in KeywordTable : entry[1] = w)[2]
  BY DEF Keywords
<1> QED
  BY <1>2, <1>3 DEF Kinds

LEMMA WordAtIs ==
  ASSUME NEW line \in Seq(Character), NEW i \in 1 .. Len(line), line[i] \in Letters
  PROVE  TokenRead(line, i, WordAt(line, i))
<1>0. Len(line) \in Nat
  OBVIOUS
<1> DEFINE e == EndOf(line, i, WordChars)
           word == Cut(SubSeq(line, i, e - 1), MAX_TOKEN_LEN - 1)
           named == [Token(IF word \in DOMAIN Keywords THEN Keywords[word] ELSE "ident") EXCEPT !.str = word]
           str == [Token("string variable") EXCEPT !.str = word]
<1>1. e \in i + 1 .. Len(line) + 1
  <2>1. Ends(line, i, WordChars, e)
    BY <1>0, EndOfEnds
  <2>2. line[i] \in WordChars
    BY DEF WordChars
  <2> HIDE DEF e
  <2> QED
    BY <1>0, <2>1, <2>2 DEF Ends
<1> HIDE DEF e
<1>2. word \in Seq(Character) /\ word[1] \in Letters
  <2>1. SubSeq(line, i, e - 1) \in Seq(Character) /\ Len(SubSeq(line, i, e - 1)) >= 1
        /\ SubSeq(line, i, e - 1)[1] = line[i]
    BY <1>0, <1>1, SliceIn
  <2> QED
    BY <2>1, CutIn, TokenSizes
<1>3. WordAt(line, i) = IF Len(word) = 1 /\ e <= Len(line) /\ line[e] = "$"
                        THEN [token |-> str, end |-> e + 1] ELSE [token |-> named, end |-> e]
  BY DEF WordAt, e
<1> HIDE DEF word
<1>4. named \in Tokens /\ str \in Tokens
  <2>1. (IF word \in DOMAIN Keywords THEN Keywords[word] ELSE "ident") \in Kinds
    BY KeywordKinds DEF Kinds
  <2>2. ASSUME NEW k \in Kinds PROVE [Token(k) EXCEPT !.str = word] \in Tokens
    <3>1. [Token(k) EXCEPT !.str = word] = [kind |-> k, val |-> 0, str |-> word]
      BY DEF Token
    <3>2. [kind |-> k, val |-> 0, str |-> word] \in [kind : Kinds, val : Int, str : Seq(Character)]
      BY <1>2
    <3> QED
      BY <1>2, <3>1, <3>2 DEF Tokens
  <2>3. "string variable" \in Kinds
    BY DEF Kinds
  <2> QED
    BY <2>1, <2>2, <2>3
<1> HIDE DEF named, str
<1> QED
  BY <1>0, <1>1, <1>3, <1>4 DEF TokenRead

LEMMA SignAtIs ==
  ASSUME NEW line \in Seq(Character), NEW i \in 1 .. Len(line),
         line[i] \in Starts, line[i] \notin Figures, line[i] \notin Letters
  PROVE  TokenRead(line, i, SignAt(line, i))
<1>0. Len(line) \in Nat
  OBVIOUS
<1>1. line[i] \in Signs
  BY DEF Starts, Figures, Signs
<1>2. Token(line[i]) \in Tokens
  <2>1. line[i] \in Kinds /\ ~Named(line[i])
    BY <1>1 DEF Kinds, Signs, Named
  <2> QED
    BY <2>1, PlainToken
<1> DEFINE two == IF i < Len(line) THEN line[i] \o line[i + 1] ELSE ""
<1>3. two \in {"<=", "<>", ">="} => Token(two) \in Tokens /\ i < Len(line)
  <2> SUFFICES ASSUME two \in {"<=", "<>", ">="} PROVE Token(two) \in Tokens /\ i < Len(line)
    OBVIOUS
  <2>1. two \in Kinds /\ ~Named(two)
    BY DEF Kinds, Named
  <2>2. two # ""
    OBVIOUS
  <2> QED
    BY <2>1, <2>2, PlainToken
<1>4. SignAt(line, i) = IF two \in {"<=", "<>", ">="} THEN [token |-> Token(two), end |-> i + 2]
                        ELSE [token |-> Token(line[i]), end |-> i + 1]
  BY DEF SignAt
<1> HIDE DEF two
<1> QED
  BY <1>0, <1>2, <1>3, <1>4 DEF TokenRead

LEMMA FigureIs == \A c \in Figures : c # "\"" /\ c \notin Letters
<1>1. DOMAIN Digits = 1 .. 10
  BY DEF Digits
<1> DEFINE S == Letters \cup {"\""}
<1>2. S = Letters \cup {"\""}
  OBVIOUS
<1>3. /\ "0" \notin S /\ "1" \notin S /\ "2" \notin S /\ "3" \notin S /\ "4" \notin S
      /\ "5" \notin S /\ "6" \notin S /\ "7" \notin S /\ "8" \notin S /\ "9" \notin S
  BY DEF Letters
<1> HIDE DEF S
<1>4. \A k \in 1 .. 10 : Digits[k] \notin S
  BY <1>3 DEF Digits
<1> QED
  BY <1>1, <1>2, <1>4 DEF Figures, ToSet

LEMMA TokenAtIs ==
  ASSUME NEW line \in Seq(Character), NEW i \in 1 .. Len(line), line[i] \in Starts
  PROVE  TokenRead(line, i, TokenAt(line, i))
<1>1. CASE line[i] \in Figures
  <2>1. TokenAt(line, i) = NumberAt(line, i)
    BY <1>1, FigureIs DEF TokenAt, Figures
  <2> QED
    BY <1>1, <2>1, NumberAtIs
<1>2. CASE line[i] \notin Figures /\ line[i] = "\""
  <2>1. TokenAt(line, i) = StringAt(line, i)
    BY <1>2 DEF TokenAt, Figures, Letters
  <2> QED
    BY <2>1, StringAtIs
<1>3. CASE line[i] \notin Figures /\ line[i] # "\"" /\ line[i] \in Letters
  <2>1. TokenAt(line, i) = WordAt(line, i)
    BY <1>3 DEF TokenAt, Figures
  <2> QED
    BY <1>3, <2>1, WordAtIs
<1>4. CASE line[i] \notin Figures /\ line[i] # "\"" /\ line[i] \notin Letters
  <2>1. TokenAt(line, i) = SignAt(line, i)
    BY <1>4 DEF TokenAt, Figures
  <2> QED
    BY <1>4, <2>1, SignAtIs
<1> QED
  BY <1>1, <1>2, <1>3, <1>4

(* One step of tokenize, from place i with count tokens read.  rest is     *)
(* what the tokeniser makes of what lies behind.                           *)
Blank(c) == c \in {" ", "\t"}
OnLine(line, i, count) == i \in 1 .. Len(line) + 1 /\ count <= MAX_TOKENS
Enough(line, i, count) == i > Len(line) \/ count >= MAX_TOKENS - 1
Remark(tok) == tok.kind = "REM"

(* rest of tokenize.                                                       *)
Onward(rest, next, count) == <<next.token>> \o IF Remark(next.token) THEN <<>> ELSE rest[<<next.end, count + 1>>]
LexedAt(rest, line, i, count) ==
  LET from(next) == Onward(rest, next, count)
  IN  IF Enough(line, i, count) THEN <<>>
      ELSE IF Blank(line[i]) THEN rest[<<i + 1, count>>]
      ELSE IF line[i] \notin Starts THEN <<Token("bad")>>
      ELSE Once(from, TokenAt(line, i))
Lexed(rest, line, at) == LexedAt(rest, line, at[1], at[2])
Places(line) == (1 .. Len(line) + 1) \X (0 .. MAX_TOKENS)
Lexing(f, line) == f = [at \in Places(line) |-> Lexed(f, line, at)]

(* tokenize takes the value of such a recursion.                           *)
LEMMA TokenizeIs ==
  ASSUME NEW line, NEW h, Lexing(h, line)
  PROVE  \E f : Lexing(f, line) /\ tokenize(line) = f[<<1, 0>>]
<1> DEFINE f == CHOOSE g : g = [at \in (1 .. Len(line) + 1) \X (0 .. MAX_TOKENS) |-> Lexed(g, line, at)]
<1>1. tokenize(line) = f[<<1, 0>>]
  BY Zenon DEF tokenize, Lexed, LexedAt, Onward, Enough, Blank, Remark
<1>2. f = [at \in (1 .. Len(line) + 1) \X (0 .. MAX_TOKENS) |-> Lexed(f, line, at)]
  BY Zenon DEF Lexing, Places
<1> HIDE DEF f
<1> QED
  BY <1>1, <1>2 DEF Lexing, Places

LEMMA LexedIs ==
  ASSUME NEW g, NEW line, NEW i \in Nat, NEW count \in Nat
  PROVE  /\ Enough(line, i, count) => LexedAt(g, line, i, count) = <<>>
         /\ ~Enough(line, i, count) /\ Blank(line[i]) => LexedAt(g, line, i, count) = g[<<i + 1, count>>]
         /\ ~Enough(line, i, count) /\ ~Blank(line[i]) /\ line[i] \notin Starts =>
              LexedAt(g, line, i, count) = <<Token("bad")>>
         /\ ~Enough(line, i, count) /\ ~Blank(line[i]) /\ line[i] \in Starts =>
              LexedAt(g, line, i, count) = Onward(g, TokenAt(line, i), count)
<1> DEFINE from(next) == Onward(g, next, count)
<1>1. (CHOOSE y \in {from(z) : z \in {TokenAt(line, i)}} : TRUE) = from(TokenAt(line, i))
  <2> HIDE DEF from
  <2> QED
    OBVIOUS
<1>2. LexedAt(g, line, i, count) =
        IF Enough(line, i, count) THEN <<>>
        ELSE IF Blank(line[i]) THEN g[<<i + 1, count>>]
        ELSE IF line[i] \notin Starts THEN <<Token("bad")>>
        ELSE CHOOSE y \in {from(z) : z \in {TokenAt(line, i)}} : TRUE
  BY Zenon DEF LexedAt, Once
<1> HIDE DEF from
<1>3. from(TokenAt(line, i)) = Onward(g, TokenAt(line, i), count)
  BY DEF from
<1> QED
  BY <1>1, <1>2, <1>3, Zenon

(* What the step from a place looks at.                                    *)
LEMMA LexedFrom ==
  ASSUME NEW line \in Seq(Character), NEW i \in Nat, NEW count \in Nat, OnLine(line, i, count),
         ~Enough(line, i, count)
  PROVE  /\ i + 1 \in i + 1 .. Len(line) + 1 /\ <<i + 1, count>> \in Places(line)
         /\ line[i] \in Starts =>
              /\ TokenAt(line, i).token \in Tokens /\ TokenAt(line, i).end \in i + 1 .. Len(line) + 1
              /\ <<TokenAt(line, i).end, count + 1>> \in Places(line)
<1>1. Len(line) \in Nat /\ i \in 1 .. Len(line) /\ MAX_TOKENS \in Nat /\ count + 1 \in 0 .. MAX_TOKENS /\ count \in 0 .. MAX_TOKENS
  BY TokenSizes DEF Enough, OnLine
<1>2. \A e \in i + 1 .. Len(line) + 1 : e \in 1 .. Len(line) + 1
  BY <1>1
<1>3. line[i] \in Starts => TokenRead(line, i, TokenAt(line, i))
  BY <1>1, TokenAtIs
<1>4. i + 1 \in i + 1 .. Len(line) + 1
  BY <1>1
<1>5. <<i + 1, count>> \in Places(line)
  BY <1>1, <1>2, <1>4 DEF Places
<1>6. ASSUME line[i] \in Starts
      PROVE  <<TokenAt(line, i).end, count + 1>> \in Places(line)
  BY <1>1, <1>2, <1>3, <1>6 DEF TokenRead, Places
<1> QED
  BY <1>3, <1>4, <1>5, <1>6 DEF TokenRead

SameAfter(line, g, h, i) == \A x \in Places(line) : x[1] > i => g[x] = h[x]

(* A step looks at what lies behind its place only.                        *)
LEMMA LexedAgrees ==
  ASSUME NEW line \in Seq(Character), NEW g, NEW h, NEW i \in Nat, NEW count \in Nat, OnLine(line, i, count),
         SameAfter(line, g, h, i)
  PROVE  LexedAt(g, line, i, count) = LexedAt(h, line, i, count)
<1>2. CASE Enough(line, i, count)
  <2>1. \A f : LexedAt(f, line, i, count) = <<>>
    BY <1>2, LexedIs
  <2> QED
    BY <2>1, Zenon
<1>3. CASE ~Enough(line, i, count)
  <2>0. \A e \in i + 1 .. Len(line) + 1 : e > i
    OBVIOUS
  <2>1. g[<<i + 1, count>>] = h[<<i + 1, count>>]
    BY <1>3, <2>0, LexedFrom DEF SameAfter
  <2>2. ASSUME line[i] \in Starts PROVE Onward(g, TokenAt(line, i), count) = Onward(h, TokenAt(line, i), count)
    <3>1. g[<<TokenAt(line, i).end, count + 1>>] = h[<<TokenAt(line, i).end, count + 1>>]
      BY <1>3, <2>0, <2>2, LexedFrom DEF SameAfter
    <3> QED
      BY <3>1, Zenon DEF Onward
  <2>3. CASE Blank(line[i])
    <3>1. \A f : LexedAt(f, line, i, count) = f[<<i + 1, count>>]
      BY <1>3, <2>3, LexedIs
    <3> QED
      BY <2>1, <3>1, Zenon
  <2>4. CASE ~Blank(line[i]) /\ line[i] \notin Starts
    <3>1. \A f : LexedAt(f, line, i, count) = <<Token("bad")>>
      BY <1>3, <2>4, LexedIs
    <3> QED
      BY <3>1, Zenon
  <2>5. CASE ~Blank(line[i]) /\ line[i] \in Starts
    <3>1. \A f : LexedAt(f, line, i, count) = Onward(f, TokenAt(line, i), count)
      BY <1>3, <2>5, LexedIs
    <3> QED
      BY <2>2, <2>5, <3>1, Zenon
  <2> QED
    BY <2>3, <2>4, <2>5
<1> QED
  BY <1>2, <1>3

LEMMA JoinIn ==
  ASSUME NEW C, NEW c \in C, NEW s \in Seq(C)
  PROVE  <<c>> \o s \in Seq(C) /\ <<c>> \in Seq(C) /\ <<>> \in Seq(C)
<1>1. <<c>> \in Seq(C)
  OBVIOUS
<1> QED
  BY <1>1, ConcatProperties

LEMMA LexedIn ==
  ASSUME NEW line \in Seq(Character), NEW g, \A x \in Places(line) : g[x] \in Seq(Tokens),
         NEW i \in Nat, NEW count \in Nat, OnLine(line, i, count)
  PROVE  LexedAt(g, line, i, count) \in Seq(Tokens)
<1>2. CASE Enough(line, i, count)
  <2>1. LexedAt(g, line, i, count) = <<>>
    BY <1>2, LexedIs
  <2> QED
    BY <2>1
<1>3. CASE ~Enough(line, i, count) /\ Blank(line[i])
  <2>1. LexedAt(g, line, i, count) = g[<<i + 1, count>>]
    BY <1>3, LexedIs
  <2>2. <<i + 1, count>> \in Places(line)
    BY <1>3, LexedFrom
  <2> QED
    BY <2>1, <2>2, Zenon
<1>4. CASE ~Enough(line, i, count) /\ ~Blank(line[i]) /\ line[i] \notin Starts
  <2>1. "bad" \in Kinds /\ ~Named("bad")
    BY DEF Kinds, Named
  <2>2. Token("bad") \in Tokens
    BY <2>1, PlainToken
  <2>3. LexedAt(g, line, i, count) = <<Token("bad")>>
    BY <1>4, LexedIs
  <2> QED
    BY <2>2, <2>3, JoinIn
<1>5. CASE ~Enough(line, i, count) /\ ~Blank(line[i]) /\ line[i] \in Starts
  <2> DEFINE tok == TokenAt(line, i).token
             next == IF Remark(tok) THEN <<>> ELSE g[<<TokenAt(line, i).end, count + 1>>]
  <2>0. tok \in Tokens /\ g[<<TokenAt(line, i).end, count + 1>>] \in Seq(Tokens)
    BY <1>5, LexedFrom
  <2>1. tok \in Tokens /\ next \in Seq(Tokens)
    <3>1. <<>> \in Seq(Tokens)
      OBVIOUS
    <3> QED
      BY <2>0, <3>1
  <2>2. LexedAt(g, line, i, count) = Onward(g, TokenAt(line, i), count)
    BY <1>5, LexedIs
  <2>3. Onward(g, TokenAt(line, i), count) = <<tok>> \o next
    BY Zenon DEF Onward
  <2> HIDE DEF tok, next
  <2> QED
    BY <2>1, <2>2, <2>3, JoinIn
<1> QED
  BY <1>2, <1>3, <1>4, <1>5

LEMMA PlaceIs ==
  ASSUME NEW line \in Seq(Character), NEW x \in Places(line)
  PROVE  x[1] \in Nat /\ x[2] \in Nat /\ OnLine(line, x[1], x[2])
<1>1. x[1] \in 1 .. Len(line) + 1 /\ x[2] \in 0 .. MAX_TOKENS /\ Len(line) \in Nat /\ MAX_TOKENS \in Nat
  BY TokenSizes DEF Places
<1> QED
  BY <1>1 DEF OnLine

(* Any line has a sequence of tokens.                                      *)
LEMMA TokenizeIn ==
  ASSUME NEW line \in Seq(Character)
  PROVE  tokenize(line) \in Seq(Tokens)
<1> DEFINE D == Places(line)
           T == [x \in D |-> Seq(Tokens)]
           size == [x \in D |-> Len(line) + 1 - x[1]]
           B == [g \in Made(D, T) |-> [x \in D |-> Lexed(g, line, x)]]
<1>1. Len(line) \in Nat /\ <<1, 0>> \in D
  BY TokenSizes DEF Places
<1>2. \A x \in D : x[1] \in 1 .. Len(line) + 1
  BY DEF Places
<1>3. size \in [D -> 0 .. Len(line)]
  BY <1>1, <1>2
<1>4. \A x, y \in D : size[y] < size[x] <=> y[1] > x[1]
  <2> HIDE DEF D
  <2> QED
    BY <1>1, <1>2
<1>5. \A x \in D : T[x] = Seq(Tokens)
  OBVIOUS
<1>6. Made(D, T) = [D -> Seq(Tokens)]
  <2>1. UNION {T[x] : x \in D} = Seq(Tokens)
    BY <1>1, <1>5
  <2> QED
    BY <1>5, <2>1 DEF Made
<1>7. B \in [Made(D, T) -> Made(D, T)]
  <2> SUFFICES ASSUME NEW g \in Made(D, T) PROVE [x \in D |-> Lexed(g, line, x)] \in [D -> Seq(Tokens)]
    BY <1>6
  <2>1. \A x \in D : g[x] \in Seq(Tokens)
    BY <1>6
  <2> QED
    BY <2>1, PlaceIs, LexedIn DEF Lexed
<1>8. Decreasing(D, T, size, B)
  <2> SUFFICES ASSUME NEW g \in Made(D, T), NEW h \in Made(D, T), NEW x \in D,
                      \A y \in D : size[y] < size[x] => g[y] = h[y]
               PROVE  B[g][x] = B[h][x]
    BY DEF Decreasing
  <2>1. SameAfter(line, g, h, x[1])
    BY <1>4 DEF SameAfter
  <2>2. x[1] \in Nat /\ x[2] \in Nat /\ OnLine(line, x[1], x[2])
    BY PlaceIs
  <2>3. Lexed(g, line, x) = Lexed(h, line, x)
    BY ONLY <2>1, <2>2, line \in Seq(Character), LexedAgrees DEF Lexed
  <2> QED
    BY <2>3
<1>9. \A x \in D : T[x] # {}
  <2>1. <<>> \in Seq(Tokens)
    OBVIOUS
  <2> HIDE DEF T
  <2> QED
    BY <1>5, <2>1
<1>10. PICK h \in Made(D, T) : h = B[h]
  <2> HIDE DEF D, T, size, B
  <2>1. Recursive(D, T, Len(line), size, B)
    BY <1>1, <1>3, <1>7, <1>8, <1>9 DEF Recursive
  <2> QED
    BY <2>1, RecursionExists
<1>11. Lexing(h, line) /\ h \in [D -> Seq(Tokens)]
  BY <1>6, <1>10 DEF Lexing
<1>12. PICK f : Lexing(f, line) /\ tokenize(line) = f[<<1, 0>>]
  BY <1>11, TokenizeIs
<1>13. f = h
  <2>1. f = [x \in D |-> f[x]] /\ h = [x \in D |-> h[x]]
    BY <1>11, <1>12 DEF Lexing
  <2>2. ASSUME NEW x \in D, \A y \in D : size[y] < size[x] => f[y] = h[y]
        PROVE  f[x] = h[x]
    <3>1. SameAfter(line, f, h, x[1])
      BY <1>4, <2>2 DEF SameAfter
    <3>2. x[1] \in Nat /\ x[2] \in Nat /\ OnLine(line, x[1], x[2])
      BY PlaceIs
    <3>3. Lexed(f, line, x) = Lexed(h, line, x)
      BY ONLY <3>1, <3>2, line \in Seq(Character), LexedAgrees DEF Lexed
    <3> QED
      BY <1>11, <1>12, <3>3 DEF Lexing
  <2> HIDE DEF D, size
  <2>3. Determined(D, Len(line), size, f, h)
    BY <1>1, <1>3, <2>1, <2>2 DEF Determined
  <2> QED
    BY <2>3, SameRecursion
<1> QED
  BY <1>1, <1>11, <1>12, <1>13

----------------------------------------------------------------------------
(* Expressions.                                                            *)

None(r)  == r.err = "none"
Fresh(r) == r.err = "start"
Wrong(r) == r.err \notin {"none", "start"}
Is(toks, pos, kind) == Kind(toks, pos) = kind

(* A result of what begins at p is an error, or goes on past it.           *)
Outcome(r, p) == r \in Results /\ ~Fresh(r) /\ (None(r) => r.pos > p)

(* What Expect and array_access come to.                                   *)
Closed(toks, kind, x) == IF Is(toks, x.pos, kind) THEN Ok(x.val, x.pos + 1) ELSE Syntax
LEMMA ExpectIs ==
  ASSUME NEW toks, NEW kind, NEW r
  PROVE  Expect(toks, kind, r) = IF None(r) THEN Closed(toks, kind, r) ELSE r
<1> DEFINE F(x) == IF x.err # "none" THEN x ELSE Closed(toks, kind, x)
<1>1. (CHOOSE y \in {F(z) : z \in {r}} : TRUE) = F(r)
  <2> HIDE DEF F
  <2> QED
    OBVIOUS
<1>2. Expect(toks, kind, r) = CHOOSE y \in {F(z) : z \in {r}} : TRUE
  BY Zenon DEF Expect, After, Once, Closed, Is
<1> QED
  BY <1>1, <1>2, Zenon DEF None

Comma(eval, toks, i1) == IF Is(toks, i1.pos, ",") THEN condition(eval, i1.pos + 1) ELSE [i1 EXCEPT !.val = 0]
Fetched(m, name, i1, i2, end) ==
  LET wrong == ElementError(m, name, i1, i2)
  IN  IF wrong # "none" THEN Err(wrong) ELSE Ok(array_get(m, name, i1, i2), end)
FromClosed(m, toks, pos, i1, i2, r) ==
  IF None(r) THEN Fetched(m, Letter(toks[pos]), Subscript(i1.val), Subscript(i2.val), r.pos) ELSE r
FromBoth(m, toks, pos, i1, i2) == IF None(i2) THEN FromClosed(m, toks, pos, i1, i2, Expect(toks, ")", i2)) ELSE i2
FromFirst(eval, m, toks, pos, i1) == IF None(i1) THEN FromBoth(m, toks, pos, i1, Comma(eval, toks, i1)) ELSE i1

LEMMA ArrayIs ==
  ASSUME NEW eval, NEW m, NEW toks, NEW pos
  PROVE  array_access(eval, m, toks, pos) = FromFirst(eval, m, toks, pos, condition(eval, pos + 2))
<1> DEFINE F(i1, i2, r) == IF r.err # "none" THEN r
                           ELSE Fetched(m, Letter(toks[pos]), Subscript(i1.val), Subscript(i2.val), r.pos)
           G(i1, i2) == IF i2.err # "none" THEN i2
                        ELSE CHOOSE y \in {F(i1, i2, z) : z \in {Expect(toks, ")", i2)}} : TRUE
           H(i1) == IF i1.err # "none" THEN i1 ELSE CHOOSE y \in {G(i1, z) : z \in {Comma(eval, toks, i1)}} : TRUE
<1>1. array_access(eval, m, toks, pos) = CHOOSE y \in {H(z) : z \in {condition(eval, pos + 2)}} : TRUE
  BY Zenon DEF array_access, After, Once, Fetched, Comma, Is
<1>2. \A x : (CHOOSE y \in {H(z) : z \in {x}} : TRUE) = H(x)
  <2> HIDE DEF H
  <2> QED
    OBVIOUS
<1>3. \A i1, x : (CHOOSE y \in {G(i1, z) : z \in {x}} : TRUE) = G(i1, x)
  <2> HIDE DEF G
  <2> QED
    OBVIOUS
<1>4. \A i1, i2, x : (CHOOSE y \in {F(i1, i2, z) : z \in {x}} : TRUE) = F(i1, i2, x)
  <2> HIDE DEF F
  <2> QED
    OBVIOUS
<1>5. \A i1, i2, r : F(i1, i2, r) = FromClosed(m, toks, pos, i1, i2, r)
  BY Zenon DEF FromClosed, None
<1>6. \A i1, i2 : G(i1, i2) = FromBoth(m, toks, pos, i1, i2)
  <2>1. ASSUME NEW i1, NEW i2
        PROVE  G(i1, i2) = IF i2.err # "none" THEN i2 ELSE F(i1, i2, Expect(toks, ")", i2))
    <3> HIDE DEF F
    <3> QED
      BY <1>4
  <2> HIDE DEF F, G
  <2> QED
    BY <1>5, <2>1 DEF FromBoth, None
<1>7. \A i1 : H(i1) = FromFirst(eval, m, toks, pos, i1)
  <2>1. ASSUME NEW i1
        PROVE  H(i1) = IF i1.err # "none" THEN i1 ELSE G(i1, Comma(eval, toks, i1))
    <3> HIDE DEF G
    <3> QED
      BY <1>3
  <2> HIDE DEF G, H
  <2> QED
    BY <1>6, <2>1 DEF FromFirst, None
<1> HIDE DEF H
<1> QED
  BY <1>1, <1>2, <1>7

(* What a program keeps.                                                   *)
Partial(A, B) == UNION {[D -> B] : D \in SUBSET A}
Arrays ==
  {a \in [dim1 : Nat, dim2 : Nat, vals : Seq(Int)] :
     Len(a.vals) = IF a.dim2 > 0 THEN a.dim1 * a.dim2 ELSE a.dim1}
Memories ==
  [vars : [Letters -> Int], named : Partial(Seq(Character), Int),
   arrays : Partial(Letters, Arrays), strings : Partial(Letters, Seq(Character))]

(* Elements of arrays: what ElementError lets through has a place.         *)
LEMMA PartialIn ==
  ASSUME NEW A, NEW B, NEW f \in Partial(A, B)
  PROVE  f \in [DOMAIN f -> B] /\ DOMAIN f \subseteq A /\ \A x \in DOMAIN f : f[x] \in B
BY DEF Partial

LEMMA MaxOfTwo ==
  ASSUME NEW a \in Int, NEW b \in Int
  PROVE  Max({a, b}) = IF a >= b THEN a ELSE b
<1>1. ASSUME NEW x \in {a, b}, \A y \in {a, b} : x >= y PROVE x = IF a >= b THEN a ELSE b
  <2>1. x \in Int /\ x >= a /\ x >= b /\ (x = a \/ x = b)
    BY <1>1
  <2> QED
    BY <2>1
<1>2. \E x \in {a, b} : \A y \in {a, b} : x >= y
  <2>1. CASE a >= b
    BY <2>1
  <2>2. CASE ~(a >= b)
    BY <2>2
  <2> QED
    BY <2>1, <2>2
<1>3. Max({a, b}) \in {a, b} /\ \A y \in {a, b} : Max({a, b}) >= y
  BY <1>2 DEF Max
<1> QED
  BY <1>1, <1>3

LEMMA SubscriptIn == ASSUME NEW v \in Int PROVE Subscript(v) \in Nat
BY MaxOfTwo DEF Subscript

LEMMA FlatIn ==
  ASSUME NEW d1 \in Nat, NEW d2 \in Nat, d2 > 0, NEW i1 \in Nat, NEW i2 \in Nat, i1 < d1, i2 < d2
  PROVE  i1 * d2 + i2 + 1 \in 1 .. d1 * d2
<1>1. PICK k \in Nat : d1 = i1 + 1 + k
  <2>1. d1 - i1 - 1 \in Nat /\ d1 = i1 + 1 + (d1 - i1 - 1)
    OBVIOUS
  <2> QED
    BY <2>1
<1>2. d1 * d2 = i1 * d2 + d2 + k * d2
  BY <1>1
<1>3. i1 * d2 \in Nat /\ k * d2 \in Nat
  OBVIOUS
<1> QED
  BY <1>2, <1>3

LEMMA IndexIn ==
  ASSUME NEW a \in Arrays, NEW i1 \in Nat, NEW i2 \in Nat, Within(a, i1, i2)
  PROVE  /\ flat_index(a, i1, i2) + 1 \in 1 .. Len(a.vals)
         /\ a.vals[flat_index(a, i1, i2) + 1] \in Int
<1> DEFINE d1 == a.dim1
           d2 == a.dim2
           vals == a.vals
<1>1. d1 \in Nat /\ d2 \in Nat /\ vals \in Seq(Int) /\ Len(vals) = IF d2 > 0 THEN d1 * d2 ELSE d1
  BY DEF Arrays
<1>2. i1 < d1 /\ (d2 > 0 => i2 < d2)
  BY DEF Within
<1>3. flat_index(a, i1, i2) = IF d2 > 0 THEN i1 * d2 + i2 ELSE i1
  BY DEF flat_index
<1> HIDE DEF d1, d2, vals
<1>4. flat_index(a, i1, i2) + 1 \in 1 .. Len(vals)
  <2>1. CASE d2 > 0
    BY <1>1, <1>2, <1>3, <2>1, FlatIn
  <2>2. CASE ~(d2 > 0)
    BY <1>1, <1>2, <1>3, <2>2
  <2> QED
    BY <2>1, <2>2
<1>5. vals[flat_index(a, i1, i2) + 1] \in Int
  BY <1>1, <1>4, ElementOfSeq
<1> QED
  BY <1>4, <1>5 DEF vals

LEMMA ErrorOf ==
  ASSUME NEW m, NEW name, NEW i1, NEW i2
  PROVE  /\ ElementError(m, name, i1, i2) \in {"none", "ARRAY NOT DIMMED", "BAD SUBSCRIPT"}
         /\ ElementError(m, name, i1, i2) = "none" => name \in DOMAIN m.arrays /\ Within(m.arrays[name], i1, i2)
BY DEF ElementError

LEMMA ElementIn ==
  ASSUME NEW m \in Memories, NEW name, NEW i1 \in Nat, NEW i2 \in Nat, ElementError(m, name, i1, i2) = "none"
  PROVE  /\ name \in DOMAIN m.arrays /\ m.arrays[name] \in Arrays
         /\ flat_index(m.arrays[name], i1, i2) + 1 \in 1 .. Len(m.arrays[name].vals)
         /\ array_get(m, name, i1, i2) \in Int
<1>1. name \in DOMAIN m.arrays /\ Within(m.arrays[name], i1, i2)
  BY ErrorOf
<1>2. m.arrays[name] \in Arrays
  <2>1. m.arrays \in Partial(Letters, Arrays)
    BY DEF Memories
  <2> QED
    BY <1>1, <2>1, PartialIn
<1> QED
  BY <1>1, <1>2, IndexIn DEF array_get

----------------------------------------------------------------------------
(* Results.                                                                *)

LEMMA OkPast ==
  ASSUME NEW v \in Int, NEW q \in Nat, NEW p \in Nat, q < p
  PROVE  Outcome(Ok(v, p), q) /\ None(Ok(v, p))
BY DEF Outcome, Ok, None, Fresh, Results, Errors

Trouble == {"SYNTAX ERROR", "TYPE MISMATCH", "DIVISION BY ZERO", "ARRAY NOT DIMMED", "BAD SUBSCRIPT"}
LEMMA ErrPast ==
  ASSUME NEW e \in Trouble, NEW q
  PROVE  Outcome(Err(e), q) /\ ~None(Err(e))
<1>0. Trouble \subseteq Errors
  BY DEF Errors, Trouble
<1>1. Err(e) \in Results
  BY <1>0 DEF Err, Results
<1>2. Err(e).err \in Trouble
  BY DEF Err
<1>3. ~Fresh(Err(e)) /\ ~None(Err(e))
  BY <1>2 DEF Fresh, None, Trouble
<1> QED
  BY <1>1, <1>3 DEF Outcome

LEMMA SyntaxPast == \A q : Outcome(Syntax, q) /\ ~None(Syntax)
BY ErrPast DEF Syntax, Trouble

LEMMA PastIn ==
  ASSUME NEW p \in Nat, NEW r, Outcome(r, p)
  PROVE  /\ r \in Results /\ r.val \in Int /\ r.pos \in Nat /\ ~Fresh(r)
         /\ None(r) => r.pos > p
         /\ \A q \in Nat : q < p => Outcome(r, q)
BY DEF Outcome, Results

LEMMA ClosedPast ==
  ASSUME NEW toks, NEW kind, NEW p \in Nat, NEW r, Outcome(r, p)
  PROVE  Outcome(Expect(toks, kind, r), p)
<1>1. r.val \in Int /\ r.pos \in Nat /\ (None(r) => r.pos > p)
  BY PastIn
<1>2. CASE None(r) /\ Is(toks, r.pos, kind)
  BY <1>1, <1>2, ExpectIs, OkPast DEF Closed
<1>3. CASE None(r) /\ ~Is(toks, r.pos, kind)
  BY <1>3, ExpectIs, SyntaxPast DEF Closed
<1>4. CASE ~None(r)
  BY <1>4, ExpectIs
<1> QED
  BY <1>2, <1>3, <1>4

(* The levels of the grammar, and how far each is above an atom.           *)
Levels == DOMAIN Operand
Rank == [or |-> 8, and |-> 7, not |-> 6, comparison |-> 5, expr |-> 4, term |-> 3, unary |-> 2, atom |-> 1]
AtAtom(level) == level = "atom"

LEMMA LevelsAre ==
  /\ "or" \in Levels
  /\ \A l \in Levels : Operand[l] \in Levels /\ Rank[l] \in 1 .. 8 /\ (~AtAtom(l) => Rank[Operand[l]] < Rank[l])
<1>1. Levels = {"or", "and", "not", "comparison", "expr", "term", "unary", "atom"}
  BY DEF Levels, Operand
<1> QED
  BY <1>1 DEF Operand, Rank, AtAtom

(* What an evaluation may answer to what it is asked.                      *)
Answers(toks, left) ==
  {r \in Results : /\ ~Fresh(r)
                   /\ None(r) => ~Wrong(left) /\ r.pos >= left.pos
                   /\ None(r) /\ Fresh(left) => r.pos > left.pos /\ left.pos <= Len(toks)}

(* eval answers so to every question; g and h answer alike to what lies    *)
(* behind pos.                                                             *)
Answering(toks, eval) == \A l \in Levels, r \in Results : eval[<<l, r>>] \in Answers(toks, r)
SamePast(g, h, pos) == \A l \in Levels, r \in Results : Wrong(r) \/ r.pos > pos => g[<<l, r>>] = h[<<l, r>>]

(* The part of an expression that one level asks another for.              *)
LEMMA StartIs ==
  ASSUME NEW p \in Nat, p > 0
  PROVE  Start(p) \in Results /\ Fresh(Start(p)) /\ ~Wrong(Start(p)) /\ ~None(Start(p)) /\ Start(p).pos = p
<1>1. "start" \in Errors
  BY DEF Errors
<1>2. Start(p) \in Results
  BY <1>1 DEF Start, Results
<1>3. Start(p).err = "start" /\ Start(p).pos = p
  BY DEF Start
<1> QED
  BY <1>2, <1>3 DEF Fresh, Wrong, None

LEMMA AskedPast ==
  ASSUME NEW toks, NEW g, NEW h, Answering(toks, h), NEW pos \in Nat, SamePast(g, h, pos),
         NEW l \in Levels, NEW p \in Nat, p > pos
  PROVE  /\ g[<<l, Start(p)>>] = h[<<l, Start(p)>>]
         /\ Outcome(h[<<l, Start(p)>>], p) /\ (None(h[<<l, Start(p)>>]) => p <= Len(toks))
<1>1. Start(p) \in Results /\ Fresh(Start(p)) /\ Start(p).pos = p
  BY StartIs
<1>2. h[<<l, Start(p)>>] \in Answers(toks, Start(p))
  BY <1>1 DEF Answering
<1>3. g[<<l, Start(p)>>] = h[<<l, Start(p)>>]
  BY <1>1 DEF SamePast
<1>4. Outcome(h[<<l, Start(p)>>], p) /\ (None(h[<<l, Start(p)>>]) => p <= Len(toks))
  <2> DEFINE r == h[<<l, Start(p)>>]
             s == Start(p)
  <2>1. r \in Answers(toks, s)
    BY <1>2
  <2> HIDE DEF r, s
  <2>2. r \in Results /\ ~Fresh(r) /\ (None(r) /\ Fresh(s) => r.pos > s.pos /\ s.pos <= Len(toks))
    BY <2>1 DEF Answers
  <2>3. Fresh(s) /\ s.pos = p
    BY <1>1 DEF s
  <2>4. Outcome(r, p) /\ (None(r) => p <= Len(toks))
    BY <2>2, <2>3 DEF Outcome
  <2> QED
    BY <2>4 DEF r
<1> QED
  BY <1>3, <1>4

LEMMA ConditionPast ==
  ASSUME NEW toks, NEW g, NEW h, Answering(toks, h), NEW pos \in Nat, SamePast(g, h, pos), NEW p \in Nat, p > pos
  PROVE  condition(g, p) = condition(h, p) /\ Outcome(condition(h, p), p)
BY AskedPast, LevelsAre DEF condition

LEMMA ZeroValue ==
  ASSUME NEW p, NEW r, Outcome(r, p)
  PROVE  Outcome([r EXCEPT !.val = 0], p)
<1>1. r \in Results /\ [r EXCEPT !.val = 0] \in Results
  BY DEF Outcome, Results
<1>2. [r EXCEPT !.val = 0].err = r.err /\ [r EXCEPT !.val = 0].pos = r.pos
  BY <1>1 DEF Results
<1> QED
  BY <1>1, <1>2 DEF Outcome, None, Fresh

LEMMA FetchedPast ==
  ASSUME NEW m \in Memories, NEW name, NEW i1 \in Nat, NEW i2 \in Nat, NEW q \in Nat, NEW p \in Nat, q < p
  PROVE  Outcome(Fetched(m, name, i1, i2, p), q)
<1> DEFINE wrong == ElementError(m, name, i1, i2)
<1>1. wrong = "none" \/ wrong \in Trouble
  BY ErrorOf DEF Trouble
<1>2. Fetched(m, name, i1, i2, p) = IF wrong # "none" THEN Err(wrong) ELSE Ok(array_get(m, name, i1, i2), p)
  BY DEF Fetched
<1>3. CASE wrong = "none"
  <2>1. array_get(m, name, i1, i2) \in Int
    BY <1>3, ElementIn
  <2> QED
    BY <1>2, <1>3, <2>1, OkPast
<1>4. CASE wrong # "none"
  <2>1. Outcome(Err(wrong), q)
    BY <1>1, <1>4, ErrPast
  <2> QED
    BY <1>2, <1>4, <2>1
<1> QED
  BY <1>3, <1>4

LEMMA ArrayPast ==
  ASSUME NEW m \in Memories, NEW toks, NEW g, NEW h, Answering(toks, h), NEW pos \in Nat, SamePast(g, h, pos)
  PROVE  /\ array_access(g, m, toks, pos) = array_access(h, m, toks, pos)
         /\ Outcome(array_access(h, m, toks, pos), pos)
<1> DEFINE i1 == condition(h, pos + 2)
           i2 == Comma(h, toks, i1)
           r  == Expect(toks, ")", i2)
<1>1. condition(g, pos + 2) = i1 /\ Outcome(i1, pos + 2)
  BY ConditionPast
<1> HIDE DEF i1
<1>2. i1.val \in Int /\ i1.pos \in Nat /\ i1 \in Results /\ (None(i1) => i1.pos > pos + 2) /\ Outcome(i1, pos)
  BY <1>1, PastIn
<1>3. ASSUME None(i1) PROVE Comma(g, toks, i1) = i2 /\ Outcome(i2, pos)
  <2>1. CASE Is(toks, i1.pos, ",")
    <3>1. condition(g, i1.pos + 1) = condition(h, i1.pos + 1) /\ Outcome(condition(h, i1.pos + 1), i1.pos + 1)
      BY <1>2, <1>3, ConditionPast
    <3>2. Outcome(condition(h, i1.pos + 1), pos)
      BY <1>2, <1>3, <3>1, PastIn
    <3> QED
      BY <2>1, <3>1, <3>2 DEF Comma
  <2>2. CASE ~Is(toks, i1.pos, ",")
    BY <1>2, <2>2, ZeroValue DEF Comma
  <2> QED
    BY <2>1, <2>2
<1> HIDE DEF i2
<1>4. ASSUME None(i1) PROVE i2.val \in Int /\ Outcome(r, pos)
  BY <1>3, <1>4, PastIn, ClosedPast
<1> HIDE DEF r
<1>5. ASSUME None(i1), None(r) PROVE Outcome(FromClosed(m, toks, pos, i1, i2, r), pos)
  <2>1. Subscript(i1.val) \in Nat /\ Subscript(i2.val) \in Nat /\ r.pos \in Nat /\ r.pos > pos
    BY <1>2, <1>4, <1>5, SubscriptIn, PastIn
  <2> QED
    BY <1>5, <2>1, FetchedPast DEF FromClosed
<1>6. ASSUME None(i1) PROVE Outcome(FromBoth(m, toks, pos, i1, i2), pos)
  <2>1. CASE None(i2) /\ None(r)
    BY <1>5, <1>6, <2>1 DEF FromBoth, r
  <2>2. CASE None(i2) /\ ~None(r)
    BY <1>4, <1>6, <2>2 DEF FromBoth, FromClosed, r
  <2>3. CASE ~None(i2)
    BY <1>3, <1>6, <2>3 DEF FromBoth
  <2> QED
    BY <2>1, <2>2, <2>3
<1>7. FromFirst(g, m, toks, pos, i1) = FromFirst(h, m, toks, pos, i1) /\ Outcome(FromFirst(h, m, toks, pos, i1), pos)
  <2>1. CASE None(i1)
    BY <1>3, <1>6, <2>1 DEF FromFirst, i2
  <2>2. CASE ~None(i1)
    BY <1>2, <2>2 DEF FromFirst
  <2> QED
    BY <2>1, <2>2
<1>8. array_access(g, m, toks, pos) = FromFirst(g, m, toks, pos, i1) /\ array_access(h, m, toks, pos) = FromFirst(h, m, toks, pos, i1)
  BY <1>1, ArrayIs DEF i1
<1> QED
  BY <1>7, <1>8

(* The atoms: numbers, names, functions, elements and what is in brackets. *)
(* Each goes on past where it began, and rests on what eval makes of what  *)
(* lies behind.                                                            *)
LEMMA TokenOf ==
  ASSUME NEW toks \in Seq(Tokens), NEW pos \in Nat, pos > 0, NEW kind, kind # "eol", Is(toks, pos, kind)
  PROVE  pos <= Len(toks) /\ toks[pos] \in Tokens /\ toks[pos].kind = kind
<1>1. pos <= Len(toks) /\ toks[pos].kind = kind
  BY DEF Is, Kind
<1>2. pos \in 1 .. Len(toks)
  BY <1>1
<1> QED
  BY <1>1, <1>2, ElementOfSeq

LEMMA NamedToken ==
  ASSUME NEW tok \in Tokens
  PROVE  /\ tok.val \in Int /\ tok.str \in Seq(Character) /\ tok.kind \in Kinds
         /\ Named(tok.kind) => Letter(tok) \in Letters
BY DEF Tokens, Letter

LEMMA StringIn ==
  ASSUME NEW m \in Memories, NEW name
  PROVE  string_get(m, name) \in Seq(Character) /\ Len(string_get(m, name)) \in Nat
<1>1. m.strings \in Partial(Letters, Seq(Character))
  BY DEF Memories
<1>2. string_get(m, name) \in Seq(Character)
  BY <1>1, PartialIn DEF string_get
<1> QED
  BY <1>2

LEMMA NamedIn ==
  ASSUME NEW m \in Memories, NEW name
  PROVE  named_var_get(m, name) \in Int
<1>1. m.named \in Partial(Seq(Character), Int)
  BY DEF Memories
<1> QED
  BY <1>1, PartialIn DEF named_var_get

LEMMA LengthOutcome ==
  ASSUME NEW m \in Memories, NEW toks, NEW pos \in Nat
  PROVE  Outcome(length(m, toks, pos), pos)
<1> DEFINE n == Len(string_get(m, Letter(toks[pos + 2])))
           r == Ok(n, pos + 3)
<1>1. n \in Int
  BY StringIn
<1> HIDE DEF n
<1>2. Outcome(r, pos)
  BY <1>1, OkPast
<1> HIDE DEF r
<1>3. Outcome(Expect(toks, ")", r), pos)
  BY <1>2, ClosedPast
<1>4. Outcome(Err("TYPE MISMATCH"), pos)
  BY ErrPast DEF Trouble
<1>5. length(m, toks, pos) = IF Kind(toks, pos + 1) # "(" THEN Syntax
                             ELSE IF Kind(toks, pos + 2) # "string variable" THEN Err("TYPE MISMATCH")
                             ELSE Expect(toks, ")", r)
  BY Zenon DEF length, r, n
<1> QED
  BY <1>3, <1>4, <1>5, SyntaxPast, Zenon

Sized(tok, r) == IF tok.str = Names.ABS THEN [r EXCEPT !.val = Max({@, -@})] ELSE r
Function(tok, r) == IF None(r) THEN Sized(tok, r) ELSE r
Called(eval, toks, pos) == Function(toks[pos], Expect(toks, ")", condition(eval, pos + 2)))

LEMMA SizedOutcome ==
  ASSUME NEW tok, NEW p \in Nat, NEW r, Outcome(r, p)
  PROVE  Outcome(Function(tok, r), p)
<1> DEFINE v == Max({r.val, -r.val})
           s == [r EXCEPT !.val = v]
<1>1. r \in Results /\ r.val \in Int
  BY PastIn
<1>2. v \in Int
  BY <1>1, MaxOfTwo
<1> HIDE DEF v
<1>3. s \in Results /\ s.err = r.err /\ s.pos = r.pos
  BY <1>1, <1>2 DEF Results
<1> HIDE DEF s
<1>4. Outcome(s, p)
  BY <1>3 DEF Outcome, None, Fresh
<1>5. Sized(tok, r) = s \/ Sized(tok, r) = r
  BY DEF Sized, s, v
<1> QED
  BY <1>4, <1>5 DEF Function

IdentIs(m, toks, pos, called, element) ==
  LET tok   == toks[pos]
      after == Kind(toks, pos + 1)
  IN  CASE tok.str = Names.LEN -> length(m, toks, pos)
        [] tok.str \in {Names.ABS, Names.INT} /\ after = "(" -> called
        [] tok.str = Names.SCRW -> Ok(SCRW, pos + 1)
        [] tok.str = Names.SCRH -> Ok(SCRH, pos + 1)
        [] OTHER -> IF after = "(" THEN element
                    ELSE IF Len(tok.str) > 1 THEN Ok(named_var_get(m, upper_name(tok)), pos + 1)
                    ELSE Ok(m.vars[Letter(tok)], pos + 1)

LEMMA IdentOutcome ==
  ASSUME NEW m \in Memories, NEW toks \in Seq(Tokens), NEW g, NEW h, Answering(toks, h),
         NEW pos \in Nat, pos > 0, SamePast(g, h, pos)
  PROVE  /\ ident(g, m, toks, pos) = ident(h, m, toks, pos)
         /\ Is(toks, pos, "ident") => Outcome(ident(h, m, toks, pos), pos)
<1>1. \A eval : ident(eval, m, toks, pos) = IdentIs(m, toks, pos, Called(eval, toks, pos), array_access(eval, m, toks, pos))
  <2> SUFFICES ASSUME NEW eval
               PROVE  ident(eval, m, toks, pos) =
                        IdentIs(m, toks, pos, Called(eval, toks, pos), array_access(eval, m, toks, pos))
    OBVIOUS
  <2> DEFINE F(r) == IF r.err # "none" THEN r ELSE Sized(toks[pos], r)
             e == Expect(toks, ")", condition(eval, pos + 2))
             chosen == CHOOSE y \in {F(z) : z \in {e}} : TRUE
  <2>1. ident(eval, m, toks, pos) = IdentIs(m, toks, pos, chosen, array_access(eval, m, toks, pos))
    BY Zenon DEF ident, IdentIs, After, Once, Sized
  <2>2. chosen = F(e)
    <3> HIDE DEF F, e
    <3> QED
      OBVIOUS
  <2> HIDE DEF chosen, e
  <2>3. F(e) = Function(toks[pos], e)
    BY DEF Function, None
  <2> HIDE DEF F
  <2> QED
    BY <2>1, <2>2, <2>3 DEF Called, e
<1>2. Called(g, toks, pos) = Called(h, toks, pos) /\ Outcome(Called(h, toks, pos), pos)
  <2>1. condition(g, pos + 2) = condition(h, pos + 2) /\ Outcome(condition(h, pos + 2), pos + 2)
    BY ConditionPast
  <2>2. Outcome(condition(h, pos + 2), pos)
    BY <2>1, PastIn
  <2> QED
    BY <2>1, <2>2, ClosedPast, SizedOutcome DEF Called
<1>3. array_access(g, m, toks, pos) = array_access(h, m, toks, pos) /\ Outcome(array_access(h, m, toks, pos), pos)
  BY ArrayPast
<1> DEFINE tok == toks[pos]
<1>4. Outcome(Ok(SCRW, pos + 1), pos) /\ Outcome(Ok(SCRH, pos + 1), pos)
  <2>1. SCRW \in Int /\ SCRH \in Int
    BY ExpressionAssumption
  <2> QED
    BY <2>1, OkPast
<1>5. Outcome(Ok(named_var_get(m, upper_name(tok)), pos + 1), pos)
  BY NamedIn, OkPast
<1>6. ASSUME Is(toks, pos, "ident") PROVE Outcome(Ok(m.vars[Letter(tok)], pos + 1), pos)
  <2>1. tok \in Tokens /\ tok.kind = "ident"
    BY <1>6, TokenOf
  <2>2. Letter(tok) \in Letters
    BY <2>1, NamedToken DEF Named
  <2>3. m.vars[Letter(tok)] \in Int
    BY <2>2 DEF Memories
  <2> QED
    BY <2>3, OkPast
<1> DEFINE called == Called(h, toks, pos)
           element == array_access(h, m, toks, pos)
<1>7. ASSUME Is(toks, pos, "ident") PROVE Outcome(IdentIs(m, toks, pos, called, element), pos)
  <2>1. Outcome(length(m, toks, pos), pos)
    BY LengthOutcome
  <2> HIDE DEF called, element
  <2>2. Outcome(called, pos) /\ Outcome(element, pos)
    BY <1>2, <1>3 DEF called, element
  <2> QED
    BY <1>4, <1>5, <1>6, <1>7, <2>1, <2>2 DEF IdentIs
<1> QED
  BY <1>1, <1>2, <1>3, <1>7

Reached(toks, r, pos) == Outcome(r, pos) /\ (None(r) => pos <= Len(toks))

AtomIs(toks, pos, inner, name) ==
  CASE Kind(toks, pos) = "number" -> Ok(toks[pos].val, pos + 1)
    [] Kind(toks, pos) = "("      -> inner
    [] Kind(toks, pos) = "ident"  -> name
    [] OTHER                      -> Syntax

LEMMA AtomReached ==
  ASSUME NEW m \in Memories, NEW toks \in Seq(Tokens), NEW g, NEW h, Answering(toks, h),
         NEW pos \in Nat, pos > 0, SamePast(g, h, pos)
  PROVE  atom(g, m, toks, pos) = atom(h, m, toks, pos) /\ Reached(toks, atom(h, m, toks, pos), pos)
<1> DEFINE inner(eval) == Expect(toks, ")", condition(eval, pos + 1))
<1>1. \A eval : atom(eval, m, toks, pos) = AtomIs(toks, pos, inner(eval), ident(eval, m, toks, pos))
  BY Zenon DEF atom, AtomIs
<1>2. inner(g) = inner(h) /\ Outcome(inner(h), pos)
  <2>1. condition(g, pos + 1) = condition(h, pos + 1) /\ Outcome(condition(h, pos + 1), pos + 1)
    BY ConditionPast
  <2>2. Outcome(condition(h, pos + 1), pos)
    BY <2>1, PastIn
  <2> QED
    BY <2>1, <2>2, ClosedPast
<1> HIDE DEF inner
<1>3. /\ ident(g, m, toks, pos) = ident(h, m, toks, pos)
      /\ Is(toks, pos, "ident") => Outcome(ident(h, m, toks, pos), pos)
  BY IdentOutcome
<1>4. ASSUME Is(toks, pos, "number") PROVE Outcome(Ok(toks[pos].val, pos + 1), pos)
  <2>1. toks[pos] \in Tokens
    BY <1>4, TokenOf
  <2>2. toks[pos].val \in Int
    BY <2>1, NamedToken
  <2> QED
    BY <2>2, OkPast
<1>5. \A kind \in {"number", "(", "ident"} : Is(toks, pos, kind) => pos <= Len(toks)
  <2>1. (Is(toks, pos, "number") => pos <= Len(toks)) /\ (Is(toks, pos, "(") => pos <= Len(toks))
    BY TokenOf
  <2>2. Is(toks, pos, "ident") => pos <= Len(toks)
    BY TokenOf
  <2> QED
    BY <2>1, <2>2
<1> DEFINE name == ident(h, m, toks, pos)
           x == inner(h)
<1>6. Reached(toks, AtomIs(toks, pos, x, name), pos)
  <2>1. /\ Is(toks, pos, "number") => Reached(toks, Ok(toks[pos].val, pos + 1), pos)
        /\ Is(toks, pos, "(") => Reached(toks, x, pos)
        /\ Is(toks, pos, "ident") => Reached(toks, name, pos)
    BY <1>2, <1>3, <1>4, <1>5 DEF Reached
  <2>2. Reached(toks, Syntax, pos)
    BY SyntaxPast DEF Reached
  <2> HIDE DEF x, name
  <2> QED
    BY <2>1, <2>2 DEF AtomIs, Is
<1> QED
  BY <1>1, <1>2, <1>3, <1>6

(* The operators.                                                          *)
LEMMA TruthIn == \A b : Truth(b) \in Int
BY DEF Truth

LEMMA RemIn ==
  ASSUME NEW a \in Int, NEW b \in Int, b # 0
  PROVE  Rem(a, b) \in Int /\ Quotient(a, b) \in Int
<1> DEFINE size(n) == IF n < 0 THEN -n ELSE n
<1>1. size(b) \in Int /\ size(b) > 0 /\ size(a) \in Int
  OBVIOUS
<1>2. Rem(a, b) = IF a < 0 THEN -(size(a) % size(b)) ELSE a % size(b)
  BY Zenon DEF Rem
<1> DEFINE c == size(b)
           d == size(a)
<1>3. Rem(a, b) \in Int
  <2>1. Rem(a, b) = IF a < 0 THEN -(d % c) ELSE a % c
    BY <1>2
  <2>2. c \in Int /\ c > 0 /\ d \in Int
    BY <1>1
  <2> HIDE DEF c, d
  <2> QED
    BY <2>1, <2>2
<1>4. Quotient(a, b) \in Int
  <2>1. CASE b < 0
    <3>1. -a \in Int /\ -b \in Int /\ -b > 0
      BY <2>1
    <3> DEFINE p == -a
               q == -b
    <3>2. Quotient(a, b) = p \div q
      BY <2>1 DEF Quotient
    <3>3. p \in Int /\ q \in Int /\ q > 0
      BY <3>1
    <3> HIDE DEF p, q
    <3> QED
      BY <3>2, <3>3
  <2>2. CASE ~(b < 0)
    BY <2>2 DEF Quotient
  <2> QED
    BY <2>1, <2>2
<1> QED
  BY <1>3, <1>4

Operators == UNION {Infix[l] : l \in DOMAIN Infix}

LEMMA ApplyOutcome ==
  ASSUME NEW op \in Operators, NEW a \in Int, NEW b \in Int, NEW q \in Nat, NEW p \in Nat, q < p
  PROVE  Outcome(Apply(op, a, b, p), q)
<1> DEFINE v == CASE op = "OR"  -> Truth(a # 0 \/ b # 0)
                  [] op = "AND" -> Truth(a # 0 /\ b # 0)
                  [] op = "="   -> Truth(a = b)
                  [] op = "<>"  -> Truth(a # b)
                  [] op = "<"   -> Truth(a < b)
                  [] op = ">"   -> Truth(a > b)
                  [] op = "<="  -> Truth(a <= b)
                  [] op = ">="  -> Truth(a >= b)
                  [] op = "+"   -> a + b
                  [] op = "-"   -> a - b
                  [] op = "*"   -> a * b
                  [] op = "/"   -> Quotient(a, b)
                  [] op = "%"   -> Rem(a, b)
<1>1. Apply(op, a, b, p) = IF op \in {"/", "%"} /\ b = 0 THEN Err("DIVISION BY ZERO") ELSE Ok(v, p)
  BY Zenon DEF Apply
<1>2. CASE op \in {"/", "%"} /\ b = 0
  <2>1. Outcome(Err("DIVISION BY ZERO"), q)
    BY ErrPast DEF Trouble
  <2> QED
    BY <1>1, <1>2, <2>1, Zenon
<1>3. CASE ~(op \in {"/", "%"} /\ b = 0)
  <2>1. v \in Int
    <3>1. op \in {"OR", "AND", "=", "<>", "<", ">", "<=", ">=", "+", "-", "*", "/", "%"}
      BY DEF Operators, Infix
    <3>2. a + b \in Int /\ a - b \in Int /\ a * b \in Int
      OBVIOUS
    <3>3. op = "/" => Quotient(a, b) \in Int
      BY <1>3, RemIn
    <3>4. op = "%" => Rem(a, b) \in Int
      BY <1>3, RemIn
    <3> QED
      BY <3>1, <3>2, <3>3, <3>4, TruthIn
  <2> HIDE DEF v
  <2>2. Outcome(Ok(v, p), q)
    BY <2>1, OkPast
  <2> QED
    BY <1>1, <1>3, <2>2, Zenon
<1> QED
  BY <1>2, <1>3

(* The levels with a sign before their operand, and those with signs       *)
(* between their operands.                                                 *)
Prefixed(level) == level \in DOMAIN Prefix
Infixed(level)  == level \in DOMAIN Infix
Signed(toks, level, pos) == Kind(toks, pos) = Prefix[level]
Linked(toks, level, pos) == Kind(toks, pos) \in Infix[level]
Single(level) == level = "comparison"

LEMMA LevelKinds ==
  ASSUME NEW level \in Levels
  PROVE  /\ AtAtom(level) \/ Prefixed(level) \/ Infixed(level)
         /\ AtAtom(level) => ~Prefixed(level) /\ ~Infixed(level)
         /\ ~(Prefixed(level) /\ Infixed(level))
<1>1. Levels = {"or", "and", "not", "comparison", "expr", "term", "unary", "atom"}
  BY DEF Levels, Operand
<1>2. DOMAIN Prefix = {"not", "unary"} /\ DOMAIN Infix = {"or", "and", "comparison", "expr", "term"}
  BY DEF Prefix, Infix
<1> QED
  BY <1>1, <1>2 DEF AtAtom, Prefixed, Infixed

(* What evaluated comes to.                                                *)
Negated(level, x) == IF level = "not" THEN Truth(x = 0) ELSE -x
Unary(level, r) == IF None(r) THEN Ok(Negated(level, r.val), r.pos) ELSE r
Applied(toks, left, r) == IF None(r) THEN Apply(Kind(toks, left.pos), left.val, r.val, r.pos) ELSE r
Chained(eval, toks, level, left) == Applied(toks, left, operand(eval, level, left.pos + 1))

Answer(eval, level, left) == eval[<<level, left>>]
Below(eval, level, left) == Answer(eval, Operand[level], left)

EvaluatedAs(eval, m, toks, level, left, unary, both) ==
  IF Wrong(left) THEN left
  ELSE CASE AtAtom(level) -> atom(eval, m, toks, left.pos)
         [] Prefixed(level) -> IF ~Signed(toks, level, left.pos) THEN Below(eval, level, left) ELSE unary
         [] Infixed(level) /\ Fresh(left) -> Answer(eval, level, Below(eval, level, left))
         [] OTHER -> IF ~Linked(toks, level, left.pos) THEN left
                     ELSE IF Single(level) THEN both ELSE Answer(eval, level, both)

LEMMA EvaluatedFrom ==
  ASSUME NEW eval, NEW m, NEW toks, NEW level, NEW left
  PROVE  evaluated(eval, m, toks, level, left) =
           EvaluatedAs(eval, m, toks, level, left, Unary(level, operand(eval, level, left.pos + 1)),
                       Chained(eval, toks, level, left))
<1> DEFINE o == operand(eval, level, left.pos + 1)
           F(x) == IF x.err # "none" THEN x ELSE Ok(Negated(level, x.val), x.pos)
           G(r) == IF r.err # "none" THEN r ELSE Apply(Kind(toks, left.pos), left.val, r.val, r.pos)
           unary == CHOOSE y \in {F(z) : z \in {o}} : TRUE
           both == CHOOSE y \in {G(z) : z \in {o}} : TRUE
<1>1. evaluated(eval, m, toks, level, left) = EvaluatedAs(eval, m, toks, level, left, unary, both)
  BY Zenon DEF evaluated, EvaluatedAs, After, Once, Wrong, AtAtom, Prefixed, Infixed, Signed, Linked, Single,
               Fresh, Negated, Below, Answer
<1>2. unary = F(o)
  <2> HIDE DEF F, o
  <2> QED
    OBVIOUS
<1>3. both = G(o)
  <2> HIDE DEF G, o
  <2> QED
    OBVIOUS
<1> HIDE DEF unary, both
<1>4. F(o) = Unary(level, o)
  BY Zenon DEF Unary, None
<1>5. G(o) = Applied(toks, left, o)
  BY Zenon DEF Applied, None
<1> HIDE DEF F, G
<1> QED
  BY <1>1, <1>2, <1>3, <1>4, <1>5, Zenon DEF Chained

LEMMA EvaluatedIs ==
  ASSUME NEW eval, NEW m, NEW toks, NEW level \in Levels, NEW left
  PROVE  /\ Wrong(left) => evaluated(eval, m, toks, level, left) = left
         /\ ~Wrong(left) /\ AtAtom(level) => evaluated(eval, m, toks, level, left) = atom(eval, m, toks, left.pos)
         /\ ~Wrong(left) /\ Prefixed(level) /\ ~Signed(toks, level, left.pos) =>
              evaluated(eval, m, toks, level, left) = Below(eval, level, left)
         /\ ~Wrong(left) /\ Prefixed(level) /\ Signed(toks, level, left.pos) =>
              evaluated(eval, m, toks, level, left) = Unary(level, operand(eval, level, left.pos + 1))
         /\ ~Wrong(left) /\ Infixed(level) /\ Fresh(left) =>
              evaluated(eval, m, toks, level, left) = Answer(eval, level, Below(eval, level, left))
         /\ ~Wrong(left) /\ Infixed(level) /\ ~Fresh(left) /\ ~Linked(toks, level, left.pos) =>
              evaluated(eval, m, toks, level, left) = left
         /\ ~Wrong(left) /\ Infixed(level) /\ ~Fresh(left) /\ Linked(toks, level, left.pos) /\ Single(level) =>
              evaluated(eval, m, toks, level, left) = Chained(eval, toks, level, left)
         /\ ~Wrong(left) /\ Infixed(level) /\ ~Fresh(left) /\ Linked(toks, level, left.pos) /\ ~Single(level) =>
              evaluated(eval, m, toks, level, left) = Answer(eval, level, Chained(eval, toks, level, left))
<1> DEFINE unary == Unary(level, operand(eval, level, left.pos + 1))
           both == Chained(eval, toks, level, left)
           is == evaluated(eval, m, toks, level, left)
<1>1. is = EvaluatedAs(eval, m, toks, level, left, unary, both)
  BY EvaluatedFrom
<1> HIDE DEF unary, both, is
<1>2. /\ AtAtom(level) \/ Prefixed(level) \/ Infixed(level)
      /\ AtAtom(level) => ~Prefixed(level) /\ ~Infixed(level)
      /\ ~(Prefixed(level) /\ Infixed(level))
  BY LevelKinds
<1>3. /\ Wrong(left) => is = left
      /\ ~Wrong(left) /\ AtAtom(level) => is = atom(eval, m, toks, left.pos)
      /\ ~Wrong(left) /\ Prefixed(level) /\ ~Signed(toks, level, left.pos) => is = Below(eval, level, left)
      /\ ~Wrong(left) /\ Prefixed(level) /\ Signed(toks, level, left.pos) => is = unary
      /\ ~Wrong(left) /\ Infixed(level) /\ Fresh(left) => is = Answer(eval, level, Below(eval, level, left))
  BY <1>1, <1>2 DEF EvaluatedAs
<1>4. ASSUME ~Wrong(left), Infixed(level), ~Fresh(left)
      PROVE  is = IF ~Linked(toks, level, left.pos) THEN left ELSE IF Single(level) THEN both ELSE Answer(eval, level, both)
  BY <1>1, <1>2, <1>4 DEF EvaluatedAs
<1> QED
  BY <1>3, <1>4, Zenon DEF is, unary, both

(* How much is left to an evaluation, of the tokens and then of the levels.*)
Ahead(toks, pos) == IF pos > Len(toks) THEN 0 ELSE Len(toks) + 1 - pos
Size(toks, level, left) == IF Wrong(left) THEN 0 ELSE 9 * Ahead(toks, left.pos) + Rank[level]
Agree(toks, g, h, level, left) ==
  \A l \in Levels, r \in Results :
    Size(toks, l, r) < Size(toks, level, left) => g[<<l, r>>] = h[<<l, r>>]

(* The size gets smaller with each token, and with each level down to an   *)
(* atom.                                                                   *)
LEMMA SizeIs ==
  ASSUME NEW toks \in Seq(Tokens), NEW l \in Levels, NEW r \in Results
  PROVE  /\ Size(toks, l, r) \in Nat /\ Size(toks, l, r) <= 9 * (Len(toks) + 1) + 8
         /\ r.pos \in Nat /\ r.pos > 0 /\ r.val \in Int /\ Len(toks) \in Nat
         /\ Wrong(r) => Size(toks, l, r) = 0
         /\ ~Wrong(r) => Size(toks, l, r) = 9 * Ahead(toks, r.pos) + Rank[l]
         /\ Rank[l] \in Nat /\ Rank[l] > 0 /\ Rank[l] <= 8 /\ Ahead(toks, r.pos) \in Nat
<1>1. r.pos \in Nat /\ r.pos > 0 /\ r.val \in Int /\ Len(toks) \in Nat
  BY DEF Results
<1>2. Rank[l] \in Nat /\ Rank[l] > 0 /\ Rank[l] <= 8
  BY LevelsAre
<1>3. Ahead(toks, r.pos) \in Nat /\ Ahead(toks, r.pos) <= Len(toks) + 1
  BY <1>1 DEF Ahead
<1> DEFINE a == Ahead(toks, r.pos)
           k == Rank[l]
<1>4. Size(toks, l, r) = IF Wrong(r) THEN 0 ELSE 9 * a + k
  BY DEF Size
<1>5. a \in Nat /\ a <= Len(toks) + 1 /\ k \in Nat /\ k > 0 /\ k <= 8
  BY <1>2, <1>3
<1> HIDE DEF a, k
<1>6. Size(toks, l, r) \in Nat /\ Size(toks, l, r) <= 9 * (Len(toks) + 1) + 8
  BY <1>1, <1>4, <1>5
<1> QED
  BY <1>1, <1>2, <1>3, <1>4, <1>6 DEF a, k

LEMMA Smaller ==
  ASSUME NEW toks \in Seq(Tokens), NEW level \in Levels, NEW left \in Results, ~Wrong(left),
         NEW l \in Levels, NEW r \in Results
  PROVE  /\ Wrong(r) => Size(toks, l, r) < Size(toks, level, left)
         /\ left.pos <= Len(toks) /\ r.pos > left.pos => Size(toks, l, r) < Size(toks, level, left)
         /\ ~AtAtom(level) => Size(toks, Operand[level], left) < Size(toks, level, left)
<1> DEFINE a == Ahead(toks, left.pos)
           b == Ahead(toks, r.pos)
           k == Rank[level]
           j == Rank[l]
<1>1. Size(toks, level, left) = 9 * a + k /\ a \in Nat /\ k \in Nat /\ k > 0 /\ k <= 8
  BY SizeIs
<1>2. Size(toks, l, r) = (IF Wrong(r) THEN 0 ELSE 9 * b + j) /\ b \in Nat /\ j \in Nat /\ j > 0 /\ j <= 8
  BY SizeIs
<1>3. left.pos <= Len(toks) /\ r.pos > left.pos => b < a
  <2>1. left.pos \in Nat /\ r.pos \in Nat /\ Len(toks) \in Nat
    BY SizeIs
  <2> QED
    BY <2>1 DEF Ahead
<1>4. ASSUME ~AtAtom(level) PROVE Size(toks, Operand[level], left) < Size(toks, level, left)
  <2>1. Operand[level] \in Levels /\ Rank[Operand[level]] < k
    BY <1>4, LevelsAre
  <2>2. Size(toks, Operand[level], left) = 9 * a + Rank[Operand[level]] /\ Rank[Operand[level]] \in Nat
    BY <2>1, SizeIs
  <2> HIDE DEF a, k
  <2> QED
    BY <1>1, <2>1, <2>2
<1> HIDE DEF a, b, k, j
<1> QED
  BY <1>1, <1>2, <1>3, <1>4

LEMMA PastAgree ==
  ASSUME NEW toks \in Seq(Tokens), NEW g, NEW h, NEW level \in Levels, NEW left \in Results, ~Wrong(left),
         Agree(toks, g, h, level, left), left.pos <= Len(toks)
  PROVE  SamePast(g, h, left.pos)
<1> SUFFICES ASSUME NEW l \in Levels, NEW r \in Results, Wrong(r) \/ r.pos > left.pos PROVE g[<<l, r>>] = h[<<l, r>>]
  BY DEF SamePast
<1>1. Size(toks, l, r) < Size(toks, level, left)
  BY Smaller
<1> QED
  BY <1>1 DEF Agree

(* x and y are the same answer.                                            *)
Settled(toks, left, x, y) == x = y /\ y \in Answers(toks, left)

LEMMA OutcomeAnswers ==
  ASSUME NEW toks, NEW left \in Results, ~Wrong(left), NEW r, Outcome(r, left.pos), left.pos <= Len(toks) \/ ~None(r)
  PROVE  r \in Answers(toks, left)
<1>1. left.pos \in Nat /\ r \in Results /\ ~Fresh(r) /\ r.pos \in Nat /\ (None(r) => r.pos > left.pos)
  BY DEF Outcome, Results
<1> QED
  BY <1>1 DEF Answers

(* Evaluation asks smaller questions only, and answers as Answers says     *)
(* when those it asks are answered so.                                     *)
LEMMA AtomSettled ==
  ASSUME NEW m \in Memories, NEW toks \in Seq(Tokens), NEW g, NEW h, Answering(toks, h),
         NEW level \in Levels, NEW left \in Results, ~Wrong(left), Agree(toks, g, h, level, left)
  PROVE  Settled(toks, left, atom(g, m, toks, left.pos), atom(h, m, toks, left.pos))
<1>1. left.pos \in Nat /\ left.pos > 0 /\ Len(toks) \in Nat
  BY SizeIs
<1>2. CASE left.pos <= Len(toks)
  <2>1. SamePast(g, h, left.pos)
    BY <1>2, PastAgree
  <2>2. atom(g, m, toks, left.pos) = atom(h, m, toks, left.pos) /\ Reached(toks, atom(h, m, toks, left.pos), left.pos)
    BY <1>1, <2>1, AtomReached
  <2> QED
    BY <1>2, <2>2, OutcomeAnswers DEF Reached, Settled
<1>3. CASE left.pos > Len(toks)
  <2>1. Kind(toks, left.pos) = "eol"
    BY <1>1, <1>3 DEF Kind
  <2>2. \A eval : atom(eval, m, toks, left.pos) = Syntax
    BY <2>1 DEF atom
  <2>3. Syntax \in Answers(toks, left)
    BY SyntaxPast, OutcomeAnswers
  <2> QED
    BY <2>2, <2>3 DEF Settled
<1> QED
  BY <1>1, <1>2, <1>3

LEMMA SignHere ==
  ASSUME NEW toks \in Seq(Tokens), NEW level \in Levels, NEW pos \in Nat
  PROVE  /\ Prefixed(level) /\ Signed(toks, level, pos) => pos <= Len(toks)
         /\ Infixed(level) /\ Linked(toks, level, pos) => pos <= Len(toks) /\ Kind(toks, pos) \in Operators
<1>1. Prefixed(level) => Prefix[level] # "eol"
  BY DEF Prefixed, Prefix
<1>2. Infixed(level) => "eol" \notin Infix[level] /\ Infix[level] \subseteq Operators
  BY DEF Infixed, Infix, Operators
<1>3. Len(toks) \in Nat /\ (~(pos <= Len(toks)) => Kind(toks, pos) = "eol")
  BY DEF Kind
<1> QED
  BY <1>1, <1>2, <1>3 DEF Signed, Linked

LEMMA PrefixSettled ==
  ASSUME NEW toks \in Seq(Tokens), NEW g, NEW h, Answering(toks, h),
         NEW level \in Levels, NEW left \in Results, ~Wrong(left), Agree(toks, g, h, level, left),
         Prefixed(level), Signed(toks, level, left.pos)
  PROVE  Settled(toks, left, Unary(level, operand(g, level, left.pos + 1)), Unary(level, operand(h, level, left.pos + 1)))
<1> DEFINE p == left.pos
           r == operand(h, level, p + 1)
<1>1. p \in Nat /\ p <= Len(toks) /\ p + 1 \in Nat /\ p + 1 > p /\ Operand[level] \in Levels
  BY SizeIs, SignHere, LevelKinds, LevelsAre
<1>2. SamePast(g, h, p)
  BY <1>1, PastAgree
<1>3. operand(g, level, p + 1) = r /\ Outcome(r, p + 1)
  <2> HIDE DEF p
  <2> QED
    BY <1>1, <1>2, AskedPast DEF operand
<1> HIDE DEF r
<1>4. Outcome(Unary(level, r), p)
  <2>1. r.val \in Int /\ r.pos \in Nat /\ (None(r) => r.pos > p) /\ Outcome(r, p)
    <3> HIDE DEF p
    <3> QED
      BY <1>1, <1>3, PastIn
  <2>2. Negated(level, r.val) \in Int
    BY <2>1, TruthIn DEF Negated
  <2> HIDE DEF p
  <2>3. None(r) => Outcome(Ok(Negated(level, r.val), r.pos), p)
    BY <1>1, <2>1, <2>2, OkPast
  <2> QED
    BY <2>1, <2>3 DEF Unary
<1> QED
  BY <1>1, <1>3, <1>4, OutcomeAnswers DEF Settled, r

LEMMA ChainSettled ==
  ASSUME NEW toks \in Seq(Tokens), NEW g, NEW h, Answering(toks, h),
         NEW level \in Levels, NEW left \in Results, ~Wrong(left), Agree(toks, g, h, level, left),
         Infixed(level), Linked(toks, level, left.pos)
  PROVE  /\ Settled(toks, left, Chained(g, toks, level, left), Chained(h, toks, level, left))
         /\ Outcome(Chained(h, toks, level, left), left.pos)
<1> DEFINE p == left.pos
           r == operand(h, level, p + 1)
<1>1. p \in Nat /\ p <= Len(toks) /\ p + 1 \in Nat /\ p + 1 > p /\ Operand[level] \in Levels /\ Kind(toks, p) \in Operators
      /\ left.val \in Int
  BY SizeIs, SignHere, LevelKinds, LevelsAre
<1>2. SamePast(g, h, p)
  BY <1>1, PastAgree
<1>3. operand(g, level, p + 1) = r /\ Outcome(r, p + 1)
  <2> HIDE DEF p
  <2> QED
    BY <1>1, <1>2, AskedPast DEF operand
<1> HIDE DEF r
<1>4. Outcome(Applied(toks, left, r), p)
  <2>1. r.val \in Int /\ r.pos \in Nat /\ (None(r) => r.pos > p) /\ Outcome(r, p)
    <3> HIDE DEF p
    <3> QED
      BY <1>1, <1>3, PastIn
  <2>2. None(r) => Outcome(Apply(Kind(toks, p), left.val, r.val, r.pos), p)
    <3> HIDE DEF p
    <3> QED
      BY <1>1, <2>1, ApplyOutcome
  <2> QED
    BY <2>1, <2>2 DEF Applied
<1> QED
  BY <1>1, <1>3, <1>4, OutcomeAnswers DEF Settled, Chained, r

LEMMA OnSettled ==
  ASSUME NEW toks, NEW g, NEW h, Answering(toks, h), NEW level \in Levels, NEW left \in Results, ~Wrong(left),
         Agree(toks, g, h, level, left), NEW l \in Levels, NEW x \in Results, NEW y, x = y,
         Size(toks, l, x) < Size(toks, level, left)
  PROVE  Settled(toks, x, Answer(g, l, x), Answer(h, l, y))
BY DEF Agree, Answering, Settled, Answer

LEMMA AnswerOn ==
  ASSUME NEW toks, NEW left \in Results, ~Wrong(left), NEW x \in Answers(toks, left), Fresh(left) \/ (None(x) => x.pos > left.pos),
         NEW r \in Answers(toks, x)
  PROVE  r \in Answers(toks, left)
<1>1. /\ x \in Results /\ r \in Results /\ ~Fresh(x) /\ ~Fresh(r)
      /\ None(r) => ~Wrong(x) /\ r.pos >= x.pos
      /\ None(x) /\ Fresh(left) => x.pos > left.pos /\ left.pos <= Len(toks)
      /\ None(x) => x.pos >= left.pos
  BY DEF Answers
<1>2. left.pos \in Nat /\ x.pos \in Nat /\ r.pos \in Nat
  BY <1>1 DEF Results
<1>3. None(r) => None(x)
  BY <1>1 DEF Wrong, Fresh, None
<1> QED
  BY <1>1, <1>2, <1>3 DEF Answers

LEMMA EvaluatedSettled ==
  ASSUME NEW m \in Memories, NEW toks \in Seq(Tokens), NEW g, NEW h, Answering(toks, h),
         NEW level \in Levels, NEW left \in Results, Agree(toks, g, h, level, left)
  PROVE  Settled(toks, left, evaluated(g, m, toks, level, left), evaluated(h, m, toks, level, left))
<1>0. left.pos \in Nat /\ left.pos > 0 /\ Len(toks) \in Nat
  BY SizeIs
<1>1. CASE Wrong(left)
  <2>1. left \in Answers(toks, left)
    BY <1>0, <1>1 DEF Answers, Wrong, Fresh, None
  <2> QED
    BY <1>1, <2>1, EvaluatedIs DEF Settled
<1>2. CASE ~Wrong(left) /\ AtAtom(level)
  <2>1. \A e : evaluated(e, m, toks, level, left) = atom(e, m, toks, left.pos)
    BY <1>2, EvaluatedIs
  <2> QED
    BY <1>2, <2>1, AtomSettled
<1>3. CASE ~Wrong(left) /\ Prefixed(level) /\ ~Signed(toks, level, left.pos)
  <2>1. \A e : evaluated(e, m, toks, level, left) = Below(e, level, left)
    BY <1>3, EvaluatedIs
  <2>2. Operand[level] \in Levels /\ Size(toks, Operand[level], left) < Size(toks, level, left)
    BY <1>3, LevelKinds, LevelsAre, Smaller
  <2> QED
    BY <1>3, <2>1, <2>2, OnSettled DEF Below
<1>4. CASE ~Wrong(left) /\ Prefixed(level) /\ Signed(toks, level, left.pos)
  <2>1. \A e : evaluated(e, m, toks, level, left) = Unary(level, operand(e, level, left.pos + 1))
    BY <1>4, EvaluatedIs
  <2> QED
    BY <1>4, <2>1, PrefixSettled
<1>5. CASE ~Wrong(left) /\ Infixed(level) /\ Fresh(left)
  <2> DEFINE x == Below(g, level, left)
             y == Below(h, level, left)
  <2>1. \A e : evaluated(e, m, toks, level, left) = Answer(e, level, Below(e, level, left))
    BY <1>5, EvaluatedIs
  <2>2. Operand[level] \in Levels /\ Size(toks, Operand[level], left) < Size(toks, level, left)
    BY <1>5, LevelKinds, LevelsAre, Smaller
  <2>3. x = y /\ y \in Answers(toks, left)
    BY <1>5, <2>2, OnSettled DEF Settled, Below
  <2> HIDE DEF x, y
  <2>4. x \in Results /\ ~Fresh(x) /\ (None(x) => x.pos > left.pos /\ left.pos <= Len(toks))
    BY <1>5, <2>3 DEF Answers
  <2>5. Size(toks, level, x) < Size(toks, level, left)
    <3>1. None(x) \/ Wrong(x)
      BY <2>4 DEF None, Wrong, Fresh
    <3> QED
      BY <1>5, <2>4, <3>1, Smaller
  <2>6. Settled(toks, x, Answer(g, level, x), Answer(h, level, y))
    BY <1>5, <2>3, <2>4, <2>5, OnSettled
  <2>7. Answer(h, level, y) \in Answers(toks, left)
    BY <1>5, <2>3, <2>6, AnswerOn DEF Settled
  <2> QED
    BY <2>1, <2>6, <2>7 DEF Settled, x, y
<1>6. CASE ~Wrong(left) /\ Infixed(level) /\ ~Fresh(left) /\ ~Linked(toks, level, left.pos)
  <2>1. \A e : evaluated(e, m, toks, level, left) = left
    BY <1>6, EvaluatedIs
  <2>2. left \in Answers(toks, left)
    BY <1>0, <1>6 DEF Answers
  <2> QED
    BY <2>1, <2>2 DEF Settled
<1>7. CASE ~Wrong(left) /\ Infixed(level) /\ ~Fresh(left) /\ Linked(toks, level, left.pos)
  <2> DEFINE x == Chained(g, toks, level, left)
             y == Chained(h, toks, level, left)
  <2>1. x = y /\ y \in Answers(toks, left) /\ Outcome(y, left.pos) /\ left.pos <= Len(toks)
    BY <1>0, <1>7, ChainSettled, SignHere DEF Settled
  <2>2. CASE Single(level)
    <3>1. evaluated(g, m, toks, level, left) = x /\ evaluated(h, m, toks, level, left) = y
      BY <1>7, <2>2, EvaluatedIs
    <3> QED
      BY <2>1, <3>1 DEF Settled
  <2>3. CASE ~Single(level)
    <3>1. evaluated(g, m, toks, level, left) = Answer(g, level, x) /\ evaluated(h, m, toks, level, left) = Answer(h, level, y)
      BY <1>7, <2>3, EvaluatedIs
    <3> HIDE DEF x, y
    <3>2. x \in Results /\ ~Fresh(x) /\ (None(x) => x.pos > left.pos)
      BY <2>1 DEF Outcome
    <3>3. Size(toks, level, x) < Size(toks, level, left)
      <4>1. None(x) \/ Wrong(x)
        BY <3>2 DEF None, Wrong, Fresh
      <4> QED
        BY <1>7, <2>1, <3>2, <4>1, Smaller
    <3>4. Settled(toks, x, Answer(g, level, x), Answer(h, level, y))
      BY <1>7, <2>1, <3>2, <3>3, OnSettled
    <3>5. Answer(h, level, y) \in Answers(toks, left)
      BY <1>7, <2>1, <3>2, <3>4, AnswerOn DEF Settled
    <3> QED
      BY <3>1, <3>4, <3>5 DEF Settled
  <2> QED
    BY <2>2, <2>3
<1> QED
  BY <1>1, <1>2, <1>3, <1>4, <1>5, <1>6, <1>7, LevelKinds

(* Hence there is one function that evaluates, and parse takes its value.  *)
Questions == Levels \X Results
Evaluating(f, m, toks) == f = [at \in Questions |-> evaluated(f, m, toks, at[1], at[2])]

LEMMA ParseIs ==
  ASSUME NEW m, NEW toks, NEW top, NEW start, NEW h, Evaluating(h, m, toks)
  PROVE  \E f : Evaluating(f, m, toks) /\ parse(m, toks, top, start) = f[<<top, Start(start)>>]
<1> DEFINE f == CHOOSE g : g = [at \in (DOMAIN Operand) \X Results |-> evaluated(g, m, toks, at[1], at[2])]
<1>1. parse(m, toks, top, start) = f[<<top, Start(start)>>]
  BY Zenon DEF parse
<1>2. f = [at \in (DOMAIN Operand) \X Results |-> evaluated(f, m, toks, at[1], at[2])]
  BY Zenon DEF Evaluating, Questions, Levels
<1> HIDE DEF f
<1> QED
  BY <1>1, <1>2 DEF Evaluating, Questions, Levels

LEMMA QuestionIs ==
  ASSUME NEW x \in Questions
  PROVE  x[1] \in Levels /\ x[2] \in Results /\ x = <<x[1], x[2]>>
BY DEF Questions

LEMMA QuestionOf ==
  ASSUME NEW l \in Levels, NEW r \in Results
  PROVE  <<l, r>> \in Questions /\ <<l, r>>[1] = l /\ <<l, r>>[2] = r
BY DEF Questions

(* An expression is evaluated, or there is an error: whatever the tokens.  *)
LEMMA ParseIn ==
  ASSUME NEW m \in Memories, NEW toks \in Seq(Tokens), NEW top \in Levels, NEW start \in Nat, start > 0
  PROVE  Outcome(parse(m, toks, top, start), start)
<1> DEFINE D == Questions
           T == [x \in D |-> Answers(toks, x[2])]
           N == 9 * (Len(toks) + 1) + 8
           size == [x \in D |-> Size(toks, x[1], x[2])]
           B == [g \in Made(D, T) |-> [x \in D |-> evaluated(g, m, toks, x[1], x[2])]]
<1>1. Len(toks) \in Nat /\ N \in Nat
  OBVIOUS
<1>2. size \in [D -> 0 .. N]
  <2> SUFFICES ASSUME NEW x \in D PROVE Size(toks, x[1], x[2]) \in 0 .. N
    OBVIOUS
  <2> QED
    BY <1>1, QuestionIs, SizeIs
<1>3. \A x \in D : T[x] = Answers(toks, x[2])
  OBVIOUS
<1>4. \A x \in D : size[x] = Size(toks, x[1], x[2])
  OBVIOUS
<1>5. ASSUME NEW g \in Made(D, T) PROVE Answering(toks, g)
  <2>1. \A x \in D : g[x] \in Answers(toks, x[2])
    BY <1>3 DEF Made
  <2> HIDE DEF D, T
  <2>2. ASSUME NEW l \in Levels, NEW r \in Results PROVE g[<<l, r>>] \in Answers(toks, r)
    BY <2>1, QuestionOf DEF D
  <2> QED
    BY <2>2 DEF Answering
<1>6. ASSUME NEW g, NEW h, NEW x \in D, \A y \in D : size[y] < size[x] => g[y] = h[y]
      PROVE  Agree(toks, g, h, x[1], x[2])
  <2>1. ASSUME NEW l \in Levels, NEW r \in Results, Size(toks, l, r) < Size(toks, x[1], x[2])
        PROVE  g[<<l, r>>] = h[<<l, r>>]
    <3>1. <<l, r>> \in D /\ size[<<l, r>>] = Size(toks, l, r)
      BY QuestionOf
    <3>2. size[x] = Size(toks, x[1], x[2])
      OBVIOUS
    <3> HIDE DEF D, size
    <3> QED
      BY <1>6, <2>1, <3>1, <3>2
  <2> QED
    BY <2>1 DEF Agree
<1>7. ASSUME NEW g \in Made(D, T), NEW x \in D PROVE evaluated(g, m, toks, x[1], x[2]) \in Answers(toks, x[2])
  <2>1. Answering(toks, g)
    BY <1>5
  <2>2. Agree(toks, g, g, x[1], x[2])
    BY DEF Agree
  <2>3. x[1] \in Levels /\ x[2] \in Results
    BY QuestionIs
  <2> QED
    BY <2>1, <2>2, <2>3, EvaluatedSettled DEF Settled
<1>8. B \in [Made(D, T) -> Made(D, T)]
  <2> SUFFICES ASSUME NEW g \in Made(D, T) PROVE [x \in D |-> evaluated(g, m, toks, x[1], x[2])] \in Made(D, T)
    OBVIOUS
  <2> DEFINE f == [x \in D |-> evaluated(g, m, toks, x[1], x[2])]
  <2>1. \A x \in D : f[x] \in T[x]
    BY <1>7
  <2>2. f = [x \in D |-> f[x]]
    OBVIOUS
  <2> HIDE DEF f, T, D
  <2>3. f \in Made(D, T)
    BY <2>1, <2>2 DEF Made
  <2> QED
    BY <2>3 DEF f
<1>9. Decreasing(D, T, size, B)
  <2> SUFFICES ASSUME NEW g \in Made(D, T), NEW h \in Made(D, T), NEW x \in D,
                      \A y \in D : size[y] < size[x] => g[y] = h[y]
               PROVE  B[g][x] = B[h][x]
    BY DEF Decreasing
  <2>1. Agree(toks, g, h, x[1], x[2])
    BY <1>6
  <2>2. Answering(toks, g) /\ Answering(toks, h)
    BY <1>5
  <2>3. x[1] \in Levels /\ x[2] \in Results
    BY QuestionIs
  <2>4. evaluated(g, m, toks, x[1], x[2]) = evaluated(h, m, toks, x[1], x[2])
    BY <2>1, <2>2, <2>3, EvaluatedSettled DEF Settled
  <2> QED
    BY <2>4
<1>10. \A x \in D : T[x] # {}
  <2> SUFFICES ASSUME NEW x \in D PROVE Answers(toks, x[2]) # {}
    BY <1>3
  <2>1. Syntax \in Answers(toks, x[2])
    BY SyntaxPast DEF Answers, Outcome
  <2> QED
    BY <2>1
<1>11. PICK h \in Made(D, T) : h = B[h]
  <2> HIDE DEF D, T, size, B, N
  <2>1. Recursive(D, T, N, size, B)
    BY <1>1, <1>2, <1>8, <1>9, <1>10 DEF Recursive
  <2> QED
    BY <2>1, RecursionExists
<1>12. Evaluating(h, m, toks) /\ Answering(toks, h)
  BY <1>5, <1>11 DEF Evaluating
<1>13. PICK f : Evaluating(f, m, toks) /\ parse(m, toks, top, start) = f[<<top, Start(start)>>]
  BY <1>12, ParseIs
<1>14. f = h
  <2>1. f = [x \in D |-> f[x]] /\ h = [x \in D |-> h[x]]
    BY <1>12, <1>13 DEF Evaluating
  <2>2. ASSUME NEW x \in D, \A y \in D : size[y] < size[x] => f[y] = h[y]
        PROVE  f[x] = h[x]
    <3>1. Agree(toks, f, h, x[1], x[2])
      BY <1>6, <2>2
    <3>2. x[1] \in Levels /\ x[2] \in Results
      BY QuestionIs
    <3>3. evaluated(f, m, toks, x[1], x[2]) = evaluated(h, m, toks, x[1], x[2])
      BY <1>12, <3>1, <3>2, EvaluatedSettled DEF Settled
    <3> QED
      BY <1>12, <1>13, <3>3 DEF Evaluating
  <2> HIDE DEF D, size, N
  <2>3. Determined(D, N, size, f, h)
    BY <1>1, <1>2, <2>1, <2>2 DEF Determined
  <2> QED
    BY <2>3, SameRecursion
<1>15. Start(start) \in Results /\ Fresh(Start(start)) /\ Start(start).pos = start
  BY StartIs
<1>16. f[<<top, Start(start)>>] \in Answers(toks, Start(start))
  BY <1>12, <1>14, <1>15 DEF Answering
<1> QED
  BY <1>13, <1>15, <1>16 DEF Answers, Outcome

----------------------------------------------------------------------------
(* Assignments.                                                            *)

Held(r) == r.m \in Memories

LEMMA WithIn ==
  ASSUME NEW A, NEW B, NEW f \in Partial(A, B), NEW x \in A, NEW y \in B
  PROVE  With(f, x, y) \in Partial(A, B)
<1>1. f \in [DOMAIN f -> B] /\ DOMAIN f \subseteq A
  BY PartialIn
<1>2. With(f, x, y) \in [DOMAIN f \cup {x} -> B]
  BY <1>1 DEF With
<1>3. DOMAIN f \cup {x} \in SUBSET A
  BY <1>1
<1> QED
  BY <1>2, <1>3 DEF Partial

LEMMA MemoryIs ==
  ASSUME NEW m \in Memories
  PROVE  /\ m.vars \in [Letters -> Int] /\ m.named \in Partial(Seq(Character), Int)
         /\ m.arrays \in Partial(Letters, Arrays) /\ m.strings \in Partial(Letters, Seq(Character))
BY DEF Memories

LEMMA MemoryWith ==
  ASSUME NEW m \in Memories
  PROVE  /\ \A v \in [Letters -> Int] : [m EXCEPT !.vars = v] \in Memories
         /\ \A v \in Partial(Seq(Character), Int) : [m EXCEPT !.named = v] \in Memories
         /\ \A v \in Partial(Letters, Arrays) : [m EXCEPT !.arrays = v] \in Memories
         /\ \A v \in Partial(Letters, Seq(Character)) : [m EXCEPT !.strings = v] \in Memories
BY DEF Memories

LEMMA VarSet ==
  ASSUME NEW m \in Memories, NEW x \in Letters, NEW v \in Int
  PROVE  [m EXCEPT !.vars[x] = v] \in Memories
<1>1. [m.vars EXCEPT ![x] = v] \in [Letters -> Int]
  BY MemoryIs
<1>2. [m EXCEPT !.vars[x] = v] = [m EXCEPT !.vars = [m.vars EXCEPT ![x] = v]]
  OBVIOUS
<1> QED
  BY <1>1, <1>2, MemoryWith

LEMMA ResultIs ==
  ASSUME NEW m \in Memories, NEW e
  PROVE  Held(Changed(m)) /\ Held(Failed(m, e))
BY DEF Held, Changed, Failed

LEMMA UpperIn == ASSUME NEW tok \in Tokens PROVE upper_name(tok) \in Seq(Character)
BY NamedToken, TokenSizes, CutIn DEF upper_name

LEMMA SetVarHeld ==
  ASSUME NEW m \in Memories, NEW tok \in Tokens, NEW val \in Int
  PROVE  Held(set_var(m, tok, val))
<1>1. Held(Changed([m EXCEPT !.named = With(@, upper_name(tok), val)]))
  <2>1. With(m.named, upper_name(tok), val) \in Partial(Seq(Character), Int)
    BY MemoryIs, UpperIn, WithIn
  <2> QED
    BY <2>1, MemoryWith, ResultIs
<1>2. ASSUME Named(tok.kind) PROVE Held(Changed([m EXCEPT !.vars[Letter(tok)] = val]))
  BY <1>2, NamedToken, VarSet, ResultIs
<1>3. Held(Failed(m, "SYNTAX ERROR"))
  BY ResultIs
<1>4. Named(tok.kind) <=> tok.kind \in {"ident", "string variable"}
  BY DEF Named
<1> QED
  BY <1>1, <1>2, <1>3, <1>4 DEF set_var

LEMMA ReplaceIn ==
  ASSUME NEW C, NEW s \in Seq(C), NEW i \in 1 .. Len(s), NEW c \in C
  PROVE  [s EXCEPT ![i] = c] \in Seq(C) /\ Len([s EXCEPT ![i] = c]) = Len(s)
OBVIOUS

LEMMA SetElementHeld ==
  ASSUME NEW m \in Memories, NEW name, NEW i1 \in Nat, NEW i2 \in Nat, NEW val \in Int
  PROVE  Held(set_element(m, name, i1, i2, val))
<1>1. CASE ElementError(m, name, i1, i2) # "none"
  BY <1>1, ResultIs DEF set_element
<1>2. CASE ElementError(m, name, i1, i2) = "none"
  <2> DEFINE a == m.arrays[name]
             at == flat_index(a, i1, i2) + 1
             b == [a EXCEPT !.vals[at] = val]
             arrays == [m.arrays EXCEPT ![name] = b]
  <2>1. name \in DOMAIN m.arrays /\ a \in Arrays /\ at \in 1 .. Len(a.vals)
    BY <1>2, ElementIn
  <2>2. b \in Arrays
    <3> HIDE DEF at
    <3> DEFINE vals == [a.vals EXCEPT ![at] = val]
    <3>1. a.vals \in Seq(Int) /\ a.dim1 \in Nat /\ a.dim2 \in Nat
      BY <2>1 DEF Arrays
    <3>2. vals \in Seq(Int) /\ Len(vals) = Len(a.vals)
      BY <2>1, <3>1, ReplaceIn
    <3>3. b = [a EXCEPT !.vals = vals]
      OBVIOUS
    <3> HIDE DEF a, b, vals
    <3> QED
      BY <2>1, <3>2, <3>3 DEF Arrays
  <2>3. arrays \in Partial(Letters, Arrays)
    <3> HIDE DEF b
    <3>1. m.arrays \in [DOMAIN m.arrays -> Arrays] /\ DOMAIN m.arrays \subseteq Letters
      BY MemoryIs, PartialIn
    <3> DEFINE A == m.arrays
    <3>2. A \in [DOMAIN A -> Arrays] /\ DOMAIN A \in SUBSET Letters
      BY <3>1
    <3> HIDE DEF A, a
    <3>3. [A EXCEPT ![name] = b] \in [DOMAIN A -> Arrays]
      BY <2>2, <3>2
    <3>4. [A EXCEPT ![name] = b] \in Partial(Letters, Arrays)
      BY <3>2, <3>3 DEF Partial
    <3> QED
      BY <3>4 DEF A
  <2>4. array_set(m, name, i1, i2, val) = [m EXCEPT !.arrays = arrays]
    BY DEF array_set
  <2> HIDE DEF arrays
  <2>5. array_set(m, name, i1, i2, val) \in Memories
    BY <2>3, <2>4, MemoryWith
  <2> QED
    BY <1>2, <2>5, ResultIs DEF set_element
<1> QED
  BY <1>1, <1>2

LEMMA StringSetHeld ==
  ASSUME NEW m \in Memories, NEW name, NEW chars \in Seq(Character)
  PROVE  Held(string_set(m, name, chars))
<1> DEFINE A == m.strings
           strings == [A EXCEPT ![name] = chars]
<1>1. A \in [DOMAIN A -> Seq(Character)] /\ DOMAIN A \in SUBSET Letters
  BY MemoryIs, PartialIn
<1>2. strings \in Partial(Letters, Seq(Character))
  <2> HIDE DEF A
  <2>1. strings \in [DOMAIN A -> Seq(Character)]
    BY <1>1
  <2> QED
    BY <1>1, <2>1 DEF Partial
<1>3. [m EXCEPT !.strings[name] = chars] = [m EXCEPT !.strings = strings]
  OBVIOUS
<1> HIDE DEF strings
<1> QED
  BY <1>2, <1>3, MemoryWith, ResultIs DEF string_set

(* What Pair comes to.                                                     *)
Indices(index) ==
  index.first \in Int /\ index.second \in Int /\ index.pos \in Nat /\ index.pos > 0 /\ index.err \in Errors
Paired(first, second) == [first |-> first.val, second |-> second.val, pos |-> second.pos, err |-> second.err]
Second(m, toks, level, first) ==
  IF None(first) /\ Is(toks, first.pos, ",") THEN parse(m, toks, level, first.pos + 1) ELSE [first EXCEPT !.val = 0]

LEMMA PairIs ==
  ASSUME NEW m, NEW toks, NEW pos, NEW level
  PROVE  Pair(m, toks, pos, level) =
           Paired(parse(m, toks, level, pos), Second(m, toks, level, parse(m, toks, level, pos)))
<1> DEFINE F(first, second) == Paired(first, second)
           G(first) == CHOOSE y \in {F(first, z) : z \in {Second(m, toks, level, first)}} : TRUE
<1>1. Pair(m, toks, pos, level) = CHOOSE y \in {G(z) : z \in {parse(m, toks, level, pos)}} : TRUE
  BY Zenon DEF Pair, Once, Paired, Second, None, Is
<1>2. \A x : (CHOOSE y \in {G(z) : z \in {x}} : TRUE) = G(x)
  <2> HIDE DEF G
  <2> QED
    OBVIOUS
<1>3. \A first, x : (CHOOSE y \in {F(first, z) : z \in {x}} : TRUE) = F(first, x)
  <2> HIDE DEF F
  <2> QED
    OBVIOUS
<1>4. \A first : G(first) = F(first, Second(m, toks, level, first))
  <2> HIDE DEF F
  <2> QED
    BY <1>3
<1> HIDE DEF G
<1> QED
  BY <1>1, <1>2, <1>4

LEMMA PairIn ==
  ASSUME NEW m \in Memories, NEW toks \in Seq(Tokens), NEW pos \in Nat, pos > 0, NEW level \in Levels
  PROVE  Indices(Pair(m, toks, pos, level))
<1> DEFINE first == parse(m, toks, level, pos)
           second == Second(m, toks, level, first)
<1>1. Outcome(first, pos)
  BY ParseIn
<1> HIDE DEF first
<1>2. first \in Results /\ first.val \in Int /\ first.pos \in Nat /\ first.pos > 0
  BY <1>1 DEF Outcome, Results
<1>3. second \in Results
  <2>1. Outcome(parse(m, toks, level, first.pos + 1), first.pos + 1)
    BY <1>2, ParseIn
  <2>2. [first EXCEPT !.val = 0] \in Results
    BY <1>2 DEF Results
  <2> QED
    BY <2>1, <2>2 DEF Second, Outcome
<1> HIDE DEF second
<1>4. second.val \in Int /\ second.pos \in Nat /\ second.pos > 0 /\ second.err \in Errors
  BY <1>3 DEF Results
<1>5. Pair(m, toks, pos, level) = Paired(first, second)
  BY PairIs DEF first, second
<1> QED
  BY <1>2, <1>4, <1>5 DEF Paired, Indices

LEMMA NoRoom ==
  ASSUME NEW m \in Memories
  PROVE  \A e : Held(Failed(m, e))
BY ResultIs

LEMMA PairOf == \A a, b, c, d : <<a, b>> = <<c, d>> <=> a = c /\ b = d
OBVIOUS

LEMMA LetterAt ==
  ASSUME NEW toks \in Seq(Tokens), NEW pos \in Nat, pos > 0, Is(toks, pos, "ident") \/ Is(toks, pos, "string variable")
  PROVE  toks[pos] \in Tokens /\ Letter(toks[pos]) \in Letters
<1>1. toks[pos] \in Tokens /\ (toks[pos].kind = "ident" \/ toks[pos].kind = "string variable")
  <2>1. CASE Is(toks, pos, "ident")
    BY <2>1, TokenOf
  <2>2. CASE Is(toks, pos, "string variable")
    BY <2>2, TokenOf
  <2> QED
    BY <2>1, <2>2
<1>2. Named(toks[pos].kind)
  BY <1>1 DEF Named
<1> QED
  BY <1>1, <1>2, NamedToken

(* The forms of LET.                                                       *)
LEMMA LetVariableHeld ==
  ASSUME NEW m \in Memories, NEW toks \in Seq(Tokens), NEW pos \in Nat, pos > 0
  PROVE  Held(let_variable(m, toks, pos))
<1> DEFINE F(r) == IF r.err # "none" THEN Failed(m, r.err) ELSE set_var(m, toks[pos], r.val)
           r == parse(m, toks, "or", pos + 2)
           chosen == CHOOSE y \in {F(z) : z \in {r}} : TRUE
<1>1. let_variable(m, toks, pos) = IF Kind(toks, pos + 1) # "=" THEN Failed(m, "SYNTAX ERROR") ELSE chosen
  BY Zenon DEF let_variable, Once
<1>2. chosen = F(r)
  <2> HIDE DEF F, r
  <2> QED
    OBVIOUS
<1> HIDE DEF chosen
<1>3. ASSUME Is(toks, pos + 1, "=") PROVE Held(F(r))
  <2>1. Outcome(r, pos + 2)
    BY LevelsAre, ParseIn
  <2>2. r.val \in Int
    BY <2>1, PastIn
  <2>3. toks[pos] \in Tokens
    <3>1. pos + 1 <= Len(toks)
      BY <1>3, TokenOf
    <3> QED
      BY <3>1, ElementOfSeq
  <2> HIDE DEF r
  <2> QED
    BY <2>2, <2>3, NoRoom, SetVarHeld
<1> HIDE DEF F
<1> QED
  BY <1>1, <1>2, <1>3, NoRoom DEF Is

LEMMA LetElementHeld ==
  ASSUME NEW m \in Memories, NEW toks \in Seq(Tokens), NEW pos \in Nat, pos > 0
  PROVE  Held(let_element(m, toks, pos))
<1> DEFINE Give(index, r) ==
             IF r.err # "none" THEN Failed(m, r.err)
             ELSE set_element(m, Letter(toks[pos]), Subscript(index.first), Subscript(index.second), r.val)
           Given(index) == CHOOSE y \in {Give(index, z) : z \in {parse(m, toks, "or", index.pos + 2)}} : TRUE
           At(index) ==
             IF index.err # "none" THEN Failed(m, index.err)
             ELSE IF <<Kind(toks, index.pos), Kind(toks, index.pos + 1)>> # <<")", "=">> THEN Failed(m, "SYNTAX ERROR")
             ELSE Given(index)
           pair == Pair(m, toks, pos + 2, "expr")
<1>1. let_element(m, toks, pos) = CHOOSE y \in {At(z) : z \in {pair}} : TRUE
  BY Zenon DEF let_element, Once
<1>2. (CHOOSE y \in {At(z) : z \in {pair}} : TRUE) = At(pair)
  <2> HIDE DEF At, pair
  <2> QED
    OBVIOUS
<1>3. "expr" \in Levels /\ "or" \in Levels
  BY LevelsAre DEF Levels, Operand
<1>4. Indices(pair)
  BY <1>3, PairIn
<1> HIDE DEF pair
<1>5. Given(pair) = Give(pair, parse(m, toks, "or", pair.pos + 2))
  <2> HIDE DEF Give
  <2> QED
    OBVIOUS
<1>6. Held(Give(pair, parse(m, toks, "or", pair.pos + 2)))
  <2> DEFINE r == parse(m, toks, "or", pair.pos + 2)
  <2>1. pair.pos \in Nat /\ pair.pos + 2 \in Nat /\ pair.pos + 2 > 0
    BY <1>4 DEF Indices
  <2>2. Outcome(r, pair.pos + 2)
    BY <1>3, <2>1, ParseIn
  <2>3. r.val \in Int
    BY <2>1, <2>2, PastIn
  <2> HIDE DEF r
  <2>4. Subscript(pair.first) \in Nat /\ Subscript(pair.second) \in Nat
    BY <1>4, SubscriptIn DEF Indices
  <2>5. Held(Give(pair, r))
    BY <2>3, <2>4, NoRoom, SetElementHeld
  <2> QED
    BY <2>5 DEF r
<1> HIDE DEF Give, Given
<1>7. Held(At(pair))
  BY <1>5, <1>6, NoRoom
<1> QED
  BY <1>1, <1>2, <1>7

LEMMA LetStringHeld ==
  ASSUME NEW m \in Memories, NEW toks \in Seq(Tokens), NEW pos \in Nat, pos > 0
  PROVE  Held(let_string(m, toks, pos))
<1>1. let_string(m, toks, pos) =
        IF <<Kind(toks, pos + 1), Kind(toks, pos + 2)>> # <<"=", "string">> THEN Failed(m, "SYNTAX ERROR")
        ELSE string_set(m, Letter(toks[pos]), toks[pos + 2].str)
  BY DEF let_string
<1>2. ASSUME <<Kind(toks, pos + 1), Kind(toks, pos + 2)>> = <<"=", "string">>
      PROVE  Held(string_set(m, Letter(toks[pos]), toks[pos + 2].str))
  <2>1. Is(toks, pos + 2, "string")
    BY <1>2, PairOf, Zenon DEF Is
  <2>2. toks[pos + 2] \in Tokens
    BY <2>1, TokenOf
  <2>3. toks[pos + 2].str \in Seq(Character)
    BY <2>2, NamedToken
  <2> QED
    BY <2>3, StringSetHeld
<1> QED
  BY <1>1, <1>2, NoRoom, Zenon

(* DIM: an array has as many elements as its dimensions say.               *)
Dimmed(val) == Min({Subscript(val), 65535})
LEMMA DimmedIn == ASSUME NEW v \in Int PROVE Dimmed(v) \in Nat
BY SubscriptIn, MinOfTwo DEF Dimmed

LEMMA DimArrayHeld ==
  ASSUME NEW m \in Memories, NEW name \in Letters, NEW dims, Indices(dims)
  PROVE  Held(dim_array(m, name, dims))
<1> DEFINE dim1 == Dimmed(dims.first)
           dim2 == Dimmed(dims.second)
           total == IF dim2 > 0 THEN dim1 * dim2 ELSE dim1
           a == [dim1 |-> dim1, dim2 |-> dim2, vals |-> [i \in 1..total |-> 0]]
           arrays == With(m.arrays, name, a)
<1>1. dim_array(m, name, dims) =
        IF total \notin 1..MAX_ELEMENTS THEN Failed(m, "ILLEGAL QUANTITY")
        ELSE IF name \in DOMAIN m.arrays THEN Failed(m, "REDIM ERROR")
        ELSE Changed([m EXCEPT !.arrays = arrays])
  BY DEF dim_array, Dimmed
<1>2. dim1 \in Nat /\ dim2 \in Nat
  BY DimmedIn DEF Indices
<1>3. ASSUME total \in 1 .. MAX_ELEMENTS PROVE a \in Arrays
  <2> DEFINE t == total
             vals == [i \in 1 .. t |-> 0]
  <2>1. t \in Nat
    BY <1>3, TokenSizes
  <2>2. vals \in Seq(Int) /\ Len(vals) = t
    <3> HIDE DEF t
    <3> QED
      BY <2>1
  <2>3. a = [dim1 |-> dim1, dim2 |-> dim2, vals |-> vals]
    OBVIOUS
  <2>4. Len(vals) = IF dim2 > 0 THEN dim1 * dim2 ELSE dim1
    BY <2>2
  <2> HIDE DEF a, vals, dim1, dim2
  <2> QED
    BY <1>2, <2>2, <2>3, <2>4 DEF Arrays
<1> HIDE DEF a
<1>4. ASSUME total \in 1 .. MAX_ELEMENTS PROVE Held(Changed([m EXCEPT !.arrays = arrays]))
  <2>1. arrays \in Partial(Letters, Arrays)
    BY <1>3, <1>4, MemoryIs, WithIn
  <2> QED
    BY <2>1, MemoryWith, ResultIs
<1> HIDE DEF total, arrays
<1> QED
  BY <1>1, <1>4, NoRoom

LEMMA DimStringHeld ==
  ASSUME NEW m \in Memories, NEW toks, Letter(toks[2]) \in Letters
  PROVE  Held(dim_string(m, toks))
<1> DEFINE name == Letter(toks[2])
           strings == With(m.strings, name, <<>>)
<1>1. strings \in Partial(Letters, Seq(Character))
  BY MemoryIs, NoChars, WithIn
<1> HIDE DEF strings
<1>2. Held(Changed([m EXCEPT !.strings = strings]))
  BY <1>1, MemoryWith, ResultIs
<1> DEFINE size == parse(m, toks, "expr", IF Kind(toks, 3) = "(" THEN 4 ELSE 3)
<1>3. dim_string(m, toks) =
        IF size.err # "none" THEN Failed(m, size.err)
        ELSE IF name \in DOMAIN m.strings THEN Failed(m, "REDIM ERROR")
        ELSE Changed([m EXCEPT !.strings = strings])
  BY Zenon DEF dim_string, strings
<1> HIDE DEF size
<1> QED
  BY <1>2, <1>3, NoRoom, Zenon

LEMMA DimHeld ==
  ASSUME NEW m \in Memories, NEW toks \in Seq(Tokens)
  PROVE  Held(dim(m, toks))
<1> DEFINE F(dims) == IF dims.err # "none" THEN Failed(m, dims.err)
                      ELSE IF Kind(toks, dims.pos) # ")" THEN Failed(m, "SYNTAX ERROR")
                      ELSE dim_array(m, Letter(toks[2]), dims)
           dims == Pair(m, toks, 4, "expr")
           chosen == CHOOSE y \in {F(z) : z \in {dims}} : TRUE
<1>1. dim(m, toks) =
        IF Is(toks, 2, "string variable") THEN dim_string(m, toks)
        ELSE IF <<Kind(toks, 2), Kind(toks, 3)>> # <<"ident", "(">> THEN Failed(m, "SYNTAX ERROR")
        ELSE chosen
  BY Zenon DEF dim, Once, Is
<1>2. chosen = F(dims)
  <2> HIDE DEF F, dims
  <2> QED
    OBVIOUS
<1>3. Indices(dims)
  <2>1. "expr" \in Levels
    BY DEF Levels, Operand
  <2> QED
    BY <2>1, PairIn
<1> HIDE DEF dims, chosen
<1>4. ASSUME Is(toks, 2, "string variable") PROVE Held(dim_string(m, toks))
  <2>1. Letter(toks[2]) \in Letters
    <3>1. 2 \in Nat /\ 2 > 0
      OBVIOUS
    <3> QED
      BY <1>4, <3>1, LetterAt, Zenon
  <2> QED
    BY <2>1, DimStringHeld
<1>5. ASSUME <<Kind(toks, 2), Kind(toks, 3)>> = <<"ident", "(">> PROVE Held(F(dims))
  <2>1. Is(toks, 2, "ident")
    BY <1>5, PairOf, Zenon DEF Is
  <2>2. Letter(toks[2]) \in Letters
    <3>1. 2 \in Nat /\ 2 > 0
      OBVIOUS
    <3> QED
      BY <2>1, <3>1, LetterAt, Zenon
  <2>3. Held(dim_array(m, Letter(toks[2]), dims))
    BY <1>3, <2>2, DimArrayHeld
  <2> QED
    BY <2>3, NoRoom
<1> HIDE DEF F
<1> QED
  BY <1>1, <1>2, <1>4, <1>5, NoRoom, Zenon

(* Any line with an assignment.                                            *)
LEMMA AssignedHeld ==
  ASSUME NEW m \in Memories, NEW line \in Seq(Character)
  PROVE  Held(assigned(m, line))
<1> DEFINE F(toks) ==
             LET pos == IF Kind(toks, 1) = "LET" THEN 2 ELSE 1
             IN  IF Rejected(toks) THEN Failed(m, "SYNTAX ERROR")
                 ELSE IF Kind(toks, 1) = "DIM" THEN dim(m, toks)
                 ELSE IF Kind(toks, pos) = "string variable" THEN let_string(m, toks, pos)
                 ELSE IF <<Kind(toks, pos), Kind(toks, pos + 1)>> = <<"ident", "(">> THEN let_element(m, toks, pos)
                 ELSE IF pos = 2 \/ Kind(toks, 1) = "ident" THEN let_variable(m, toks, pos)
                 ELSE Failed(m, "SYNTAX ERROR")
           toks == tokenize(line)
<1>1. assigned(m, line) = CHOOSE y \in {F(z) : z \in {toks}} : TRUE
  BY Zenon DEF assigned, Once
<1>2. (CHOOSE y \in {F(z) : z \in {toks}} : TRUE) = F(toks)
  <2> HIDE DEF F, toks
  <2> QED
    OBVIOUS
<1>3. toks \in Seq(Tokens)
  BY TokenizeIn
<1> HIDE DEF toks
<1>4. Held(F(toks))
  <2> DEFINE pos == IF Kind(toks, 1) = "LET" THEN 2 ELSE 1
  <2>1. pos \in Nat /\ pos > 0
    OBVIOUS
  <2> HIDE DEF pos
  <2>2. Held(let_string(m, toks, pos)) /\ Held(let_element(m, toks, pos)) /\ Held(let_variable(m, toks, pos))
    BY <1>3, <2>1, LetStringHeld, LetElementHeld, LetVariableHeld
  <2>3. F(toks) = IF Rejected(toks) THEN Failed(m, "SYNTAX ERROR")
                 ELSE IF Kind(toks, 1) = "DIM" THEN dim(m, toks)
                 ELSE IF Kind(toks, pos) = "string variable" THEN let_string(m, toks, pos)
                 ELSE IF <<Kind(toks, pos), Kind(toks, pos + 1)>> = <<"ident", "(">> THEN let_element(m, toks, pos)
                 ELSE IF pos = 2 \/ Kind(toks, 1) = "ident" THEN let_variable(m, toks, pos)
                 ELSE Failed(m, "SYNTAX ERROR")
    BY Zenon DEF pos
  <2> HIDE DEF F
  <2> QED
    BY <1>3, <2>2, <2>3, DimHeld, NoRoom, Zenon
<1> HIDE DEF F
<1> QED
  BY <1>1, <1>2, <1>4

----------------------------------------------------------------------------
(* DATA and READ.                                                          *)

Stepping(C, n, base, S) == n \in Nat /\ base \in C /\ S \in [C \X (1 .. n) -> C]
LEMMA StepsExist ==
  ASSUME NEW C, NEW n, NEW base, NEW S, Stepping(C, n, base, S)
  PROVE  \E h \in [0 .. n -> C] : h[0] = base /\ \A i \in 1 .. n : h[i] = S[<<h[i - 1], i>>]
<1> USE DEF Stepping
<1> DEFINE D == 0 .. n
           T == [x \in D |-> C]
           size == [x \in D |-> x]
           B == [g \in Made(D, T) |-> [x \in D |-> IF x = 0 THEN base ELSE S[<<g[x - 1], x>>]]]
<1>1. Made(D, T) = [D -> C]
  <2>1. 0 \in D /\ \A x \in D : T[x] = C
    OBVIOUS
  <2> HIDE DEF D, T
  <2>2. UNION {T[x] : x \in D} = C
    BY <2>1
  <2> QED
    BY <2>1, <2>2 DEF Made
<1>2. B \in [Made(D, T) -> Made(D, T)]
  <2> SUFFICES ASSUME NEW g \in [D -> C] PROVE [x \in D |-> IF x = 0 THEN base ELSE S[<<g[x - 1], x>>]] \in [D -> C]
    BY <1>1
  <2> SUFFICES ASSUME NEW x \in D, x # 0 PROVE S[<<g[x - 1], x>>] \in C
    OBVIOUS
  <2>1. x - 1 \in D /\ x \in 1 .. n
    OBVIOUS
  <2> QED
    BY <2>1
<1>3. Decreasing(D, T, size, B)
  <2> SUFFICES ASSUME NEW g \in Made(D, T), NEW h \in Made(D, T), NEW x \in D,
                      \A y \in D : size[y] < size[x] => g[y] = h[y]
               PROVE  B[g][x] = B[h][x]
    BY DEF Decreasing
  <2>1. x # 0 => x - 1 \in D /\ size[x - 1] < size[x]
    OBVIOUS
  <2>2. x # 0 => g[x - 1] = h[x - 1]
    BY <2>1
  <2> QED
    BY <2>2
<1>4. size \in [D -> 0 .. n] /\ \A x \in D : T[x] # {}
  OBVIOUS
<1>5. PICK h \in Made(D, T) : h = B[h]
  <2> HIDE DEF D, T, size, B
  <2>1. Recursive(D, T, n, size, B)
    BY <1>2, <1>3, <1>4 DEF Recursive
  <2> QED
    BY <2>1, RecursionExists
<1>6. h \in [0 .. n -> C] /\ \A x \in D : h[x] = IF x = 0 THEN base ELSE S[<<h[x - 1], x>>]
  BY <1>1, <1>5
<1>7. 0 \in D /\ \A i \in 1 .. n : i \in D /\ i # 0
  OBVIOUS
<1> QED
  BY <1>6, <1>7

Alike(n, f, h) ==
  /\ n \in Nat /\ f = [i \in 0 .. n |-> f[i]] /\ h = [i \in 0 .. n |-> h[i]] /\ f[0] = h[0]
  /\ \A i \in 1 .. n : f[i - 1] = h[i - 1] => f[i] = h[i]
LEMMA SameSteps ==
  ASSUME NEW n, NEW f, NEW h, Alike(n, f, h)
  PROVE  f = h
<1> USE DEF Alike
<1> DEFINE D == 0 .. n
           size == [x \in D |-> x]
<1>1. size \in [D -> 0 .. n]
  OBVIOUS
<1>2. ASSUME NEW x \in D, \A y \in D : size[y] < size[x] => f[y] = h[y]
      PROVE  f[x] = h[x]
  <2>1. CASE x = 0
    BY <2>1
  <2>2. CASE x # 0
    <3>1. x - 1 \in D /\ size[x - 1] < size[x] /\ x \in 1 .. n
      BY <2>2
    <3> QED
      BY <1>2, <3>1
  <2> QED
    BY <2>1, <2>2
<1>3. f = [x \in D |-> f[x]] /\ h = [x \in D |-> h[x]]
  OBVIOUS
<1> HIDE DEF D, size
<1>4. Determined(D, n, size, f, h)
  BY <1>1, <1>2, <1>3 DEF Determined
<1> QED
  BY <1>4, SameRecursion

(* A fold of DATA.                                                         *)
Accounts == [items : Seq(Tokens), sign : Int]

LEMMA CollectedIn ==
  ASSUME NEW acc \in Accounts, NEW tok \in Tokens
  PROVE  collected(acc, tok) \in Accounts
<1>1. acc.items \in Seq(Tokens) /\ acc.sign \in Int
  BY DEF Accounts
<1> DEFINE signed == [tok EXCEPT !.val = acc.sign * @]
<1>2. signed \in Tokens
  <2> DEFINE v == acc.sign * tok.val
  <2>1. v \in Int
    BY <1>1, NamedToken
  <2>2. signed = [tok EXCEPT !.val = v]
    OBVIOUS
  <2> HIDE DEF v, signed
  <2>3. \A x \in Int : [tok EXCEPT !.val = x] \in Tokens
    BY DEF Tokens
  <2> QED
    BY <2>1, <2>2, <2>3
<1> HIDE DEF signed
<1>3. [items |-> Append(acc.items, signed), sign |-> 1] \in Accounts
  BY <1>1, <1>2 DEF Accounts
<1>4. [items |-> Append(acc.items, tok), sign |-> 1] \in Accounts
  BY <1>1 DEF Accounts
<1> DEFINE last == IF tok.kind = "-" THEN -1 ELSE 1
<1>5. [acc EXCEPT !.sign = last] \in Accounts
  <2>1. last \in Int
    OBVIOUS
  <2> HIDE DEF last
  <2> QED
    BY <2>1 DEF Accounts
<1>6. collected(acc, tok) = CASE tok.kind = "number" -> [items |-> Append(acc.items, signed), sign |-> 1]
                              [] tok.kind = "string" -> [items |-> Append(acc.items, tok), sign |-> 1]
                              [] OTHER -> [acc EXCEPT !.sign = last]
  BY DEF collected, signed
<1> HIDE DEF last
<1> QED
  BY <1>3, <1>4, <1>5, <1>6

Collecting(f, base, seq) ==
  f = [i \in 0 .. Len(seq) |-> IF i = 0 THEN base ELSE collected(f[i - 1], seq[i])]

LEMMA CollectingIs ==
  ASSUME NEW base, NEW seq, NEW h, Collecting(h, base, seq)
  PROVE  \E f : Collecting(f, base, seq) /\ FoldOnce(collected, base, seq) = f[Len(seq)]
<1> DEFINE Chosen(f, i) == CHOOSE y \in {collected(z, seq[i]) : z \in {f[i - 1]}} : TRUE
           f == CHOOSE g : g = [i \in 0 .. Len(seq) |-> IF i = 0 THEN base ELSE Chosen(g, i)]
<1>1. FoldOnce(collected, base, seq) = f[Len(seq)]
  BY Zenon DEF FoldOnce, Once
<1>2. ASSUME NEW g, NEW i PROVE Chosen(g, i) = collected(g[i - 1], seq[i])
  OBVIOUS
<1>3. \A g : Collecting(g, base, seq) <=> g = [i \in 0 .. Len(seq) |-> IF i = 0 THEN base ELSE Chosen(g, i)]
  <2> HIDE DEF Chosen
  <2> QED
    BY <1>2 DEF Collecting
<1>4. f = [i \in 0 .. Len(seq) |-> IF i = 0 THEN base ELSE Chosen(f, i)]
  <2> HIDE DEF Chosen
  <2> QED
    BY <1>3, Zenon
<1> HIDE DEF f, Chosen
<1> QED
  BY <1>1, <1>3, <1>4

LEMMA CollectIn ==
  ASSUME NEW seq \in Seq(Tokens), NEW base \in Accounts
  PROVE  FoldOnce(collected, base, seq) \in Accounts
<1> DEFINE n == Len(seq)
           S == [p \in Accounts \X (1 .. n) |-> collected(p[1], seq[p[2]])]
<1>1. n \in Nat /\ \A i \in 1 .. n : seq[i] \in Tokens
  BY ElementOfSeq
<1>2. S \in [Accounts \X (1 .. n) -> Accounts]
  <2> SUFFICES ASSUME NEW p \in Accounts \X (1 .. n) PROVE collected(p[1], seq[p[2]]) \in Accounts
    OBVIOUS
  <2>1. p[1] \in Accounts /\ seq[p[2]] \in Tokens
    BY <1>1
  <2> QED
    BY <2>1, CollectedIn
<1>3. \A c \in Accounts, i \in 1 .. n : S[<<c, i>>] = collected(c, seq[i])
  OBVIOUS
<1>4. PICK h \in [0 .. n -> Accounts] : h[0] = base /\ \A i \in 1 .. n : h[i] = S[<<h[i - 1], i>>]
  <2> HIDE DEF S, n
  <2>1. Stepping(Accounts, n, base, S)
    BY <1>1, <1>2 DEF Stepping
  <2> QED
    BY <2>1, StepsExist
<1> HIDE DEF S
<1>5. Collecting(h, base, seq)
  <2>1. ASSUME NEW i \in 0 .. n, i # 0 PROVE h[i] = collected(h[i - 1], seq[i])
    <3>1. i \in 1 .. n /\ i - 1 \in 0 .. n
      BY <1>1, <2>1
    <3> HIDE DEF n
    <3> QED
      BY <1>3, <1>4, <3>1
  <2> QED
    BY <1>4, <2>1 DEF Collecting
<1>6. PICK f : Collecting(f, base, seq) /\ FoldOnce(collected, base, seq) = f[n]
  BY <1>5, CollectingIs
<1>7. f = h
  <2>1. \A i \in 1 .. n : i \in 0 .. n /\ i # 0
    BY <1>1
  <2>2. \A i \in 1 .. n : f[i] = collected(f[i - 1], seq[i]) /\ h[i] = collected(h[i - 1], seq[i])
    BY <1>5, <1>6, <2>1 DEF Collecting
  <2>3. 0 \in 0 .. n
    BY <1>1
  <2>4. f[0] = base /\ h[0] = base
    BY <1>4, <1>6, <2>3 DEF Collecting
  <2>5. f = [i \in 0 .. n |-> f[i]] /\ h = [i \in 0 .. n |-> h[i]]
    BY <1>5, <1>6 DEF Collecting
  <2>6. \A i \in 1 .. n : f[i - 1] = h[i - 1] => f[i] = h[i]
    BY <2>2, Zenon
  <2> HIDE DEF n
  <2>7. Alike(n, f, h)
    BY <1>1, <2>4, <2>5, <2>6 DEF Alike
  <2> QED
    BY <2>7, SameSteps
<1> QED
  BY <1>1, <1>4, <1>6, <1>7

(* The data of any line are tokens.                                        *)
LEMMA ItemsIn ==
  ASSUME NEW line \in Seq(Character)
  PROVE  Items(line) \in Seq(Tokens)
<1> DEFINE start == [items |-> <<>>, sign |-> 1]
           F(toks) == IF toks = <<>> \/ Rejected(toks) THEN <<>> ELSE FoldOnce(collected, start, Tail(toks)).items
           toks == tokenize(line)
<1>1. Items(line) = CHOOSE y \in {F(z) : z \in {toks}} : TRUE
  BY Zenon DEF Items, Once
<1>2. (CHOOSE y \in {F(z) : z \in {toks}} : TRUE) = F(toks)
  <2> HIDE DEF F, toks
  <2> QED
    OBVIOUS
<1>3. toks \in Seq(Tokens)
  BY TokenizeIn
<1>4. start \in Accounts
  BY DEF Accounts
<1> HIDE DEF toks, start
<1>5. <<>> \in Seq(Tokens)
  OBVIOUS
<1>6. ASSUME toks # <<>> PROVE FoldOnce(collected, start, Tail(toks)).items \in Seq(Tokens)
  <2>1. Tail(toks) \in Seq(Tokens)
    BY <1>3, <1>6
  <2>2. FoldOnce(collected, start, Tail(toks)) \in Accounts
    BY <1>4, <2>1, CollectIn
  <2> QED
    BY <2>2 DEF Accounts
<1>7. F(toks) \in Seq(Tokens)
  BY <1>5, <1>6, Zenon
<1> HIDE DEF F
<1> QED
  BY <1>1, <1>2, <1>7

(* What a target of READ leaves: errors are among those READ reports, and  *)
(* no more data are taken than there are.                                  *)
Messages == Errors \cup {"OUT OF DATA", "STRING NOT DIMMED"}
Reported(r) == r.m \in Memories /\ r.err \in Messages
Reads(data) == [m : Memories, err : Messages, taken : 0 .. Len(data), pos : Nat]

LEMMA ErrorsReported ==
  /\ Errors \subseteq Messages
  /\ {"none", "SYNTAX ERROR", "TYPE MISMATCH", "ARRAY NOT DIMMED", "BAD SUBSCRIPT",
      "OUT OF DATA", "STRING NOT DIMMED"} \subseteq Messages
BY DEF Messages, Errors

LEMMA SetVarReported ==
  ASSUME NEW m \in Memories, NEW tok \in Tokens, NEW val \in Int
  PROVE  Reported(set_var(m, tok, val))
<1>1. set_var(m, tok, val).err \in {"none", "SYNTAX ERROR"}
  BY DEF set_var, Changed, Failed
<1> QED
  BY <1>1, SetVarHeld, ErrorsReported DEF Held, Reported

LEMMA SetElementReported ==
  ASSUME NEW m \in Memories, NEW name, NEW i1 \in Nat, NEW i2 \in Nat, NEW val \in Int
  PROVE  Reported(set_element(m, name, i1, i2, val))
<1>1. set_element(m, name, i1, i2, val).err \in {"none", "ARRAY NOT DIMMED", "BAD SUBSCRIPT"}
  BY ErrorOf DEF set_element, Changed, Failed
<1> QED
  BY <1>1, SetElementHeld, ErrorsReported DEF Held, Reported

LEMMA StringSetReported ==
  ASSUME NEW m \in Memories, NEW name, NEW chars \in Seq(Character)
  PROVE  Reported(string_set(m, name, chars))
<1>1. string_set(m, name, chars).err \in {"none", "STRING NOT DIMMED"}
  BY DEF string_set, Changed, Failed
<1> QED
  BY <1>1, StringSetHeld, ErrorsReported DEF Held, Reported

LEMMA FailedReported ==
  ASSUME NEW m \in Memories, NEW e \in Errors
  PROVE  Reported(Failed(m, e))
BY ErrorsReported DEF Failed, Reported

(* What read_item comes to.                                                *)
Took(st, result, pos) == [m |-> result.m, err |-> result.err, taken |-> st.taken + 1, pos |-> pos]
Element(st, toks, data, i, index) ==
  IF index.err # "none" THEN Took(st, Failed(st.m, index.err), i)
  ELSE Took(st, set_element(st.m, Letter(toks[i]), Subscript(index.first), Subscript(index.second), data[st.taken + 1].val),
            IF Kind(toks, index.pos) = ")" THEN index.pos + 1 ELSE i + 1)
ItemRead(st, toks, data, i, element) ==
  IF i < st.pos \/ st.err # "none" THEN st
  ELSE IF Is(toks, i, ",") THEN [st EXCEPT !.pos = i + 1]
  ELSE IF st.taken >= Len(data) THEN [st EXCEPT !.err = "OUT OF DATA"]
  ELSE IF Kind(toks, i) \notin {"string variable", "ident"} THEN [st EXCEPT !.err = "SYNTAX ERROR"]
  ELSE IF (Kind(toks, i) = "string variable") # (data[st.taken + 1].kind = "string")
    THEN [st EXCEPT !.err = "TYPE MISMATCH"]
  ELSE IF Is(toks, i, "string variable")
    THEN Took(st, string_set(st.m, Letter(toks[i]), data[st.taken + 1].str), i + 1)
  ELSE IF Kind(toks, i + 1) # "(" THEN Took(st, set_var(st.m, toks[i], data[st.taken + 1].val), i + 1)
  ELSE element

LEMMA ReadItemIs ==
  ASSUME NEW st, NEW toks, NEW data, NEW i
  PROVE  read_item(st, toks, data, i) =
           ItemRead(st, toks, data, i, Element(st, toks, data, i, Pair(st.m, toks, i + 2, "or")))
<1> DEFINE F(index) == Element(st, toks, data, i, index)
           pair == Pair(st.m, toks, i + 2, "or")
           chosen == CHOOSE y \in {F(z) : z \in {pair}} : TRUE
<1>1. read_item(st, toks, data, i) = ItemRead(st, toks, data, i, chosen)
  BY Zenon DEF read_item, ItemRead, Element, Took, Once, Is
<1>2. chosen = F(pair)
  <2> HIDE DEF F, pair
  <2> QED
    OBVIOUS
<1> HIDE DEF chosen
<1> QED
  BY <1>1, <1>2, Zenon

LEMMA TookIn ==
  ASSUME NEW data, Len(data) \in Nat, NEW st \in Reads(data), st.taken < Len(data), NEW r, Reported(r), NEW pos \in Nat
  PROVE  Took(st, r, pos) \in Reads(data)
<1> DEFINE n == Len(data)
<1>1. st.taken \in 0 .. n
  BY DEF Reads
<1> DEFINE t == st.taken
<1>2. t + 1 \in 0 .. n
  <2>1. t \in 0 .. n /\ t < n /\ n \in Nat
    BY <1>1
  <2> HIDE DEF t, n
  <2> QED
    BY <2>1
<1> QED
  BY <1>2 DEF Took, Reads, Reported

(* A target of READ takes a datum or none, and none behind the last.       *)
LEMMA ReadItemIn ==
  ASSUME NEW toks \in Seq(Tokens), NEW data \in Seq(Tokens), NEW st \in Reads(data), NEW i \in Nat, i > 0
  PROVE  read_item(st, toks, data, i) \in Reads(data)
<1> DEFINE pair == Pair(st.m, toks, i + 2, "or")
           next == data[st.taken + 1]
           element == Element(st, toks, data, i, pair)
<1>1. st.m \in Memories /\ st.taken \in 0 .. Len(data) /\ Len(data) \in Nat
  BY DEF Reads
<1>2. \A e \in Messages : [st EXCEPT !.err = e] \in Reads(data)
  BY DEF Reads
<1>3. \A p \in Nat : [st EXCEPT !.pos = p] \in Reads(data)
  BY DEF Reads
<1>4. ASSUME ~(st.taken >= Len(data)) PROVE next \in Tokens /\ next.val \in Int /\ next.str \in Seq(Character) /\ st.taken < Len(data)
  <2>1. st.taken + 1 \in 1 .. Len(data) /\ st.taken < Len(data)
    BY <1>1, <1>4
  <2>2. next \in Tokens
    BY <2>1, ElementOfSeq
  <2> QED
    BY <2>1, <2>2, NamedToken
<1>5. Indices(pair)
  BY <1>1, LevelsAre, PairIn
<1> HIDE DEF pair, next
<1>6. ASSUME ~(st.taken >= Len(data)) PROVE element \in Reads(data)
  <2>1. Reported(Failed(st.m, pair.err))
    BY <1>1, <1>5, FailedReported DEF Indices
  <2>2. Subscript(pair.first) \in Nat /\ Subscript(pair.second) \in Nat
    BY <1>5, SubscriptIn DEF Indices
  <2> DEFINE r == set_element(st.m, Letter(toks[i]), Subscript(pair.first), Subscript(pair.second), next.val)
             p == IF Kind(toks, pair.pos) = ")" THEN pair.pos + 1 ELSE i + 1
  <2>3. Reported(r)
    BY <1>1, <1>4, <1>6, <2>2, SetElementReported
  <2>4. p \in Nat
    BY <1>5 DEF Indices
  <2>5. element = IF pair.err # "none" THEN Took(st, Failed(st.m, pair.err), i) ELSE Took(st, r, p)
    BY DEF Element, next
  <2> HIDE DEF r, p, element
  <2>6. Took(st, Failed(st.m, pair.err), i) \in Reads(data) /\ Took(st, r, p) \in Reads(data)
    BY <1>1, <1>4, <1>6, <2>1, <2>3, <2>4, TookIn
  <2> QED
    BY <2>5, <2>6
<1> HIDE DEF element
<1>7. ASSUME ~(st.taken >= Len(data)), Is(toks, i, "string variable")
      PROVE  Took(st, string_set(st.m, Letter(toks[i]), next.str), i + 1) \in Reads(data)
  <2>1. Reported(string_set(st.m, Letter(toks[i]), next.str)) /\ i + 1 \in Nat
    <3>1. next.str \in Seq(Character) /\ st.m \in Memories
      BY <1>1, <1>4, <1>7
    <3>2. Reported(string_set(st.m, Letter(toks[i]), next.str))
      BY <3>1, StringSetReported, Zenon
    <3> QED
      BY <3>2
  <2> QED
    BY <1>1, <1>4, <1>7, <2>1, TookIn
<1>8. ASSUME ~(st.taken >= Len(data)), Is(toks, i, "ident")
      PROVE  Took(st, set_var(st.m, toks[i], next.val), i + 1) \in Reads(data)
  <2>1. toks[i] \in Tokens
    BY <1>8, LetterAt
  <2>2. Reported(set_var(st.m, toks[i], next.val)) /\ i + 1 \in Nat
    BY <1>1, <1>4, <1>8, <2>1, SetVarReported
  <2> QED
    BY <1>1, <1>4, <1>8, <2>2, TookIn
<1>9. read_item(st, toks, data, i) = ItemRead(st, toks, data, i, element)
  BY ReadItemIs DEF element, pair
<1>10. /\ [st EXCEPT !.pos = i + 1] \in Reads(data)
       /\ [st EXCEPT !.err = "OUT OF DATA"] \in Reads(data) /\ [st EXCEPT !.err = "SYNTAX ERROR"] \in Reads(data)
       /\ [st EXCEPT !.err = "TYPE MISMATCH"] \in Reads(data)
  <2>1. "OUT OF DATA" \in Messages /\ "SYNTAX ERROR" \in Messages /\ "TYPE MISMATCH" \in Messages
    BY DEF Messages, Errors
  <2>2. i + 1 \in Nat
    OBVIOUS
  <2> QED
    BY <1>2, <1>3, <2>1, <2>2, Zenon
<1>11. Kind(toks, i) \in {"string variable", "ident"} /\ ~Is(toks, i, "string variable") => Is(toks, i, "ident")
  BY DEF Is
<1>12. ItemRead(st, toks, data, i, element) \in Reads(data)
  BY <1>6, <1>7, <1>8, <1>10, <1>11, Zenon DEF ItemRead, next
<1> QED
  BY <1>9, <1>12

(* The fold over the targets.                                              *)
Reader(f, base, toks, data) ==
  f = [i \in 0 .. Len(toks) |-> IF i = 0 THEN base ELSE read_item(f[i - 1], toks, data, i)]
FirstRead(m) == [m |-> m, err |-> "none", taken |-> 0, pos |-> 2]
ReadTargets(m, toks, data) ==
  FoldOnce(LAMBDA st, i : read_item(st, toks, data, i), FirstRead(m), [i \in DOMAIN toks |-> i])

LEMMA ReadTargetsIs ==
  ASSUME NEW m, NEW toks \in Seq(Tokens), NEW data, NEW h, Reader(h, FirstRead(m), toks, data)
  PROVE  \E f : Reader(f, FirstRead(m), toks, data) /\ ReadTargets(m, toks, data) = f[Len(toks)]
<1> DEFINE base == FirstRead(m)
           seq == [i \in DOMAIN toks |-> i]
           Chosen(f, i) == CHOOSE y \in {read_item(z, toks, data, seq[i]) : z \in {f[i - 1]}} : TRUE
           f == CHOOSE g : g = [i \in 0 .. Len(seq) |-> IF i = 0 THEN base ELSE Chosen(g, i)]
<1>1. ReadTargets(m, toks, data) = f[Len(seq)]
  BY Zenon DEF ReadTargets, FoldOnce, Once
<1>2. ASSUME NEW g, NEW i PROVE Chosen(g, i) = read_item(g[i - 1], toks, data, seq[i])
  OBVIOUS
<1>3. Len(toks) \in Nat /\ Len(seq) = Len(toks) /\ \A i \in 1 .. Len(toks) : seq[i] = i
  <2>1. DOMAIN toks = 1 .. Len(toks) /\ Len(toks) \in Nat
    OBVIOUS
  <2> DEFINE n == Len(toks)
  <2> HIDE DEF n
  <2>2. [i \in 1 .. n |-> i] \in Seq(Nat) /\ Len([i \in 1 .. n |-> i]) = n
    BY <2>1 DEF n
  <2> QED
    BY <2>1, <2>2 DEF n
<1> HIDE DEF seq
<1>4. \A g : Reader(g, base, toks, data) <=> g = [i \in 0 .. Len(seq) |-> IF i = 0 THEN base ELSE Chosen(g, i)]
  <2> SUFFICES ASSUME NEW g
               PROVE  Reader(g, base, toks, data) <=> g = [i \in 0 .. Len(seq) |-> IF i = 0 THEN base ELSE Chosen(g, i)]
    OBVIOUS
  <2>1. \A i \in 0 .. Len(toks) : i # 0 => i \in 1 .. Len(toks)
    BY <1>3
  <2>2. \A i \in 0 .. Len(toks) : i # 0 => Chosen(g, i) = read_item(g[i - 1], toks, data, i)
    <3> HIDE DEF Chosen
    <3> QED
      BY <1>2, <1>3, <2>1
  <2> HIDE DEF Chosen, base
  <2>3. [i \in 0 .. Len(toks) |-> IF i = 0 THEN base ELSE read_item(g[i - 1], toks, data, i)] =
          [i \in 0 .. Len(seq) |-> IF i = 0 THEN base ELSE Chosen(g, i)]
    BY <1>3, <2>2
  <2> QED
    BY <2>3 DEF Reader
<1>5. f = [i \in 0 .. Len(seq) |-> IF i = 0 THEN base ELSE Chosen(f, i)]
  <2> HIDE DEF Chosen
  <2> QED
    BY <1>4, Zenon
<1> HIDE DEF f, Chosen
<1> QED
  BY <1>1, <1>3, <1>4, <1>5

LEMMA ReadTargetsIn ==
  ASSUME NEW m \in Memories, NEW toks \in Seq(Tokens), NEW data \in Seq(Tokens)
  PROVE  ReadTargets(m, toks, data) \in Reads(data)
<1> DEFINE n == Len(toks)
           base == FirstRead(m)
           C == Reads(data)
           S == [p \in C \X (1 .. n) |-> read_item(p[1], toks, data, p[2])]
<1>1. n \in Nat /\ Len(data) \in Nat
  OBVIOUS
<1>2. base \in C
  <2>1. 0 \in 0 .. Len(data) /\ 2 \in Nat /\ "none" \in Messages
    BY <1>1 DEF Messages, Errors
  <2> QED
    BY <2>1 DEF Reads, FirstRead
<1>3. S \in [C \X (1 .. n) -> C]
  <2> SUFFICES ASSUME NEW p \in C \X (1 .. n) PROVE read_item(p[1], toks, data, p[2]) \in C
    OBVIOUS
  <2>1. p[1] \in C /\ p[2] \in Nat /\ p[2] > 0
    BY <1>1
  <2> QED
    BY <2>1, ReadItemIn
<1>4. \A c \in C, i \in 1 .. n : S[<<c, i>>] = read_item(c, toks, data, i)
  OBVIOUS
<1>5. PICK h \in [0 .. n -> C] : h[0] = base /\ \A i \in 1 .. n : h[i] = S[<<h[i - 1], i>>]
  <2> HIDE DEF S, n, C, base
  <2>1. Stepping(C, n, base, S)
    BY <1>1, <1>2, <1>3 DEF Stepping
  <2> QED
    BY <2>1, StepsExist
<1> HIDE DEF S, C, base
<1>6. Reader(h, base, toks, data)
  <2>1. ASSUME NEW i \in 0 .. n, i # 0 PROVE h[i] = read_item(h[i - 1], toks, data, i)
    <3>1. i \in 1 .. n /\ i - 1 \in 0 .. n
      BY <1>1, <2>1
    <3> HIDE DEF n
    <3> QED
      BY <1>4, <1>5, <3>1
  <2> QED
    BY <1>5, <2>1 DEF Reader
<1>7. PICK f : Reader(f, base, toks, data) /\ ReadTargets(m, toks, data) = f[n]
  BY <1>6, ReadTargetsIs DEF base
<1>8. f = h
  <2>1. \A i \in 1 .. n : i \in 0 .. n /\ i # 0
    BY <1>1
  <2>2. \A i \in 1 .. n : f[i] = read_item(f[i - 1], toks, data, i) /\ h[i] = read_item(h[i - 1], toks, data, i)
    BY <1>6, <1>7, <2>1 DEF Reader
  <2>3. 0 \in 0 .. n
    BY <1>1
  <2>4. f[0] = base /\ h[0] = base
    BY <1>5, <1>7, <2>3 DEF Reader
  <2>5. f = [i \in 0 .. n |-> f[i]] /\ h = [i \in 0 .. n |-> h[i]]
    BY <1>6, <1>7 DEF Reader
  <2>6. \A i \in 1 .. n : f[i - 1] = h[i - 1] => f[i] = h[i]
    BY <2>2, Zenon
  <2> HIDE DEF n
  <2>7. Alike(n, f, h)
    BY <1>1, <2>4, <2>5, <2>6 DEF Alike
  <2> QED
    BY <2>7, SameSteps
<1>9. h[n] \in C
  BY <1>1, <1>5
<1> QED
  BY <1>7, <1>8, <1>9 DEF C

(* READ of any line takes no more than there is.                           *)
LEMMA ReadItemsIn ==
  ASSUME NEW m \in Memories, NEW line \in Seq(Character), NEW data \in Seq(Tokens)
  PROVE  read_items(m, line, data).m \in Memories /\ read_items(m, line, data).taken \in 0 .. Len(data)
<1> DEFINE none == [m |-> m, err |-> "SYNTAX ERROR", taken |-> 0, pos |-> 2]
           F(toks) == IF Rejected(toks) THEN none ELSE ReadTargets(m, toks, data)
           toks == tokenize(line)
<1>1. read_items(m, line, data) = CHOOSE y \in {F(z) : z \in {toks}} : TRUE
  BY Zenon DEF read_items, Once, ReadTargets, FirstRead
<1>2. (CHOOSE y \in {F(z) : z \in {toks}} : TRUE) = F(toks)
  <2> HIDE DEF F, toks
  <2> QED
    OBVIOUS
<1>3. F(toks).m \in Memories /\ F(toks).taken \in 0 .. Len(data)
  <2>1. none.m \in Memories /\ none.taken \in 0 .. Len(data)
    OBVIOUS
  <2>2. ReadTargets(m, toks, data).m \in Memories /\ ReadTargets(m, toks, data).taken \in 0 .. Len(data)
    <3>1. ReadTargets(m, toks, data) \in Reads(data)
      BY TokenizeIn, ReadTargetsIn
    <3> QED
      BY <3>1 DEF Reads
  <2>3. F(toks) \in {none, ReadTargets(m, toks, data)}
    BY Zenon
  <2> HIDE DEF F, none
  <2> QED
    BY <2>1, <2>2, <2>3
<1> HIDE DEF F
<1> QED
  BY <1>1, <1>2, <1>3

----------------------------------------------------------------------------
(* Types.                                                                  *)

LoopFrames == [var : Var, limit : Int, step : Int, line_idx : Nat]

(* What a program keeps is well formed, whatever it did: the frames of     *)
(* loops too, since NEXT assigns to their variables.                       *)
WellKept ==
  /\ store \in Memories
  /\ data_store \in Seq(Tokens) /\ data_ptr \in 0 .. Len(data_store)
  /\ for_stack \in Seq(LoopFrames)
  /\ waiting \in Var \cup Waits \cup {"no"}
Queue == keys \in Seq(Key) /\ Len(keys) <= MaxKeys

(* The statements, one by one.                                             *)
LEMMA StillKept ==
  ASSUME WellKept, UNCHANGED <<store, data_store, data_ptr, for_stack, waiting>>
  PROVE  WellKept'
BY DEF WellKept

LEMMA StoreKept ==
  ASSUME WellKept, store' \in Memories, UNCHANGED <<data_store, data_ptr, for_stack, waiting>>
  PROVE  WellKept'
BY DEF WellKept

LEMMA EmptyIn == \A A, B : <<>> \in Partial(A, B)
<1> SUFFICES ASSUME NEW A, NEW B PROVE <<>> \in Partial(A, B)
  OBVIOUS
<1>1. {} \in SUBSET A /\ <<>> \in [{} -> B]
  OBVIOUS
<1> QED
  BY <1>1 DEF Partial

LEMMA NothingIn == Nothing \in Memories /\ NoVars \in [Letters -> Int]
<1>1. NoVars \in [Letters -> Int]
  BY DEF NoVars, Var
<1> QED
  BY <1>1, EmptyIn DEF Nothing, Memories

LEMMA CollectDataIn ==
  ASSUME NEW ls, Table(ls), WithText(ls)
  PROVE  collect_data(ls) \in Seq(Tokens)
<1> DEFINE n == Len(ls)
           ss == [i \in 1 .. n |-> IF ls[i].stmt.op = "data" THEN Items(ls[i].stmt.text) ELSE <<>>]
<1>1. n \in Nat
  BY TableLength
<1>2. \A i \in 1 .. n : ss[i] \in Seq(Tokens)
  <2> SUFFICES ASSUME NEW i \in 1 .. n PROVE (IF ls[i].stmt.op = "data" THEN Items(ls[i].stmt.text) ELSE <<>>) \in Seq(Tokens)
    OBVIOUS
  <2>1. ls[i].stmt \in Statements
    BY LineStatement
  <2>2. ls[i].stmt.op = "data" => ls[i].stmt.text \in Seq(Character)
    BY <2>1, InterpreterAssumption DEF Character
  <2>3. <<>> \in Seq(Tokens)
    OBVIOUS
  <2> QED
    BY <2>2, <2>3, ItemsIn
<1>3. ss \in Seq(Seq(Tokens))
  <2>1. ss = [i \in 1 .. n |-> ss[i]]
    OBVIOUS
  <2> HIDE DEF ss, n
  <2> QED
    BY <1>1, <1>2, <2>1
<1>4. collect_data(ls) = FlattenSeq(ss)
  BY DEF collect_data
<1> HIDE DEF ss
<1> QED
  BY <1>3, <1>4, MarksExist

LEMMA StatementIs ==
  ASSUME NEW s \in Statements
  PROVE  /\ s.op = "for" => s.var \in Var /\ s.from \in Int /\ s.to \in Int /\ s.step \in Int
         /\ s.op = "input" => s.var \in Var
         /\ s.op \in {"let", "read", "data"} => s.text \in Seq(Character)
BY InterpreterAssumption DEF Character

LEMMA LetKept ==
  ASSUME WellKept, NEW s \in Statements, NEW next \in Nat, exec_let(s, next)
  PROVE  WellKept'
<1>1. s.text \in Seq(Character) /\ store' = assigned(store, s.text).m
      /\ UNCHANGED <<data_store, data_ptr, for_stack, waiting>>
  BY StatementIs DEF exec_let, stacks, text
<1>2. store' \in Memories
  BY <1>1, AssignedHeld DEF Held, WellKept
<1> QED
  BY <1>1, <1>2, StoreKept

LEMMA AssignKept ==
  ASSUME WellKept, NEW v \in Var, NEW x \in Int
  PROVE  [store EXCEPT !.vars[v] = x] \in Memories
BY VarSet DEF WellKept, Var

LEMMA ForKept ==
  ASSUME Bounded, WellKept, NEW s \in Statements, NEW next \in Nat, exec_for(s, next)
  PROVE  WellKept'
<1>1. s.var \in Var /\ s.from \in Int /\ s.to \in Int /\ s.step \in Int
  BY StatementIs DEF exec_for
<1>2. UNCHANGED <<data_store, data_ptr, waiting>> /\ store' = [store EXCEPT !.vars[s.var] = s.from]
  BY DEF exec_for, text
<1>3. store' \in Memories
  BY <1>1, <1>2, AssignKept
<1> DEFINE e == [var |-> s.var, limit |-> s.to, step |-> s.step, line_idx |-> next]
<1>4. for_stack' = for_stack \/ for_stack' = Append(for_stack, e)
  BY DEF exec_for
<1>5. e \in LoopFrames
  BY <1>1 DEF LoopFrames
<1> HIDE DEF e
<1>6. for_stack' \in Seq(LoopFrames)
  BY <1>4, <1>5 DEF WellKept
<1> QED
  BY <1>2, <1>3, <1>6 DEF WellKept

LEMMA NextKept ==
  ASSUME Bounded, WellKept, NEW s \in Statements, NEW next \in Nat, exec_next(s, next)
  PROVE  WellKept'
<1>1. UNCHANGED <<data_store, data_ptr, waiting>>
  BY DEF exec_next, text
<1>2. CASE Frame(s) = {}
  BY <1>1, <1>2, StillKept DEF exec_next
<1>3. CASE Frame(s) # {}
  <2> DEFINE i == Max(Frame(s))
             frame == for_stack[i]
  <2>1. store' = [store EXCEPT !.vars[frame.var] = Stepped(frame)] /\ (for_stack' = FramesBelow(i) \/ for_stack' = for_stack)
    BY <1>3 DEF exec_next
  <2>2. i \in 1 .. Len(for_stack)
    BY <1>3, FrameIs
  <2> HIDE DEF i
  <2>3. for_stack \in Seq(LoopFrames) /\ Len(for_stack) \in Nat
    BY DEF WellKept
  <2>4. frame \in LoopFrames
    BY <2>2, <2>3, ElementOfSeq
  <2>5. FramesBelow(i) \in Seq(LoopFrames)
    BY <2>2, <2>3, Shorten DEF FramesBelow
  <2> HIDE DEF frame
  <2>6. frame.var \in Var /\ frame.step \in Int
    BY <2>4 DEF LoopFrames
  <2>7. Stepped(frame) \in Int
    <3>1. vars[frame.var] \in Int
      BY <2>6, MemoryIs DEF WellKept, vars, Var
    <3> QED
      BY <2>6, <3>1 DEF Stepped
  <2>8. store' \in Memories
    BY <2>1, <2>6, <2>7, AssignKept
  <2> QED
    BY <1>1, <2>1, <2>3, <2>5, <2>8 DEF WellKept
<1> QED
  BY <1>2, <1>3

LEMMA ReadKept ==
  ASSUME WellKept, NEW s \in Statements, NEW next \in Nat, exec_read(s, next)
  PROVE  WellKept'
<1> DEFINE data == SubSeq(data_store, data_ptr + 1, Len(data_store))
           r == read_items(store, s.text, data)
<1>1. UNCHANGED <<data_store, for_stack, waiting>> /\ store' = r.m /\ data_ptr' = data_ptr + r.taken
  BY DEF exec_read, stacks, text
<1>2. s.text \in Seq(Character)
  BY StatementIs DEF exec_read
<1>3. data_store \in Seq(Tokens) /\ store \in Memories /\ Len(data_store) \in Nat /\ data_ptr \in 0 .. Len(data_store)
  BY DEF WellKept
<1>4. data \in Seq(Tokens) /\ Len(data) = Len(data_store) - data_ptr
  <2>1. data_ptr + 1 \in Nat \ {0} /\ (data_ptr + 1 > Len(data_store) => Len(data_store) - data_ptr = 0)
    BY <1>3
  <2>2. /\ data \in Seq(Tokens)
        /\ data_ptr + 1 <= Len(data_store) => Len(data) = Len(data_store) - (data_ptr + 1) + 1
        /\ data_ptr + 1 > Len(data_store) => data = <<>>
    BY <1>3, <2>1, SliceIn
  <2> HIDE DEF data
  <2>3. data = <<>> => Len(data) = 0
    OBVIOUS
  <2> QED
    BY <1>3, <2>1, <2>2, <2>3
<1> HIDE DEF data
<1>5. r.m \in Memories /\ r.taken \in 0 .. Len(data)
  BY <1>2, <1>3, <1>4, ReadItemsIn
<1> DEFINE t == r.taken
<1> HIDE DEF r
<1>6. data_ptr + t \in 0 .. Len(data_store)
  <2>1. t \in 0 .. Len(data_store) - data_ptr
    BY <1>4, <1>5
  <2> HIDE DEF t
  <2> QED
    BY <1>3, <2>1
<1> QED
  BY <1>1, <1>3, <1>5, <1>6 DEF WellKept

LEMMA AfreshKept ==
  ASSUME WellKept, store' = Nothing, for_stack' = <<>>, data_store' \in Seq(Tokens), data_ptr' = 0, waiting' = waiting
  PROVE  WellKept'
<1>1. 0 \in 0 .. Len(data_store') /\ <<>> \in Seq(LoopFrames)
  OBVIOUS
<1> QED
  BY <1>1, NothingIn DEF WellKept

LEMMA RunKept ==
  ASSUME Bounded, WellKept, NEW s, run(s)
  PROVE  WellKept'
<1>1. store' = Nothing /\ for_stack' = <<>> /\ data_store' = collect_data(lines) /\ data_ptr' = 0 /\ waiting' = waiting
  BY DEF run
<1> QED
  BY <1>1, CollectDataIn, AfreshKept DEF Bounded

LEMMA ClearKept ==
  ASSUME WellKept, NEW s, NEW next, clear(s, next)
  PROVE  WellKept'
<1>1. store' = Nothing /\ for_stack' = <<>> /\ data_store' = <<>> /\ data_ptr' = 0 /\ waiting' = waiting
  BY DEF clear, Keep
<1>2. <<>> \in Seq(Tokens)
  OBVIOUS
<1> QED
  BY <1>1, <1>2, AfreshKept

LEMMA LoadKept ==
  ASSUME WellKept, NEW s, NEW next, exec_load(s, next)
  PROVE  WellKept'
<1>1. UNCHANGED <<for_stack, data_ptr, data_store, waiting>> /\ (store' = store \/ store' = [store EXCEPT !.vars = NoVars])
  BY DEF exec_load, LoadFile, stacks
<1>2. store' \in Memories
  BY <1>1, NothingIn, MemoryWith DEF WellKept
<1> QED
  BY <1>1, <1>2, StoreKept

LEMMA WaitKept ==
  ASSUME WellKept, NEW s \in Statements, NEW next, Wait(s, next)
  PROVE  WellKept'
<1>1. UNCHANGED <<store, data_store, data_ptr, for_stack>>
  BY DEF Wait, Keep, stacks
<1>2. waiting' \in Var \cup Waits \cup {"no"}
  <2>1. s.op = "input" => s.var \in Var
    BY StatementIs
  <2> QED
    BY <2>1 DEF Wait, Waits
<1> QED
  BY <1>1, <1>2 DEF WellKept

LEMMA ExecuteKept ==
  ASSUME Bounded, WellKept, NEW s \in Statements, NEW next \in Nat, Execute(s, next)
  PROVE  WellKept'
<1>1. CASE Otherwise(s, next)
  BY <1>1, StillKept DEF Otherwise, stacks, text
<1>2. CASE exec_let(s, next)
  BY <1>2, LetKept
<1>3. CASE exec_for(s, next)
  BY <1>3, ForKept
<1>4. CASE exec_next(s, next)
  BY <1>4, NextKept
<1>5. ASSUME NEW number, Goto(number, next) \/ Gosub(number, next)
      PROVE  WellKept'
  BY <1>5, StillKept DEF Goto, Gosub, stacks, text
<1>6. CASE exec_goto(s, next) \/ exec_gosub(s, next)
  BY <1>5, <1>6 DEF exec_goto, exec_gosub
<1>7. CASE exec_on(s, next)
  <2>1. CASE Keep(<<store, stacks, data_ptr, text>>)
    BY <2>1, StillKept DEF Keep, stacks, text
  <2>2. CASE \E number \in s.targets : IF s.gosub THEN Gosub(number, next) ELSE Goto(number, next)
    BY <1>5, <2>2
  <2> QED
    BY <1>7, <2>1, <2>2 DEF exec_on
<1>8. CASE exec_return(s, next)
  BY <1>8, StillKept DEF exec_return, text
<1>9. CASE exec_read(s, next)
  BY <1>9, ReadKept
<1>10. CASE exec_restore(s, next)
  <2>1. UNCHANGED <<store, data_store, for_stack, waiting>> /\ data_ptr' = 0
    BY <1>10 DEF exec_restore, Keep, stacks, text
  <2>2. 0 \in 0 .. Len(data_store)
    BY DEF WellKept
  <2> QED
    BY <2>1, <2>2 DEF WellKept
<1>11. CASE exec_end(s, next)
  BY <1>11, StillKept DEF exec_end, stacks, text
<1>12. CASE run(s)
  BY <1>12, RunKept
<1>13. CASE clear(s, next)
  BY <1>13, ClearKept
<1>14. CASE exec_load(s, next)
  BY <1>14, LoadKept
<1>15. CASE Wait(s, next)
  BY <1>15, WaitKept
<1> QED
  BY <1>1, <1>2, <1>3, <1>4, <1>6, <1>7, <1>8, <1>9, <1>10, <1>11, <1>12, <1>13, <1>14, <1>15 DEF Execute

LEMMA StatementKept ==
  ASSUME Bounded, WellKept, NEW s \in Whole, NEW next \in Nat, exec_statement(s, next)
  PROVE  WellKept'
<1>1. s \in Statements /\ (s.op = "if" => s.then \in Statements)
  BY DEF Statements
<1>2. CASE Execute(s, next)
  BY <1>1, <1>2, ExecuteKept
<1>3. CASE exec_if(s, next)
  <2>1. CASE Keep(<<store, stacks, data_ptr, text>>)
    BY <2>1, StillKept DEF Keep, stacks, text
  <2>2. CASE Execute(s.then, next)
    BY <1>1, <1>3, <2>2, ExecuteKept DEF exec_if
  <2> QED
    BY <1>3, <2>1, <2>2 DEF exec_if
<1> QED
  BY <1>2, <1>3 DEF exec_statement

(* The key that ends an INPUT assigns to its variable, and that of a file  *)
(* name in DOS may clear those of one letter.                              *)
LEMMA KeyKept ==
  ASSUME WellKept, TakeKey
  PROVE  WellKept'
<1>1. UNCHANGED <<data_store, data_ptr, for_stack>>
  BY KeyDoes
<1>2. waiting' \in Var \cup Waits \cup {"no"}
  <2>1. \/ waiting' \in {waiting, "no"}
        \/ waiting' \in {"dos", "dos line"}
    BY KeyDoes
  <2> QED
    BY <2>1 DEF WellKept, Waits
<1>3. store' \in Memories
  <2>1. CASE store' = store
    BY <2>1 DEF WellKept
  <2>2. CASE waiting \in Var /\ \E x \in Value : store' = [store EXCEPT !.vars[waiting] = x]
    <3>1. PICK x \in Value : store' = [store EXCEPT !.vars[waiting] = x]
      BY <2>2
    <3>2. x \in Int
      BY InterpreterAssumption
    <3> QED
      BY <2>2, <3>1, <3>2, AssignKept
  <2>3. CASE LoadFile
    BY <2>3, NothingIn, MemoryWith DEF LoadFile, WellKept
  <2> QED
    BY <2>1, <2>2, <2>3, KeyDoes
<1> QED
  BY <1>1, <1>2, <1>3 DEF WellKept

(* The invariant holds at the start and is kept by every step.             *)
LEMMA KeptStart ==
  ASSUME Init
  PROVE  WellKept /\ Queue
<1>1. store = Nothing /\ for_stack = <<>> /\ data_store = collect_data(lines) /\ data_ptr = 0 /\ waiting = "no" /\ keys = <<>>
  BY DEF Init
<1>2. data_store \in Seq(Tokens)
  BY <1>1, BoundedStart, CollectDataIn DEF Bounded
<1>3. 0 \in 0 .. Len(data_store) /\ <<>> \in Seq(LoopFrames)
  BY <1>2
<1>4. <<>> \in Seq(Key) /\ Len(<<>>) <= MaxKeys
  BY InterpreterAssumption
<1> QED
  BY <1>1, <1>2, <1>3, <1>4, NothingIn DEF WellKept, Queue

LEMMA KeptStep ==
  ASSUME Bounded, WellKept, [Next]_all
  PROVE  WellKept'
<1>1. CASE Step
  <2>1. LineAt(lines, pc).stmt \in Whole /\ pc + 1 \in Nat
    BY <1>1, AtLine DEF Step
  <2> QED
    BY <1>1, <2>1, StatementKept DEF Step
<1>2. CASE Break
  BY <1>2, StillKept DEF Break, stacks, text
<1>3. CASE RunReturns
  BY <1>3, StillKept DEF RunReturns, stacks
<1>4. CASE TakeKey
  BY <1>4, KeyKept
<1>5. ASSUME NEW line \in Typed, handle_program_line(line)
      PROVE  WellKept'
  BY <1>5, StillKept DEF handle_program_line, stacks
<1>6. ASSUME NEW s \in Command, Direct(s)
      PROVE  WellKept'
  <2>1. s \in Whole /\ pc \in Nat
    BY InterpreterAssumption DEF Whole, Bounded
  <2> QED
    BY <1>6, <2>1, StatementKept DEF Direct
<1>7. ASSUME NEW key \in Key, Type(key)
      PROVE  WellKept'
  BY <1>7, StillKept DEF Type, stacks
<1>8. CASE run_editor
  <2>1. waiting' \in Waits
    BY <1>8 DEF run_editor, Waits
  <2> QED
    BY <1>8, <2>1 DEF run_editor, stacks, WellKept
<1>9. CASE shutdown \/ UNCHANGED all
  BY <1>9, StillKept DEF shutdown, all, stacks
<1> QED
  BY <1>1, <1>2, <1>3, <1>4, <1>5, <1>6, <1>7, <1>8, <1>9 DEF Next

LEMMA QueueStep ==
  ASSUME Queue, [Next]_all
  PROVE  Queue'
<1>0. MaxKeys \in Nat /\ Len(keys) \in Nat
  BY InterpreterAssumption DEF Queue
<1>1. CASE keys # <<>> /\ keys' = Tail(keys)
  <2>1. Tail(keys) \in Seq(Key) /\ Len(Tail(keys)) = Len(keys) - 1
    BY <1>1 DEF Queue
  <2> QED
    BY <1>0, <1>1, <2>1 DEF Queue
<1>2. CASE keys' = <<>>
  <2>1. <<>> \in Seq(Key) /\ Len(<<>>) = 0
    OBVIOUS
  <2> QED
    BY <1>0, <1>2, <2>1 DEF Queue
<1>3. ASSUME NEW key \in Key, Type(key)
      PROVE  Queue'
  <2>1. Append(keys, key) \in Seq(Key) /\ Len(Append(keys, key)) = Len(keys) + 1
    BY DEF Queue
  <2> QED
    BY <1>0, <1>3, <2>1 DEF Queue, Type
<1>4. CASE UNCHANGED keys
  BY <1>4 DEF Queue
<1>5. Step => UNCHANGED keys \/ (keys # <<>> /\ keys' = Tail(keys))
  BY DEF Step, Poll
<1>6. Break \/ TakeKey => keys # <<>> /\ keys' = Tail(keys)
  BY DEF Break, TakeKey
<1>7. RunReturns \/ shutdown \/ UNCHANGED all => UNCHANGED keys
  BY DEF RunReturns, shutdown, all
<1>8. run_editor \/ (\E line \in Typed : handle_program_line(line)) \/ (\E s \in Command : Direct(s)) => keys' = <<>>
  BY DEF run_editor, handle_program_line, Direct, Reading
<1> QED
  BY <1>1, <1>2, <1>3, <1>4, <1>5, <1>6, <1>7, <1>8 DEF Next

(* Whatever is typed, loaded, run, assigned, read and waited for: the      *)
(* variables are numbers, an array has the elements it was given, READ     *)
(* stops at the last datum, and what waits for keys is known.  Rests on    *)
(* the tokeniser and the parser, whatever the text of a line.              *)
THEOREM TypesCorrect == Spec => []TypeOK
<1>1. Init => Bounded /\ WellKept /\ Queue
  BY BoundedStart, KeptStart
<1>2. Bounded /\ WellKept /\ Queue /\ [Next]_all => (Bounded /\ WellKept /\ Queue)'
  <2> SUFFICES ASSUME Bounded, WellKept, Queue, [Next]_all PROVE (Bounded /\ WellKept /\ Queue)'
    OBVIOUS
  <2>1. Bounded' /\ WellKept' /\ Queue'
    BY BoundedStep, KeptStep, QueueStep
  <2> QED
    BY <2>1
<1>3. InOrder /\ InBounds /\ WellKept /\ Queue => TypeOK
  <2> SUFFICES ASSUME WellKept, Queue, InOrder /\ InBounds PROVE TypeOK
    OBVIOUS
  <2>1. vars \in [Var -> Int]
    BY MemoryIs DEF WellKept, vars, Var
  <2>2. ASSUME NEW name \in DOMAIN store.arrays
        PROVE  LET a == store.arrays[name] IN Len(a.vals) = IF a.dim2 > 0 THEN a.dim1 * a.dim2 ELSE a.dim1
    <3>1. store.arrays \in Partial(Letters, Arrays)
      BY MemoryIs DEF WellKept
    <3>2. store.arrays[name] \in Arrays
      BY <3>1, PartialIn
    <3> QED
      BY <3>2 DEF Arrays
  <2> QED
    BY <2>1, <2>2 DEF TypeOK, WellKept, Queue
<1>4. Spec => [](InOrder /\ InBounds)
  BY LinesInOrder
<1> QED
  BY <1>1, <1>2, <1>3, <1>4, PTL DEF Spec
=============================================================================
