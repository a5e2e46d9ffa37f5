-------------------------- MODULE MachineDataProofs --------------------------
(***************************************************************************)
(* What MachineData's operators do for every address and every stack       *)
(* pointer; the models try a few.                                          *)
(***************************************************************************)
EXTENDS MachineData, TLAPS, WellFoundedInduction, SequenceTheorems

Byte == 0 .. 255           \* values, and positions on the stack page

(* Positions on the stack page, which wraps at both ends.                  *)
LEMMA StackPage ==
    ASSUME NEW sp \in Byte
    PROVE  /\ (sp - 1) % 256 \in Byte /\ (sp - 1) % 256 # sp
           /\ (Lowered(sp) + 1) % 256 = (sp - 1) % 256
           /\ (Lowered(sp) + 2) % 256 = sp
  BY SMTT(20) DEF Lowered, Byte

LEMMA ReturnAddressWraps ==
    ASSUME NEW trap \in Nat, trap < 65536
    PROVE  ReturnAddress(trap) \in Nat /\ (ReturnAddress(trap) + 1) % 65536 = trap
<1>1. trap % 65536 = trap
  BY SMTT(20)
<1>2. (((trap - 1) % 65536) + 1) % 65536 = trap % 65536
  BY SMTT(20)
<1>3. (trap - 1) % 65536 \in Nat
  BY SMTT(20)
<1> QED
  BY <1>1, <1>2, <1>3 DEF ReturnAddress

LEMMA TwoBytes ==
    ASSUME NEW x \in Nat, NEW lo, NEW hi, lo = x % 256, hi = x \div 256
    PROVE  lo \in Int /\ hi \in Int /\ lo + (256 * hi) = x
  BY SMTT(20)

(* Two writes to different places of a page.                               *)
LEMMA Written ==
    ASSUME NEW Places, NEW Bytes, NEW page \in [Places -> Bytes],
           NEW p \in Places, NEW q \in Places, p # q, NEW x, NEW y
    PROVE  LET after == [[page EXCEPT ![p] = x] EXCEPT ![q] = y]
           IN  /\ after[p] = x /\ after[q] = y
               /\ \A i \in Places \ {p, q} : after[i] = page[i]
  BY Zenon

LEMMA RtsPulls ==
    ASSUME NEW page, NEW sp, NEW p, NEW q, NEW lo \in Int, NEW hi \in Int,
           (sp + 1) % 256 = q, (sp + 2) % 256 = p, page[q] = lo, page[p] = hi
    PROVE  RtsGoesTo(page, sp) = (lo + (256 * hi) + 1) % 65536
  BY SMTT(20) DEF RtsGoesTo

(* A routine that call_routine starts and that leaves the stack as it was  *)
(* returns to the trap, where the checkpoint is: for every trap, 0         *)
(* included, and every stack pointer, also where the frame wraps round the *)
(* bottom of the page (ops.py:221-225).                                    *)
THEOREM RoutineReturnsToTrap ==
    ASSUME NEW stack \in [Byte -> Byte], NEW sp \in Byte,
           NEW trap \in Nat, trap < 65536
    PROVE  RtsGoesTo(Pushed(stack, sp, trap), Lowered(sp)) = trap
<1> DEFINE ret  == ReturnAddress(trap)
           q    == (sp - 1) % 256
           hi   == ret \div 256
           lo   == ret % 256
           page == Pushed(stack, sp, trap)
<1>1. /\ q \in Byte /\ q # sp
      /\ (Lowered(sp) + 1) % 256 = q /\ (Lowered(sp) + 2) % 256 = sp
  BY StackPage, SMT
<1>2. ret \in Nat /\ (ret + 1) % 65536 = trap
  BY ReturnAddressWraps, SMT
<1>3. page = [[stack EXCEPT ![sp] = hi] EXCEPT ![q] = lo]
  BY SMT DEF Pushed
<1> HIDE DEF ret, q, page
<1>4. lo \in Int /\ hi \in Int /\ lo + (256 * hi) = ret
  BY <1>2, TwoBytes, SMT
<1> HIDE DEF hi, lo
<1>5. page[sp] = hi /\ page[q] = lo
  BY <1>1, <1>3, Written, SMT
<1>6. RtsGoesTo(page, Lowered(sp)) = (lo + (256 * hi) + 1) % 65536
  BY <1>1, <1>4, <1>5, RtsPulls, SMT
<1>7. RtsGoesTo(page, Lowered(sp)) = trap
  BY <1>2, <1>4, <1>6, SMT
<1> QED
  BY <1>7, SMT DEF page

(* The frame takes two bytes of the page and leaves every other as it was: *)
(* what lies on the stack above is still there for the caller              *)
(* (ops.py:223-224).                                                       *)
THEOREM FrameTakesTwoBytes ==
    ASSUME NEW stack \in [Byte -> Byte], NEW sp \in Byte, NEW trap \in Nat,
           NEW i \in Byte, i # sp, i # (sp - 1) % 256
    PROVE  Pushed(stack, sp, trap)[i] = stack[i]
<1> DEFINE q == (sp - 1) % 256
           x == ReturnAddress(trap) \div 256
           y == ReturnAddress(trap) % 256
<1>1. q \in Byte /\ q # sp /\ i # q
  BY StackPage, SMT
<1>2. Pushed(stack, sp, trap) = [[stack EXCEPT ![sp] = x] EXCEPT ![q] = y]
  BY SMT DEF Pushed
<1> HIDE DEF q, x, y
<1> QED
  BY <1>1, <1>2, Written, SMT

(* Hence what the run tries of stacks and traps holds for all of them      *)
(* (ops.py:221-225).                                                       *)
THEOREM RoutinesDoLand == RoutinesLand
<1> SUFFICES ASSUME NEW fill \in Values, NEW sp \in 0 .. 255, NEW trap \in Traps
             PROVE  LET stack == [i \in 0 .. 255 |-> fill]
                        after == Pushed(stack, sp, trap)
                    IN  /\ RtsGoesTo(after, Lowered(sp)) = trap
                        /\ \A i \in 0 .. 255 : i \notin {sp, (sp - 1) % 256} => after[i] = stack[i]
  BY DEF RoutinesLand
<1> DEFINE stack == [i \in Byte |-> fill]
<1>1. stack \in [Byte -> Byte] /\ sp \in Byte /\ trap \in Nat /\ trap < 65536
  <2>1. fill \in Byte
    BY StackAssumption DEF Byte
  <2>2. trap \in Nat /\ trap < 65536
    BY StackAssumption
  <2>3. sp \in Byte
    BY DEF Byte
  <2>4. stack \in [Byte -> Byte]
    BY <2>1
  <2> QED
    BY <2>2, <2>3, <2>4
<1> HIDE DEF stack
<1>2. RtsGoesTo(Pushed(stack, sp, trap), Lowered(sp)) = trap
  BY <1>1, RoutineReturnsToTrap
<1>3. \A i \in Byte : i # sp /\ i # (sp - 1) % 256 => Pushed(stack, sp, trap)[i] = stack[i]
  BY <1>1, FrameTakesTwoBytes
<1> QED
  BY <1>2, <1>3 DEF stack, Byte

-----------------------------------------------------------------------------
(***************************************************************************)
(* Induction and recursion, with sets and functions in the place of the    *)
(* predicates and operators that the provers cannot be given.              *)
(***************************************************************************)
LEMMA LeastNumber ==
    ASSUME NEW S \in SUBSET Nat, S # {}
    PROVE  \E n \in S : \A m \in S : n <= m
<1> DEFINE R == OpToRel(<, Nat)
<1>1. \A x, y \in Nat : x < y => <<x, y>> \in R
  BY DEF OpToRel
<1>2. IsWellFoundedOn(R, Nat)
  BY NatLessThanWellFounded
<1> HIDE DEF R
<1>3. PICK n \in S : \A m \in S : ~(<<m, n>> \in R)
  BY <1>2, WFMin
<1>4. ASSUME NEW m \in S PROVE n <= m
  <2>1. ~(m < n)
    BY <1>1, <1>3
  <2> QED
    BY <2>1
<1> QED
  BY <1>4

(* Among elements that have a size there is a smallest one.                *)
LEMMA Smallest ==
    ASSUME NEW T, NEW size \in [T -> Nat], NEW B \in SUBSET T, B # {}
    PROVE  \E x \in B : \A y \in B : ~(size[y] < size[x])
<1> DEFINE S == {size[x] : x \in B}
<1>1. S \in SUBSET Nat /\ S # {}
  OBVIOUS
<1>2. \A y \in B : size[y] \in S /\ size[y] \in Nat
  OBVIOUS
<1>3. \A n \in S : \E x \in B : n = size[x]
  OBVIOUS
<1> HIDE DEF S
<1>4. PICK n \in S : \A m \in S : n <= m
  BY <1>1, LeastNumber
<1>5. PICK x \in B : n = size[x]
  BY <1>3
<1>6. \A y \in B : ~(size[y] < size[x])
  BY <1>2, <1>4, <1>5
<1> QED
  BY <1>6

Tables(T, R) == [T -> R]

(* How far a function is a solution of the equations F.                    *)
Solves(F, T, size, n) ==
    {g \in DOMAIN F : \A t \in T : size[t] < n => F[g][t] = g[t]}

(* F asks its argument about smaller elements only.                        *)
Descends(F, T, size) ==
    \A g, h \in DOMAIN F : \A t \in T :
        (\A u \in T : size[u] < size[t] => g[u] = h[u]) => F[g][t] = F[h][t]

LEMMA SolutionsAgree ==
    ASSUME NEW T, NEW size \in [T -> Nat], NEW F, Descends(F, T, size)
    PROVE  \A n, m \in Nat :
             \A g \in Solves(F, T, size, n), h \in Solves(F, T, size, m), t \in T :
                size[t] < n /\ size[t] < m => g[t] = h[t]
<1> TAKE n, m \in Nat
<1> TAKE g \in Solves(F, T, size, n), h \in Solves(F, T, size, m), t \in T
<1> HAVE size[t] < n /\ size[t] < m
<1> DEFINE B == {u \in T : size[u] < n /\ size[u] < m /\ g[u] # h[u]}
<1>1. SUFFICES ASSUME B # {} PROVE FALSE
  OBVIOUS
<1>2. PICK x \in B : \A y \in B : ~(size[y] < size[x])
  BY <1>1, Smallest
<1>3. x \in T /\ size[x] < n /\ size[x] < m /\ g[x] # h[x]
  OBVIOUS
<1>4. ASSUME NEW u \in T, size[u] < size[x] PROVE g[u] = h[u]
  <2>1. size[u] \in Nat /\ size[x] \in Nat /\ size[u] < n /\ size[u] < m
    BY <1>3, <1>4
  <2> QED
    BY <1>2, <1>4, <2>1
<1>5. g \in DOMAIN F /\ h \in DOMAIN F /\ F[g][x] = g[x] /\ F[h][x] = h[x]
  BY <1>3 DEF Solves
<1>6. F[g][x] = F[h][x]
  BY <1>3, <1>4, <1>5 DEF Descends
<1> QED
  BY <1>3, <1>5, <1>6

LEMMA SolutionsExist ==
    ASSUME NEW T, NEW R, NEW size \in [T -> Nat], NEW F, DOMAIN F = [T -> R],
           \A g \in [T -> R] : F[g] \in [T -> R], Descends(F, T, size), NEW r \in R, NEW n \in Nat
    PROVE  Solves(F, T, size, n) # {}
<1> DEFINE B == {k \in Nat : Solves(F, T, size, k) = {}}
<1>1. SUFFICES ASSUME B # {} PROVE FALSE
  OBVIOUS
<1>2. PICK k \in B : \A m \in B : k <= m
  BY <1>1, LeastNumber
<1>3. k # 0
  <2>1. [t \in T |-> r] \in Solves(F, T, size, 0)
    BY DEF Solves
  <2> QED
    BY <2>1
<1>4. k \in Nat /\ k - 1 \in Nat /\ ~(k <= k - 1)
  BY <1>3
<1>5. PICK g \in Solves(F, T, size, k - 1) : TRUE
  BY <1>2, <1>4
<1>6. g \in [T -> R] /\ F[g] \in [T -> R] /\ DOMAIN F = [T -> R]
  BY DEF Solves
<1>7. ASSUME NEW t \in T, size[t] < k PROVE F[F[g]][t] = F[g][t]
  <2>1. ASSUME NEW u \in T, size[u] < size[t] PROVE F[g][u] = g[u]
    <3>1. size[u] \in Nat /\ size[t] \in Nat /\ size[u] < k - 1
      BY <1>4, <1>7, <2>1
    <3> QED
      BY <3>1 DEF Solves
  <2> QED
    BY <1>6, <2>1 DEF Descends
<1>8. F[g] \in Solves(F, T, size, k)
  BY <1>6, <1>7 DEF Solves
<1> QED
  BY <1>8

(* Hence recursion on smaller elements defines a function.                 *)
LEMMA Recursion ==
    ASSUME NEW T, NEW R, NEW size \in [T -> Nat], NEW F, DOMAIN F = Tables(T, R),
           \A g \in Tables(T, R) : F[g] \in Tables(T, R), Descends(F, T, size), NEW r \in R
    PROVE  \E h \in Tables(T, R) : F[h] = h
<1> USE DEF Tables
<1>0. \A n, m \in Nat :
        \A f \in Solves(F, T, size, n), g \in Solves(F, T, size, m), t \in T :
            size[t] < n /\ size[t] < m => f[t] = g[t]
  BY SolutionsAgree
<1> DEFINE Upto(n) == CHOOSE g : g \in Solves(F, T, size, n)
           h       == [t \in T |-> Upto(size[t] + 1)[t]]
<1>1. ASSUME NEW n \in Nat PROVE Upto(n) \in Solves(F, T, size, n) /\ Upto(n) \in [T -> R]
  <2>1. Solves(F, T, size, n) # {}
    BY SolutionsExist
  <2>2. Upto(n) \in Solves(F, T, size, n)
    BY <2>1
  <2> HIDE DEF Upto
  <2>3. DOMAIN F = [T -> R]
    OBVIOUS
  <2> QED
    BY <2>2, <2>3 DEF Solves
<1> HIDE DEF Upto
<1>2. h \in [T -> R]
  BY <1>1
<1>3. ASSUME NEW t \in T PROVE F[h][t] = h[t]
  <2> DEFINE n == size[t] + 1
             g == Upto(n)
  <2>1. size[t] \in Nat /\ n \in Nat /\ size[t] < n
    OBVIOUS
  <2>2. g \in Solves(F, T, size, n) /\ g \in [T -> R] /\ h[t] = g[t]
    BY <1>1, <2>1
  <2>3. ASSUME NEW u \in T, size[u] < size[t] PROVE h[u] = g[u]
    <3> DEFINE k == size[u] + 1
               f == Upto(k)
    <3>1. size[u] \in Nat /\ k \in Nat /\ size[u] < k /\ size[u] < n
      BY <2>1, <2>3
    <3>2. f \in Solves(F, T, size, k) /\ h[u] = f[u]
      BY <1>1, <3>1
    <3> HIDE DEF f, g, h, k, n
    <3> QED
      BY <1>0, <2>1, <2>2, <3>1, <3>2
  <2> HIDE DEF g, h
  <2>4. F[h][t] = F[g][t]
    BY <1>2, <2>2, <2>3 DEF Descends
  <2>5. F[g][t] = g[t]
    BY <2>1, <2>2 DEF Solves
  <2> QED
    BY <2>2, <2>4, <2>5
<1> HIDE DEF h
<1>4. F[h] = h
  BY <1>2, <1>3
<1> QED
  BY <1>2, <1>4

-----------------------------------------------------------------------------
(***************************************************************************)
(* The search.  Each round of the loop starts behind the match before, so  *)
(* that the loop ends; what it has kept is all there is up to where it is. *)
(***************************************************************************)
LEMMA FindsNext ==
    ASSUME NEW data, NEW pattern, NEW from \in Nat, Len(data) \in Nat
    PROVE  LET i == BytesFind(data, pattern, from)
           IN  /\ i \in Nat \cup {-1}
               /\ i = -1 => \A j \in from .. Len(data) : ~AtOffset(data, pattern, j)
               /\ i # -1 => /\ i \in from .. Len(data) /\ AtOffset(data, pattern, i)
                            /\ \A j \in from .. i - 1 : ~AtOffset(data, pattern, j)
<1> DEFINE found == {i \in from .. Len(data) : AtOffset(data, pattern, i)}
           n     == BytesFind(data, pattern, from)
<1>1. CASE found = {}
  <2>1. n = -1
    BY <1>1 DEF BytesFind
  <2> QED
    BY <1>1, <2>1
<1>2. CASE found # {}
  <2>1. n = Least(found)
    BY <1>2 DEF BytesFind
  <2>2. found \in SUBSET Nat
    OBVIOUS
  <2>3. \E x \in found : \A y \in found : x <= y
    <3> HIDE DEF found
    <3> QED
      BY <1>2, <2>2, LeastNumber
  <2>4. n \in found /\ \A y \in found : n <= y
    <3> HIDE DEF found
    <3> QED
      BY <2>1, <2>3 DEF Least
  <2> HIDE DEF n
  <2>5. n \in from .. Len(data) /\ AtOffset(data, pattern, n) /\ n \in Nat
    BY <2>4
  <2>6. \A j \in from .. n - 1 : ~AtOffset(data, pattern, j)
    <3> TAKE j \in from .. n - 1
    <3>1. j \in from .. Len(data) /\ ~(n <= j)
      BY <2>5
    <3> QED
      BY <2>4, <3>1
  <2>7. n # -1
    BY <2>5
  <2> QED
    BY <2>5, <2>6, <2>7 DEF n
<1> QED
  BY <1>1, <1>2

(* The search defines its loop: each round goes on behind its match.       *)
Positions == (Nat \cup {-1}) \X Seq(Nat)

Left(data) == [at \in Positions |->
                  IF at[1] = -1 THEN 0 ELSE IF at[1] > Len(data) THEN 1 ELSE Len(data) - at[1] + 1]

LEMMA LeftIs ==
    ASSUME NEW data, Len(data) \in Nat
    PROVE  /\ Left(data) \in [Positions -> Nat]
           /\ \A i \in Nat \cup {-1}, m \in Seq(Nat) :
                /\ <<i, m>> \in Positions
                /\ Left(data)[<<i, m>>] =
                     IF i = -1 THEN 0 ELSE IF i > Len(data) THEN 1 ELSE Len(data) - i + 1
  BY DEF Left, Positions

LEMMA GoesOn ==
    ASSUME NEW data, Len(data) \in Nat, NEW pattern, NEW start \in Nat,
           NEW i \in Nat, NEW m \in Seq(Nat)
    PROVE  LET next == <<BytesFind(data, pattern, NextFrom(pattern, i)), Append(m, start + i)>>
           IN  next \in Positions /\ Left(data)[next] < Left(data)[<<i, m>>]
<1> DEFINE j == BytesFind(data, pattern, NextFrom(pattern, i))
<1>1. NextFrom(pattern, i) = i + 1 /\ i + 1 \in Nat
  BY DEF NextFrom
<1>2. j \in Nat \cup {-1} /\ (j # -1 => j \in i + 1 .. Len(data))
  BY <1>1, FindsNext
<1>3. Append(m, start + i) \in Seq(Nat)
  OBVIOUS
<1> DEFINE a == Append(m, start + i)
<1> HIDE DEF j, a
<1>4. <<j, a>> \in Positions /\ <<i, m>> \in Positions
  BY <1>2, <1>3 DEF Positions, a
<1>5. Left(data)[<<j, a>>] < Left(data)[<<i, m>>]
  <2>1. Left(data)[<<j, a>>] =
            IF j = -1 THEN 0 ELSE IF j > Len(data) THEN 1 ELSE Len(data) - j + 1
    BY <1>2, <1>3, LeftIs DEF a
  <2>2. Left(data)[<<i, m>>] = IF i > Len(data) THEN 1 ELSE Len(data) - i + 1
    BY LeftIs
  <2> QED
    BY <1>2, <2>1, <2>2
<1> QED
  BY <1>4, <1>5 DEF j, a

LEMMA ScanUnfolds ==
    ASSUME NEW data, Len(data) \in Nat, NEW pattern, NEW start \in Nat, NEW limit,
           NEW i \in Nat \cup {-1}, NEW m \in Seq(Nat)
    PROVE  LET scan == Scan(data, start, pattern, limit)
           IN  scan[<<i, m>>] = Scanned(data, start, pattern, limit, scan, i, m)
<1> DEFINE R == [matches : Seq(Nat), truncated : BOOLEAN]
           Round(g, at) == Scanned(data, start, pattern, limit, g, at[1], at[2])
           F == [g \in [Positions -> R] |-> [at \in Positions |-> Round(g, at)]]
           size == Left(data)
<1>1. ASSUME NEW at \in Positions
      PROVE  /\ at[1] \in Nat \cup {-1} /\ at[2] \in Seq(Nat) /\ at = <<at[1], at[2]>>
  BY DEF Positions
<1>2. ASSUME NEW g \in [Positions -> R], NEW at \in Positions
      PROVE  Round(g, at) \in R
  <2>1. CASE at[1] = -1 \/ Len(at[2]) >= limit
    BY <1>1, <2>1 DEF Scanned
  <2>2. CASE ~(at[1] = -1 \/ Len(at[2]) >= limit)
    BY <1>1, <2>2, GoesOn DEF Scanned
  <2> QED
    BY <2>1, <2>2
<1>3. ASSUME NEW g \in [Positions -> R], NEW h \in [Positions -> R], NEW at \in Positions,
             \A u \in Positions : size[u] < size[at] => g[u] = h[u]
      PROVE  Round(g, at) = Round(h, at)
  <2>1. CASE at[1] = -1 \/ Len(at[2]) >= limit
    BY <1>1, <2>1 DEF Scanned
  <2>2. CASE ~(at[1] = -1 \/ Len(at[2]) >= limit)
    <3> DEFINE next == <<BytesFind(data, pattern, NextFrom(pattern, at[1])),
                         Append(at[2], start + at[1])>>
    <3>1. at[1] \in Nat /\ at[2] \in Seq(Nat) /\ at = <<at[1], at[2]>>
      BY <1>1, <2>2
    <3>2. next \in Positions /\ size[next] < size[at]
      BY <3>1, GoesOn
    <3>3. g[next] = h[next]
      BY <1>3, <3>2
    <3>4. Round(g, at) = g[next] /\ Round(h, at) = h[next]
      BY <2>2 DEF Scanned
    <3> QED
      BY <3>3, <3>4
  <2> QED
    BY <2>1, <2>2
<1> HIDE DEF R, Round, size
<1>4. DOMAIN F = Tables(Positions, R) /\ \A g \in Tables(Positions, R) : F[g] \in Tables(Positions, R)
  BY <1>2 DEF Tables
<1>5. Descends(F, Positions, size)
  BY <1>3 DEF Descends
<1>6. [matches |-> <<>>, truncated |-> FALSE] \in R
  BY DEF R
<1>7. size \in [Positions -> Nat]
  BY LeftIs DEF size
<1>8. PICK h \in Tables(Positions, R) : F[h] = h
  <2> HIDE DEF F
  <2> QED
    BY <1>4, <1>5, <1>6, <1>7, Recursion
<1>9. h = [at \in Positions |-> Round(h, at)]
  BY <1>8 DEF Tables
<1> DEFINE scan == Scan(data, start, pattern, limit)
<1>10. scan = [at \in Positions |-> Round(scan, at)]
  BY <1>9 DEF Scan, Round, Positions
<1> HIDE DEF scan
<1>11. <<i, m>> \in Positions
  BY DEF Positions
<1>12. scan[<<i, m>>] = Round(scan, <<i, m>>)
  BY <1>10, <1>11
<1> QED
  BY <1>12 DEF Round, scan

(* Where the pattern is, and what the loop has kept when it is at i.       *)
Matches(data, pattern) == {j \in 0 .. Len(data) : AtOffset(data, pattern, j)}

Kept(data, start, pattern, limit, i, m) ==
    /\ i \in Nat \cup {-1} /\ m \in Seq(Nat) /\ Len(m) <= limit
    /\ i # -1 => i \in Matches(data, pattern)
    /\ \A k \in 1 .. Len(m) :
         /\ m[k] - start \in Matches(data, pattern)
         /\ i # -1 => m[k] < start + i
    /\ \A k, l \in 1 .. Len(m) : k < l => m[k] < m[l]
    /\ \A j \in Matches(data, pattern) :
         i = -1 \/ j < i => \E k \in 1 .. Len(m) : m[k] = start + j

LEMMA KeptAtFirst ==
    ASSUME NEW data, Len(data) \in Nat, NEW pattern, NEW start \in Nat, NEW limit \in Nat
    PROVE  Kept(data, start, pattern, limit, BytesFind(data, pattern, 0), <<>>)
<1> DEFINE i == BytesFind(data, pattern, 0)
<1>1. /\ i \in Nat \cup {-1}
      /\ i = -1 => \A j \in 0 .. Len(data) : ~AtOffset(data, pattern, j)
      /\ i # -1 => /\ i \in 0 .. Len(data) /\ AtOffset(data, pattern, i)
                   /\ \A j \in 0 .. i - 1 : ~AtOffset(data, pattern, j)
  BY FindsNext
<1> HIDE DEF i
<1>2. \A j \in Matches(data, pattern) : i # -1 /\ ~(j < i)
  BY <1>1 DEF Matches
<1>3. i # -1 => i \in Matches(data, pattern)
  BY <1>1 DEF Matches
<1>4. <<>> \in Seq(Nat) /\ Len(<<>>) = 0
  OBVIOUS
<1> QED
  BY <1>1, <1>2, <1>3, <1>4 DEF Kept, i

LEMMA KeptGoingOn ==
    ASSUME NEW data, Len(data) \in Nat, NEW pattern, NEW start \in Nat, NEW limit \in Nat,
           NEW i \in Nat, NEW m \in Seq(Nat), Kept(data, start, pattern, limit, i, m),
           ~(Len(m) >= limit)
    PROVE  Kept(data, start, pattern, limit,
                BytesFind(data, pattern, NextFrom(pattern, i)), Append(m, start + i))
<1> DEFINE n == BytesFind(data, pattern, NextFrom(pattern, i))
           a == Append(m, start + i)
<1>1. /\ n \in Nat \cup {-1}
      /\ n = -1 => \A j \in i + 1 .. Len(data) : ~AtOffset(data, pattern, j)
      /\ n # -1 => /\ n \in i + 1 .. Len(data) /\ AtOffset(data, pattern, n)
                   /\ \A j \in i + 1 .. n - 1 : ~AtOffset(data, pattern, j)
  <2>1. NextFrom(pattern, i) = i + 1 /\ i + 1 \in Nat
    BY DEF NextFrom
  <2> QED
    BY <2>1, FindsNext
<1>2. /\ a \in Seq(Nat) /\ Len(a) = Len(m) + 1 /\ Len(m) \in Nat
      /\ a[Len(m) + 1] = start + i
      /\ \A k \in 1 .. Len(m) : a[k] = m[k] /\ m[k] \in Nat
  OBVIOUS
<1>3. /\ i \in Matches(data, pattern) /\ i \in 0 .. Len(data) /\ Len(m) <= limit
      /\ \A k \in 1 .. Len(m) : m[k] - start \in Matches(data, pattern) /\ m[k] < start + i
      /\ \A k, l \in 1 .. Len(m) : k < l => m[k] < m[l]
      /\ \A j \in Matches(data, pattern) : j < i => \E k \in 1 .. Len(m) : m[k] = start + j
  BY DEF Kept, Matches
<1> HIDE DEF n, a
<1>4. Len(a) <= limit
  BY <1>2, <1>3
<1>5. n # -1 => n \in Matches(data, pattern)
  BY <1>1 DEF Matches
<1>6. ASSUME NEW k \in 1 .. Len(a)
      PROVE  a[k] - start \in Matches(data, pattern) /\ (n # -1 => a[k] < start + n)
  <2>1. CASE k = Len(m) + 1
    BY <1>1, <1>2, <1>3, <2>1
  <2>2. CASE k # Len(m) + 1
    <3>1. k \in 1 .. Len(m)
      BY <1>2, <2>2
    <3>2. a[k] = m[k] /\ m[k] \in Nat /\ m[k] - start \in Matches(data, pattern) /\ m[k] < start + i
      BY <1>2, <1>3, <3>1
    <3>3. n # -1 => n \in Nat /\ i < n
      BY <1>1
    <3> QED
      BY <3>2, <3>3
  <2> QED
    BY <2>1, <2>2
<1>7. ASSUME NEW k \in 1 .. Len(a), NEW l \in 1 .. Len(a), k < l
      PROVE  a[k] < a[l]
  <2>1. k \in 1 .. Len(m)
    BY <1>2, <1>7
  <2>2. CASE l = Len(m) + 1
    BY <1>2, <1>3, <2>1, <2>2
  <2>3. CASE l # Len(m) + 1
    <3>1. l \in 1 .. Len(m)
      BY <1>2, <2>3
    <3> QED
      BY <1>2, <1>3, <1>7, <2>1, <3>1
  <2> QED
    BY <2>2, <2>3
<1>8. ASSUME NEW j \in Matches(data, pattern), n = -1 \/ j < n
      PROVE  \E k \in 1 .. Len(a) : a[k] = start + j
  <2>1. j \in 0 .. Len(data) /\ AtOffset(data, pattern, j)
    BY DEF Matches
  <2>2. ~(j > i)
    BY <1>1, <1>8, <2>1
  <2>3. CASE j = i
    <3>1. Len(m) + 1 \in 1 .. Len(a) /\ a[Len(m) + 1] = start + j
      BY <1>2, <2>3
    <3> QED
      BY <3>1
  <2>4. CASE j < i
    <3>1. PICK k \in 1 .. Len(m) : m[k] = start + j
      BY <1>3, <2>4
    <3> QED
      BY <1>2, <3>1
  <2> QED
    BY <2>1, <2>2, <2>3, <2>4
<1>9. Kept(data, start, pattern, limit, n, a)
  BY <1>1, <1>2, <1>4, <1>5, <1>6, <1>7, <1>8 DEF Kept
<1> QED
  BY <1>9 DEF n, a

(* Where the loop ends, what it has kept is right.                         *)
LEMMA KeptIsFound ==
    ASSUME NEW data, Len(data) \in Nat, NEW pattern, NEW start \in Nat, NEW limit \in Nat,
           NEW i \in Nat \cup {-1}, NEW m \in Seq(Nat),
           Kept(data, start, pattern, limit, i, m),
           i = -1 \/ Len(m) >= limit
    PROVE  FindsFirst([matches |-> m, truncated |-> i # -1],
                      {start + j : j \in Matches(data, pattern)}, limit)
<1> DEFINE M == Matches(data, pattern)
           there == {start + j : j \in M}
           taken == {m[k] : k \in 1 .. Len(m)}
<1>1. /\ M \subseteq Nat /\ m \in Seq(Nat) /\ Len(m) \in Nat /\ Len(m) <= limit
      /\ i # -1 => i \in M
      /\ \A k \in 1 .. Len(m) : /\ m[k] \in Nat /\ m[k] - start \in M
                                /\ i # -1 => m[k] < start + i
      /\ \A k, l \in 1 .. Len(m) : k < l => m[k] < m[l]
      /\ \A j \in M : i = -1 \/ j < i => \E k \in 1 .. Len(m) : m[k] = start + j
  BY DEF Kept, Matches
<1> HIDE DEF M
<1>a. i # -1 => i \in Nat /\ start + i \in Nat
  BY <1>1
<1>b. ASSUME NEW k \in 1 .. Len(m)
      PROVE  /\ m[k] \in Nat /\ m[k] - start \in M /\ m[k] = start + (m[k] - start)
             /\ i # -1 => m[k] < start + i
  BY <1>1
<1>2. taken \subseteq there
  <2>1. ASSUME NEW k \in 1 .. Len(m) PROVE m[k] \in there
    BY <1>b
  <2> QED
    BY <2>1
<1>3. ASSUME NEW a \in taken, NEW b \in there, b < a PROVE b \in taken
  <2>1. PICK k \in 1 .. Len(m) : a = m[k]
    OBVIOUS
  <2>2. PICK j \in M : b = start + j
    OBVIOUS
  <2>3. i = -1 \/ j < i
    <3>1. SUFFICES ASSUME i # -1 PROVE j < i
      OBVIOUS
    <3>2. i \in Nat /\ m[k] \in Nat /\ m[k] < start + i
      BY <1>a, <1>b, <3>1
    <3>3. j \in Nat /\ start + j < m[k]
      BY <1>1, <1>3, <2>1, <2>2
    <3> QED
      BY <3>2, <3>3
  <2> QED
    BY <1>1, <2>2, <2>3
<1>4. CASE i = -1
  <2>1. there \subseteq taken
    BY <1>1, <1>4
  <2>2. taken = there
    BY <1>2, <2>1
  <2> QED
    BY <1>1, <1>2, <1>3, <1>4, <2>2 DEF FindsFirst, M
<1>5. CASE i # -1
  <2>1. start + i \in there
    BY <1>1, <1>5
  <2>a. \A k \in 1 .. Len(m) : m[k] \in Nat /\ m[k] < start + i /\ start + i \in Nat
    BY <1>a, <1>b, <1>5
  <2>b. start + i \notin taken
    BY <2>a
  <2>2. taken # there
    BY <2>1, <2>b
  <2>3. Len(m) = limit
    BY <1>1, <1>5
  <2> QED
    BY <1>1, <1>2, <1>3, <1>5, <2>2, <2>3 DEF FindsFirst, M
<1> QED
  BY <1>4, <1>5

LEMMA ScanFinds ==
    ASSUME NEW data, Len(data) \in Nat, NEW pattern, NEW start \in Nat, NEW limit \in Nat
    PROVE  FindsFirst(Scan(data, start, pattern, limit)[<<BytesFind(data, pattern, 0), <<>>>>],
                      {start + j : j \in Matches(data, pattern)}, limit)
<1> DEFINE scan   == Scan(data, start, pattern, limit)
           there  == {start + j : j \in Matches(data, pattern)}
           Good(at) == Kept(data, start, pattern, limit, at[1], at[2])
           B == {at \in Positions : Good(at) /\ ~FindsFirst(scan[at], there, limit)}
           first == <<BytesFind(data, pattern, 0), <<>>>>
<1>1. first \in Positions /\ Good(first)
  <2>1. BytesFind(data, pattern, 0) \in Nat \cup {-1}
    BY FindsNext
  <2>2. <<>> \in Seq(Nat) /\ first[1] = BytesFind(data, pattern, 0) /\ first[2] = <<>>
    OBVIOUS
  <2>3. first \in Positions
    BY <2>1, <2>2 DEF Positions
  <2>4. Kept(data, start, pattern, limit, BytesFind(data, pattern, 0), <<>>)
    BY KeptAtFirst
  <2> QED
    BY <2>2, <2>3, <2>4
<1>2. SUFFICES ASSUME B # {} PROVE FALSE
  BY <1>1
<1>3. PICK at \in B : \A u \in B : ~(Left(data)[u] < Left(data)[at])
  <2> HIDE DEF B
  <2>1. B \subseteq Positions
    BY DEF B
  <2> QED
    BY <1>2, <2>1, LeftIs, Smallest
<1> DEFINE i == at[1]
           m == at[2]
<1>4. /\ at \in Positions /\ Good(at) /\ ~FindsFirst(scan[at], there, limit)
      /\ i \in Nat \cup {-1} /\ m \in Seq(Nat) /\ at = <<i, m>>
  BY DEF Positions
<1> HIDE DEF scan, there, B
<1>5. scan[at] = Scanned(data, start, pattern, limit, scan, i, m)
  BY <1>4, ScanUnfolds DEF scan
<1>6. CASE i = -1 \/ Len(m) >= limit
  <2>1. scan[at] = [matches |-> m, truncated |-> i # -1]
    BY <1>4, <1>5, <1>6 DEF Scanned
  <2>2. FindsFirst([matches |-> m, truncated |-> i # -1], there, limit)
    BY <1>4, <1>6, KeptIsFound DEF there
  <2> QED
    BY <1>4, <2>1, <2>2
<1>7. CASE ~(i = -1 \/ Len(m) >= limit)
  <2> DEFINE next == <<BytesFind(data, pattern, NextFrom(pattern, i)), Append(m, start + i)>>
  <2>1. i \in Nat /\ scan[at] = scan[next]
    BY <1>4, <1>5, <1>7 DEF Scanned
  <2>2. next \in Positions /\ Left(data)[next] < Left(data)[at]
    BY <1>4, <2>1, GoesOn
  <2>3. Good(next)
    BY <1>4, <1>7, <2>1, KeptGoingOn
  <2> HIDE DEF next, Good
  <2>4. next \in B
    BY <1>4, <2>1, <2>2, <2>3 DEF B
  <2> QED
    BY <1>3, <2>2, <2>4
<1> QED
  BY <1>6, <1>7

(* The window that find_bytes reads never goes past the last address, and  *)
(* is the whole of what was asked where there is room (ops.py:341).        *)
THEOREM WindowIsClamped ==
    ASSUME NEW start \in 0 .. AddressSpace, NEW length \in Int
    PROVE  /\ Window(start, length) \in Nat
           /\ start + Window(start, length) <= AddressSpace
           /\ length \in 0 .. AddressSpace - start => Window(start, length) = length
  BY AddressSpaceAssumption DEF Window

(* What find_bytes reads short of all of memory, and where the pattern is. *)
Read(memory, start, length) == [i \in 1 .. Window(start, length) |-> memory[start + i - 1]]

LEMMA WindowIs ==
    ASSUME NEW start \in 0 .. AddressSpace, NEW length \in Int
    PROVE  /\ Window(start, length) \in Nat
           /\ start + Window(start, length) <= AddressSpace
           /\ Window(start, length) <= length \/ Window(start, length) = 0
           /\ Window(start, length) = length \/ length < 0
                \/ start + Window(start, length) = AddressSpace
  BY AddressSpaceAssumption DEF Window

LEMMA ReadIs ==
    ASSUME NEW memory, NEW start \in 0 .. AddressSpace, NEW length \in Int
    PROVE  /\ Len(Read(memory, start, length)) = Window(start, length)
           /\ \A i \in 1 .. Window(start, length) :
                Read(memory, start, length)[i] = memory[start + i - 1]
<1> DEFINE n == Window(start, length)
           data == [i \in 1 .. n |-> memory[start + i - 1]]
<1>1. n \in Nat
  BY WindowIs
<1> HIDE DEF n
<1>2. Len(data) = n
  BY <1>1
<1> QED
  BY <1>2 DEF Read, n

LEMMA MatchesAreOccurrences ==
    ASSUME NEW memory, NEW start \in 0 .. AddressSpace, NEW length \in Int,
           NEW pattern, Len(pattern) \in Nat, Len(pattern) # 0 \/ length >= 0
    PROVE  {start + j : j \in Matches(Read(memory, start, length), pattern)}
             = Occurrences(memory, start, length, pattern)
<1> DEFINE n == Window(start, length)
           p == Len(pattern)
           data == Read(memory, start, length)
           there == {start + j : j \in Matches(data, pattern)}
<1>1. /\ n \in Nat /\ start + n <= AddressSpace /\ (n <= length \/ n = 0)
      /\ n = length \/ length < 0 \/ start + n = AddressSpace
      /\ start \in Nat /\ AddressSpace \in Nat
  <2>1. start \in Nat /\ AddressSpace \in Nat
    BY AddressSpaceAssumption
  <2> HIDE DEF data, there, p
  <2>2. /\ n \in Nat /\ start + n <= AddressSpace /\ (n <= length \/ n = 0)
        /\ n = length \/ length < 0 \/ start + n = AddressSpace
    BY WindowIs
  <2> QED
    BY <2>1, <2>2
<1>2. Len(data) = n /\ \A i \in 1 .. n : data[i] = memory[start + i - 1]
  BY ReadIs
<1> HIDE DEF n, data
<1>3. ASSUME NEW j \in Nat, j + p <= n
      PROVE  (\A k \in 1 .. p : data[j + k] = pattern[k])
                <=> (\A k \in 1 .. p : memory[start + j + k - 1] = pattern[k])
  <2>1. ASSUME NEW k \in 1 .. p PROVE data[j + k] = memory[start + j + k - 1]
    <3>1. j + k \in 1 .. n /\ start + (j + k) - 1 = start + j + k - 1
      BY <1>1, <1>3
    <3> QED
      BY <1>2, <3>1
  <2> QED
    BY <2>1
<1>4. ASSUME NEW j \in Matches(data, pattern)
      PROVE  start + j \in Occurrences(memory, start, length, pattern)
  <2>1. j \in Nat /\ j + p <= n /\ \A k \in 1 .. p : data[j + k] = pattern[k]
    BY <1>1, <1>2 DEF Matches, AtOffset
  <2>2. start + j \in start .. start + length - p /\ start + j + p <= AddressSpace
    BY <1>1, <2>1
  <2> QED
    BY <1>3, <2>1, <2>2 DEF Occurrences
<1>5. ASSUME NEW a \in Occurrences(memory, start, length, pattern)
      PROVE  a \in there
  <2> DEFINE j == a - start
  <2>1. /\ a \in start .. start + length - p /\ a + p <= AddressSpace
        /\ \A k \in 1 .. p : memory[a + k - 1] = pattern[k]
    BY DEF Occurrences
  <2>2. j \in Nat /\ j + p <= n /\ j \in 0 .. n /\ a = start + j
    BY <1>1, <2>1
  <2>3. \A k \in 1 .. p : data[j + k] = pattern[k]
    BY <1>3, <2>1, <2>2
  <2>4. j \in Matches(data, pattern)
    BY <1>2, <2>2, <2>3 DEF Matches, AtOffset
  <2> QED
    BY <2>2, <2>4
<1> QED
  BY <1>4, <1>5 DEF data

LEMMA FindReads ==
    ASSUME NEW memory, NEW start \in 0 .. AddressSpace - 1, NEW length \in Int,
           NEW pattern, NEW limit, Window(start, length) # AddressSpace
    PROVE  LET data == Read(memory, start, length)
               all  == {Scan(data, start, pattern, limit)[<<BytesFind(data, pattern, 0), <<>>>>]}
           IN  /\ FindBytes(memory, start, length, pattern, limit) \in {{}, all}
               /\ Window(start, length) # 0 =>
                    FindBytes(memory, start, length, pattern, limit) = all
<1> DEFINE n == Window(start, length)
<1>1. n \in Nat /\ n < AddressSpace
  <2>1. start \in 0 .. AddressSpace /\ start \in Nat /\ AddressSpace \in Nat
    BY AddressSpaceAssumption
  <2>2. n \in Nat /\ start + n <= AddressSpace
    BY <2>1, WindowIs
  <2> HIDE DEF n
  <2>3. n # AddressSpace
    BY DEF n
  <2> QED
    BY <2>1, <2>2, <2>3
<1> HIDE DEF n
<1>2. n % AddressSpace = n
  BY <1>1, AddressSpaceAssumption
<1> DEFINE data == Read(memory, start, length)
           all  == {Scan(data, start, pattern, limit)[<<BytesFind(data, pattern, 0), <<>>>>]}
<1>3. data = [i \in 1 .. n % AddressSpace |-> memory[start + i - 1]]
  BY <1>2 DEF Read, n
<1>4. MemoryRead(memory, start, n) = IF n = 0 /\ start = 0 THEN {} ELSE {data}
  BY <1>3 DEF MemoryRead
<1>5. FindBytes(memory, start, length, pattern, limit)
        = {Scan(d, start, pattern, limit)[<<BytesFind(d, pattern, 0), <<>>>>]
              : d \in MemoryRead(memory, start, n)}
  BY DEF FindBytes, n
<1> HIDE DEF data
<1>6. FindBytes(memory, start, length, pattern, limit)
        = IF n = 0 /\ start = 0 THEN {} ELSE all
  BY <1>4, <1>5
<1> QED
  BY <1>6 DEF n, data

(* In every memory, from every start, for every length, pattern and limit: *)
(* a window of some addresses, but not all, is answered, and the answer of *)
(* any window but all of memory is the first occurrences and whether there *)
(* are more (AnswersRight; ops.py:336-352, monitor.py:144-148,             *)
(* protocol.py:129-131).                                                   *)
THEOREM SearchIsRight ==
    ASSUME NEW memory, NEW start \in 0 .. AddressSpace - 1, NEW length \in Int,
           NEW pattern, Len(pattern) \in Nat, Len(pattern) # 0 \/ length >= 0,
           NEW limit \in Nat
    PROVE  AnswersRight(memory, start, length, pattern, limit)
<1> DEFINE data == Read(memory, start, length)
           answers == FindBytes(memory, start, length, pattern, limit)
           found == Scan(data, start, pattern, limit)[<<BytesFind(data, pattern, 0), <<>>>>]
<1>1. Len(data) \in Nat /\ start \in Nat /\ start \in 0 .. AddressSpace
  BY ReadIs, WindowIs, AddressSpaceAssumption
<1>2. Window(start, length) # AddressSpace =>
        /\ answers \in {{}, {found}}
        /\ Window(start, length) # 0 => answers = {found}
  BY FindReads
<1> HIDE DEF data, answers
<1>3. FindsFirst(found, {start + j : j \in Matches(data, pattern)}, limit)
  BY <1>1, ScanFinds
<1>4. {start + j : j \in Matches(data, pattern)} = Occurrences(memory, start, length, pattern)
  BY <1>1, MatchesAreOccurrences DEF data
<1> HIDE DEF found
<1>5. Window(start, length) # AddressSpace =>
        \A f \in answers : FindsFirst(f, Occurrences(memory, start, length, pattern), limit)
  BY <1>2, <1>3, <1>4
<1>6. ASSUME Window(start, length) \in 1 .. AddressSpace - 1
      PROVE  answers # {}
  <2>1. Window(start, length) # 0 /\ Window(start, length) # AddressSpace
    BY <1>6, AddressSpaceAssumption
  <2>2. answers = {found}
    BY <1>2, <2>1
  <2> QED
    BY <2>2
<1> QED
  BY <1>5, <1>6 DEF AnswersRight, answers

(* Hence what the run tries of searches holds for every memory, pattern    *)
(* and limit (ops.py:336-352).                                             *)
THEOREM SearchesAreExact == SearchIsExact
<1> SUFFICES ASSUME NEW memory \in [0 .. AddressSpace - 1 -> Values],
                    NEW start \in 0 .. AddressSpace - 1, NEW length \in 0 .. AddressSpace + 1,
                    NEW pattern \in Patterns, NEW limit \in Limits
             PROVE  AnswersRight(memory, start, length, pattern, limit)
  BY DEF SearchIsExact
<1>1. length \in Int /\ length >= 0
  BY AddressSpaceAssumption
<1>2. Len(pattern) \in Nat /\ limit \in Nat
  BY SearchAssumption
<1> QED
  BY <1>1, <1>2, SearchIsRight

-----------------------------------------------------------------------------
(***************************************************************************)
(* References.  What precedes and what follows a separator is shorter than *)
(* the text, so that parse_ref's calls of itself come to an end.           *)
(***************************************************************************)
LEMMA Pieces ==
    ASSUME NEW text \in Seq(Token), NEW i \in 2 .. Len(text)
    PROVE  /\ SubSeq(text, 1, i - 1) \in Seq(Token) /\ Len(SubSeq(text, 1, i - 1)) = i - 1
           /\ SubSeq(text, i + 1, Len(text)) \in Seq(Token)
           /\ Len(SubSeq(text, i + 1, Len(text))) = Len(text) - i
           /\ \A k \in 1 .. Len(text) - i : SubSeq(text, i + 1, Len(text))[k] = text[i + k]
<1>1. /\ Len(text) \in Nat /\ i \in Nat /\ i <= Len(text) /\ i >= 2
      /\ \A k \in 1 .. Len(text) : text[k] \in Token
  OBVIOUS
<1>2. SubSeq(text, 1, i - 1) \in Seq(Token) /\ Len(SubSeq(text, 1, i - 1)) = i - 1
  BY <1>1
<1>3. /\ SubSeq(text, i + 1, Len(text)) \in Seq(Token)
      /\ Len(SubSeq(text, i + 1, Len(text))) = Len(text) - i
  BY <1>1
<1>4. \A k \in 1 .. Len(text) - i : SubSeq(text, i + 1, Len(text))[k] = text[i + k]
  BY <1>1
<1> QED
  BY <1>2, <1>3, <1>4

LEMMA NumbersAreInts ==
    ASSUME NEW text \in Seq(Token)
    PROVE  ParseNumber(text) \subseteq Int
<1>1. \A k \in 1 .. Len(text) : text[k][2] \in Int
  BY DEF Token
<1>2. CASE Unsigned(text)
  BY <1>1, <1>2 DEF ParseNumber, Unsigned
<1>3. CASE ~Unsigned(text)
  BY <1>1, <1>3 DEF ParseNumber, Signed
<1> QED
  BY <1>2, <1>3

Labelled(labels) ==
    \A name \in DOMAIN labels : labels[name] \in Int

LEMMA OffsetsAreInts ==
    ASSUME NEW text \in Seq(Token), NEW sep, NEW parse,
           \A t \in Seq(Token) : parse[t] \in SUBSET Int
    PROVE  Offset(parse, text, sep) \in SUBSET Int
<1>1. ASSUME NEW i \in LastSeparator(text, sep),
             NEW base \in parse[SubSeq(text, 1, i - 1)],
             NEW off \in ParseNumber(SubSeq(text, i + 1, Len(text)))
      PROVE  base + Signed(sep, off) \in Int
  <2>1. i \in 2 .. Len(text)
    BY DEF LastSeparator
  <2>2. base \in Int /\ off \in Int
    BY <2>1, Pieces, NumbersAreInts
  <2> QED
    BY <2>2 DEF Signed
<1> QED
  BY <1>1 DEF Offset

LEMMA ParsedIsInt ==
    ASSUME NEW labels, Labelled(labels), NEW text \in Seq(Token), NEW parse,
           \A t \in Seq(Token) : parse[t] \in SUBSET Int
    PROVE  Parsed(labels, parse, text) \in SUBSET Int
<1>1. Offset(parse, text, Plus) \in SUBSET Int /\ Offset(parse, text, Minus) \in SUBSET Int
  BY OffsetsAreInts
<1>2. ParseNumber(text) \in SUBSET Int
  BY NumbersAreInts
<1>3. Resolve(labels, text) \in SUBSET Int
  BY DEF Resolve, Labelled
<1> QED
  BY <1>1, <1>2, <1>3 DEF Parsed

LEMMA OffsetLooksBack ==
    ASSUME NEW text \in Seq(Token), NEW sep, NEW f, NEW g,
           \A t \in Seq(Token) : Len(t) < Len(text) => f[t] = g[t]
    PROVE  Offset(f, text, sep) = Offset(g, text, sep)
<1>1. ASSUME NEW i \in LastSeparator(text, sep)
      PROVE  f[SubSeq(text, 1, i - 1)] = g[SubSeq(text, 1, i - 1)]
  <2>1. i \in 2 .. Len(text) /\ Len(text) \in Nat
    BY DEF LastSeparator
  <2>2. SubSeq(text, 1, i - 1) \in Seq(Token) /\ Len(SubSeq(text, 1, i - 1)) < Len(text)
    BY <2>1, Pieces
  <2> QED
    BY <2>2
<1> QED
  BY <1>1 DEF Offset

LEMMA ParseUnfolds ==
    ASSUME NEW labels, Labelled(labels), NEW text \in Seq(Token)
    PROVE  ParseRef(labels, text) = Parsed(labels, Parser(labels), text)
<1> DEFINE Texts == Seq(Token)
           R     == SUBSET Int
           size  == [t \in Texts |-> Len(t)]
           Body(g, t) == Parsed(labels, g, t)
           F     == [g \in [Texts -> R] |-> [t \in Texts |-> Body(g, t)]]
           parse == Parser(labels)
<1>1. ASSUME NEW g \in [Texts -> R], NEW t \in Texts PROVE Body(g, t) \in R
  BY ParsedIsInt
<1>2. ASSUME NEW g \in [Texts -> R], NEW h \in [Texts -> R], NEW t \in Texts,
             \A u \in Texts : size[u] < size[t] => g[u] = h[u]
      PROVE  Body(g, t) = Body(h, t)
  <2>1. \A u \in Texts : Len(u) < Len(t) => g[u] = h[u]
    BY <1>2
  <2>2. \A sep : Offset(g, t, sep) = Offset(h, t, sep)
    BY <2>1, OffsetLooksBack
  <2> QED
    BY <2>2 DEF Parsed
<1>3. size \in [Texts -> Nat] /\ {} \in R
  OBVIOUS
<1> HIDE DEF Texts, R, size, Body
<1>4. DOMAIN F = Tables(Texts, R) /\ \A g \in Tables(Texts, R) : F[g] \in Tables(Texts, R)
  BY <1>1 DEF Tables
<1>5. Descends(F, Texts, size)
  BY <1>2 DEF Descends
<1>6. PICK h \in Tables(Texts, R) : F[h] = h
  <2> HIDE DEF F
  <2> QED
    BY <1>3, <1>4, <1>5, Recursion
<1>7. h = [t \in Texts |-> Body(h, t)]
  BY <1>6 DEF Tables
<1>8. parse = [t \in Texts |-> Body(parse, t)]
  BY <1>7 DEF Parser, Body, Texts
<1> HIDE DEF parse
<1>9. parse[text] = Body(parse, text)
  BY <1>8 DEF Texts
<1> QED
  BY <1>9 DEF ParseRef, Body, parse

LEMMA TailOfTwo ==
    ASSUME NEW t \in Seq(Token), Len(t) = 2
    PROVE  Tail(t)[1] = t[2] /\ Len(Tail(t)) = 1
<1>1. t # <<>>
  OBVIOUS
<1>2. Len(Tail(t)) = Len(t) - 1 /\ \A i \in 1 .. Len(Tail(t)) : Tail(t)[i] = t[i + 1]
  BY <1>1, HeadTailProperties
<1> DEFINE u == Tail(t)
<1>3. Len(u) = Len(t) - 1 /\ \A i \in 1 .. Len(u) : u[i] = t[i + 1]
  BY <1>2
<1> HIDE DEF u
<1>4. Len(u) = 1 /\ u[1] = t[2]
  BY <1>3
<1> QED
  BY <1>4 DEF u

(* A separator with too much behind it, or with no number behind it, makes *)
(* no offset.                                                              *)
LEMMA NoOffset ==
    ASSUME NEW text \in Seq(Token), NEW sep, NEW parse,
           \A i \in LastSeparator(text, sep) :
                Len(text) - i >= 3 \/ text[Len(text)][1] # "number"
    PROVE  Offset(parse, text, sep) = {}
<1>1. ASSUME NEW i \in LastSeparator(text, sep)
      PROVE  ParseNumber(SubSeq(text, i + 1, Len(text))) = {}
  <2> DEFINE tail == SubSeq(text, i + 1, Len(text))
             n    == Len(text) - i
  <2>1. i \in 2 .. Len(text) /\ Len(text) \in Nat
    BY DEF LastSeparator
  <2>2. /\ tail \in Seq(Token) /\ Len(tail) = n /\ n \in Nat
        /\ \A k \in 1 .. n : tail[k] = text[i + k]
    BY <2>1, Pieces
  <2>3. n # 0 => tail[n] = text[Len(text)]
    BY <2>1, <2>2
  <2>4. n >= 3 \/ (n # 0 => tail[n][1] # "number")
    BY <1>1, <2>3
  <2> HIDE DEF tail, n
  <2>5. ASSUME n = 2 PROVE Tail(tail)[1] = tail[n] /\ Len(Tail(tail)) = 1
    <3>1. tail \in Seq(Token) /\ Len(tail) = 2
      BY <2>2, <2>5
    <3>2. Tail(tail)[1] = tail[2] /\ Len(Tail(tail)) = 1
      BY <3>1, TailOfTwo
    <3> QED
      BY <2>5, <3>2
  <2>6. ~Unsigned(tail)
    BY <2>2, <2>4 DEF Unsigned
  <2>7. ~(Len(tail) = 2 /\ Unsigned(Tail(tail)))
    BY <2>2, <2>4, <2>5 DEF Unsigned
  <2> QED
    BY <2>6, <2>7 DEF ParseNumber, tail
<1> QED
  BY <1>1 DEF Offset

LEMMA SymbolParses ==
    ASSUME NEW labels, Labelled(labels), NEW name \in DOMAIN labels, IsSymbol(name)
    PROVE  ParseRef(labels, name) = {labels[name]}
<1>1. /\ name \in Seq(Token) /\ name[Len(name)][1] # "number" /\ Len(name) \in Nat
  BY DEF IsSymbol
<1>2. \A sep : Offset(Parser(labels), name, sep) = {}
  BY <1>1, NoOffset
<1>3. ~Unsigned(name)
  BY <1>1 DEF Unsigned
<1>4. Resolve(labels, name) = {labels[name]}
  BY DEF Resolve
<1> QED
  BY <1>1, <1>2, <1>3, <1>4, ParseUnfolds DEF Parsed

(* What a text with two more tokens is made of.                            *)
LEMMA Extended ==
    ASSUME NEW base \in Seq(Token), NEW p \in Token, NEW q \in Token
    PROVE  LET text == base \o <<p, q>>
               n    == Len(base)
           IN  /\ text \in Seq(Token) /\ n \in Nat /\ Len(text) = n + 2
               /\ \A k \in 1 .. n : text[k] = base[k]
               /\ text[n + 1] = p /\ text[n + 2] = q
               /\ SubSeq(text, 1, n) = base
               /\ SubSeq(text, n + 2, n + 2) = <<q>>
<1> DEFINE text == base \o <<p, q>>
           n    == Len(base)
<1>1. /\ text \in Seq(Token) /\ n \in Nat /\ Len(text) = n + 2
      /\ \A k \in 1 .. n : text[k] = base[k]
      /\ text[n + 1] = p /\ text[n + 2] = q
  OBVIOUS
<1> HIDE DEF text
<1>2. SubSeq(text, 1, n) = base
  <2>1. /\ SubSeq(text, 1, n) \in Seq(Token) /\ Len(SubSeq(text, 1, n)) = n
        /\ \A k \in 1 .. n : SubSeq(text, 1, n)[k] = base[k]
    BY <1>1
  <2> QED
    BY <2>1
<1>3. SubSeq(text, n + 2, n + 2) = <<q>>
  <2>1. /\ SubSeq(text, n + 2, n + 2) \in Seq(Token) /\ Len(SubSeq(text, n + 2, n + 2)) = 1
        /\ SubSeq(text, n + 2, n + 2)[1] = q
    BY <1>1
  <2> DEFINE s == SubSeq(text, n + 2, n + 2)
  <2> HIDE DEF s
  <2>2. s \in Seq(Token) /\ Len(s) = 1 /\ s[1] = q
    BY <2>1 DEF s
  <2>3. s = <<q>>
    BY <2>2
  <2> QED
    BY <2>3 DEF s
<1> QED
  BY <1>1, <1>2, <1>3 DEF text

LEMMA TokensAre ==
    /\ Plus \in Token /\ Minus \in Token /\ Plus # Minus
    /\ \A v \in Int : Number(v) \in Token /\ Number(v) # Plus /\ Number(v) # Minus
                      /\ Number(v)[1] = "number" /\ Number(v)[2] = v
  BY DEF Plus, Minus, Number, Token

(* A separator and a number at the end of a text make an offset.           *)
LEMMA EndsInOffset ==
    ASSUME NEW parse, NEW base \in Seq(Token), base # <<>>, NEW sep \in {Plus, Minus},
           NEW v \in Int, NEW x \in Int, parse[base] = {x}
    PROVE  Offset(parse, base \o <<sep, Number(v)>>, sep)
             = {x + Signed(sep, v)}
<1> DEFINE text == base \o <<sep, Number(v)>>
           n    == Len(base)
<1>1. /\ text \in Seq(Token) /\ n \in Nat /\ n # 0 /\ Len(text) = n + 2
      /\ text[n + 1] = sep /\ text[n + 2] # sep
      /\ SubSeq(text, 1, n) = base /\ SubSeq(text, n + 2, n + 2) = <<Number(v)>>
  BY TokensAre, Extended
<1> HIDE DEF text, n
<1>2. LastSeparator(text, sep) = {n + 1}
  <2>1. n + 1 \in LastSeparator(text, sep)
    BY <1>1 DEF LastSeparator
  <2>2. ASSUME NEW i \in LastSeparator(text, sep) PROVE i = n + 1
    BY <1>1, <2>2 DEF LastSeparator
  <2> QED
    BY <2>1, <2>2
<1>3. ParseNumber(<<Number(v)>>) = {v}
  BY DEF ParseNumber, Unsigned, Number
<1>4. /\ SubSeq(text, 1, (n + 1) - 1) = base
      /\ SubSeq(text, (n + 1) + 1, Len(text)) = <<Number(v)>>
  BY <1>1
<1>5. ASSUME NEW i \in LastSeparator(text, sep)
      PROVE  {b + Signed(sep, off) : b \in parse[SubSeq(text, 1, i - 1)],
                                     off \in ParseNumber(SubSeq(text, i + 1, Len(text)))}
               = {x + Signed(sep, v)}
  <2>1. i = n + 1
    BY <1>2
  <2>2. /\ parse[SubSeq(text, 1, i - 1)] = {x}
        /\ ParseNumber(SubSeq(text, i + 1, Len(text))) = {v}
    BY <1>3, <1>4, <2>1
  <2> QED
    BY <2>2
<1>6. Offset(parse, text, sep) = {x + Signed(sep, v)}
  <2> DEFINE At(i) == {b + Signed(sep, off) : b \in parse[SubSeq(text, 1, i - 1)],
                                              off \in ParseNumber(SubSeq(text, i + 1, Len(text)))}
  <2>1. Offset(parse, text, sep) = UNION {At(i) : i \in LastSeparator(text, sep)}
    BY DEF Offset
  <2>2. \A i \in LastSeparator(text, sep) : At(i) = {x + Signed(sep, v)}
    BY <1>5
  <2> HIDE DEF At
  <2> QED
    BY <1>2, <2>1, <2>2
<1> QED
  BY <1>6 DEF text

LEMMA TermParses ==
    ASSUME NEW labels, Labelled(labels), NEW base \in Seq(Token), base # <<>>,
           NEW v \in Int, NEW x \in Int, ParseRef(labels, base) = {x},
           v < 0 => Offset(Parser(labels), base \o Term(v), Plus) = {}
    PROVE  ParseRef(labels, base \o Term(v)) = {x + v}
<1> DEFINE text == base \o Term(v)
<1>1. Parser(labels)[base] = {x}
  BY DEF ParseRef
<1>2. text \in Seq(Token)
  <2>1. Term(v) \in Seq(Token)
    BY TokensAre DEF Term
  <2> QED
    BY <2>1
<1>3. ParseRef(labels, text) = Parsed(labels, Parser(labels), text)
  BY <1>2, ParseUnfolds
<1>4. CASE v >= 0
  <2>1. Term(v) = <<Plus, Number(v)>> /\ Plus \in {Plus, Minus}
    BY <1>4 DEF Term
  <2>2. Offset(Parser(labels), base \o <<Plus, Number(v)>>, Plus) = {x + Signed(Plus, v)}
    BY <1>1, <2>1, EndsInOffset
  <2>3. Signed(Plus, v) = v
    BY DEF Signed
  <2>4. Offset(Parser(labels), text, Plus) = {x + v}
    BY <2>1, <2>2, <2>3
  <2> QED
    BY <1>3, <2>4 DEF Parsed
<1>5. CASE v < 0
  <2> DEFINE w == -v
  <2>1. Term(v) = <<Minus, Number(w)>> /\ w \in Int /\ Minus \in {Plus, Minus}
    BY <1>5 DEF Term
  <2> HIDE DEF w
  <2>2. Offset(Parser(labels), base \o <<Minus, Number(w)>>, Minus) = {x + Signed(Minus, w)}
    BY <1>1, <2>1, EndsInOffset
  <2>3. Signed(Minus, w) = v
    BY TokensAre DEF Signed, w
  <2>4. Offset(Parser(labels), text, Minus) = {x + v}
    BY <2>1, <2>2, <2>3
  <2>5. Offset(Parser(labels), text, Plus) = {}
    BY <1>5
  <2> HIDE DEF text
  <2>6. ParseRef(labels, text) = {x + v}
    BY <1>3, <2>4, <2>5 DEF Parsed
  <2> QED
    BY <2>6 DEF text
<1> QED
  BY <1>4, <1>5

(* Two terms behind a symbol: the first leaves no offset at a "+" that the *)
(* second's "-" would have to give way to.                                 *)
LEMMA TermTokens ==
    ASSUME NEW v \in Int
    PROVE  \E sep \in {Plus, Minus}, w \in Int :
             Term(v) = <<sep, Number(w)>> /\ (v < 0 => sep = Minus)
  BY DEF Term

LEMMA NoPlusAfterSymbol ==
    ASSUME NEW name, IsSymbol(name), NEW parse, NEW v \in Int, v < 0
    PROVE  Offset(parse, name \o Term(v), Plus) = {}
<1> DEFINE n == Len(name)
<1>1. /\ name \in Seq(Token) /\ \A k \in 1 .. n : name[k] # Plus
  BY DEF IsSymbol
<1>2. PICK w \in Int : Term(v) = <<Minus, Number(w)>>
  BY DEF Term
<1> DEFINE text == name \o <<Minus, Number(w)>>
<1>3. /\ text \in Seq(Token) /\ n \in Nat /\ Len(text) = n + 2
      /\ \A k \in 1 .. n : text[k] = name[k]
      /\ text[n + 1] = Minus /\ text[n + 2] = Number(w)
  BY <1>1, Extended, TokensAre
<1> HIDE DEF text, n
<1>4. ASSUME NEW i \in LastSeparator(text, Plus) PROVE FALSE
  <2>1. i \in 2 .. n + 2 /\ text[i] = Plus
    BY <1>3 DEF LastSeparator
  <2>2. i \in 1 .. n \/ i = n + 1 \/ i = n + 2
    BY <1>3, <2>1
  <2> QED
    BY <1>1, <1>3, <2>1, <2>2, TokensAre
<1>5. Offset(parse, text, Plus) = {}
  BY <1>3, <1>4, NoOffset
<1> QED
  BY <1>2, <1>5 DEF text

LEMMA NoPlusAfterTerm ==
    ASSUME NEW name, IsSymbol(name), NEW parse, NEW d \in Int, NEW e \in Int, e < 0
    PROVE  Offset(parse, (name \o Term(d)) \o Term(e), Plus) = {}
<1> DEFINE n == Len(name)
<1>1. /\ name \in Seq(Token) /\ \A k \in 1 .. n : name[k] # Plus
  BY DEF IsSymbol
<1>2. PICK sep \in {Plus, Minus}, u \in Int : Term(d) = <<sep, Number(u)>>
  BY TermTokens
<1>3. PICK w \in Int : Term(e) = <<Minus, Number(w)>>
  BY DEF Term
<1> DEFINE base == name \o <<sep, Number(u)>>
           text == base \o <<Minus, Number(w)>>
<1>4. /\ base \in Seq(Token) /\ n \in Nat /\ Len(base) = n + 2
      /\ \A k \in 1 .. n : base[k] = name[k]
      /\ base[n + 2] = Number(u)
  BY <1>1, Extended, TokensAre
<1> HIDE DEF base, n
<1>5. /\ text \in Seq(Token) /\ Len(text) = n + 4
      /\ \A k \in 1 .. n + 2 : text[k] = base[k]
      /\ text[n + 3] = Minus /\ text[n + 4] = Number(w)
  <2>1. /\ text \in Seq(Token) /\ Len(text) = Len(base) + 2
        /\ \A k \in 1 .. Len(base) : text[k] = base[k]
        /\ text[Len(base) + 1] = Minus /\ text[Len(base) + 2] = Number(w)
    BY <1>4, Extended, TokensAre
  <2> HIDE DEF text
  <2>2. Len(base) + 2 = n + 4 /\ Len(base) + 1 = n + 3
    BY <1>4
  <2> QED
    BY <1>4, <2>1, <2>2
<1> HIDE DEF text
<1>6. ASSUME NEW i \in LastSeparator(text, Plus) PROVE Len(text) - i >= 3
  <2>1. i \in 2 .. n + 4 /\ text[i] = Plus
    BY <1>5 DEF LastSeparator
  <2>2. i # n + 4 /\ i # n + 3 /\ i # n + 2
    BY <1>4, <1>5, <2>1, TokensAre
  <2> QED
    BY <1>4, <1>5, <2>1, <2>2
<1>7. Offset(parse, text, Plus) = {}
  BY <1>5, <1>6, NoOffset
<1> QED
  BY <1>2, <1>3, <1>7 DEF base, text

LEMMA OneTerm ==
    ASSUME NEW labels, Labelled(labels), NEW name \in DOMAIN labels, IsSymbol(name),
           NEW d \in Int
    PROVE  ParseRef(labels, name \o Term(d)) = {labels[name] + d}
<1>1. ParseRef(labels, name) = {labels[name]} /\ labels[name] \in Int
  BY SymbolParses DEF Labelled
<1>2. d < 0 => Offset(Parser(labels), name \o Term(d), Plus) = {}
  BY NoPlusAfterSymbol
<1>3. name \in Seq(Token) /\ name # <<>>
  BY DEF IsSymbol
<1> QED
  BY <1>1, <1>2, <1>3, TermParses

(* A symbol with two offsets is the sum of the three, whatever their signs *)
(* and whether or not the symbol has hyphens (ops.py:32-80).               *)
THEOREM ReferencesAddUp ==
    ASSUME NEW labels, Labelled(labels), NEW name \in DOMAIN labels, IsSymbol(name),
           NEW d \in Int, NEW e \in Int
    PROVE  AddsUp(labels, name, d, e)
<1> DEFINE base == name \o Term(d)
           x    == labels[name] + d
<1>1. ParseRef(labels, base) = {x} /\ x \in Int
  BY OneTerm DEF Labelled
<1>2. e < 0 => Offset(Parser(labels), base \o Term(e), Plus) = {}
  BY NoPlusAfterTerm
<1>3. base \in Seq(Token) /\ base # <<>>
  <2>1. PICK sep \in {Plus, Minus}, u \in Int : Term(d) = <<sep, Number(u)>>
    BY TermTokens
  <2>2. name \in Seq(Token)
    BY DEF IsSymbol
  <2>3. base \in Seq(Token) /\ Len(base) = Len(name) + 2 /\ Len(name) \in Nat
    BY <2>1, <2>2, Extended, TokensAre
  <2> HIDE DEF base
  <2> QED
    BY <2>3
<1> HIDE DEF base, x
<1>4. ParseRef(labels, base \o Term(e)) = {x + e}
  BY <1>1, <1>2, <1>3, TermParses
<1>5. x + e = labels[name] + d + e
  BY DEF x, Labelled
<1>6. ParseRef(labels, name \o Term(d) \o Term(e)) = {labels[name] + d + e}
  BY <1>4, <1>5 DEF base
<1> QED
  BY <1>6 DEF AddsUp

(* What pc_symbol calls an address reads as that address again             *)
(* (ops.py:32-80, symbols.py:44-52).                                       *)
THEOREM SymbolsReadBack ==
    ASSUME NEW labels, Labelled(labels), \A name \in DOMAIN labels : IsSymbol(name),
           NEW addr \in Int
    PROVE  ReadsBack(labels, addr)
<1>1. SUFFICES ASSUME NEW n \in Nearest(labels, addr)
      PROVE  ParseRef(labels, IF addr = labels[n] THEN n
                              ELSE n \o <<Plus, Number(addr - labels[n])>>) = {addr}
  BY DEF ReadsBack, PcSymbol
<1> DEFINE d == addr - labels[n]
<1>2. /\ n \in DOMAIN labels /\ d \in 0 .. 255 /\ IsSymbol(n) /\ labels[n] \in Int
  BY DEF Nearest, Near, Labelled
<1>3. CASE addr = labels[n]
  BY <1>2, <1>3, SymbolParses
<1>4. CASE addr # labels[n]
  <2>1. d \in Int /\ Term(d) = <<Plus, Number(d)>> /\ labels[n] + d = addr
    BY <1>2 DEF Term
  <2> HIDE DEF d
  <2>2. ParseRef(labels, n \o Term(d)) = {labels[n] + d}
    BY <1>2, <2>1, OneTerm
  <2> QED
    BY <1>4, <2>1, <2>2 DEF d
<1> QED
  BY <1>3, <1>4

(* Hence what the run tries of references holds for any labels             *)
(* (ops.py:32-80, symbols.py:44-52).                                       *)
THEOREM ReferencesDoRead == ReferencesRead
<1> SUFFICES ASSUME NEW labels \in LabelMaps
             PROVE  /\ \A name \in DOMAIN labels, d, e \in Addends : AddsUp(labels, name, d, e)
                    /\ \A addr \in Addresses : ReadsBack(labels, addr)
  BY DEF ReferencesRead
<1>1. Labelled(labels) /\ \A name \in DOMAIN labels : IsSymbol(name)
  BY LabelsAssumption DEF Labelled
<1>2. ASSUME NEW name \in DOMAIN labels, NEW d \in Addends, NEW e \in Addends
      PROVE  AddsUp(labels, name, d, e)
  BY <1>1, NumbersAssumption, ReferencesAddUp
<1>3. ASSUME NEW addr \in Addresses PROVE ReadsBack(labels, addr)
  BY <1>1, NumbersAssumption, SymbolsReadBack
<1> QED
  BY <1>2, <1>3

(* pc_symbol's label is never above the address nor a page below it, and   *)
(* no other label is nearer (symbols.py:44-52).                            *)
THEOREM NearestIsNearest ==
    ASSUME NEW Names, NEW labels \in [Names -> Nat], NEW addr \in Nat,
           NEW n \in Nearest(labels, addr)
    PROVE  /\ labels[n] \in addr - 255 .. addr
           /\ \A m \in Names : labels[m] <= addr => labels[m] <= labels[n]
  BY DEF Nearest, Near
=============================================================================
