------------------------ MODULE RespawnBreakerProofs ------------------------
(***************************************************************************)
(* Proofs about the circuit breaker, for any clients, limit, window and    *)
(* grain and any bounds: unless two clients have the file open at once, it *)
(* trips on nothing but a burst (RefusesBursts), and, where no client races*)
(* another, on every burst (SeesBursts).                                   *)
(***************************************************************************)
EXTENDS RespawnBreaker, FiniteSetTheorems, SequenceTheorems, TLAPS

InFile == {"read", "opened"}

(* What holds of a list of stamps s, given the respawns r: its entries are *)
(* times of respawns, in their order, rounded or not.                      *)
Sources(s, r) == {f \in [1 .. Len(s) -> 1 .. Len(r)] :
    /\ \A j, k \in 1 .. Len(s) : j < k => f[j] < f[k]
    /\ \A j \in 1 .. Len(s) : s[j] = r[f[j]] \/ s[j] = Rounded(r[f[j]])}

Sourced(s, r) == Sources(s, r) # {}

Ordered(r) == \A j, k \in 1 .. Len(r) : j <= k => r[j] <= r[k]

TypeInv ==
    /\ TypeOK
    /\ \A c \in Client : /\ Len(mine[c]) <= Limit
                         /\ verdict[c] = "idle" => mine[c] = <<>>

(* No list is longer than the respawns there were, torn or not.            *)
LengthInv ==
    /\ Len(stamps) <= Len(respawns)
    /\ \A c \in Client : Len(mine[c]) <= Len(respawns)

(* The respawns are in order.                                              *)
ClockInv ==
    /\ Ordered(respawns)
    /\ \A j \in 1 .. Len(respawns) : respawns[j] <= now

(* While no two clients have had the file open at once, every list tells of*)
(* respawns, each once and in their order.                                 *)
BurstInv == ~overlaid =>
    /\ Sourced(stamps, respawns)
    /\ \A c \in Client : Sourced(mine[c], respawns)
    /\ \A c \in Client : verdict[c] = "opened" => stamps = <<>>
    /\ \A c, d \in Client : verdict[c] = "opened" /\ verdict[d] = "opened" => c = d

(* How many of n respawns a list keeps, and the k-th of those.             *)
Some(n)    == IF n > Limit THEN Limit ELSE n
At(r, l, k) == r[Len(r) - l + k]

(* The list holds the last respawns, rounded but for, in a client's list,  *)
(* its own.                                                                *)
Echo(s, r) == /\ Len(s) = Some(Len(r))
              /\ \A j \in 1 .. Len(s) : s[j] = Rounded(At(r, Len(s), j))

OwnEcho(s, r) == /\ Len(r) > 0
                 /\ Len(s) = Some(Len(r))
                 /\ s[Len(s)] = At(r, Len(s), Len(s))
                 /\ \A j \in 1 .. (Len(s) - 1) : s[j] = Rounded(At(r, Len(s), j))

AloneInv == ~raced =>
    /\ \A c, d \in Client : verdict[c] \in InFile /\ verdict[d] \in InFile => c = d
    /\ (\A c \in Client : verdict[c] \notin InFile) => Echo(stamps, respawns)
    /\ \A c \in Client : verdict[c] \in InFile => OwnEcho(mine[c], respawns)
    /\ \A c \in Client : verdict[c] = "opened" => stamps = <<>>

-----------------------------------------------------------------------------
(* Rounding to the nearest multiple of Grain.                              *)
LEMMA RoundedNear ==
    ASSUME NEW t \in Nat
    PROVE  /\ (t + Grain \div 2) \div Grain \in Nat
           /\ Grain \div 2 \in Nat
           /\ Rounded(t) <= t + Grain \div 2
           /\ t <= Rounded(t) + Grain \div 2
<1>1. Grain \in Nat /\ Grain > 0
  BY BreakerAssumptions
<1>2. Grain \div 2 \in Nat /\ Grain <= 2 * (Grain \div 2) + 1
  BY <1>1
<1> DEFINE x == t + Grain \div 2
<1>3. x \in Nat
  BY <1>2
<1> HIDE DEF x
<1>4. /\ x \div Grain \in Nat /\ (x \div Grain) * Grain <= x
      /\ x < (x \div Grain) * Grain + Grain
  BY <1>1, <1>3
<1> QED
  BY <1>1, <1>2, <1>3, <1>4 DEF Rounded, x

LEMMA RoundedTwice ==
    ASSUME NEW t \in Nat
    PROVE  Rounded(t) \in Nat /\ Rounded(Rounded(t)) = Rounded(t)
<1>1. Grain \in Nat /\ Grain > 0 /\ Grain \div 2 \in Nat /\ Grain \div 2 < Grain
  BY BreakerAssumptions
<1> DEFINE q == (t + Grain \div 2) \div Grain
<1>2. q \in Nat /\ Rounded(t) = q * Grain
  BY RoundedNear DEF Rounded
<1> HIDE DEF q
<1>3. (q * Grain + Grain \div 2) \div Grain = q
  BY <1>1, <1>2
<1> QED
  BY <1>1, <1>2, <1>3 DEF Rounded

(* The last entries of a list that has one more.                           *)
LEMMA LastOfProperties ==
    ASSUME NEW S, NEW s \in Seq(S), NEW n \in Nat \ {0}
    PROVE  /\ LastOf(s, n) \in Seq(S)
           /\ Len(LastOf(s, n)) = IF Len(s) > n THEN n ELSE Len(s)
           /\ \A j \in 1 .. Len(LastOf(s, n)) :
                  LastOf(s, n)[j] = s[Len(s) - Len(LastOf(s, n)) + j]
<1>1. Len(s) \in Nat
  OBVIOUS
<1>2. CASE Len(s) > n
  <2>1. LastOf(s, n) = SubSeq(s, Len(s) - n + 1, Len(s))
    BY <1>2 DEF LastOf
  <2>2. Len(s) - n + 1 \in 1 .. Len(s) + 1 /\ Len(s) \in Nat
    BY <1>1, <1>2
  <2>3. /\ LastOf(s, n) \in Seq(S) /\ Len(LastOf(s, n)) = n
        /\ \A j \in 1 .. n : LastOf(s, n)[j] = s[Len(s) - n + j]
    <3> DEFINE m == Len(s) - n + 1
               e == Len(s)
    <3>1. m \in 1 .. Len(s) + 1 /\ e \in (m - 1) .. Len(s)
      BY <1>1, <1>2
    <3> HIDE DEF m, e
    <3>2. /\ SubSeq(s, m, e) \in Seq(S)
          /\ Len(SubSeq(s, m, e)) = IF m <= e THEN e - m + 1 ELSE 0
          /\ \A j \in 1 .. (e - m + 1) : SubSeq(s, m, e)[j] = s[m + j - 1]
      BY <3>1, SubSeqProperties
    <3>3. /\ LastOf(s, n) = SubSeq(s, m, e) /\ m <= e /\ e - m + 1 = n
          /\ \A j \in 1 .. n : m + j - 1 = Len(s) - n + j
      BY <1>1, <1>2, <2>1 DEF m, e
    <3> QED
      BY <3>2, <3>3
  <2> QED
    BY <1>2, <2>3
<1>3. CASE ~(Len(s) > n)
  <2>1. LastOf(s, n) = SubSeq(s, 1, Len(s))
    BY <1>3 DEF LastOf
  <2>2. /\ LastOf(s, n) \in Seq(S) /\ Len(LastOf(s, n)) = Len(s)
        /\ \A j \in 1 .. Len(s) : LastOf(s, n)[j] = s[j]
    BY <1>1, <2>1, SubSeqProperties
  <2>3. \A j \in 1 .. Len(s) : Len(s) - Len(s) + j = j
    BY <1>1
  <2> QED
    BY <1>3, <2>2, <2>3
<1> QED
  BY <1>2, <1>3

LEMMA KeptStamps ==
    ASSUME NEW s \in Seq(Nat), NEW t \in Nat, NEW k, k = Kept(Append(s, t))
    PROVE  /\ k \in Seq(Nat)
           /\ Len(k) = Some(Len(s) + 1)
           /\ Len(k) \in Nat /\ Len(k) > 0 /\ Len(k) <= Limit
           /\ Len(k) <= Len(s) + 1
           /\ k[Len(k)] = t
           /\ \A j \in 1 .. (Len(k) - 1) : k[j] = s[Len(s) + 1 - Len(k) + j]
<1> DEFINE a == Append(s, t)
<1>1. /\ Limit \in Nat \ {0} /\ Len(s) \in Nat
      /\ a \in Seq(Nat) /\ Len(a) = Len(s) + 1 /\ a[Len(s) + 1] = t
      /\ \A j \in 1 .. Len(s) : a[j] = s[j]
  BY BreakerAssumptions
<1>0. k = LastOf(a, Limit)
  BY DEF Kept
<1> HIDE DEF a
<1>2. /\ k \in Seq(Nat) /\ Len(k) = Some(Len(s) + 1)
      /\ \A j \in 1 .. Len(k) : k[j] = a[Len(s) + 1 - Len(k) + j]
  <2>2. /\ k \in Seq(Nat) /\ Len(k) = IF Len(a) > Limit THEN Limit ELSE Len(a)
        /\ \A j \in 1 .. Len(k) : k[j] = a[Len(a) - Len(k) + j]
    <3> DEFINE l == LastOf(a, Limit)
    <3>1. /\ l \in Seq(Nat) /\ Len(l) = IF Len(a) > Limit THEN Limit ELSE Len(a)
          /\ \A j \in 1 .. Len(l) : l[j] = a[Len(a) - Len(l) + j]
      BY <1>1, LastOfProperties
    <3> HIDE DEF l
    <3>2. k = l
      BY <1>0 DEF l
    <3> QED
      BY <3>1, <3>2
  <2>3. Len(k) = Some(Len(s) + 1)
    BY <1>1, <2>2 DEF Some
  <2>4. \A j \in 1 .. Len(k) : k[j] = a[Len(s) + 1 - Len(k) + j]
    <3>1. TAKE j \in 1 .. Len(k)
    <3>2. k[j] = a[Len(a) - Len(k) + j]
      BY <2>2
    <3>3. Len(a) - Len(k) + j = Len(s) + 1 - Len(k) + j
      BY <1>1
    <3> QED
      BY <3>2, <3>3
  <2> QED
    BY <2>2, <2>3, <2>4
<1>3. Len(k) \in Nat /\ Len(k) > 0 /\ Len(k) <= Limit /\ Len(k) <= Len(s) + 1
  BY <1>1, <1>2 DEF Some
<1>4. k[Len(k)] = t
  <2>1. Len(k) \in 1 .. Len(k) /\ Len(s) + 1 - Len(k) + Len(k) = Len(s) + 1
    BY <1>1, <1>3
  <2> QED
    BY <1>1, <1>2, <2>1
<1>5. ASSUME NEW j \in 1 .. (Len(k) - 1)
      PROVE  k[j] = s[Len(s) + 1 - Len(k) + j]
  <2>1. j \in 1 .. Len(k) /\ Len(s) + 1 - Len(k) + j \in 1 .. Len(s)
    BY <1>1, <1>3
  <2> QED
    BY <1>1, <1>2, <2>1
<1> QED
  BY <1>2, <1>3, <1>4, <1>5

(* What a write leaves: as long as the longer text, and the text itself in *)
(* a file that is empty.                                                   *)
LEMMA OverProperties ==
    ASSUME NEW text \in Seq(Nat), NEW s \in Seq(Nat)
    PROVE  /\ Over(text, s) \in Seq(Nat)
           /\ Len(Over(text, s)) = IF Len(text) > Len(s) THEN Len(text) ELSE Len(s)
           /\ text = <<>> => Over(text, s) = s
<1> DEFINE t == SubSeq(text, Len(s) + 1, Len(text))
<1>1. Len(s) \in Nat /\ Len(text) \in Nat
  OBVIOUS
<1>2. CASE Len(text) > Len(s)
  <2>1. t \in Seq(Nat) /\ Len(t) = Len(text) - Len(s)
    <3>1. Len(s) + 1 \in 1 .. Len(text) + 1 /\ Len(text) \in Nat
      BY <1>1, <1>2
    <3>2. t \in Seq(Nat) /\ Len(t) = IF Len(s) + 1 <= Len(text)
                                       THEN Len(text) - (Len(s) + 1) + 1 ELSE 0
      BY <1>1, <1>2, SubSeqProperties
    <3> QED
      BY <1>1, <1>2, <3>2
  <2> HIDE DEF t
  <2>2. Over(text, s) = s \o t
    BY DEF Over, t
  <2>3. s \o t \in Seq(Nat) /\ Len(s \o t) = Len(text)
    BY <1>1, <2>1
  <2>4. text # <<>>
    BY <1>1, <1>2
  <2> QED
    BY <1>2, <2>2, <2>3, <2>4
<1>3. CASE ~(Len(text) > Len(s))
  <2>1. t = <<>>
    BY <1>1, <1>3
  <2> HIDE DEF t
  <2>2. s \o t = s
    BY <2>1
  <2>3. Over(text, s) = s
    BY <2>2 DEF Over, t
  <2> QED
    BY <1>1, <1>3, <2>3
<1> QED
  BY <1>2, <1>3

LEMMA NotedProperties ==
    ASSUME NEW s \in Seq(Nat)
    PROVE  /\ Noted(s) \in Seq(Nat) /\ Len(Noted(s)) = Len(s)
           /\ \A j \in 1 .. Len(s) : Noted(s)[j] = Rounded(s[j])
<1>1. Len(s) \in Nat /\ \A i \in 1 .. Len(s) : s[i] \in Nat
  OBVIOUS
<1>2. \A i \in 1 .. Len(s) : Rounded(s[i]) \in Nat
  BY <1>1, RoundedTwice
<1> QED
  BY <1>1, <1>2 DEF Noted

-----------------------------------------------------------------------------
(* The lists hold times, no more than Limit of them.                       *)
LEMMA TypeNext ==
    ASSUME TypeInv, [Next]_vars
    PROVE  TypeInv'
<1> USE DEF TypeInv, TypeOK
<1>0. /\ MaxTime \in Nat /\ Limit \in Nat /\ now \in Nat /\ now \in 0 .. MaxTime
      /\ 0 .. MaxTime \subseteq Nat
      /\ <<>> \in Seq(Nat) /\ <<>> \in Seq(0 .. MaxTime) /\ Len(<<>>) = 0
  BY BreakerAssumptions, EmptySeq
<1>1. CASE Tick
  BY <1>0, <1>1 DEF Tick
<1>2. CASE Relaunch
  <2>1. /\ stamps' = <<>> /\ respawns' = <<>> /\ raced' = FALSE /\ overlaid' = FALSE
        /\ now' = now /\ mine' = mine /\ verdict' = verdict
    BY <1>2 DEF Relaunch
  <2>2. Len(stamps') <= Limit
    BY <1>0, <2>1
  <2>3. raced' \in BOOLEAN /\ overlaid' \in BOOLEAN
    BY <2>1, Zenon
  <2> QED
    BY <1>0, <2>1, <2>2, <2>3
<1>3. ASSUME NEW c \in Client, ReadStamps(c)
      PROVE  TypeInv'
  <2> DEFINE k == Kept(Append(stamps, now))
  <2>1. k \in Seq(Nat) /\ Len(k) <= Limit
    <3>1. k = Kept(Append(stamps, now))
      OBVIOUS
    <3> HIDE DEF k
    <3> QED
      BY <1>0, <3>1, KeptStamps
  <2>2. respawns' \in Seq(0 .. MaxTime)
    BY <1>0, <1>3 DEF ReadStamps
  <2>3. /\ mine' = [mine EXCEPT ![c] = k]
        /\ verdict' = [verdict EXCEPT ![c] = "read"]
        /\ raced' \in BOOLEAN /\ UNCHANGED <<now, stamps, overlaid>>
    BY <1>3 DEF ReadStamps
  <2> HIDE DEF k
  <2> QED
    BY <2>1, <2>2, <2>3
<1>4. ASSUME NEW c \in Client, OpenStamps(c)
      PROVE  TypeInv'
  BY <1>0, <1>4 DEF OpenStamps
<1>5. ASSUME NEW c \in Client, WriteStamps(c)
      PROVE  TypeInv'
  <2>1. Len(mine[c]) \in Nat /\ Len(mine[c]) <= Limit /\ mine[c] \in Seq(Nat)
    OBVIOUS
  <2>2. Noted(mine[c]) \in Seq(Nat) /\ Len(Noted(mine[c])) = Len(mine[c])
    BY <2>1, NotedProperties
  <2>3. stamps' \in Seq(Nat) /\ Len(stamps') <= Limit
    <3>1. stamps' = Over(stamps, Noted(mine[c]))
      BY <1>5 DEF WriteStamps
    <3>2. stamps \in Seq(Nat) /\ Len(stamps) \in Nat /\ Len(stamps) <= Limit
      OBVIOUS
    <3> QED
      BY <2>1, <2>2, <3>1, <3>2, OverProperties
  <2>4. /\ verdict' = [verdict EXCEPT ![c] = verdict'[c]]
        /\ verdict'[c] \in {"refused", "spawns"}
        /\ UNCHANGED <<now, respawns, mine, raced, overlaid>>
    BY <1>5 DEF WriteStamps
  <2> QED
    BY <2>3, <2>4
<1>6. ASSUME NEW c \in Client, Done(c)
      PROVE  TypeInv'
  BY <1>0, <1>6 DEF Done
<1>7. CASE UNCHANGED vars
  BY <1>7 DEF vars
<1> QED
  BY <1>1, <1>2, <1>3, <1>4, <1>5, <1>6, <1>7 DEF Next

THEOREM TypesKept == Spec => []TypeInv
<1>1. Init => TypeInv
  <2> SUFFICES ASSUME Init PROVE TypeInv
    OBVIOUS
  <2>1. /\ MaxTime \in Nat /\ Limit \in Nat /\ Len(<<>>) = 0 /\ Len(<<>>) <= Limit
        /\ <<>> \in Seq(Nat) /\ <<>> \in Seq(0 .. MaxTime)
    BY BreakerAssumptions, EmptySeq
  <2>2. now \in 0 .. MaxTime
    BY <2>1 DEF Init
  <2>4. raced \in BOOLEAN /\ overlaid \in BOOLEAN
    BY Zenon DEF Init
  <2>3. /\ mine \in [Client -> Seq(Nat)]
        /\ verdict \in [Client -> {"idle", "read", "opened", "spawns", "refused"}]
        /\ \A c \in Client : mine[c] = <<>>
    BY <2>1 DEF Init
  <2> QED
    BY <2>1, <2>2, <2>3, <2>4 DEF Init, TypeInv, TypeOK
<1>2. TypeInv /\ [Next]_vars => TypeInv'
  BY TypeNext
<1> QED
  BY <1>1, <1>2, PTL DEF Spec

(* The file never holds more than Limit stamps, whoever writes it, and     *)
(* whatever is left of another's text.                                     *)
THEOREM TypeCorrect == Spec => []TypeOK
<1>1. TypeInv => TypeOK
  BY DEF TypeInv
<1> QED
  BY <1>1, TypesKept, PTL

-----------------------------------------------------------------------------
LEMMA NothingSourced ==
    ASSUME NEW r
    PROVE  Sourced(<<>>, r)
<1> DEFINE f == [j \in 1 .. Len(<<>>) |-> 1]
<1>1. Len(<<>>) = 0 /\ 1 .. 0 = {}
  OBVIOUS
<1>2. f \in Sources(<<>>, r)
  BY <1>1 DEF Sources
<1> QED
  BY <1>2 DEF Sourced

(* A list stays sourced when one more respawn happens.                     *)
LEMMA StillSourced ==
    ASSUME NEW s \in Seq(Nat), NEW r \in Seq(Nat), NEW t \in Nat, Sourced(s, r)
    PROVE  Sourced(s, Append(r, t))
<1>1. PICK f \in Sources(s, r) : TRUE
  BY DEF Sourced
<1> DEFINE a == Append(r, t)
<1>2. Len(r) \in Nat /\ Len(a) = Len(r) + 1 /\ \A i \in 1 .. Len(r) : a[i] = r[i]
  OBVIOUS
<1> HIDE DEF a
<1>3. 1 .. Len(r) \subseteq 1 .. Len(a)
  BY <1>2
<1>4. /\ f \in [1 .. Len(s) -> 1 .. Len(r)]
      /\ \A j, k \in 1 .. Len(s) : j < k => f[j] < f[k]
      /\ \A j \in 1 .. Len(s) : s[j] = r[f[j]] \/ s[j] = Rounded(r[f[j]])
  BY <1>1 DEF Sources
<1>5. f \in [1 .. Len(s) -> 1 .. Len(a)]
  BY <1>3, <1>4
<1>6. \A j \in 1 .. Len(s) : s[j] = a[f[j]] \/ s[j] = Rounded(a[f[j]])
  BY <1>2, <1>4
<1>7. f \in Sources(s, a)
  BY <1>4, <1>5, <1>6 DEF Sources
<1> QED
  BY <1>7 DEF Sourced, a

(* A client's list: what it read, and its own respawn.                     *)
LEMMA KeptSourced ==
    ASSUME NEW s \in Seq(Nat), NEW r \in Seq(Nat), NEW t \in Nat, Sourced(s, r),
           NEW k, k = Kept(Append(s, t))
    PROVE  Sourced(k, Append(r, t))
<1>0. /\ Len(k) \in Nat /\ Len(k) > 0 /\ Len(k) <= Len(s) + 1 /\ k[Len(k)] = t
      /\ \A j \in 1 .. (Len(k) - 1) : k[j] = s[Len(s) + 1 - Len(k) + j]
  <2>1. Len(k) \in Nat /\ Len(k) > 0 /\ Len(k) <= Len(s) + 1 /\ k[Len(k)] = t
    BY KeptStamps
  <2>2. \A j \in 1 .. (Len(k) - 1) : k[j] = s[Len(s) + 1 - Len(k) + j]
    BY KeptStamps
  <2> QED
    BY <2>1, <2>2
<1> DEFINE a == Append(r, t)
           m == Len(k)
           d == Len(s) + 1 - Len(k)
<1>1. PICK f \in Sources(s, r) : TRUE
  BY DEF Sourced
<1>2. /\ f \in [1 .. Len(s) -> 1 .. Len(r)]
      /\ \A i, j \in 1 .. Len(s) : i < j => f[i] < f[j]
      /\ \A j \in 1 .. Len(s) : s[j] = r[f[j]] \/ s[j] = Rounded(r[f[j]])
  BY <1>1 DEF Sources
<1>3. /\ m \in Nat /\ m > 0 /\ m <= Len(s) + 1 /\ k[m] = t /\ d \in Nat
      /\ Len(s) \in Nat /\ m + d = Len(s) + 1
      /\ \A j \in 1 .. (m - 1) : k[j] = s[d + j]
  <2>1. Len(s) \in Nat /\ d = Len(s) + 1 - m
    OBVIOUS
  <2> HIDE DEF m, d
  <2>2. /\ m \in Nat /\ m > 0 /\ m <= Len(s) + 1 /\ k[m] = t
        /\ \A j \in 1 .. (m - 1) : k[j] = s[Len(s) + 1 - m + j]
    BY <1>0 DEF m
  <2> QED
    BY <2>1, <2>2
<1>4. /\ Len(r) \in Nat /\ Len(a) = Len(r) + 1 /\ a[Len(r) + 1] = t
      /\ \A i \in 1 .. Len(r) : a[i] = r[i]
  OBVIOUS
<1>5. Len(k) = m
  OBVIOUS
<1> HIDE DEF a, m, d
<1> DEFINE g == [j \in 1 .. m |-> IF j = m THEN Len(r) + 1 ELSE f[d + j]]
<1>6. \A j \in 1 .. m : j # m => d + j \in 1 .. Len(s) /\ j \in 1 .. (m - 1)
  BY <1>3
<1>7. \A j \in 1 .. m : IF j = m THEN g[j] = Len(r) + 1
                        ELSE g[j] = f[d + j] /\ g[j] \in 1 .. Len(r)
  BY <1>2, <1>6
<1>8. g \in [1 .. m -> 1 .. Len(a)]
  <2>1. \A j \in 1 .. m : g[j] \in 1 .. Len(a)
    BY <1>4, <1>7
  <2> QED
    BY <2>1
<1> HIDE DEF g
<1>9. \A i, j \in 1 .. m : i < j => g[i] < g[j]
  <2> SUFFICES ASSUME NEW i \in 1 .. m, NEW j \in 1 .. m, i < j
               PROVE  g[i] < g[j]
    OBVIOUS
  <2>1. i # m /\ g[i] = f[d + i] /\ g[i] \in 1 .. Len(r)
    BY <1>3, <1>7
  <2>2. CASE j = m
    BY <1>4, <1>7, <2>1, <2>2
  <2>3. CASE j # m
    <3>1. g[j] = f[d + j] /\ d + i \in 1 .. Len(s) /\ d + j \in 1 .. Len(s)
      BY <1>6, <1>7, <2>1, <2>3
    <3>2. d + i < d + j
      BY <1>3
    <3> QED
      BY <1>2, <2>1, <3>1, <3>2
  <2> QED
    BY <2>2, <2>3
<1>10. \A j \in 1 .. m : k[j] = a[g[j]] \/ k[j] = Rounded(a[g[j]])
  <2> SUFFICES ASSUME NEW j \in 1 .. m
               PROVE  k[j] = a[g[j]] \/ k[j] = Rounded(a[g[j]])
    OBVIOUS
  <2>1. CASE j = m
    BY <1>3, <1>4, <1>7, <2>1
  <2>2. CASE j # m
    <3>1. g[j] = f[d + j] /\ d + j \in 1 .. Len(s) /\ k[j] = s[d + j] /\ g[j] \in 1 .. Len(r)
      BY <1>3, <1>6, <1>7, <2>2
    <3> QED
      BY <1>2, <1>4, <3>1
  <2> QED
    BY <2>1, <2>2
<1>11. g \in Sources(k, a)
  BY <1>5, <1>8, <1>9, <1>10 DEF Sources
<1> QED
  BY <1>11 DEF Sourced, a

(* What a client writes: its list, rounded once more.                      *)
LEMMA WrittenSourced ==
    ASSUME NEW s \in Seq(Nat), NEW r \in Seq(Nat), Sourced(s, r)
    PROVE  Sourced(Noted(s), r)
<1> DEFINE w == Noted(s)
<1>1. PICK f \in Sources(s, r) : TRUE
  BY DEF Sourced
<1>2. /\ f \in [1 .. Len(s) -> 1 .. Len(r)]
      /\ \A i, j \in 1 .. Len(s) : i < j => f[i] < f[j]
      /\ \A j \in 1 .. Len(s) : s[j] = r[f[j]] \/ s[j] = Rounded(r[f[j]])
  BY <1>1 DEF Sources
<1>3. Len(w) = Len(s) /\ \A j \in 1 .. Len(s) : w[j] = Rounded(s[j])
  BY NotedProperties
<1> HIDE DEF w
<1>4. \A j \in 1 .. Len(s) : w[j] = Rounded(r[f[j]])
  <2> SUFFICES ASSUME NEW j \in 1 .. Len(s)
               PROVE  w[j] = Rounded(r[f[j]])
    OBVIOUS
  <2>1. f[j] \in 1 .. Len(r)
    BY <1>2
  <2>2. r[f[j]] \in Nat
    BY <2>1
  <2> QED
    BY <1>2, <1>3, <2>2, RoundedTwice
<1>5. f \in Sources(w, r)
  BY <1>2, <1>3, <1>4 DEF Sources
<1> QED
  BY <1>5 DEF Sourced, w

LEMMA OneMoreOrdered ==             \* the clock does not go backwards
    ASSUME NEW r \in Seq(Nat), NEW t \in Nat, Ordered(r),
           \A j \in 1 .. Len(r) : r[j] <= t
    PROVE  /\ Ordered(Append(r, t))
           /\ \A j \in 1 .. Len(Append(r, t)) : Append(r, t)[j] <= t
<1> DEFINE a == Append(r, t)
<1>1. /\ Len(r) \in Nat /\ Len(a) = Len(r) + 1 /\ a[Len(r) + 1] = t
      /\ \A i \in 1 .. Len(r) : a[i] = r[i] /\ a[i] \in Nat
  OBVIOUS
<1> HIDE DEF a
<1>2. \A j \in 1 .. Len(a) : j \in 1 .. Len(r) \/ j = Len(r) + 1
  BY <1>1
<1>3. \A j \in 1 .. Len(a) : a[j] <= t
  BY <1>1, <1>2
<1>4. \A j, k \in 1 .. Len(a) : j <= k => a[j] <= a[k]
  <2> SUFFICES ASSUME NEW j \in 1 .. Len(a), NEW k \in 1 .. Len(a), j <= k
               PROVE  a[j] <= a[k]
    OBVIOUS
  <2>1. CASE k = Len(r) + 1
    BY <1>1, <1>3, <2>1
  <2>2. CASE k \in 1 .. Len(r)
    <3>1. j \in 1 .. Len(r)
      BY <1>1, <2>2
    <3> QED
      BY <1>1, <2>2, <3>1 DEF Ordered
  <2> QED
    BY <1>2, <2>1, <2>2
<1> QED
  BY <1>3, <1>4 DEF Ordered, a

LEMMA LengthNext ==
    ASSUME TypeInv, LengthInv, [Next]_vars
    PROVE  LengthInv'
<1>0. /\ now \in Nat /\ stamps \in Seq(Nat) /\ respawns \in Seq(Nat)
      /\ Len(stamps) \in Nat /\ Len(respawns) \in Nat /\ Len(<<>>) = 0
      /\ \A c \in Client : mine[c] \in Seq(Nat) /\ Len(mine[c]) \in Nat
      /\ mine \in [Client -> Seq(Nat)]
  <2>1. 0 .. MaxTime \subseteq Nat
    BY BreakerAssumptions
  <2>2. /\ now \in Nat /\ stamps \in Seq(Nat) /\ respawns \in Seq(Nat)
        /\ mine \in [Client -> Seq(Nat)]
    BY <2>1, SeqMonotonic DEF TypeInv, TypeOK
  <2>3. Len(<<>>) = 0
    OBVIOUS
  <2> QED
    BY <2>2, <2>3
<1>1. CASE Tick
  BY <1>1 DEF Tick, LengthInv
<1>2. CASE Relaunch
  <2>1. stamps' = <<>> /\ respawns' = <<>> /\ mine' = mine
    BY <1>2 DEF Relaunch
  <2>2. \A c \in Client : mine[c] = <<>>
    BY <1>2 DEF Relaunch, TypeInv
  <2> QED
    BY <1>0, <2>1, <2>2 DEF LengthInv
<1>3. ASSUME NEW c \in Client, ReadStamps(c)
      PROVE  LengthInv'
  <2>1. PICK k : k = Kept(Append(stamps, now))
    OBVIOUS
  <2>2. /\ mine' = [mine EXCEPT ![c] = k] /\ respawns' = Append(respawns, now)
        /\ stamps' = stamps
    BY <1>3, <2>1 DEF ReadStamps
  <2>3. Len(k) \in Nat /\ Len(k) <= Len(stamps) + 1
    BY <1>0, <2>1, KeptStamps
  <2>4. Len(respawns') = Len(respawns) + 1
    BY <1>0, <2>2
  <2>5. \A d \in Client : mine'[d] = IF d = c THEN k ELSE mine[d]
    BY <1>0, <2>2
  <2> QED
    BY <1>0, <2>2, <2>3, <2>4, <2>5 DEF LengthInv
<1>4. ASSUME NEW c \in Client, OpenStamps(c)
      PROVE  LengthInv'
  BY <1>0, <1>4 DEF OpenStamps, LengthInv
<1>5. ASSUME NEW c \in Client, WriteStamps(c)
      PROVE  LengthInv'
  <2>1. stamps' = Over(stamps, Noted(mine[c])) /\ UNCHANGED <<respawns, mine>>
    BY <1>5 DEF WriteStamps
  <2>2. Noted(mine[c]) \in Seq(Nat) /\ Len(Noted(mine[c])) = Len(mine[c])
    BY <1>0, NotedProperties
  <2>3. Len(stamps') \in {Len(stamps), Len(mine[c])}
    BY <1>0, <2>1, <2>2, OverProperties
  <2> QED
    BY <1>0, <2>1, <2>3 DEF LengthInv
<1>6. ASSUME NEW c \in Client, Done(c)
      PROVE  LengthInv'
  <2>1. mine' = [mine EXCEPT ![c] = <<>>] /\ UNCHANGED <<stamps, respawns>>
    BY <1>6 DEF Done
  <2>2. \A d \in Client : mine'[d] = mine[d] \/ mine'[d] = <<>>
    BY <1>0, <2>1
  <2> QED
    BY <1>0, <2>1, <2>2 DEF LengthInv
<1>7. CASE UNCHANGED vars
  BY <1>7 DEF vars, LengthInv
<1> QED
  BY <1>1, <1>2, <1>3, <1>4, <1>5, <1>6, <1>7 DEF Next

LEMMA ClockNext ==
    ASSUME TypeInv, ClockInv, [Next]_vars
    PROVE  ClockInv'
<1>0. now \in Nat /\ respawns \in Seq(Nat)
  <2>1. 0 .. MaxTime \subseteq Nat
    BY BreakerAssumptions
  <2> QED
    BY <2>1, SeqMonotonic DEF TypeInv, TypeOK
<1>1. CASE Tick
  <2>1. now' = now + 1 /\ respawns' = respawns
    BY <1>1 DEF Tick
  <2>2. \A j \in 1 .. Len(respawns) : respawns[j] \in Nat /\ respawns[j] <= now
    BY <1>0 DEF ClockInv
  <2>3. \A j \in 1 .. Len(respawns) : respawns[j] <= now + 1
    BY <1>0, <2>2
  <2> QED
    BY <2>1, <2>3 DEF ClockInv
<1>2. CASE Relaunch
  <2>1. respawns' = <<>> /\ Len(<<>>) = 0 /\ 1 .. 0 = {}
    BY <1>2 DEF Relaunch
  <2> QED
    BY <2>1 DEF ClockInv, Ordered
<1>3. ASSUME NEW c \in Client, ReadStamps(c)
      PROVE  ClockInv'
  <2>1. respawns' = Append(respawns, now) /\ now' = now
    BY <1>3 DEF ReadStamps
  <2>2. /\ Ordered(respawns) /\ \A j \in 1 .. Len(respawns) : respawns[j] <= now
    BY DEF ClockInv
  <2>3. /\ Ordered(respawns') /\ \A j \in 1 .. Len(respawns') : respawns'[j] <= now
    BY <1>0, <2>1, <2>2, OneMoreOrdered
  <2> QED
    BY <2>1, <2>3 DEF ClockInv
<1>4. ASSUME UNCHANGED <<now, respawns>>
      PROVE  ClockInv'
  BY <1>4 DEF ClockInv
<1>5. ASSUME NEW c \in Client, OpenStamps(c) \/ WriteStamps(c) \/ Done(c)
      PROVE  UNCHANGED <<now, respawns>>
  BY <1>5 DEF OpenStamps, WriteStamps, Done
<1> QED
  BY <1>1, <1>2, <1>3, <1>4, <1>5 DEF Next, vars

LEMMA BurstNext ==
    ASSUME TypeInv, BurstInv, [Next]_vars
    PROVE  BurstInv'
<1>0. /\ now \in Nat /\ stamps \in Seq(Nat) /\ respawns \in Seq(Nat)
      /\ \A c \in Client : mine[c] \in Seq(Nat)
      /\ mine \in [Client -> Seq(Nat)]
      /\ verdict \in [Client -> {"idle", "read", "opened", "spawns", "refused"}]
  <2>1. 0 .. MaxTime \subseteq Nat
    BY BreakerAssumptions
  <2> QED
    BY <2>1, SeqMonotonic DEF TypeInv, TypeOK
<1>1. CASE Tick
  BY <1>1 DEF Tick, BurstInv
<1>2. CASE Relaunch
  <2>1. stamps' = <<>> /\ respawns' = <<>> /\ mine' = mine /\ verdict' = verdict
    BY <1>2 DEF Relaunch
  <2>2. \A c \in Client : mine[c] = <<>> /\ verdict[c] = "idle"
    BY <1>2 DEF Relaunch, TypeInv
  <2>3. Sourced(<<>>, <<>>)
    BY NothingSourced
  <2>4. Sourced(stamps', respawns') /\ \A c \in Client : Sourced(mine'[c], respawns')
    BY <2>1, <2>2, <2>3
  <2>5. \A c \in Client : verdict'[c] # "opened"
    BY <2>1, <2>2
  <2> QED
    BY <2>4, <2>5 DEF BurstInv
<1>3. ASSUME NEW c \in Client, ReadStamps(c)
      PROVE  BurstInv'
  <2>1. PICK k : k = Kept(Append(stamps, now))
    OBVIOUS
  <2>2. /\ mine' = [mine EXCEPT ![c] = k] /\ respawns' = Append(respawns, now)
        /\ stamps' = stamps /\ overlaid' = overlaid
        /\ verdict' = [verdict EXCEPT ![c] = "read"]
    BY <1>3, <2>1 DEF ReadStamps
  <2> SUFFICES ASSUME ~overlaid
               PROVE  /\ Sourced(stamps', respawns')
                      /\ \A d \in Client : Sourced(mine'[d], respawns')
                      /\ \A d \in Client : verdict'[d] = "opened" => verdict[d] = "opened"
    BY <2>2 DEF BurstInv
  <2>3. Sourced(stamps, respawns) /\ \A d \in Client : Sourced(mine[d], respawns)
    BY DEF BurstInv
  <2>4. Sourced(stamps', respawns')
    BY <1>0, <2>2, <2>3, StillSourced
  <2>5. Sourced(k, respawns')
    BY <1>0, <2>1, <2>2, <2>3, KeptSourced
  <2>6. ASSUME NEW d \in Client
        PROVE  Sourced(mine'[d], respawns')
    <3>1. CASE d = c
      BY <1>0, <2>2, <2>5, <3>1
    <3>2. CASE d # c
      <4>1. mine'[d] = mine[d]
        BY <1>0, <2>2, <3>2
      <4> QED
        BY <1>0, <2>2, <2>3, <4>1, StillSourced
    <3> QED
      BY <3>1, <3>2
  <2>7. \A d \in Client : verdict'[d] = "opened" => verdict[d] = "opened"
    BY <1>0, <2>2
  <2> QED
    BY <2>4, <2>6, <2>7
<1>4. ASSUME NEW c \in Client, OpenStamps(c)
      PROVE  BurstInv'
  <2>1. /\ stamps' = <<>> /\ UNCHANGED <<respawns, mine>>
        /\ verdict' = [verdict EXCEPT ![c] = "opened"]
        /\ ~overlaid' => ~overlaid /\ \A o \in Client : verdict[o] # "opened"
    BY <1>4 DEF OpenStamps
  <2> SUFFICES ASSUME ~overlaid'
               PROVE  /\ \A d \in Client : Sourced(mine[d], respawns)
                      /\ \A d \in Client : verdict'[d] = "opened" => d = c
    BY <2>1, NothingSourced DEF BurstInv
  <2>2. \A d \in Client : Sourced(mine[d], respawns)
    BY <2>1 DEF BurstInv
  <2>3. \A d \in Client : verdict'[d] = "opened" => d = c
    BY <1>0, <2>1
  <2> QED
    BY <2>2, <2>3
<1>5. ASSUME NEW c \in Client, WriteStamps(c)
      PROVE  BurstInv'
  <2>1. /\ stamps' = Over(stamps, Noted(mine[c])) /\ verdict[c] = "opened"
        /\ UNCHANGED <<respawns, mine, overlaid>>
        /\ \E v \in {"refused", "spawns"} : verdict' = [verdict EXCEPT ![c] = v]
    BY <1>5 DEF WriteStamps
  <2> SUFFICES ASSUME ~overlaid
               PROVE  /\ Sourced(stamps', respawns)
                      /\ \A d \in Client : verdict'[d] # "opened"
    BY <2>1 DEF BurstInv
  <2>2. /\ stamps = <<>> /\ Sourced(mine[c], respawns)
        /\ \A d \in Client : verdict[d] = "opened" => d = c
    BY <2>1 DEF BurstInv
  <2>3. Noted(mine[c]) \in Seq(Nat)
    BY <1>0, NotedProperties
  <2>4. stamps' = Noted(mine[c])
    BY <1>0, <2>1, <2>2, <2>3, OverProperties
  <2>5. Sourced(stamps', respawns)
    BY <1>0, <2>2, <2>4, WrittenSourced
  <2>6. \A d \in Client : verdict'[d] # "opened"
    BY <1>0, <2>1, <2>2
  <2> QED
    BY <2>5, <2>6
<1>6. ASSUME NEW c \in Client, Done(c)
      PROVE  BurstInv'
  <2>1. /\ mine' = [mine EXCEPT ![c] = <<>>] /\ UNCHANGED <<stamps, respawns, overlaid>>
        /\ verdict' = [verdict EXCEPT ![c] = "idle"]
    BY <1>6 DEF Done
  <2>2. \A d \in Client : mine'[d] = mine[d] \/ mine'[d] = <<>>
    BY <1>0, <2>1
  <2>3. \A d \in Client : verdict'[d] = "opened" => verdict[d] = "opened"
    BY <1>0, <2>1
  <2> QED
    BY <2>1, <2>2, <2>3, NothingSourced DEF BurstInv
<1>7. CASE UNCHANGED vars
  BY <1>7 DEF vars, BurstInv
<1> QED
  BY <1>1, <1>2, <1>3, <1>4, <1>5, <1>6, <1>7 DEF Next

THEOREM BurstsTold == Spec => [](LengthInv /\ ClockInv /\ BurstInv)
<1>1. Init => LengthInv /\ ClockInv /\ BurstInv
  <2> SUFFICES ASSUME Init PROVE LengthInv /\ ClockInv /\ BurstInv
    OBVIOUS
  <2>1. Len(<<>>) = 0 /\ 1 .. 0 = {}
    OBVIOUS
  <2>2. Sourced(<<>>, <<>>)
    BY NothingSourced
  <2>3. /\ respawns = <<>> /\ stamps = <<>>
        /\ \A c \in Client : mine[c] = <<>> /\ verdict[c] = "idle"
    BY DEF Init
  <2>4. LengthInv /\ ClockInv
    BY <2>1, <2>3 DEF LengthInv, ClockInv, Ordered
  <2>5. BurstInv
    BY <2>2, <2>3 DEF BurstInv
  <2> QED
    BY <2>4, <2>5
<1>2. TypeInv /\ LengthInv /\ [Next]_vars => LengthInv'
  BY LengthNext
<1>3. TypeInv /\ ClockInv /\ [Next]_vars => ClockInv'
  BY ClockNext
<1>4. TypeInv /\ BurstInv /\ [Next]_vars => BurstInv'
  BY BurstNext
<1> QED
  BY <1>1, <1>2, <1>3, <1>4, TypesKept, PTL DEF Spec

(* A list of Limit entries that spans no more than the window is Limit     *)
(* respawns since its first entry, rounding aside.                         *)
LEMMA TripIsBurst ==
    ASSUME NEW m \in Seq(Nat), NEW r \in Seq(Nat), Sourced(m, r), Ordered(r),
           respawns = r, Trips(m)
    PROVE  Since(m[Len(m)] - Window - Grain \div 2) >= Limit
<1> DEFINE x == m[Len(m)] - Window - Grain \div 2
           R == {i \in DOMAIN respawns : respawns[i] >= x}
<1>1. /\ Limit \in Nat \ {0} /\ Len(m) = Limit /\ m[Len(m)] - m[1] <= Window
      /\ Window \in Nat
      /\ m[Len(m)] \in Nat /\ m[1] \in Nat /\ Len(r) \in Nat
      /\ DOMAIN respawns = 1 .. Len(r)
  <2>1. Limit \in Nat \ {0} /\ Window \in Nat /\ Len(m) = Limit
    BY BreakerAssumptions DEF Trips
  <2>2. 1 \in 1 .. Len(m) /\ Len(m) \in 1 .. Len(m)
    BY <2>1
  <2> QED
    BY <2>1, <2>2 DEF Trips
<1>2. PICK f \in Sources(m, r) : TRUE
  BY DEF Sourced
<1>3. /\ f \in [1 .. Limit -> 1 .. Len(r)]
      /\ \A i, j \in 1 .. Limit : i < j => f[i] < f[j]
      /\ \A j \in 1 .. Limit : m[j] = r[f[j]] \/ m[j] = Rounded(r[f[j]])
  BY <1>1, <1>2 DEF Sources
<1>4. Grain \div 2 \in Nat /\ r[f[1]] \in Nat /\ m[1] <= r[f[1]] + Grain \div 2
  <2>1. 1 \in 1 .. Limit /\ f[1] \in 1 .. Len(r)
    BY <1>1, <1>3
  <2>2. r[f[1]] \in Nat
    BY <2>1
  <2>3. Grain \div 2 \in Nat /\ Rounded(r[f[1]]) <= r[f[1]] + Grain \div 2
    BY <2>2, RoundedNear
  <2>4. m[1] = r[f[1]] \/ m[1] = Rounded(r[f[1]])
    BY <1>3, <2>1
  <2>5. r[f[1]] <= r[f[1]] + Grain \div 2
    BY <2>2, <2>3
  <2> QED
    BY <2>2, <2>3, <2>4, <2>5
<1>5. \A j \in 1 .. Limit : f[j] \in R
  <2> SUFFICES ASSUME NEW j \in 1 .. Limit
               PROVE  f[j] \in R
    OBVIOUS
  <2>1. f[1] \in 1 .. Len(r) /\ f[j] \in 1 .. Len(r) /\ f[1] <= f[j]
    <3>1. 1 \in 1 .. Limit /\ (j = 1 \/ 1 < j)
      BY <1>1
    <3> QED
      BY <1>3, <3>1
  <2>2. r[f[1]] <= r[f[j]] /\ r[f[j]] \in Nat
    BY <2>1 DEF Ordered
  <2>3. r[f[j]] >= x
    <3> DEFINE h == Grain \div 2
               a == m[Len(m)]
               b == m[1]
               y == r[f[1]]
               z == r[f[j]]
    <3>1. /\ h \in Nat /\ a \in Nat /\ b \in Nat /\ y \in Nat /\ z \in Nat /\ Window \in Nat
          /\ a - b <= Window /\ b <= y + h /\ y <= z
      BY <1>1, <1>4, <2>2
    <3>2. x = a - Window - h
      OBVIOUS
    <3> HIDE DEF h, a, b, y, z, x
    <3>3. z >= x
      BY <3>1, <3>2
    <3> QED
      BY <3>3 DEF z
  <2> QED
    BY <1>1, <2>1, <2>3
<1> HIDE DEF x
<1>6. IsFiniteSet(R)
  <2>1. IsFiniteSet(1 .. Len(r))
    BY <1>1, FS_Interval
  <2> QED
    BY <1>1, <2>1, FS_Subset
<1>7. IsFiniteSet(1 .. Limit) /\ Cardinality(1 .. Limit) = Limit
  BY <1>1, FS_Interval
<1> HIDE DEF R
<1>8. f \in Injection(1 .. Limit, R)
  <2>1. f \in [1 .. Limit -> R]
    BY <1>3, <1>5
  <2>2. \A i, j \in 1 .. Limit : f[i] = f[j] => i = j
    <3>1. \A i, j \in 1 .. Limit : i < j \/ j < i \/ i = j
      BY <1>1
    <3>2. \A i \in 1 .. Limit : f[i] \in Nat
      BY <1>3
    <3> QED
      BY <1>3, <3>1, <3>2
  <2> QED
    BY <2>1, <2>2 DEF Injection, IsInjective
<1>9. Limit <= Cardinality(R)
  BY <1>6, <1>7, <1>8, FS_Injection
<1>10. Cardinality(R) \in Nat
  BY <1>6, FS_CardinalityType
<1>11. Since(x) = Cardinality(R)
  BY DEF Since, R
<1> QED
  BY <1>1, <1>9, <1>10, <1>11 DEF x

(* No respawn is refused before the session has seen Limit of them, and,   *)
(* unless two clients have had the file open at once, none without Limit   *)
(* respawns within the window (RefusesBursts).                             *)
THEOREM TripsOnlyOnBursts == Spec => RefusesBursts
<1>1. TypeInv /\ LengthInv /\ ClockInv /\ BurstInv /\ [Next]_vars
        => [\A c \in Client : Judges(c, "refused") =>
               Len(respawns) >= Limit /\ (~overlaid => Burst(c))]_vars
  <2> SUFFICES ASSUME TypeInv, LengthInv, ClockInv, BurstInv, Next,
                      NEW c \in Client, Judges(c, "refused")
               PROVE  Len(respawns) >= Limit /\ (~overlaid => Burst(c))
    OBVIOUS
  <2>1. verdict[c] = "opened" /\ verdict'[c] = "refused"
    BY DEF Judges
  <2>2. Trips(mine[c])
    <3>1. verdict \in [Client -> {"idle", "read", "opened", "spawns", "refused"}]
      BY DEF TypeInv, TypeOK
    <3>2. PICK d \in Client : ReadStamps(d) \/ OpenStamps(d) \/ WriteStamps(d) \/ Done(d)
      BY <2>1 DEF Next, Tick, Relaunch
    <3>3. c = d /\ WriteStamps(c)
      BY <2>1, <3>1, <3>2 DEF ReadStamps, OpenStamps, WriteStamps, Done
    <3> QED
      BY <2>1, <3>1, <3>3 DEF WriteStamps
  <2>3. mine[c] \in Seq(Nat) /\ respawns \in Seq(Nat)
    <3>1. 0 .. MaxTime \subseteq Nat
      BY BreakerAssumptions
    <3> QED
      BY <3>1, SeqMonotonic DEF TypeInv, TypeOK
  <2>4. Len(respawns) >= Limit
    <3>1. Len(mine[c]) = Limit /\ Len(mine[c]) <= Len(respawns)
      BY <2>2 DEF Trips, LengthInv
    <3> QED
      BY <2>3, <3>1, BreakerAssumptions
  <2>5. ASSUME ~overlaid PROVE Burst(c)
    <3>1. Sourced(mine[c], respawns) /\ Ordered(respawns)
      BY <2>5 DEF BurstInv, ClockInv
    <3> QED
      BY <2>2, <2>3, <3>1, TripIsBurst DEF Burst, Judged
  <2> QED
    BY <2>4, <2>5
<1> QED
  BY <1>1, TypesKept, BurstsTold, PTL DEF Spec, RefusesBursts

-----------------------------------------------------------------------------
(* One client at a time: the file tells of the last respawns exactly.      *)
LEMMA ReadEcho ==
    ASSUME NEW s \in Seq(Nat), NEW r \in Seq(Nat), NEW t \in Nat, Echo(s, r),
           NEW k, k = Kept(Append(s, t))
    PROVE  OwnEcho(k, Append(r, t))
<1> DEFINE a == Append(r, t)
           m == Len(k)
           n == Len(r)
           l == Len(s)
<1>1. /\ n \in Nat /\ Len(a) = n + 1 /\ a[n + 1] = t
      /\ \A i \in 1 .. n : a[i] = r[i]
  OBVIOUS
<1>2. m \in Nat /\ m > 0 /\ m = Some(l + 1) /\ k[m] = t /\ m <= l + 1
  BY KeptStamps
<1>3. \A j \in 1 .. (m - 1) : k[j] = s[l + 1 - m + j]
  BY KeptStamps
<1>4. l \in Nat /\ l = Some(n) /\ \A j \in 1 .. l : s[j] = Rounded(r[n - l + j])
  BY DEF Echo, At
<1> HIDE DEF a, m, n, l
<1>5. m = Some(n + 1) /\ l <= n
  BY <1>1, <1>2, <1>4, BreakerAssumptions DEF Some
<1>20. n \in Nat /\ l \in Nat /\ m \in Nat /\ m > 0 /\ m <= l + 1 /\ l <= n
  BY <1>1, <1>2, <1>4, <1>5
<1>6. ASSUME NEW j \in 1 .. (m - 1)
      PROVE  k[j] = Rounded(a[n + 1 - m + j])
  <2> DEFINE i == l + 1 - m + j
             p == n + 1 - m + j
  <2>1. i \in 1 .. l /\ n - l + i = p /\ p \in 1 .. n
    BY <1>20
  <2>2. k[j] = s[i] /\ a[p] = r[p]
    BY <1>1, <1>3, <2>1
  <2> HIDE DEF i, p
  <2>3. s[i] = Rounded(r[n - l + i])
    BY <1>4, <2>1
  <2>4. k[j] = Rounded(a[p])
    BY <2>1, <2>2, <2>3
  <2> QED
    BY <2>4 DEF p
<1>7. k[m] = a[n + 1 - m + m]
  <2>1. n + 1 - m + m = n + 1
    BY <1>1, <1>2
  <2> QED
    BY <1>1, <1>2, <2>1
<1>8. Len(a) > 0 /\ Len(k) = m
  BY <1>1 DEF m
<1>9. /\ Len(k) = Some(Len(a)) /\ k[Len(k)] = a[Len(a) - Len(k) + Len(k)]
      /\ \A j \in 1 .. (Len(k) - 1) : k[j] = Rounded(a[Len(a) - Len(k) + j])
  BY <1>1, <1>5, <1>6, <1>7, <1>8
<1> QED
  BY <1>8, <1>9 DEF OwnEcho, At, a

LEMMA WriteEcho ==
    ASSUME NEW m \in Seq(Nat), NEW r \in Seq(Nat), OwnEcho(m, r)
    PROVE  Echo(Noted(m), r)
<1> DEFINE w == Noted(m)
           l == Len(m)
           n == Len(r)
<1>1. /\ l \in Nat /\ n \in Nat /\ n > 0 /\ l = Some(n) /\ m[l] = r[n - l + l]
      /\ \A j \in 1 .. (l - 1) : m[j] = Rounded(r[n - l + j])
  BY DEF OwnEcho, At
<1>2. Len(w) = l /\ \A j \in 1 .. l : w[j] = Rounded(m[j])
  BY NotedProperties
<1>5. \A j \in 1 .. n : r[j] \in Nat
  OBVIOUS
<1> HIDE DEF w, l, n
<1>3. l \in Nat /\ n \in Nat /\ l <= n
  BY <1>1, BreakerAssumptions DEF Some
<1>4. ASSUME NEW j \in 1 .. l
      PROVE  w[j] = Rounded(r[n - l + j])
  <2>1. CASE j = l
    BY <1>1, <1>2, <2>1
  <2>2. CASE j # l
    <3>1. j \in 1 .. (l - 1) /\ n - l + j \in 1 .. n
      BY <1>3, <2>2
    <3>2. r[n - l + j] \in Nat /\ m[j] = Rounded(r[n - l + j])
      BY <1>1, <1>5, <3>1
    <3> QED
      BY <1>2, <3>2, RoundedTwice
  <2> QED
    BY <2>1, <2>2
<1> QED
  BY <1>1, <1>2, <1>4 DEF Echo, At, w, l, n

LEMMA AloneNext ==
    ASSUME TypeInv, AloneInv, [Next]_vars
    PROVE  AloneInv'
<1>0. /\ now \in Nat /\ stamps \in Seq(Nat) /\ respawns \in Seq(Nat)
      /\ \A c \in Client : mine[c] \in Seq(Nat)
      /\ mine \in [Client -> Seq(Nat)]
      /\ verdict \in [Client -> {"idle", "read", "opened", "spawns", "refused"}]
  <2>1. 0 .. MaxTime \subseteq Nat
    BY BreakerAssumptions
  <2> QED
    BY <2>1, SeqMonotonic DEF TypeInv, TypeOK
<1>1. CASE Tick
  BY <1>1 DEF Tick, AloneInv
<1>2. CASE Relaunch
  <2>1. stamps' = <<>> /\ respawns' = <<>> /\ \A c \in Client : verdict'[c] = "idle"
    BY <1>2 DEF Relaunch
  <2>2. Echo(<<>>, <<>>)
    <3>1. Len(<<>>) = 0 /\ 1 .. 0 = {} /\ Limit \in Nat
      BY BreakerAssumptions
    <3> QED
      BY <3>1 DEF Echo, Some
  <2> QED
    BY <2>1, <2>2 DEF AloneInv, InFile
<1>3. ASSUME NEW c \in Client, ReadStamps(c)
      PROVE  AloneInv'
  <2>1. PICK k : k = Kept(Append(stamps, now))
    OBVIOUS
  <2>2. /\ mine' = [mine EXCEPT ![c] = k] /\ respawns' = Append(respawns, now)
        /\ verdict' = [verdict EXCEPT ![c] = "read"]
        /\ ~raced' => ~raced /\ \A o \in Client : verdict[o] \notin InFile
    BY <1>3, <2>1 DEF ReadStamps, InFile
  <2> SUFFICES ASSUME ~raced'
               PROVE  /\ \A d, e \in Client :
                           verdict'[d] \in InFile /\ verdict'[e] \in InFile => d = e
                      /\ \E d \in Client : verdict'[d] \in InFile
                      /\ \A d \in Client :
                           verdict'[d] \in InFile => OwnEcho(mine'[d], respawns')
                      /\ \A d \in Client : verdict'[d] # "opened"
    BY DEF AloneInv
  <2>3. /\ \A d \in Client : verdict'[d] \in InFile => d = c
        /\ verdict'[c] \in InFile
        /\ \A d \in Client : verdict'[d] # "opened"
    BY <1>0, <2>2 DEF InFile
  <2>4. Echo(stamps, respawns)
    BY <2>2 DEF AloneInv
  <2>5. OwnEcho(k, respawns')
    BY <1>0, <2>1, <2>2, <2>4, ReadEcho
  <2>6. mine'[c] = k
    BY <1>0, <2>2
  <2> QED
    BY <2>3, <2>5, <2>6
<1>4. ASSUME NEW c \in Client, OpenStamps(c)
      PROVE  AloneInv'
  <2>1. /\ UNCHANGED <<respawns, mine, raced>> /\ verdict[c] = "read" /\ stamps' = <<>>
        /\ verdict' = [verdict EXCEPT ![c] = "opened"]
    BY <1>4 DEF OpenStamps
  <2>2. \A d \in Client : verdict'[d] \in InFile <=> verdict[d] \in InFile
    BY <1>0, <2>1 DEF InFile
  <2>3. verdict'[c] \in InFile
    BY <2>1, <2>2 DEF InFile
  <2> QED
    BY <2>1, <2>2, <2>3 DEF AloneInv
<1>5. ASSUME NEW c \in Client, WriteStamps(c)
      PROVE  AloneInv'
  <2>1. /\ UNCHANGED <<respawns, mine, raced>> /\ verdict[c] = "opened"
        /\ stamps' = Over(stamps, Noted(mine[c]))
        /\ \E v \in {"refused", "spawns"} : verdict' = [verdict EXCEPT ![c] = v]
    BY <1>5 DEF WriteStamps
  <2> SUFFICES ASSUME ~raced
               PROVE  /\ \A d \in Client : verdict'[d] \notin InFile
                      /\ Echo(stamps', respawns')
    BY <2>1 DEF AloneInv, InFile
  <2>2. verdict[c] \in InFile
    BY <2>1 DEF InFile
  <2>3. \A d \in Client : verdict[d] \in InFile => d = c
    BY <2>2 DEF AloneInv
  <2>4. \A d \in Client : verdict'[d] \notin InFile
    BY <1>0, <2>1, <2>3 DEF InFile
  <2>5. Echo(stamps', respawns')
    <3>1. stamps = <<>> /\ Noted(mine[c]) \in Seq(Nat)
      BY <1>0, <2>1, NotedProperties DEF AloneInv
    <3>2. stamps' = Noted(mine[c])
      BY <1>0, <2>1, <3>1, OverProperties
    <3>3. OwnEcho(mine[c], respawns)
      BY <2>2 DEF AloneInv
    <3> QED
      BY <1>0, <2>1, <3>2, <3>3, WriteEcho
  <2> QED
    BY <2>4, <2>5
<1>6. ASSUME NEW c \in Client, Done(c)
      PROVE  AloneInv'
  <2>1. /\ UNCHANGED <<stamps, respawns, raced>> /\ verdict[c] \notin InFile
        /\ mine' = [mine EXCEPT ![c] = <<>>]
        /\ verdict' = [verdict EXCEPT ![c] = "idle"]
    BY <1>6 DEF Done, InFile
  <2>2. \A d \in Client : verdict'[d] \in InFile <=> verdict[d] \in InFile
    BY <1>0, <2>1 DEF InFile
  <2>3. /\ \A d \in Client : verdict[d] \in InFile => mine'[d] = mine[d]
        /\ \A d \in Client : verdict'[d] = "opened" => verdict[d] = "opened"
    BY <1>0, <2>1
  <2> QED
    BY <2>1, <2>2, <2>3 DEF AloneInv
<1>7. CASE UNCHANGED vars
  BY <1>7 DEF vars, AloneInv
<1> QED
  BY <1>1, <1>2, <1>3, <1>4, <1>5, <1>6, <1>7 DEF Next

LEMMA AloneInit == Init => AloneInv
<1> SUFFICES ASSUME Init PROVE AloneInv
  OBVIOUS
<1>1. Len(<<>>) = 0 /\ 1 .. 0 = {} /\ Limit \in Nat
  BY BreakerAssumptions
<1>2. Echo(<<>>, <<>>)
  BY <1>1 DEF Echo, Some
<1>3. stamps = <<>> /\ respawns = <<>> /\ \A c \in Client : verdict[c] = "idle"
  BY DEF Init
<1> QED
  BY <1>2, <1>3 DEF AloneInv, InFile

(* A list of all the last respawns that does not trip: fewer than Limit of *)
(* them are in the window, rounding aside.                                 *)
LEMMA NoTripIsNoBurst ==
    ASSUME NEW m \in Seq(Nat), NEW r \in Seq(Nat), OwnEcho(m, r), Ordered(r),
           respawns = r, ~Trips(m)
    PROVE  Since(m[Len(m)] - Window + Grain \div 2) < Limit
<1> DEFINE n == Len(r)
           l == Len(m)
           h == Grain \div 2
           x == m[Len(m)] - Window + Grain \div 2
           R == {i \in DOMAIN respawns : respawns[i] >= x}
<1>1. /\ Limit \in Nat \ {0} /\ Window \in Nat /\ n \in Nat /\ l \in Nat
      /\ n > 0 /\ l = Some(n)
      /\ \A j \in 1 .. (l - 1) : m[j] = Rounded(r[n - l + j])
  BY BreakerAssumptions DEF OwnEcho, At
<1>2. R = {i \in 1 .. n : r[i] >= x}
  OBVIOUS
<1>3. Since(x) = Cardinality(R)
  BY DEF Since
<1>4. l > 0 /\ l <= n /\ l <= Limit
  BY <1>1 DEF Some
<1>5. PICK a \in Nat : a <= n + 1 /\ a > n + 1 - Limit /\ R \subseteq a .. n
  <2>1. CASE l # Limit
    <3>1. n < Limit
      BY <1>1, <2>1 DEF Some
    <3>2. R \subseteq 1 .. n
      BY <1>2
    <3> HIDE DEF n, l, R
    <3>3. 1 \in Nat /\ 1 <= n + 1 /\ 1 > n + 1 - Limit
      BY <1>1, <3>1
    <3> QED
      BY <3>2, <3>3
  <2>2. CASE l = Limit
    <3>1. m[l] - m[1] > Window /\ m[l] \in Nat /\ m[1] \in Nat
      <4>1. 1 \in 1 .. Len(m) /\ Len(m) \in 1 .. Len(m)
        BY <1>4
      <4>2. m[l] \in Nat /\ m[1] \in Nat
        BY <4>1
      <4>3. ~(m[l] - m[1] <= Window)
        BY <2>2 DEF Trips
      <4> QED
        BY <1>1, <4>2, <4>3
    <3>2. l > 1
      <4>1. l # 1
        BY <1>1, <3>1
      <4> QED
        BY <1>1, <1>4, <4>1
    <3> DEFINE b == n - l + 1
    <3>3. b \in 1 .. n /\ b = n + 1 - Limit /\ 1 \in 1 .. (l - 1)
      BY <1>1, <1>4, <2>2, <3>2
    <3>4. m[1] = Rounded(r[b]) /\ r[b] \in Nat
      BY <1>1, <3>3
    <3>5. r[b] <= m[1] + h /\ h \in Nat
      BY <3>4, RoundedNear
    <3>6. r[b] < x
      <4> DEFINE c == m[l]
                 d == m[1]
                 e == r[b]
      <4>1. /\ c \in Nat /\ d \in Nat /\ e \in Nat /\ h \in Nat /\ Window \in Nat
            /\ c - d > Window /\ e <= d + h
        BY <1>1, <3>1, <3>4, <3>5
      <4>2. x = c - Window + h
        OBVIOUS
      <4> HIDE DEF x, c, d, e, h
      <4>3. e < x
        BY <4>1, <4>2
      <4> QED
        BY <4>3 DEF e
    <3>7. \A i \in R : i \in (b + 1) .. n
      <4> SUFFICES ASSUME NEW i \in 1 .. n, r[i] >= x
                   PROVE  i \in (b + 1) .. n
        BY <1>2
      <4>1. r[i] \in Nat /\ x \in Int
        <5>1. r[i] \in Nat
          OBVIOUS
        <5>2. m[l] \in Nat /\ h \in Nat /\ Window \in Nat
          BY <1>1, <3>1, <3>5
        <5>3. x = m[l] - Window + h
          OBVIOUS
        <5> HIDE DEF x, h, l
        <5> QED
          BY <5>1, <5>2, <5>3
      <4>2. i <= b => r[i] <= r[b]
        BY <3>3 DEF Ordered
      <4> HIDE DEF x, b
      <4>3. ~(i <= b)
        BY <3>4, <3>6, <4>1, <4>2
      <4> QED
        BY <1>1, <3>3, <4>3
    <3>8. b + 1 \in Nat /\ b + 1 <= n + 1 /\ b + 1 > n + 1 - Limit
      BY <1>1, <3>3
    <3> HIDE DEF b, R
    <3> QED
      BY <3>7, <3>8
  <2> QED
    BY <2>1, <2>2
<1> HIDE DEF n, R, x
<1>6. /\ IsFiniteSet(a .. n)
      /\ Cardinality(a .. n) = IF a > n THEN 0 ELSE n - a + 1
  <2>1. a \in Int /\ n \in Int
    BY <1>1
  <2> QED
    BY <2>1, FS_Interval
<1>7. Cardinality(R) <= Cardinality(a .. n) /\ IsFiniteSet(R)
  BY <1>5, <1>6, FS_Subset
<1>8. Cardinality(R) \in Nat
  BY <1>7, FS_CardinalityType
<1>9. Cardinality(a .. n) < Limit
  BY <1>1, <1>5, <1>6
<1>10. Cardinality(a .. n) \in Nat
  BY <1>6, FS_CardinalityType
<1> QED
  BY <1>1, <1>3, <1>7, <1>8, <1>9, <1>10 DEF x

(* No burst is let through, as long as no client reads the file while      *)
(* another is between its read and its write (SeesBursts).                 *)
THEOREM TripsOnBursts == Spec => SeesBursts
<1>1. TypeInv /\ ClockInv /\ AloneInv /\ [Next]_vars
        => [\A c \in Client : Judges(c, "spawns") /\ ~raced =>
               Since(Judged(c) - Window + Grain \div 2) < Limit]_vars
  <2> SUFFICES ASSUME TypeInv, ClockInv, AloneInv, Next,
                      NEW c \in Client, Judges(c, "spawns"), ~raced
               PROVE  Since(Judged(c) - Window + Grain \div 2) < Limit
    OBVIOUS
  <2>1. verdict[c] = "opened" /\ verdict'[c] = "spawns"
    BY DEF Judges
  <2>2. ~Trips(mine[c])
    <3>1. verdict \in [Client -> {"idle", "read", "opened", "spawns", "refused"}]
      BY DEF TypeInv, TypeOK
    <3>2. PICK d \in Client : ReadStamps(d) \/ OpenStamps(d) \/ WriteStamps(d) \/ Done(d)
      BY <2>1 DEF Next, Tick, Relaunch
    <3>3. c = d /\ WriteStamps(c)
      BY <2>1, <3>1, <3>2 DEF ReadStamps, OpenStamps, WriteStamps, Done
    <3> QED
      BY <2>1, <3>1, <3>3 DEF WriteStamps
  <2>3. mine[c] \in Seq(Nat) /\ respawns \in Seq(Nat)
    <3>1. 0 .. MaxTime \subseteq Nat
      BY BreakerAssumptions
    <3> QED
      BY <3>1, SeqMonotonic DEF TypeInv, TypeOK
  <2>4. OwnEcho(mine[c], respawns) /\ Ordered(respawns)
    BY <2>1 DEF AloneInv, ClockInv, InFile
  <2> QED
    BY <2>2, <2>3, <2>4, NoTripIsNoBurst DEF Judged
<1>2. TypeInv /\ AloneInv /\ [Next]_vars => AloneInv'
  BY AloneNext
<1> QED
  BY <1>1, <1>2, AloneInit, TypesKept, BurstsTold, PTL DEF Spec, SeesBursts
=============================================================================
