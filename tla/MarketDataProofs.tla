--------------------------- MODULE MarketDataProofs ---------------------------
(***************************************************************************)
(* Proofs about MarketData for any instruments, kinds, levels, quotes,     *)
(* portfolios and models, any length of the ring and any number of         *)
(* intervals and crashes.                                                  *)
(***************************************************************************)
EXTENDS MarketData, SumLemmas, SequenceTheorems

-----------------------------------------------------------------------------
(***************************************************************************)
(* FlattenSeq: where each element of the result comes from.                *)
(***************************************************************************)
Laid(out, ss, n, row, col) ==
  /\ row \in [DOMAIN out -> 1 .. n] /\ col \in [DOMAIN out -> Nat]
  /\ \A i \in DOMAIN out : col[i] \in DOMAIN ss[row[i]] /\ out[i] = ss[row[i]][col[i]]
  /\ \A i, j \in DOMAIN out :
       i < j => row[i] < row[j] \/ (row[i] = row[j] /\ col[i] < col[j])
  /\ \A r \in 1 .. n : \A k \in DOMAIN ss[r] : \E i \in DOMAIN out : row[i] = r /\ col[i] = k

Flattening(f, ss, n) ==
  f = [i \in 1 .. n |-> IF i = 1 THEN ss[i] ELSE f[i - 1] \o ss[i]]

LEMMA FlatteningExists == ASSUME NEW ss, NEW n \in Nat PROVE \E f : Flattening(f, ss, n)
<1> DEFINE D == {m \in Nat : \E f : Flattening(f, ss, m)}
<1>1. 0 \in D
  <2>1. Flattening([i \in 1 .. 0 |-> 0], ss, 0)
    BY DEF Flattening
  <2> QED BY <2>1
<1>2. ASSUME NEW m \in Nat, m \in D PROVE m + 1 \in D
  <2>1. PICK f : Flattening(f, ss, m)
    BY <1>2
  <2> DEFINE v(i) == IF i = 1 THEN ss[i] ELSE f[i - 1] \o ss[i]
             g == [i \in 1 .. m + 1 |-> v(i)]
  <2>2. \A i \in 1 .. m : f[i] = v(i)
    BY <2>1 DEF Flattening
  <2>3. \A i \in 1 .. m + 1 : i # 1 => i - 1 \in 1 .. m /\ g[i - 1] = f[i - 1]
    BY <2>2
  <2>4. \A i \in 1 .. m + 1 : g[i] = IF i = 1 THEN ss[i] ELSE g[i - 1] \o ss[i]
    BY <2>3
  <2>5. g = [i \in 1 .. m + 1 |-> g[i]]
    OBVIOUS
  <2> HIDE DEF g, v
  <2>6. Flattening(g, ss, m + 1)
    BY <2>4, <2>5 DEF Flattening
  <2> QED BY <2>6
<1> HIDE DEF D
<1>3. n \in D
  BY <1>1, <1>2, NaturalInduction
<1> QED BY <1>3 DEF D

LEMMA FlattenIs ==
  ASSUME NEW ss, Len(ss) \in Nat \ {0}
  PROVE  \E f : Flattening(f, ss, Len(ss)) /\ FlattenSeq(ss) = f[Len(ss)]
<1> DEFINE f == CHOOSE g : Flattening(g, ss, Len(ss))
<1>1. FlattenSeq(ss) = f[Len(ss)]
  BY DEF FlattenSeq, Flattening
<1>2. Flattening(f, ss, Len(ss))
  BY FlatteningExists
<1> QED BY <1>1, <1>2

LEMMA LaidAppended ==
  ASSUME NEW S, NEW ss \in Seq(Seq(S)), NEW n \in Nat, n + 1 \in DOMAIN ss,
         NEW out \in Seq(S), NEW row, NEW col, Laid(out, ss, n, row, col)
  PROVE  /\ out \o ss[n + 1] \in Seq(S)
         /\ \E r, c : Laid(out \o ss[n + 1], ss, n + 1, r, c)
<1> DEFINE w == ss[n + 1]
           m == Len(out)
           new == out \o w
           r == [i \in 1 .. m + Len(w) |-> IF i <= m THEN row[i] ELSE n + 1]
           c == [i \in 1 .. m + Len(w) |-> IF i <= m THEN col[i] ELSE i - m]
<1>1. w \in Seq(S) /\ m \in Nat /\ Len(w) \in Nat /\ DOMAIN w = 1 .. Len(w) /\ DOMAIN out = 1 .. m
  OBVIOUS
<1>2. new \in Seq(S) /\ DOMAIN new = 1 .. m + Len(w)
  BY <1>1
<1>3. \A i \in DOMAIN new : new[i] = IF i <= m THEN out[i] ELSE w[i - m]
  BY <1>1
<1> HIDE DEF w, m, new, r, c
<1>4. /\ row \in [1 .. m -> 1 .. n] /\ col \in [1 .. m -> Nat]
      /\ \A i \in 1 .. m : col[i] \in DOMAIN ss[row[i]] /\ out[i] = ss[row[i]][col[i]]
      /\ \A i, j \in 1 .. m : i < j => row[i] < row[j] \/ (row[i] = row[j] /\ col[i] < col[j])
      /\ \A a \in 1 .. n : \A k \in DOMAIN ss[a] : \E i \in 1 .. m : row[i] = a /\ col[i] = k
  <2> DEFINE d == DOMAIN out
  <2>1. d = 1 .. m
    BY <1>1
  <2>2. /\ row \in [d -> 1 .. n] /\ col \in [d -> Nat]
        /\ \A i \in d : col[i] \in DOMAIN ss[row[i]] /\ out[i] = ss[row[i]][col[i]]
        /\ \A i, j \in d : i < j => row[i] < row[j] \/ (row[i] = row[j] /\ col[i] < col[j])
        /\ \A a \in 1 .. n : \A k \in DOMAIN ss[a] : \E i \in d : row[i] = a /\ col[i] = k
    BY DEF Laid
  <2> HIDE DEF d
  <2> QED BY <2>1, <2>2
<1> USE DEF r, c
<1>5. /\ r \in [DOMAIN new -> 1 .. n + 1] /\ c \in [DOMAIN new -> Nat]
  BY <1>1, <1>2, <1>4
<1>6. ASSUME NEW i \in DOMAIN new
      PROVE  c[i] \in DOMAIN ss[r[i]] /\ new[i] = ss[r[i]][c[i]]
  <2>1. CASE i <= m
    BY <2>1, <1>1, <1>2, <1>3, <1>4
  <2>2. CASE ~(i <= m)
    <3>1. r[i] = n + 1 /\ c[i] = i - m /\ i - m \in 1 .. Len(w)
      BY <2>2, <1>1, <1>2
    <3> HIDE DEF r, c
    <3> QED BY <3>1, <2>2, <1>1, <1>2, <1>3 DEF w
  <2> QED BY <2>1, <2>2
<1>7. ASSUME NEW i \in DOMAIN new, NEW j \in DOMAIN new, i < j
      PROVE  r[i] < r[j] \/ (r[i] = r[j] /\ c[i] < c[j])
  <2>1. CASE j <= m
    BY <2>1, <1>1, <1>2, <1>4, <1>7
  <2>2. CASE ~(j <= m) /\ i <= m
    <3>1. r[i] = row[i] /\ r[j] = n + 1 /\ row[i] \in 1 .. n
      BY <2>2, <1>1, <1>2, <1>4
    <3> QED BY <3>1
  <2>3. CASE ~(j <= m) /\ ~(i <= m)
    BY <2>3, <1>1, <1>2, <1>7
  <2> QED BY <2>1, <2>2, <2>3
<1>8. ASSUME NEW a \in 1 .. n + 1, NEW k \in DOMAIN ss[a]
      PROVE  \E i \in DOMAIN new : r[i] = a /\ c[i] = k
  <2>1. CASE a = n + 1
    <3>1. k \in 1 .. Len(w)
      BY <2>1, <1>1 DEF w
    <3>2. m + k \in DOMAIN new /\ r[m + k] = a /\ c[m + k] = k
      BY <3>1, <2>1, <1>1, <1>2
    <3> QED BY <3>2
  <2>2. CASE a # n + 1
    <3>1. PICK i \in 1 .. m : row[i] = a /\ col[i] = k
      BY <2>2, <1>4
    <3>2. i \in DOMAIN new /\ r[i] = a /\ c[i] = k
      BY <3>1, <1>1, <1>2
    <3> QED BY <3>2
  <2> QED BY <2>1, <2>2
<1> HIDE DEF r, c
<1>9. Laid(new, ss, n + 1, r, c)
  BY <1>5, <1>6, <1>7, <1>8 DEF Laid
<1> QED BY <1>2, <1>9 DEF new, w

\* The result has the elements of each of the sequences, in order.
LEMMA Flattened ==
  ASSUME NEW S, NEW ss \in Seq(Seq(S))
  PROVE  /\ FlattenSeq(ss) \in Seq(S)
         /\ \E row, col : Laid(FlattenSeq(ss), ss, Len(ss), row, col)
<1>1. CASE Len(ss) = 0
  <2>1. ss = << >> /\ FlattenSeq(ss) = ss
    BY <1>1 DEF FlattenSeq
  <2>2. Laid(<< >>, ss, Len(ss), [i \in {} |-> 0], [i \in {} |-> 0])
    BY <1>1, <2>1 DEF Laid
  <2>3. FlattenSeq(ss) = << >> /\ << >> \in Seq(S)
    BY <2>1
  <2> QED BY <2>2, <2>3, Zenon
<1>2. CASE Len(ss) # 0
  <2>1. PICK f : Flattening(f, ss, Len(ss)) /\ FlattenSeq(ss) = f[Len(ss)]
    BY <1>2, FlattenIs
  <2> DEFINE Good(m) == f[m] \in Seq(S) /\ \E row, col : Laid(f[m], ss, m, row, col)
             D == {m \in Nat : m + 1 \in DOMAIN ss => Good(m + 1)}
  <2>2. 0 \in D
    <3>1. << >> \in Seq(S) /\ 1 \in DOMAIN ss
      BY <1>2
    <3>2. Laid(<< >>, ss, 0, [i \in {} |-> 0], [i \in {} |-> 0])
      BY DEF Laid
    <3>3. << >> \o ss[1] \in Seq(S) /\ \E r, c : Laid(<< >> \o ss[1], ss, 1, r, c)
      <4>1. 0 + 1 \in DOMAIN ss /\ 0 \in Nat /\ 0 + 1 = 1
        BY <3>1
      <4> QED BY <3>1, <3>2, <4>1, LaidAppended
    <3>4. << >> \o ss[1] = ss[1] /\ f[1] = ss[1]
      BY <2>1, <3>1 DEF Flattening
    <3> QED BY <3>3, <3>4
  <2>3. ASSUME NEW m \in Nat, m \in D PROVE m + 1 \in D
    <3> SUFFICES ASSUME (m + 1) + 1 \in DOMAIN ss PROVE Good((m + 1) + 1)
      OBVIOUS
    <3>1. m + 1 \in DOMAIN ss /\ m + 1 \in Nat
      OBVIOUS
    <3>2. Good(m + 1)
      BY <3>1, <2>3
    <3>3. f[(m + 1) + 1] = f[m + 1] \o ss[(m + 1) + 1]
      <4>1. (m + 1) + 1 \in 1 .. Len(ss) /\ (m + 1) + 1 # 1 /\ ((m + 1) + 1) - 1 = m + 1
        OBVIOUS
      <4> QED BY <2>1, <4>1 DEF Flattening
    <3> QED BY <3>1, <3>2, <3>3, LaidAppended
  <2> HIDE DEF D, Good
  <2>4. Len(ss) - 1 \in D
    <3>1. Len(ss) - 1 \in Nat
      BY <1>2
    <3> QED BY <2>2, <2>3, <3>1, NaturalInduction
  <2>5. Good((Len(ss) - 1) + 1)
    BY <2>4, <1>2 DEF D
  <2>6. (Len(ss) - 1) + 1 = Len(ss)
    OBVIOUS
  <2> QED BY <2>1, <2>5, <2>6 DEF Good
<1> QED BY <1>1, <1>2

LEMMA FunctionIsSeq ==
  ASSUME NEW S, NEW n \in Nat, NEW f \in [1 .. n -> S]
  PROVE  f \in Seq(S) /\ Len(f) = n /\ DOMAIN f = 1 .. n
<1>1. f \in Seq(S) /\ DOMAIN f = 1 .. n
  OBVIOUS
<1> QED BY <1>1

LEMMA ConcatIs ==
  ASSUME NEW S, NEW s \in Seq(S), NEW t \in Seq(S)
  PROVE  /\ s \o t \in Seq(S) /\ Len(s \o t) = Len(s) + Len(t)
         /\ Len(s) \in Nat /\ Len(t) \in Nat
         /\ DOMAIN (s \o t) = 1 .. Len(s) + Len(t)
         /\ DOMAIN s = 1 .. Len(s) /\ DOMAIN t = 1 .. Len(t)
         /\ \A i \in 1 .. Len(s) : (s \o t)[i] = s[i] /\ i \in DOMAIN (s \o t)
         /\ \A i \in 1 .. Len(t) : (s \o t)[Len(s) + i] = t[i] /\ Len(s) + i \in DOMAIN (s \o t)
         /\ \A j \in DOMAIN (s \o t) : j \in 1 .. Len(s) \/ \E i \in 1 .. Len(t) : j = Len(s) + i
<1> DEFINE n == Len(s)
           m == Len(t)
           u == s \o t
<1>1. n \in Nat /\ m \in Nat /\ DOMAIN s = 1 .. n /\ DOMAIN t = 1 .. m
  OBVIOUS
<1>2. u \in Seq(S) /\ Len(u) = n + m
  OBVIOUS
<1>3. \A i \in 1 .. n + m : u[i] = IF i <= n THEN s[i] ELSE t[i - n]
  OBVIOUS
<1> HIDE DEF n, m, u
<1>4. DOMAIN u = 1 .. n + m
  BY <1>2
<1>5. \A i \in 1 .. n : i \in 1 .. n + m /\ i <= n
  BY <1>1
<1>6. \A i \in 1 .. m : n + i \in 1 .. n + m /\ ~ (n + i <= n) /\ (n + i) - n = i
  BY <1>1
<1>7. ASSUME NEW j \in 1 .. n + m PROVE j \in 1 .. n \/ \E i \in 1 .. m : j = n + i
  <2>1. CASE j <= n
    BY <2>1, <1>1
  <2>2. CASE ~ (j <= n)
    <3>1. j - n \in 1 .. m /\ j = n + (j - n)
      BY <2>2, <1>1
    <3> QED BY <3>1
  <2> QED BY <2>1, <2>2
<1>8. \A i \in 1 .. n : u[i] = s[i] /\ i \in DOMAIN u
  BY <1>3, <1>4, <1>5
<1>9. \A i \in 1 .. m : u[n + i] = t[i] /\ n + i \in DOMAIN u
  BY <1>3, <1>4, <1>6
<1> QED BY <1>1, <1>2, <1>4, <1>7, <1>8, <1>9 DEF n, m, u

\* Only keeps the elements in the set, and their order.
LEMMA OnlyIs ==
  ASSUME NEW S, NEW s \in Seq(S), NEW T
  PROVE  /\ Only(s, T) \in Seq(S)
         /\ \E at \in [DOMAIN Only(s, T) -> DOMAIN s] :
              /\ \A i \in DOMAIN Only(s, T) : Only(s, T)[i] = s[at[i]] /\ s[at[i]] \in T
              /\ \A i, j \in DOMAIN Only(s, T) : i < j => at[i] < at[j]
              /\ \A k \in DOMAIN s : s[k] \in T => \E i \in DOMAIN Only(s, T) : at[i] = k
<1> DEFINE ss == [i \in DOMAIN s |-> IF s[i] \in T THEN <<s[i]>> ELSE << >>]
           out == FlattenSeq(ss)
<1>1. ss \in Seq(Seq(S)) /\ Len(ss) = Len(s)
  <2>1. \A i \in DOMAIN s : s[i] \in S /\ (IF s[i] \in T THEN <<s[i]>> ELSE << >>) \in Seq(S)
    OBVIOUS
  <2>2. ss \in [1 .. Len(s) -> Seq(S)] /\ Len(s) \in Nat
    BY <2>1
  <2> HIDE DEF ss
  <2> QED BY <2>2
<1>2. out = Only(s, T)
  BY DEF Only
<1> HIDE DEF out
<1>3. /\ \A k \in DOMAIN s : s[k] \in T => ss[k] = <<s[k]>>
      /\ \A k \in DOMAIN s : s[k] \notin T => ss[k] = << >>
  OBVIOUS
<1> HIDE DEF ss
<1>4. out \in Seq(S) /\ \E row, col : Laid(out, ss, Len(s), row, col)
  BY <1>1, Flattened DEF out
<1>5. PICK row, col : Laid(out, ss, Len(s), row, col)
  BY <1>4
<1>6. /\ row \in [DOMAIN out -> DOMAIN s]
      /\ \A i \in DOMAIN out : col[i] \in DOMAIN ss[row[i]] /\ out[i] = ss[row[i]][col[i]]
      /\ \A i, j \in DOMAIN out : i < j => row[i] < row[j] \/ (row[i] = row[j] /\ col[i] < col[j])
      /\ \A k \in DOMAIN s : \A e \in DOMAIN ss[k] : \E i \in DOMAIN out : row[i] = k /\ col[i] = e
  BY <1>5 DEF Laid
<1>7. ASSUME NEW i \in DOMAIN out PROVE out[i] = s[row[i]] /\ s[row[i]] \in T /\ col[i] = 1
  <2>1. row[i] \in DOMAIN s /\ col[i] \in DOMAIN ss[row[i]] /\ out[i] = ss[row[i]][col[i]]
    BY <1>6
  <2>2. s[row[i]] \in T
    BY <2>1, <1>3
  <2> QED BY <2>1, <2>2, <1>3
<1>8. ASSUME NEW i \in DOMAIN out, NEW j \in DOMAIN out, i < j PROVE row[i] < row[j]
  BY <1>6, <1>7, <1>8
<1>9. ASSUME NEW k \in DOMAIN s, s[k] \in T PROVE \E i \in DOMAIN out : row[i] = k
  <2>1. 1 \in DOMAIN ss[k]
    BY <1>9, <1>3
  <2> QED BY <2>1, <1>6
<1> QED BY <1>2, <1>4, <1>6, <1>7, <1>8, <1>9

-----------------------------------------------------------------------------
(***************************************************************************)
(* FoldLeft: the values it goes through.  The step is given as a function, *)
(* h[i] for the i-th element, because no lemma can be about an operator.   *)
(***************************************************************************)
LEMMA MaxOf ==
  ASSUME NEW s, NEW m \in s, s \subseteq Int, \A x \in s : x <= m
  PROVE  Max(s) = m
<1> DEFINE P(x) == \A y \in s : x >= y
<1>1. P(m)
  OBVIOUS
<1>2. Max(s) = CHOOSE x \in s : P(x)
  BY DEF Max
<1> HIDE DEF P
<1>3. Max(s) \in s /\ P(Max(s))
  BY <1>1, <1>2
<1> DEFINE x == Max(s)
<1>4. x \in s /\ x >= m
  BY <1>3 DEF P
<1> HIDE DEF x
<1>5. x \in Int /\ m \in Int /\ x <= m
  BY <1>4
<1>6. x = m
  BY <1>4, <1>5
<1> QED BY <1>6 DEF x

LEMMA MaxWithin == ASSUME NEW n \in Nat, NEW s \in SUBSET (1 .. n), s # {}
                   PROVE  Max(s) \in s /\ \A x \in s : x <= Max(s)
<1> DEFINE Has(k) == \A u \in SUBSET (1 .. k) : u # {} => \E m \in u : \A x \in u : x <= m
           D == {k \in Nat : Has(k)}
<1>1. Has(0)
  <2>1. 1 .. 0 = {}
    OBVIOUS
  <2> QED BY <2>1
<1>2. ASSUME NEW k \in Nat, Has(k) PROVE Has(k + 1)
  <2> SUFFICES ASSUME NEW u \in SUBSET (1 .. k + 1), u # {}
               PROVE  \E m \in u : \A x \in u : x <= m
    OBVIOUS
  <2>1. CASE k + 1 \in u
    BY <2>1
  <2>2. CASE k + 1 \notin u
    <3>1. u \in SUBSET (1 .. k)
      BY <2>2
    <3> QED BY <3>1, <1>2
  <2> QED BY <2>1, <2>2
<1> HIDE DEF Has
<1>3. 0 \in D /\ \A k \in Nat : k \in D => k + 1 \in D
  BY <1>1, <1>2
<1> HIDE DEF D
<1>4. n \in D
  BY <1>3, NaturalInduction
<1>5. PICK m \in s : \A x \in s : x <= m
  BY <1>4 DEF D, Has
<1>6. s \subseteq Int
  OBVIOUS
<1>7. Max(s) = m
  BY <1>5, <1>6, MaxOf
<1> QED BY <1>5, <1>7

Folding(g, h, base, n) ==
  /\ g[{}] = base
  /\ \A s \in SUBSET (1 .. n) : s # {} => g[s] = h[Max(s)][g[s \ {Max(s)}]]

LEMMA FoldExists ==
  ASSUME NEW n \in Nat, NEW V, NEW base \in V, NEW h \in [1 .. n -> [V -> V]]
  PROVE  \E g \in [SUBSET (1 .. n) -> V] : Folding(g, h, base, n)
<1> DEFINE Ex(m) == \E g \in [SUBSET (1 .. m) -> V] : Folding(g, h, base, m)
           D == {m \in Nat : m <= n => Ex(m)}
<1>1. Ex(0)
  <2> DEFINE g == [s \in SUBSET (1 .. 0) |-> base]
  <2>1. g \in [SUBSET (1 .. 0) -> V]
    OBVIOUS
  <2>2. {} \in SUBSET (1 .. 0) /\ \A s \in SUBSET (1 .. 0) : s = {}
    OBVIOUS
  <2>3. g[{}] = base
    BY <2>2
  <2> HIDE DEF g
  <2>4. Folding(g, h, base, 0)
    BY <2>2, <2>3 DEF Folding
  <2> QED BY <2>1, <2>4
<1>2. ASSUME NEW m \in Nat, Ex(m), m + 1 <= n PROVE Ex(m + 1)
  <2> DEFINE R == SUBSET (1 .. m)
             S == SUBSET (1 .. m + 1)
             less(s) == s \ {m + 1}
  <2>1. PICK g \in [R -> V] : Folding(g, h, base, m)
    BY <1>2
  <2>2. /\ \A s \in S : less(s) \in R /\ less(s) \in S /\ m + 1 \notin less(s)
        /\ \A s \in S : m + 1 \notin s => s \in R
        /\ \A s \in R : s \in S /\ m + 1 \notin s
        /\ {} \in R
    OBVIOUS
  <2>3. \A s \in R : s # {} => Max(s) \in s /\ s \ {Max(s)} \in R
    BY MaxWithin
  <2>4. \A s \in S : m + 1 \in s => Max(s) = m + 1
    <3>1. \A s \in S : s \subseteq Int /\ \A x \in s : x <= m + 1
      OBVIOUS
    <3> QED BY <3>1, MaxOf
  <2>5. g[{}] = base /\ \A s \in R : s # {} => g[s] = h[Max(s)][g[s \ {Max(s)}]]
    BY <2>1 DEF Folding
  <2>6. \A s \in S : less(s) = s \ {m + 1}
    OBVIOUS
  <2>7. h[m + 1] \in [V -> V]
    BY <1>2
  <2> DEFINE v(s) == IF m + 1 \in s THEN h[m + 1][g[less(s)]] ELSE g[s]
             k == [s \in S |-> v(s)]
  <2> HIDE DEF R, S, less
  <2>8. k \in [S -> V]
    BY <2>1, <2>2, <2>7
  <2>9. k[{}] = base
    BY <2>2, <2>5
  <2>10. ASSUME NEW s \in S, s # {} PROVE k[s] = h[Max(s)][k[s \ {Max(s)}]]
    <3>1. CASE m + 1 \in s
      <4>1. k[less(s)] = g[less(s)] /\ k[s] = h[m + 1][g[less(s)]]
        BY <2>2, <3>1
      <4> HIDE DEF k
      <4> QED BY <4>1, <2>4, <2>6, <3>1
    <3>2. CASE m + 1 \notin s
      <4>1. s \in R /\ s \ {Max(s)} \in R
        BY <3>2, <2>2, <2>3, <2>10
      <4>2. k[s] = g[s] /\ k[s \ {Max(s)}] = g[s \ {Max(s)}]
        BY <4>1, <2>2
      <4> HIDE DEF k
      <4> QED BY <4>1, <4>2, <2>5, <2>10
    <3> QED BY <3>1, <3>2
  <2> HIDE DEF k
  <2>11. Folding(k, h, base, m + 1)
    BY <2>9, <2>10 DEF Folding, S
  <2> QED BY <2>8, <2>11 DEF S
<1> HIDE DEF Ex
<1>3. 0 \in D /\ \A m \in Nat : m \in D => m + 1 \in D
  BY <1>1, <1>2
<1> HIDE DEF D
<1>4. n \in D
  BY <1>3, NaturalInduction
<1>5. Ex(n)
  BY <1>4 DEF D
<1> QED BY <1>5 DEF Ex

Trace(t, h, base, n) == t[0] = base /\ \A i \in 1 .. n : t[i] = h[i][t[i - 1]]

FoldingWithin(k, h, base, n, V) ==
  /\ k[{}] = base
  /\ \A s \in SUBSET (1 .. n) :
       s # {} /\ k[s \ {Max(s)}] \in V => k[s] = h[Max(s)][k[s \ {Max(s)}]]

LEMMA Traced ==
  ASSUME NEW n \in Nat, NEW V, NEW base \in V, NEW h \in [1 .. n -> [V -> V]], NEW k,
         FoldingWithin(k, h, base, n, V)
  PROVE  \E t \in [0 .. n -> V] : Trace(t, h, base, n) /\ t[n] = k[1 .. n]
<1> DEFINE D == {m \in Nat : m <= n =>
                   k[1 .. m] \in V /\ (m > 0 => k[1 .. m] = h[m][k[1 .. m - 1]])}
<1>1. 0 \in D
  <2>1. 1 .. 0 = {}
    OBVIOUS
  <2> QED BY <2>1 DEF FoldingWithin
<1>2. ASSUME NEW m \in Nat, m \in D PROVE m + 1 \in D
  <2> SUFFICES ASSUME m + 1 <= n
               PROVE  k[1 .. m + 1] \in V /\ k[1 .. m + 1] = h[m + 1][k[1 .. (m + 1) - 1]]
    OBVIOUS
  <2> DEFINE s == 1 .. m + 1
  <2>1. s \in SUBSET (1 .. n) /\ m + 1 \in s /\ s \subseteq Int /\ \A x \in s : x <= m + 1
    OBVIOUS
  <2>2. s \ {m + 1} = 1 .. m /\ (m + 1) - 1 = m /\ m + 1 \in 1 .. n
    OBVIOUS
  <2>3. k[1 .. m] \in V
    BY <1>2
  <2> HIDE DEF s
  <2>4. Max(s) = m + 1
    BY <2>1, MaxOf
  <2>5. k[s] = h[m + 1][k[1 .. m]]
    BY <2>1, <2>2, <2>3, <2>4 DEF FoldingWithin
  <2>6. h[m + 1][k[1 .. m]] \in V
    BY <2>2, <2>3
  <2> QED BY <2>2, <2>5, <2>6 DEF s
<1>3. Nat \subseteq D
  <2> HIDE DEF D
  <2> QED BY <1>1, <1>2, NaturalInduction
<1> DEFINE t == [i \in 0 .. n |-> k[1 .. i]]
<1>4. t \in [0 .. n -> V]
  BY <1>3
<1>5. t[0] = base
  <2>1. 1 .. 0 = {} /\ 0 \in 0 .. n
    OBVIOUS
  <2> QED BY <2>1 DEF FoldingWithin
<1>6. ASSUME NEW i \in 1 .. n PROVE t[i] = h[i][t[i - 1]]
  <2>1. i \in D /\ i - 1 \in 0 .. n /\ i \in 0 .. n
    BY <1>3
  <2> QED BY <2>1
<1>7. t[n] = k[1 .. n]
  OBVIOUS
<1> HIDE DEF t
<1> QED BY <1>4, <1>5, <1>6, <1>7 DEF Trace

LEMMA TraceExists ==
  ASSUME NEW n \in Nat, NEW V, NEW base \in V, NEW h \in [1 .. n -> [V -> V]]
  PROVE  \E t \in [0 .. n -> V] : Trace(t, h, base, n)
<1>1. PICK g \in [SUBSET (1 .. n) -> V] : Folding(g, h, base, n)
  BY FoldExists
<1>2. FoldingWithin(g, h, base, n, V)
  BY <1>1 DEF Folding, FoldingWithin
<1>3. \E t \in [0 .. n -> V] : Trace(t, h, base, n) /\ t[n] = g[1 .. n]
  BY <1>2, Traced
<1> QED BY <1>3

-----------------------------------------------------------------------------
(***************************************************************************)
(* Candles: types, periods, and the levels that a bar rises to.            *)
(***************************************************************************)
Levels == Len(Counts)

LEMMA LevelFacts ==
  /\ Levels \in Nat /\ DOMAIN Counts = 1 .. Levels /\ Freqs = 0 .. Levels
  /\ \A f \in 1 .. Levels : Counts[f] \in Nat /\ Counts[f] > 0 /\ f \in Freqs /\ f - 1 \in Freqs
  /\ 0 \in Freqs
BY CandlesAssumption DEF Levels, Freqs

LEMMA KindFacts ==
  /\ Len(Kinds) \in Nat /\ DOMAIN Kinds = 1 .. Len(Kinds) /\ 1 \in DOMAIN Kinds
  /\ First = Kinds[1] /\ First \in KindSet
  /\ \A k \in DOMAIN Kinds : Kinds[k] \in KindSet /\ (Kinds[k] = First => k = 1)
<1>1. Kinds \in Seq(KindSet) /\ Kinds # << >>
  BY CandlesAssumption
<1>2. Len(Kinds) \in Nat /\ DOMAIN Kinds = 1 .. Len(Kinds) /\ 1 \in DOMAIN Kinds
  BY <1>1
<1> QED BY <1>2, CandlesAssumption DEF First, KindSet

Candle == [start : Nat, end : Nat \ {0}, ticks : Int]
CandleOrNone == Candle \cup {None}

Resampler == [seen : Nat, hasData : BOOLEAN, ticks : Nat, start : Nat, end : Nat]
Cascade == {x \in [1 .. Levels -> Resampler] : \A f \in 1 .. Levels : x[f].seen < Counts[f]}
CascadeMap == [Instruments -> [KindSet -> Cascade]]

LEMMA CandleIsNotNone == None \notin Candle
BY DEF Candle, None, Ohlc

PeriodIs(p) == /\ p \in [Freqs -> Nat \ {0}] /\ p[0] = 1
               /\ \A f \in 1 .. Levels : p[f] = Counts[f] * p[f - 1]

\* The period of a level is the product of the counts up to it.
LEMMA PeriodFacts ==
  /\ \A f \in Freqs : Period(f) \in Nat /\ Period(f) > 0
  /\ Period(0) = 1
  /\ \A f \in 1 .. Levels : Period(f) = Counts[f] * Period(f - 1)
<1> DEFINE Eq(q) == q = [k \in Freqs |-> IF k = 0 THEN 1 ELSE Counts[k] * q[k - 1]]
           p == CHOOSE q : Eq(q)
           h == [i \in 1 .. Levels |-> [v \in Nat \ {0} |-> Counts[i] * v]]
<1>1. \A f : Period(f) = p[f]
  BY DEF Period
<1>2. \E q : Eq(q)
  <2>1. \A a, b \in Nat \ {0} : a * b \in Nat \ {0}
    OBVIOUS
  <2>2. h \in [1 .. Levels -> [Nat \ {0} -> Nat \ {0}]]
    BY <2>1, LevelFacts
  <2> HIDE DEF h
  <2>3. PICK t \in [0 .. Levels -> Nat \ {0}] : Trace(t, h, 1, Levels)
    <3>1. 1 \in Nat \ {0} /\ Levels \in Nat
      BY LevelFacts
    <3> QED BY <2>2, <3>1, TraceExists
  <2>4. t[0] = 1 /\ \A i \in 1 .. Levels : t[i] = Counts[i] * t[i - 1]
    <3>1. \A i \in 1 .. Levels : i - 1 \in 0 .. Levels
      BY LevelFacts
    <3> QED BY <3>1, <2>3 DEF Trace, h
  <2>5. t = [k \in Freqs |-> t[k]]
    BY LevelFacts
  <2>6. \A k \in Freqs : t[k] = IF k = 0 THEN 1 ELSE Counts[k] * t[k - 1]
    BY <2>4, LevelFacts
  <2>7. Eq(t)
    BY <2>5, <2>6
  <2> QED BY <2>7
<1>3. Eq(p)
  BY <1>2
<1> HIDE DEF p
<1>4. p[0] = 1 /\ \A f \in 1 .. Levels : p[f] = Counts[f] * p[f - 1]
  BY <1>3, LevelFacts
<1>5. \A f \in Freqs : p[f] \in Nat /\ p[f] > 0
  <2> DEFINE D == {m \in Nat : m <= Levels => p[m] \in Nat /\ p[m] > 0}
  <2>1. 0 \in D
    BY <1>4
  <2>2. ASSUME NEW m \in Nat, m \in D PROVE m + 1 \in D
    <3> SUFFICES ASSUME m + 1 <= Levels PROVE p[m + 1] \in Nat /\ p[m + 1] > 0
      OBVIOUS
    <3>1. m + 1 \in 1 .. Levels /\ (m + 1) - 1 = m /\ p[m] \in Nat /\ p[m] > 0
      BY <2>2, LevelFacts
    <3>2. p[m + 1] = Counts[m + 1] * p[m] /\ Counts[m + 1] \in Nat /\ Counts[m + 1] > 0
      BY <3>1, <1>4, LevelFacts
    <3>3. \A a, b \in Nat : a > 0 /\ b > 0 => a * b \in Nat /\ a * b > 0
      OBVIOUS
    <3> QED BY <3>1, <3>2, <3>3
  <2> HIDE DEF D
  <2>3. Nat \subseteq D
    BY <2>1, <2>2, NaturalInduction
  <2> QED BY <2>3, LevelFacts DEF D
<1> QED BY <1>1, <1>4, <1>5

Step(r, bar, count) == IF Complete(Added(r, bar), count) THEN BuiltCandle(Added(r, bar)) ELSE None

LEMMA StepType ==
  ASSUME NEW r \in Resampler, NEW bar \in Candle, NEW count \in Nat
  PROVE  /\ Added(r, bar) \in Resampler
         /\ Step(r, bar, count) \in CandleOrNone
<1>1. bar.ticks \in Int /\ bar.start \in Nat /\ bar.end \in Nat \ {0}
  BY DEF Candle
<1>2. Added(r, bar) \in Resampler
  BY <1>1 DEF Added, Resampler, HasPrices
<1>3. Added(r, bar).end = bar.end
  BY DEF Added
<1>4. BuiltCandle(Added(r, bar)) \in Candle
  <2> DEFINE a == Added(r, bar)
  <2>1. a.start \in Nat /\ a.end \in Nat \ {0} /\ a.ticks \in Nat
    BY <1>1, <1>2, <1>3 DEF Resampler
  <2> HIDE DEF a
  <2> QED BY <2>1 DEF BuiltCandle, Ohlc, Candle, a
<1> QED BY <1>2, <1>4 DEF Step, CandleOrNone

\* What a bar becomes on each level.
LEMMA RisenIs ==
  ASSUME NEW x \in Cascade, NEW bar \in Candle
  PROVE  /\ Risen(x, bar) \in [Freqs -> CandleOrNone]
         /\ Risen(x, bar)[0] = bar
         /\ \A f \in 1 .. Levels :
              Risen(x, bar)[f] = IF Risen(x, bar)[f - 1] = None THEN None
                                 ELSE Step(x[f], Risen(x, bar)[f - 1], Counts[f])
<1> DEFINE next(k, v) == IF v = None THEN None ELSE Step(x[k], v, Counts[k])
           Eq(u) == u = [k \in Freqs |-> IF k = 0 THEN bar ELSE next(k, u[k - 1])]
           up == CHOOSE u : Eq(u)
           h == [i \in 1 .. Levels |-> [v \in CandleOrNone |-> next(i, v)]]
<1>1. Risen(x, bar) = up
  BY DEF Risen, Step
<1>2. \A i \in 1 .. Levels : \A v \in CandleOrNone : next(i, v) \in CandleOrNone
  BY StepType, LevelFacts DEF CandleOrNone, Cascade
<1>3. bar \in CandleOrNone
  BY DEF CandleOrNone
<1> HIDE DEF next
<1>4. \E u : Eq(u)
  <2>1. h \in [1 .. Levels -> [CandleOrNone -> CandleOrNone]]
    BY <1>2
  <2>2. PICK t \in [0 .. Levels -> CandleOrNone] : Trace(t, h, bar, Levels)
    BY <2>1, <1>3, LevelFacts, TraceExists
  <2>3. t[0] = bar /\ \A i \in 1 .. Levels : t[i] = next(i, t[i - 1])
    <3>1. \A i \in 1 .. Levels : i - 1 \in 0 .. Levels
      BY LevelFacts
    <3> QED BY <3>1, <2>2 DEF Trace
  <2>4. t = [k \in Freqs |-> t[k]]
    BY LevelFacts
  <2>5. \A k \in Freqs : t[k] = IF k = 0 THEN bar ELSE next(k, t[k - 1])
    BY <2>3, LevelFacts
  <2>6. Eq(t)
    BY <2>4, <2>5
  <2> QED BY <2>6
<1>5. Eq(up)
  BY <1>4
<1> HIDE DEF up
<1>6. /\ up[0] = bar /\ \A f \in 1 .. Levels : up[f] = next(f, up[f - 1])
      /\ up = [k \in Freqs |-> up[k]]
  BY <1>5, LevelFacts
<1>7. \A f \in Freqs : up[f] \in CandleOrNone
  <2> DEFINE D == {m \in Nat : m <= Levels => up[m] \in CandleOrNone}
  <2>1. 0 \in D
    BY <1>6, <1>3
  <2>2. ASSUME NEW m \in Nat, m \in D PROVE m + 1 \in D
    <3> SUFFICES ASSUME m + 1 <= Levels PROVE up[m + 1] \in CandleOrNone
      OBVIOUS
    <3>1. m + 1 \in 1 .. Levels /\ (m + 1) - 1 = m /\ up[m] \in CandleOrNone
      BY <2>2, LevelFacts
    <3> QED BY <3>1, <1>2, <1>6
  <2> HIDE DEF D
  <2>3. Nat \subseteq D
    BY <2>1, <2>2, NaturalInduction
  <2> QED BY <2>3, LevelFacts DEF D
<1>8. up \in [Freqs -> CandleOrNone]
  BY <1>6, <1>7
<1> QED BY <1>1, <1>6, <1>8 DEF next

-----------------------------------------------------------------------------
(***************************************************************************)
(* The ticks within a span, as a sum.                                      *)
(***************************************************************************)
TickCounts(p) == [i \in DOMAIN p |-> p[i].ticks]
BarsWithin(p, s, e) == {i \in DOMAIN p : p[i].start >= s /\ p[i].end <= e}
TicksIn(p, s, e) == SumFunctionOnSet(TickCounts(p), BarsWithin(p, s, e))

LEMMA TickCountsType ==
  ASSUME NEW p \in Seq(Candle), NEW s \in Int, NEW e \in Int
  PROVE  /\ IsFiniteSet(BarsWithin(p, s, e)) /\ IsFiniteSet(DOMAIN p)
         /\ BarsWithin(p, s, e) \subseteq DOMAIN p
         /\ \A i \in DOMAIN p : TickCounts(p)[i] \in Int
<1>1. DOMAIN p = 1 .. Len(p) /\ Len(p) \in Nat
  OBVIOUS
<1>2. IsFiniteSet(1 .. Len(p))
  BY <1>1, FS_Interval
<1>3. BarsWithin(p, s, e) \subseteq DOMAIN p
  BY DEF BarsWithin
<1>4. \A i \in DOMAIN p : p[i] \in Candle
  BY <1>1
<1>5. \A i \in DOMAIN p : TickCounts(p)[i] \in Int
  BY <1>4 DEF TickCounts, Candle
<1> QED BY <1>1, <1>2, <1>3, <1>5, FS_Subset

LEMMA TicksFolded ==
  ASSUME NEW p \in Seq(Candle), NEW s \in Int, NEW e \in Int
  PROVE  FoldLeft(LAMBDA sum, b : IF b.start >= s /\ b.end <= e THEN sum + b.ticks ELSE sum, 0, p)
           = TicksIn(p, s, e)
<1> DEFINE n == Len(p)
           step(v, b) == IF b.start >= s /\ b.end <= e THEN v + b.ticks ELSE v
           Eq(k) == k = [u \in SUBSET DOMAIN p |->
                           IF u = {} THEN 0 ELSE step(k[u \ {Max(u)}], p[Max(u)])]
           k == CHOOSE j : Eq(j)
           h == [i \in 1 .. n |-> [v \in Int |-> step(v, p[i])]]
<1>1. n \in Nat /\ DOMAIN p = 1 .. n /\ \A i \in 1 .. n : p[i] \in Candle
  OBVIOUS
<1>2. FoldLeft(LAMBDA sum, b : IF b.start >= s /\ b.end <= e THEN sum + b.ticks ELSE sum, 0, p)
        = k[DOMAIN p]
  BY DEF FoldLeft, MapThenFoldSet
<1>3. \A i \in 1 .. n, v \in Int : step(v, p[i]) \in Int
  BY <1>1 DEF Candle
<1> HIDE DEF n, step
<1>4. h \in [1 .. n -> [Int -> Int]]
  BY <1>3
<1>5. \A i \in 1 .. n, v \in Int : h[i][v] = step(v, p[i])
  OBVIOUS
<1> HIDE DEF h
<1>6. \E j : Eq(j)
  <2>1. PICK g \in [SUBSET (1 .. n) -> Int] : Folding(g, h, 0, n)
    <3> DEFINE V == Int
               base == 0
    <3>1. base \in V /\ h \in [1 .. n -> [V -> V]]
      BY <1>4
    <3> HIDE DEF V, base
    <3>2. \E g \in [SUBSET (1 .. n) -> V] : Folding(g, h, base, n)
      BY <1>1, <3>1, FoldExists
    <3> QED BY <3>2 DEF V, base
  <2> DEFINE R == SUBSET (1 .. n)
  <2>2. \A u \in R : u # {} => Max(u) \in 1 .. n /\ u \ {Max(u)} \in R
    BY <1>1, MaxWithin
  <2>3. g[{}] = 0 /\ \A u \in R : u # {} => g[u] = h[Max(u)][g[u \ {Max(u)}]]
    BY <2>1 DEF Folding
  <2>4. g \in [R -> Int]
    BY <2>1
  <2> HIDE DEF R
  <2>5. \A u \in R : u # {} => g[u] = step(g[u \ {Max(u)}], p[Max(u)])
    BY <1>5, <2>2, <2>3, <2>4
  <2>6. g = [u \in R |-> IF u = {} THEN 0 ELSE step(g[u \ {Max(u)}], p[Max(u)])]
    BY <2>3, <2>4, <2>5
  <2>7. R = SUBSET DOMAIN p
    BY <1>1 DEF R
  <2> QED BY <2>6, <2>7
<1>7. Eq(k)
  BY <1>6
<1> HIDE DEF k
<1>8. FoldingWithin(k, h, 0, n, Int)
  <2> DEFINE R == SUBSET (1 .. n)
  <2>1. R = SUBSET DOMAIN p /\ {} \in R
    BY <1>1
  <2>2. \A u \in R : u # {} => Max(u) \in 1 .. n
    BY <1>1, MaxWithin
  <2> HIDE DEF R
  <2>3. k[{}] = 0 /\ \A u \in R : u # {} => k[u] = step(k[u \ {Max(u)}], p[Max(u)])
    BY <1>7, <2>1
  <2>4. \A u \in R : u # {} /\ k[u \ {Max(u)}] \in Int => k[u] = h[Max(u)][k[u \ {Max(u)}]]
    BY <1>5, <2>2, <2>3
  <2> QED BY <2>3, <2>4 DEF FoldingWithin, R
<1>9. PICK t \in [0 .. n -> Int] : Trace(t, h, 0, n) /\ t[n] = k[1 .. n]
  <2> DEFINE V == Int
             base == 0
  <2>1. base \in V /\ h \in [1 .. n -> [V -> V]] /\ FoldingWithin(k, h, base, n, V)
    BY <1>4, <1>8
  <2> HIDE DEF V, base
  <2>2. \E t \in [0 .. n -> V] : Trace(t, h, base, n) /\ t[n] = k[1 .. n]
    BY <1>1, <2>1, Traced
  <2> QED BY <2>2 DEF V, base
<1> DEFINE W(m) == {i \in BarsWithin(p, s, e) : i <= m}
           S(m) == SumFunctionOnSet(TickCounts(p), W(m))
           D == {m \in Nat : m <= n => t[m] = S(m)}
<1>10. /\ \A m \in Nat : IsFiniteSet(W(m)) /\ W(m) \subseteq DOMAIN p
       /\ \A i \in DOMAIN p : TickCounts(p)[i] \in Int
  BY TickCountsType, FS_Subset
<1>11. W(0) = {}
  BY <1>1 DEF BarsWithin
<1>12. 0 \in D
  BY <1>9, <1>11, SumEmpty DEF Trace
<1>13. ASSUME NEW m \in Nat, m \in D PROVE m + 1 \in D
  <2> SUFFICES ASSUME m + 1 <= n PROVE t[m + 1] = S(m + 1)
    OBVIOUS
  <2>1. m + 1 \in 1 .. n /\ (m + 1) - 1 = m /\ t[m] = S(m) /\ t[m] \in Int
    BY <1>1, <1>9, <1>13
  <2>2. t[m + 1] = step(t[m], p[m + 1])
    BY <2>1, <1>5, <1>9 DEF Trace
  <2>3. CASE m + 1 \in BarsWithin(p, s, e)
    <3>1. W(m + 1) = W(m) \cup {m + 1} /\ m + 1 \notin W(m)
      BY <2>3, <1>1 DEF BarsWithin
    <3>2. S(m + 1) = TickCounts(p)[m + 1] + S(m)
      <4> HIDE DEF W
      <4>1. \A y \in W(m) \cup {m + 1} : TickCounts(p)[y] \in Int
        BY <1>1, <1>10, <2>1
      <4> QED BY <3>1, <4>1, <1>10, SumAdd
    <3>3. TickCounts(p)[m + 1] = p[m + 1].ticks /\ p[m + 1].ticks \in Int
      BY <2>1, <1>1 DEF TickCounts, Candle
    <3>4. step(t[m], p[m + 1]) = t[m] + p[m + 1].ticks
      BY <2>3 DEF step, BarsWithin
    <3> HIDE DEF S
    <3> QED BY <2>1, <2>2, <3>2, <3>3, <3>4
  <2>4. CASE m + 1 \notin BarsWithin(p, s, e)
    <3>1. W(m + 1) = W(m)
      BY <2>4, <1>1 DEF BarsWithin
    <3>2. step(t[m], p[m + 1]) = t[m]
      BY <2>4, <2>1, <1>1 DEF step, BarsWithin
    <3> HIDE DEF W
    <3> QED BY <2>1, <2>2, <3>1, <3>2
  <2> QED BY <2>3, <2>4
<1> HIDE DEF D
<1>14. n \in D
  BY <1>1, <1>12, <1>13, NaturalInduction
<1>15. W(n) = BarsWithin(p, s, e)
  BY <1>1 DEF BarsWithin
<1>16. t[n] = TicksIn(p, s, e)
  BY <1>1, <1>14, <1>15 DEF D, TicksIn
<1> QED BY <1>1, <1>2, <1>9, <1>16

\* Bars of one instrument without a gap.
Steady(p) ==
  /\ p \in Seq(Candle)
  /\ \A i \in DOMAIN p : /\ p[i].start = p[1].start + (i - 1)
                         /\ p[i].end = p[i].start + 1
                         /\ p[i].ticks \in Nat

LEMMA SteadyFacts ==
  ASSUME NEW p, Steady(p)
  PROVE  /\ p \in Seq(Candle) /\ Len(p) \in Nat /\ DOMAIN p = 1 .. Len(p)
         /\ \A i \in DOMAIN p : /\ p[i] \in Candle
                                /\ p[i].start \in Nat /\ p[i].end \in Nat /\ p[i].ticks \in Nat
                                /\ p[i].end = p[i].start + 1 /\ p[i].start = p[1].start + (i - 1)
<1>1. p \in Seq(Candle) /\ Len(p) \in Nat /\ DOMAIN p = 1 .. Len(p)
  BY DEF Steady
<1>2. \A i \in DOMAIN p : p[i] \in Candle
  BY <1>1
<1> QED BY <1>1, <1>2 DEF Steady, Candle

LEMMA TicksNone ==
  ASSUME NEW p, Steady(p), NEW s \in Int
  PROVE  TicksIn(p, s, s) = 0
<1>1. BarsWithin(p, s, s) = {}
  BY SteadyFacts DEF BarsWithin
<1> QED BY <1>1, SumEmpty DEF TicksIn

LEMMA TicksNat ==
  ASSUME NEW p, Steady(p), NEW s \in Int, NEW e \in Int
  PROVE  TicksIn(p, s, e) \in Nat
<1>1. \A i \in BarsWithin(p, s, e) : TickCounts(p)[i] \in Nat
  BY SteadyFacts DEF BarsWithin, TickCounts
<1>2. p \in Seq(Candle)
  BY SteadyFacts
<1> QED BY <1>1, <1>2, TickCountsType, SumNat DEF TicksIn

LEMMA TicksAdd ==
  ASSUME NEW p, Steady(p), NEW s \in Int, NEW m \in Int, NEW e \in Int, s <= m, m <= e
  PROVE  TicksIn(p, s, e) = TicksIn(p, s, m) + TicksIn(p, m, e)
<1> DEFINE A == BarsWithin(p, s, m)
           B == BarsWithin(p, m, e)
<1>1. BarsWithin(p, s, e) = A \cup B /\ A \cap B = {}
  <2>1. \A i \in DOMAIN p : p[i].start \in Nat /\ p[i].end = p[i].start + 1
    BY SteadyFacts
  <2> QED BY <2>1 DEF BarsWithin
<1>2. p \in Seq(Candle)
  BY SteadyFacts
<1>3. IsFiniteSet(A) /\ IsFiniteSet(B) /\ \A i \in A \cup B : TickCounts(p)[i] \in Int
  BY <1>2, TickCountsType
<1> HIDE DEF A, B
<1>4. SumFunctionOnSet(TickCounts(p), A \cup B)
        = SumFunctionOnSet(TickCounts(p), A) + SumFunctionOnSet(TickCounts(p), B)
  BY <1>1, <1>3, SumUnion
<1> QED BY <1>1, <1>4 DEF TicksIn, A, B

\* The bar that follows p.
Follows(p, bar) ==
  /\ bar \in Candle /\ bar.end = bar.start + 1 /\ bar.ticks \in Nat
  /\ p # << >> => bar.start = p[Len(p)].end

LEMMA SteadyAppended ==
  ASSUME NEW p, Steady(p), NEW bar, Follows(p, bar)
  PROVE  /\ Steady(Append(p, bar)) /\ Len(Append(p, bar)) = Len(p) + 1
         /\ Append(p, bar)[Len(p) + 1] = bar
         /\ \A i \in DOMAIN p : i \in DOMAIN Append(p, bar) /\ Append(p, bar)[i] = p[i]
         /\ Append(p, bar)[1].start = IF p = << >> THEN bar.start ELSE p[1].start
         /\ bar.start \in Nat /\ bar.ticks \in Nat /\ bar.end = bar.start + 1
<1> DEFINE q == Append(p, bar)
           n == Len(p)
<1>1. p \in Seq(Candle) /\ n \in Nat /\ DOMAIN p = 1 .. n
  BY SteadyFacts
<1>2. bar \in Candle /\ bar.start \in Nat /\ bar.end = bar.start + 1 /\ bar.ticks \in Nat
  BY DEF Follows, Candle
<1>3. q \in Seq(Candle) /\ Len(q) = n + 1 /\ DOMAIN q = 1 .. n + 1 /\ q[n + 1] = bar
      /\ \A i \in 1 .. n : q[i] = p[i]
  BY <1>1, <1>2
<1> HIDE DEF q
<1>4. q[1].start = IF p = << >> THEN bar.start ELSE p[1].start
  BY <1>1, <1>3
<1>5. ASSUME NEW i \in 1 .. n + 1
      PROVE  q[i].start = q[1].start + (i - 1) /\ q[i].end = q[i].start + 1 /\ q[i].ticks \in Nat
  <2>1. CASE i # n + 1
    <3>1. i \in DOMAIN p /\ p # << >> /\ q[i] = p[i]
      BY <2>1, <1>1, <1>3
    <3> QED BY <3>1, <1>4, SteadyFacts
  <2>2. CASE i = n + 1 /\ p = << >>
    <3>1. n = 0 /\ q[i] = bar
      BY <2>2, <1>3
    <3> QED BY <3>1, <2>2, <1>2, <1>4
  <2>3. CASE i = n + 1 /\ p # << >>
    <3>1. n \in DOMAIN p /\ q[i] = bar
      BY <2>3, <1>1, <1>3
    <3>2. p[n].end = p[n].start + 1 /\ p[n].start = p[1].start + (n - 1) /\ p[n].start \in Nat
      BY <3>1, SteadyFacts
    <3>3. p[1].start \in Nat
      <4>1. 1 \in DOMAIN p
        BY <3>1, <1>1
      <4> QED BY <4>1, SteadyFacts
    <3>4. bar.start = p[n].end
      BY <2>3 DEF Follows
    <3> QED BY <3>1, <3>2, <3>3, <3>4, <2>3, <1>2, <1>4
  <2> QED BY <2>1, <2>2, <2>3
<1>6. Steady(q)
  BY <1>3, <1>5 DEF Steady
<1> QED BY <1>1, <1>2, <1>3, <1>4, <1>6 DEF q

LEMMA TicksKept ==
  ASSUME NEW p, Steady(p), NEW bar, Follows(p, bar), NEW s \in Int, NEW e \in Int, e < bar.end
  PROVE  TicksIn(Append(p, bar), s, e) = TicksIn(p, s, e)
<1> DEFINE q == Append(p, bar)
           n == Len(p)
           W == BarsWithin(p, s, e)
<1>1. n \in Nat /\ DOMAIN p = 1 .. n /\ p \in Seq(Candle)
  BY SteadyFacts
<1>2. /\ Len(q) = n + 1 /\ DOMAIN q = 1 .. n + 1 /\ q[n + 1] = bar
      /\ \A i \in 1 .. n : q[i] = p[i]
      /\ bar.end \in Int
  BY <1>1, SteadyAppended
<1> HIDE DEF q
<1>3. BarsWithin(q, s, e) = W
  BY <1>1, <1>2 DEF BarsWithin
<1>4. \A i \in W : TickCounts(p)[i] \in Int /\ TickCounts(q)[i] = TickCounts(p)[i]
  <2>1. \A i \in DOMAIN p : TickCounts(p)[i] \in Int
    BY <1>1, TickCountsType
  <2>2. \A i \in DOMAIN p : TickCounts(q)[i] = TickCounts(p)[i]
    BY <1>1, <1>2 DEF TickCounts
  <2> QED BY <2>1, <2>2 DEF BarsWithin
<1>5. IsFiniteSet(W)
  BY <1>1, TickCountsType
<1> HIDE DEF W
<1>6. SumFunctionOnSet(TickCounts(p), W) = SumFunctionOnSet(TickCounts(q), W)
  BY <1>4, <1>5, SumCongruent
<1> QED BY <1>3, <1>6 DEF TicksIn, q, W

LEMMA TicksOfLast ==
  ASSUME NEW p, Steady(p), NEW bar, Follows(p, bar)
  PROVE  TicksIn(Append(p, bar), bar.start, bar.end) = bar.ticks
<1> DEFINE q == Append(p, bar)
           n == Len(p)
<1>1. n \in Nat /\ Steady(q) /\ Len(q) = n + 1 /\ q[n + 1] = bar
      /\ bar.start \in Nat /\ bar.ticks \in Nat /\ bar.end = bar.start + 1
  BY SteadyFacts, SteadyAppended
<1> HIDE DEF q
<1>2. DOMAIN q = 1 .. n + 1 /\ \A i \in 1 .. n + 1 : q[i].start = q[1].start + (i - 1)
                                /\ q[i].end = q[i].start + 1 /\ q[i].start \in Nat
  BY <1>1, SteadyFacts
<1>3. BarsWithin(q, bar.start, bar.end) = {n + 1}
  <2>1. 1 \in 1 .. n + 1 /\ n + 1 \in 1 .. n + 1 /\ q[1].start \in Nat
    BY <1>1, <1>2
  <2>2. q[n + 1].start = q[1].start + n
    BY <1>1, <1>2, <2>1
  <2> QED BY <1>1, <1>2, <2>1, <2>2 DEF BarsWithin
<1>4. TickCounts(q)[n + 1] = bar.ticks
  BY <1>1, <1>2 DEF TickCounts
<1>5. SumFunctionOnSet(TickCounts(q), {} \cup {n + 1})
        = TickCounts(q)[n + 1] + SumFunctionOnSet(TickCounts(q), {})
  <2>1. \A y \in {} \cup {n + 1} : TickCounts(q)[y] \in Int
    BY <1>1, <1>4
  <2> QED BY <2>1, SumAdd, FS_EmptySet
<1>6. {} \cup {n + 1} = {n + 1}
  OBVIOUS
<1>7. SumFunctionOnSet(TickCounts(q), {n + 1}) = bar.ticks
  BY <1>1, <1>4, <1>5, <1>6, SumEmpty
<1> QED BY <1>3, <1>7 DEF TicksIn, q

-----------------------------------------------------------------------------
(***************************************************************************)
(* One cascade and the candles it has emitted: p are its bars, E its       *)
(* candles of each level, s is where the first bar began, and rec says     *)
(* whether the cascade may have held something before it.                  *)
(***************************************************************************)
\* Where the candles of a level have come to.
Done(E, s, f) == IF E[f] = << >> THEN s ELSE E[f][Len(E[f])].end
Clean(E, rec, f) == ~ rec \/ E[f] # << >>

\* A resampler holds the candles of the level below since the last of its own.
Level(x, p, E, rec, s, f) ==
  Clean(E, rec, f) =>
    /\ Done(E, s, f - 1) = Done(E, s, f) + x[f].seen * Period(f - 1)
    /\ x[f].seen > 0 => x[f].start = Done(E, s, f)
    /\ x[f].ticks = TicksIn(p, Done(E, s, f), Done(E, s, f - 1))
    /\ x[f].hasData => x[f].ticks > 0

TrueCandles(p, E, rec, f) ==
  \A j \in DOMAIN E[f] :
    /\ E[f][j].end <= p[Len(p)].end
    /\ j > 1 \/ ~ rec => /\ E[f][j].end - E[f][j].start = Period(f)
                         /\ E[f][j].ticks = TicksIn(p, E[f][j].start, E[f][j].end)
                         /\ j > 1 => E[f][j].start = E[f][j - 1].end

Rising(x, p, E, rec, s) ==
  /\ Steady(p) /\ s \in Nat /\ rec \in BOOLEAN
  /\ p # << >> => s = p[1].start
  /\ x \in Cascade
  /\ E \in [Freqs -> Seq(Candle)] /\ E[0] = p
  /\ p = << >> => \A f \in Freqs : E[f] = << >>
  /\ \A f \in 1 .. Levels : (E[f] # << >> => E[f - 1] # << >>) /\ Level(x, p, E, rec, s, f)
  /\ \A f \in Freqs : TrueCandles(p, E, rec, f)

LEMMA DoneType ==
  ASSUME NEW x, NEW p, NEW E, NEW rec, NEW s, Rising(x, p, E, rec, s), NEW f \in Freqs
  PROVE  /\ Done(E, s, f) \in Nat
         /\ E[f] \in Seq(Candle) /\ Len(E[f]) \in Nat /\ DOMAIN E[f] = 1 .. Len(E[f])
         /\ \A j \in DOMAIN E[f] : E[f][j] \in Candle /\ E[f][j].start \in Nat /\ E[f][j].end \in Nat
         /\ Done(E, s, 0) = IF p = << >> THEN s ELSE p[Len(p)].end
         /\ p # << >> => Done(E, s, f) <= p[Len(p)].end
<1>1. E[f] \in Seq(Candle) /\ s \in Nat /\ E[0] = p
  BY DEF Rising
<1>2. Len(E[f]) \in Nat /\ DOMAIN E[f] = 1 .. Len(E[f])
  BY <1>1
<1>3. \A j \in DOMAIN E[f] : E[f][j] \in Candle
  BY <1>1
<1>4. \A j \in DOMAIN E[f] : E[f][j].start \in Nat /\ E[f][j].end \in Nat
  BY <1>3 DEF Candle
<1>5. E[f] # << >> => Len(E[f]) \in DOMAIN E[f]
  BY <1>1
<1>6. \A j \in DOMAIN E[f] : E[f][j].end <= p[Len(p)].end
  BY DEF Rising, TrueCandles
<1>7. p # << >> => s <= p[Len(p)].end
  <2> SUFFICES ASSUME p # << >> PROVE s <= p[Len(p)].end
    OBVIOUS
  <2>1. Steady(p) /\ s = p[1].start
    BY DEF Rising
  <2>2. Len(p) \in DOMAIN p /\ Len(p) \in Nat /\ Len(p) >= 1
    <3>1. p \in Seq(Candle)
      BY <2>1, SteadyFacts
    <3> QED BY <3>1
  <2>3. p[Len(p)].start \in Nat /\ p[Len(p)].end = p[Len(p)].start + 1 /\ p[Len(p)].start = p[1].start + (Len(p) - 1)
    BY <2>1, <2>2, SteadyFacts
  <2> QED BY <2>1, <2>2, <2>3, <1>1
<1> QED BY <1>1, <1>2, <1>3, <1>4, <1>5, <1>6, <1>7 DEF Done

\* A candle that rises to a level closes what the level has not emitted yet.
LEMMA RiseIsTrue ==
  ASSUME NEW x, NEW p, NEW E, NEW rec, NEW s, Rising(x, p, E, rec, s),
         NEW bar, Follows(p, bar), p = << >> => s = bar.start,
         NEW f \in Freqs, Risen(x, bar)[f] # None
  PROVE  /\ Risen(x, bar)[f] \in Candle /\ Risen(x, bar)[f].end = bar.end
         /\ Clean(E, rec, f) =>
              /\ Risen(x, bar)[f].start = Done(E, s, f)
              /\ bar.end = Done(E, s, f) + Period(f)
              /\ Risen(x, bar)[f].ticks = TicksIn(Append(p, bar), Done(E, s, f), bar.end)
<1> DEFINE up == Risen(x, bar)
           q == Append(p, bar)
           Good(k) == up[k] # None =>
             /\ up[k] \in Candle /\ up[k].end = bar.end
             /\ Clean(E, rec, k) =>
                  /\ up[k].start = Done(E, s, k)
                  /\ bar.end = Done(E, s, k) + Period(k)
                  /\ up[k].ticks = TicksIn(q, Done(E, s, k), bar.end)
           D == {k \in Nat : k <= Levels => Good(k)}
<1>1. Steady(p) /\ s \in Nat /\ x \in Cascade /\ bar \in Candle /\ E[0] = p
  BY DEF Rising, Follows
<1>2. /\ Steady(q) /\ bar.start \in Nat /\ bar.ticks \in Nat /\ bar.end = bar.start + 1
  BY <1>1, SteadyAppended
<1>3. /\ up[0] = bar /\ up \in [Freqs -> CandleOrNone]
      /\ \A k \in 1 .. Levels :
           up[k] = IF up[k - 1] = None THEN None ELSE Step(x[k], up[k - 1], Counts[k])
  BY <1>1, RisenIs
<1>4. Done(E, s, 0) = bar.start
  <2>1. 0 \in Freqs
    BY LevelFacts
  <2> QED BY <2>1, DoneType DEF Follows
<1>5. TicksIn(q, bar.start, bar.end) = bar.ticks
  BY <1>1, TicksOfLast
<1> HIDE DEF up, q
<1>6. 0 \in D
  BY <1>1, <1>2, <1>3, <1>4, <1>5, PeriodFacts
<1>7. ASSUME NEW k \in Nat, k \in D PROVE k + 1 \in D
  <2> SUFFICES ASSUME k + 1 <= Levels, up[k + 1] # None PROVE Good(k + 1)
    OBVIOUS
  <2> DEFINE n == k + 1
             r == x[n]
             low == up[k]
             a == Added(r, low)
  <2>1. n \in 1 .. Levels /\ n - 1 = k /\ k \in Freqs /\ n \in Freqs
    BY LevelFacts
  <2>2. low # None /\ up[n] = Step(r, low, Counts[n])
    BY <2>1, <1>3
  <2>3. Good(k)
    BY <2>1, <1>7, LevelFacts
  <2>4. low \in Candle /\ low.end = bar.end
    BY <2>2, <2>3
  <2>5. r \in Resampler /\ r.seen < Counts[n] /\ Counts[n] \in Nat /\ Counts[n] > 0
    BY <1>1, <2>1, LevelFacts DEF Cascade
  <2>6. up[n] = BuiltCandle(a) /\ a.seen >= Counts[n]
    BY <2>2 DEF Step, Complete
  <2>7. up[n] \in Candle
    BY <1>3, <2>1 DEF CandleOrNone
  <2>8. up[n].end = bar.end /\ up[n].start = a.start
        /\ up[n].ticks = IF a.hasData /\ a.ticks = 0 THEN -1 ELSE a.ticks
    BY <2>4, <2>6 DEF BuiltCandle, Ohlc, Added
  <2>9. r.seen + 1 = Counts[n]
    BY <2>5, <2>6 DEF Added, Resampler
  <2>10. ASSUME Clean(E, rec, n)
         PROVE  /\ up[n].start = Done(E, s, n)
                /\ bar.end = Done(E, s, n) + Period(n)
                /\ up[n].ticks = TicksIn(q, Done(E, s, n), bar.end)
    <3> DEFINE d == Done(E, s, n)
               e == Done(E, s, k)
    <3>1. Clean(E, rec, k)
      BY <2>10, <2>1 DEF Clean, Rising
    <3>2. /\ e = d + r.seen * Period(k)
          /\ r.seen > 0 => r.start = d
          /\ r.ticks = TicksIn(p, d, e)
          /\ r.hasData => r.ticks > 0
      BY <2>10, <2>1 DEF Rising, Level
    <3>3. low.start = e /\ bar.end = e + Period(k) /\ low.ticks = TicksIn(q, e, bar.end)
      BY <3>1, <2>2, <2>3
    <3>4. d \in Nat /\ e \in Nat /\ Period(k) \in Nat /\ Period(k) > 0
      BY <2>1, DoneType, PeriodFacts
    <3>5. Period(n) = Counts[n] * Period(k)
      BY <2>1, PeriodFacts
    <3>6. r.seen \in Nat /\ r.ticks \in Nat
      BY <2>5 DEF Resampler
    <3>7. low.ticks \in Nat
      BY <3>3, <3>4, <1>2, TicksNat
    <3> HIDE DEF d, e, low, r, n
    <3>8. bar.end = d + Period(n)
      <4>1. r.seen * Period(k) + Period(k) = Counts[n] * Period(k)
        <5>1. \A a1, b \in Nat : a1 * b + b = (a1 + 1) * b
          OBVIOUS
        <5> QED BY <5>1, <2>9, <3>4, <3>6
      <4>2. r.seen * Period(k) \in Nat
        <5>1. \A a1, b \in Nat : a1 * b \in Nat
          OBVIOUS
        <5> QED BY <5>1, <3>4, <3>6
      <4> DEFINE z == r.seen * Period(k)
      <4> HIDE DEF z
      <4> QED BY <4>1, <4>2, <3>2, <3>3, <3>4, <3>5 DEF z
    <3>9. a.start = d
      <4>1. a.start = IF r.seen = 0 THEN low.start ELSE r.start
        BY DEF Added
      <4>2. r.seen = 0 => e = d
        BY <3>2, <3>4
      <4> QED BY <4>1, <4>2, <3>2, <3>3, <3>6
    <3>10. e >= d /\ e < bar.end
      <4>1. \A a1, b \in Nat : a1 * b \in Nat
        OBVIOUS
      <4>2. r.seen * Period(k) \in Nat
        BY <4>1, <3>4, <3>6
      <4> QED BY <4>2, <3>2, <3>3, <3>4
    <3>11. TicksIn(q, d, bar.end) = r.ticks + low.ticks
      <4>1. TicksIn(q, d, bar.end) = TicksIn(q, d, e) + TicksIn(q, e, bar.end)
        BY <1>2, <3>4, <3>10, TicksAdd
      <4>2. TicksIn(q, d, e) = TicksIn(p, d, e)
        BY <1>1, <3>4, <3>10, TicksKept DEF q
      <4> QED BY <4>1, <4>2, <3>2, <3>3
    <3>12. a.ticks = r.ticks + low.ticks /\ (a.hasData => a.ticks > 0)
      <4>1. a.ticks = IF low.ticks > 0 THEN r.ticks + low.ticks ELSE r.ticks
        BY DEF Added
      <4>2. a.hasData => r.hasData \/ low.ticks # 0
        <5>1. a.hasData = (r.hasData \/ HasPrices(low))
          BY DEF Added
        <5> QED BY <5>1, Zenon DEF HasPrices
      <4>3. a.ticks = r.ticks + low.ticks
        BY <4>1, <3>6, <3>7
      <4>4. CASE low.ticks # 0
        BY <4>3, <4>4, <3>6, <3>7
      <4>5. CASE low.ticks = 0
        <5>1. a.hasData => r.ticks > 0
          BY <4>2, <4>5, <3>2, Zenon
        <5>2. a.ticks = r.ticks
          BY <4>3, <4>5, <3>6
        <5> QED BY <4>3, <5>1, <5>2, Zenon
      <4> QED BY <4>3, <4>4, <4>5
    <3>13. up[n].ticks = a.ticks
      BY <2>8, <3>12, <3>6, <3>7
    <3> QED BY <2>8, <3>8, <3>9, <3>11, <3>12, <3>13 DEF d
  <2> QED BY <2>7, <2>8, <2>10
<1> HIDE DEF D, Good
<1>8. Nat \subseteq D
  BY <1>6, <1>7, NaturalInduction
<1>9. Good(f)
  BY <1>8, LevelFacts DEF D
<1> QED BY <1>9 DEF Good, up, q

Raised(E, up) == [f \in Freqs |-> IF up[f] = None THEN E[f] ELSE Append(E[f], up[f])]

LEMMA RaisedIs ==
  ASSUME NEW x, NEW p, NEW E, NEW rec, NEW s, Rising(x, p, E, rec, s),
         NEW bar, Follows(p, bar), p = << >> => s = bar.start,
         NEW f \in Freqs
  PROVE  LET up == Risen(x, bar)
             F == Raised(E, up)
             n == Len(E[f])
         IN /\ F[f] \in Seq(Candle)
            /\ Done(E, s, f) <= bar.start
            /\ up[f] = None => F[f] = E[f] /\ Done(F, s, f) = Done(E, s, f)
                               /\ Clean(F, rec, f) = Clean(E, rec, f)
            /\ up[f] # None => /\ F[f] = Append(E[f], up[f]) /\ Len(F[f]) = n + 1 /\ F[f] # << >>
                               /\ DOMAIN F[f] = 1 .. n + 1
                               /\ F[f][n + 1] = up[f] /\ \A j \in 1 .. n : F[f][j] = E[f][j]
                               /\ Done(F, s, f) = bar.end
<1> DEFINE up == Risen(x, bar)
           F == Raised(E, up)
           n == Len(E[f])
<1>1. E[f] \in Seq(Candle) /\ n \in Nat /\ DOMAIN E[f] = 1 .. n
  BY DoneType
<1>2. F[f] = IF up[f] = None THEN E[f] ELSE Append(E[f], up[f])
  BY DEF Raised
<1>3. Done(E, s, f) <= bar.start
  <2>1. Done(E, s, f) \in Nat /\ (p # << >> => Done(E, s, f) <= p[Len(p)].end)
    BY DoneType
  <2>2. CASE p # << >>
    BY <2>1, <2>2 DEF Follows
  <2>3. CASE p = << >>
    BY <2>1, <2>3 DEF Rising, Done
  <2> QED BY <2>2, <2>3
<1>4. up[f] # None => up[f] \in Candle /\ up[f].end = bar.end
  BY RiseIsTrue
<1> HIDE DEF up, F
<1>5. CASE up[f] = None
  <2>1. F[f] = E[f]
    BY <1>2, <1>5
  <2> QED BY <1>1, <1>3, <1>5, <2>1 DEF Done, Clean, up, F
<1>6. CASE up[f] # None
  <2>1. F[f] = Append(E[f], up[f])
    BY <1>2, <1>6
  <2>2. /\ F[f] \in Seq(Candle) /\ Len(F[f]) = n + 1 /\ F[f] # << >> /\ DOMAIN F[f] = 1 .. n + 1
        /\ F[f][n + 1] = up[f] /\ \A j \in 1 .. n : F[f][j] = E[f][j]
    BY <2>1, <1>1, <1>4, <1>6
  <2>3. Done(F, s, f) = bar.end
    BY <2>2, <1>4, <1>6 DEF Done
  <2> QED BY <1>3, <1>6, <2>1, <2>2, <2>3 DEF up, F
<1> QED BY <1>5, <1>6

LEMMA PushedIs ==
  ASSUME NEW x \in Cascade, NEW bar \in Candle, NEW f \in 1 .. Levels
  PROVE  LET up == Risen(x, bar)
             y == PushedCascade(x, bar)
         IN /\ y \in Cascade
            /\ up[f - 1] = None => y[f] = x[f] /\ up[f] = None
            /\ up[f - 1] # None /\ up[f] = None => y[f] = Added(x[f], up[f - 1])
            /\ up[f] # None => y[f] = FreshResampler /\ up[f - 1] # None
<1> DEFINE up == Risen(x, bar)
           y == PushedCascade(x, bar)
           v(k) == IF up[k - 1] = None THEN x[k]
                   ELSE IF up[k] = None THEN Added(x[k], up[k - 1]) ELSE FreshResampler
<1>1. /\ up \in [Freqs -> CandleOrNone]
      /\ \A k \in 1 .. Levels : up[k] = IF up[k - 1] = None THEN None ELSE Step(x[k], up[k - 1], Counts[k])
  BY RisenIs
<1>2. y = [k \in 1 .. Levels |-> v(k)]
  BY LevelFacts DEF PushedCascade
<1> HIDE DEF up, y
<1>3. ASSUME NEW k \in 1 .. Levels PROVE v(k) \in Resampler /\ v(k).seen < Counts[k]
  <2>1. x[k] \in Resampler /\ x[k].seen < Counts[k] /\ Counts[k] \in Nat /\ Counts[k] > 0
        /\ k - 1 \in Freqs
    BY LevelFacts DEF Cascade
  <2>2. CASE up[k - 1] = None
    BY <2>1, <2>2
  <2>3. CASE up[k - 1] # None /\ up[k] # None
    <3>1. v(k) = FreshResampler
      BY <2>3
    <3>2. FreshResampler \in Resampler /\ FreshResampler.seen = 0
      BY DEF FreshResampler, Resampler
    <3> QED BY <2>1, <3>1, <3>2
  <2>4. CASE up[k - 1] # None /\ up[k] = None
    <3>1. v(k) = Added(x[k], up[k - 1]) /\ up[k - 1] \in Candle
      BY <2>1, <2>4, <1>1 DEF CandleOrNone
    <3>2. Added(x[k], up[k - 1]) \in Resampler
      BY <2>1, <3>1, StepType
    <3>3. Step(x[k], up[k - 1], Counts[k]) = None
      BY <2>4, <1>1
    <3>4. ~ Complete(Added(x[k], up[k - 1]), Counts[k])
      <4>1. SUFFICES ASSUME Complete(Added(x[k], up[k - 1]), Counts[k]) PROVE FALSE
        OBVIOUS
      <4>2. BuiltCandle(Added(x[k], up[k - 1])) = None
        BY <3>3, <4>1 DEF Step
      <4>3. up[k - 1].end \in Nat \ {0}
        BY <3>1 DEF Candle
      <4> QED BY <4>2, <4>3 DEF BuiltCandle, Ohlc, None, Added
    <3>5. Added(x[k], up[k - 1]).seen < Counts[k]
      BY <2>1, <3>2, <3>4 DEF Complete, Resampler
    <3> QED BY <3>1, <3>2, <3>5
  <2> QED BY <2>2, <2>3, <2>4
<1> HIDE DEF v
<1>4. y \in Cascade
  BY <1>2, <1>3 DEF Cascade
<1>5. y[f] = v(f)
  BY <1>2
<1>6. up[f - 1] = None => up[f] = None
  BY <1>1
<1> QED BY <1>4, <1>5, <1>6 DEF v, up, y

LEMMA LevelKept ==
  ASSUME NEW x, NEW p, NEW E, NEW rec, NEW s, Rising(x, p, E, rec, s),
         NEW bar, Follows(p, bar), p = << >> => s = bar.start, NEW f \in 1 .. Levels
  PROVE  Level(PushedCascade(x, bar), Append(p, bar), Raised(E, Risen(x, bar)), rec, s, f)
<1> DEFINE up == Risen(x, bar)
           q == Append(p, bar)
           F == Raised(E, up)
           y == PushedCascade(x, bar)
           g == f - 1
           d == Done(E, s, f)
           e == Done(E, s, g)
<1>1. Steady(p) /\ Steady(q) /\ bar.start \in Nat /\ bar.end = bar.start + 1 /\ bar \in Candle
      /\ x \in Cascade
  BY SteadyAppended DEF Rising, Follows
<1>2. f \in Freqs /\ g \in Freqs
  BY LevelFacts
<1>3. d \in Nat /\ e \in Nat /\ Period(g) \in Nat /\ x[f] \in Resampler
  BY <1>1, <1>2, DoneType, PeriodFacts DEF Cascade
<1>4. d < bar.end /\ e < bar.end
  <2>1. d <= bar.start /\ e <= bar.start
    BY <1>2, RaisedIs
  <2> HIDE DEF d, e
  <2> QED BY <1>1, <1>3, <2>1
<1>5. Level(x, p, E, rec, s, f)
  BY DEF Rising
<1>6. /\ up[f] = None => Done(F, s, f) = d /\ Clean(F, rec, f) = Clean(E, rec, f)
      /\ up[f] # None => Done(F, s, f) = bar.end
      /\ up[g] = None => Done(F, s, g) = e
      /\ up[g] # None => Done(F, s, g) = bar.end
  BY <1>2, RaisedIs
<1>7. TicksIn(q, d, e) = TicksIn(p, d, e)
  BY <1>1, <1>3, <1>4, TicksKept
<1>8. /\ up[g] = None => y[f] = x[f] /\ up[f] = None
      /\ up[g] # None /\ up[f] = None => y[f] = Added(x[f], up[g])
      /\ up[f] # None => y[f] = FreshResampler /\ up[g] # None
  BY <1>1, PushedIs
<1> SUFFICES ASSUME Clean(F, rec, f)
             PROVE  /\ Done(F, s, g) = Done(F, s, f) + y[f].seen * Period(g)
                    /\ y[f].seen > 0 => y[f].start = Done(F, s, f)
                    /\ y[f].ticks = TicksIn(q, Done(F, s, f), Done(F, s, g))
                    /\ y[f].hasData => y[f].ticks > 0
  BY DEF Level
<1>9. CASE up[g] = None
  <2>1. /\ e = d + x[f].seen * Period(g)
        /\ x[f].seen > 0 => x[f].start = d
        /\ x[f].ticks = TicksIn(p, d, e)
        /\ x[f].hasData => x[f].ticks > 0
    BY <1>5, <1>6, <1>8, <1>9 DEF Level
  <2> HIDE DEF up, q, F, y, g, d, e
  <2> QED BY <1>6, <1>7, <1>8, <1>9, <2>1
<1>10. CASE up[f] # None
  <2>1. TicksIn(q, bar.end, bar.end) = 0
    BY <1>1, TicksNone
  <2>2. Done(F, s, f) = bar.end /\ Done(F, s, g) = bar.end /\ y[f] = FreshResampler
    BY <1>6, <1>8, <1>10
  <2>3. y[f].seen = 0 /\ y[f].ticks = 0 /\ ~ y[f].hasData
    BY <2>2 DEF FreshResampler
  <2>4. 0 * Period(g) = 0 /\ bar.end \in Nat
    BY <1>1, <1>3
  <2> HIDE DEF up, q, F, y, g, d, e
  <2> QED BY <2>1, <2>2, <2>3, <2>4
<1>11. CASE up[g] # None /\ up[f] = None
  <2> DEFINE low == up[g]
             r == x[f]
  <2>1. Clean(E, rec, f)
    BY <1>6, <1>11
  <2>2. /\ e = d + r.seen * Period(g)
        /\ r.seen > 0 => r.start = d
        /\ r.ticks = TicksIn(p, d, e)
        /\ r.hasData => r.ticks > 0
    BY <1>5, <2>1 DEF Level
  <2>3. Clean(E, rec, g)
    BY <2>1 DEF Clean, Rising
  <2>4. low.start = e /\ bar.end = e + Period(g) /\ low.ticks = TicksIn(q, e, bar.end)
    BY <1>2, <1>11, <2>3, RiseIsTrue
  <2>5. y[f] = Added(r, low)
    BY <1>8, <1>11
  <2>6. Done(F, s, f) = d /\ Done(F, s, g) = bar.end
    BY <1>6, <1>11
  <2>7. TicksIn(q, e, bar.end) \in Nat
    BY <1>1, <1>3, TicksNat
  <2>8. r.seen * Period(g) \in Nat /\ (r.seen + 1) * Period(g) = r.seen * Period(g) + Period(g)
    <3>1. \A a, b \in Nat : a * b \in Nat /\ (a + 1) * b = a * b + b
      OBVIOUS
    <3>2. r.seen \in Nat
      BY <1>3 DEF Resampler
    <3> QED BY <1>3, <3>1, <3>2
  <2>9. r.seen \in Nat /\ r.ticks \in Nat
    BY <1>3 DEF Resampler
  <2>10. TicksIn(q, d, bar.end) = TicksIn(q, d, e) + TicksIn(q, e, bar.end)
    <3> HIDE DEF d, e, q, g, r
    <3>1. d <= e /\ e <= bar.end
      BY <1>1, <1>3, <1>4, <2>2, <2>8
    <3> QED BY <1>1, <1>3, <3>1, TicksAdd
  <2> HIDE DEF low, up, r, F, y, g, d, e, q
  <2>11. y[f].seen = r.seen + 1 /\ y[f].start = IF r.seen = 0 THEN low.start ELSE r.start
    BY <2>5 DEF Added
  <2>12. y[f].ticks = IF low.ticks > 0 THEN r.ticks + low.ticks ELSE r.ticks
    BY <2>5 DEF Added
  <2>13. y[f].hasData => r.hasData \/ low.ticks # 0
    <3>1. y[f].hasData = (r.hasData \/ HasPrices(low))
      BY <2>5 DEF Added
    <3> QED BY <3>1, Zenon DEF HasPrices
  <2>14. Done(F, s, g) = Done(F, s, f) + y[f].seen * Period(g)
    <3> DEFINE z == r.seen * Period(g)
    <3>1. y[f].seen * Period(g) = z + Period(g) /\ z \in Nat /\ e = d + z
      BY <2>2, <2>8, <2>11
    <3> HIDE DEF z
    <3> QED BY <3>1, <1>3, <2>4, <2>6
  <2>15. y[f].start = d
    <3>1. r.seen = 0 => e = d
      <4>1. r.seen = 0 => r.seen * Period(g) = 0
        BY <1>3
      <4> QED BY <4>1, <1>3, <2>2
    <3> QED BY <3>1, <2>2, <2>4, <2>9, <2>11
  <2>16. y[f].ticks = r.ticks + low.ticks /\ low.ticks \in Nat
    BY <2>4, <2>7, <2>9, <2>12
  <2>17. y[f].ticks = TicksIn(q, Done(F, s, f), Done(F, s, g))
    BY <1>7, <2>2, <2>4, <2>6, <2>10, <2>16
  <2>18. y[f].hasData => y[f].ticks > 0
    <3>1. CASE low.ticks # 0
      BY <3>1, <2>9, <2>16
    <3>2. CASE low.ticks = 0
      <4>1. y[f].hasData => r.ticks > 0
        BY <2>13, <3>2, <2>2, Zenon
      <4>2. y[f].ticks = r.ticks
        BY <2>9, <2>16, <3>2
      <4> QED BY <4>1, <4>2, Zenon
    <3> QED BY <3>1, <3>2
  <2> QED BY <2>6, <2>14, <2>15, <2>17, <2>18
<1> QED BY <1>8, <1>9, <1>10, <1>11

\* A cascade that takes the next bar stays true.
LEMMA Pushed ==
  ASSUME NEW x, NEW p, NEW E, NEW rec, NEW s, Rising(x, p, E, rec, s),
         NEW bar, Follows(p, bar), p = << >> => s = bar.start
  PROVE  Rising(PushedCascade(x, bar), Append(p, bar), Raised(E, Risen(x, bar)), rec, s)
<1> DEFINE up == Risen(x, bar)
           q == Append(p, bar)
           F == Raised(E, up)
           y == PushedCascade(x, bar)
<1>1. /\ Steady(p) /\ Steady(q) /\ Len(q) = Len(p) + 1 /\ q[Len(p) + 1] = bar
      /\ q[1].start = IF p = << >> THEN bar.start ELSE p[1].start
      /\ bar.start \in Nat /\ bar.end = bar.start + 1 /\ bar \in Candle /\ x \in Cascade /\ E[0] = p
  BY SteadyAppended DEF Rising, Follows
<1>2. q # << >> /\ Len(p) \in Nat /\ q[Len(q)] = bar
  <2>1. Len(p) \in Nat
    BY <1>1, SteadyFacts
  <2> HIDE DEF q
  <2>2. Len(q) # 0
    BY <1>1, <2>1
  <2> QED BY <1>1, <2>1, <2>2
<1>3. s \in Nat /\ rec \in BOOLEAN /\ s = q[1].start
  BY <1>1 DEF Rising
<1>4. \A f \in Freqs : F[f] \in Seq(Candle)
  BY RaisedIs
<1>5. F \in [Freqs -> Seq(Candle)]
  BY <1>4 DEF Raised
<1>6. F[0] = q
  <2>1. up[0] = bar /\ bar # None /\ 0 \in Freqs
    BY <1>1, RisenIs, LevelFacts, CandleIsNotNone
  <2> QED BY <1>1, <2>1, RaisedIs
<1>7. \A f \in 1 .. Levels : F[f] # << >> => F[f - 1] # << >>
  <2> SUFFICES ASSUME NEW f \in 1 .. Levels, F[f] # << >> PROVE F[f - 1] # << >>
    OBVIOUS
  <2>1. f \in Freqs /\ f - 1 \in Freqs
    BY LevelFacts
  <2>2. up[f] # None => up[f - 1] # None
    BY <1>1, PushedIs
  <2>3. E[f] # << >> => E[f - 1] # << >>
    BY DEF Rising
  <2>4. up[f] = None => F[f] = E[f]
    BY <2>1, RaisedIs
  <2>5. (up[f - 1] = None => F[f - 1] = E[f - 1]) /\ (up[f - 1] # None => F[f - 1] # << >>)
    BY <2>1, RaisedIs
  <2> QED BY <2>2, <2>3, <2>4, <2>5
<1>8. \A f \in 1 .. Levels : Level(y, q, F, rec, s, f)
  BY LevelKept
<1>9. y \in Cascade
  <2>1. CASE Levels = 0
    <3>1. 1 .. Levels = {} /\ DOMAIN Counts = {}
      BY <2>1, LevelFacts
    <3>2. y = [k \in {} |-> 0]
      BY <3>1 DEF PushedCascade
    <3> QED BY <3>1, <3>2 DEF Cascade
  <2>2. CASE Levels # 0
    <3>1. 1 \in 1 .. Levels
      BY <2>2, LevelFacts
    <3> QED BY <3>1, <1>1, PushedIs
  <2> QED BY <2>1, <2>2
<1>10. ASSUME NEW f \in Freqs PROVE TrueCandles(q, F, rec, f)
  <2> DEFINE n == Len(E[f])
  <2>1. n \in Nat /\ DOMAIN E[f] = 1 .. n
        /\ \A j \in 1 .. n : E[f][j].start \in Nat /\ E[f][j].end \in Nat
    BY DoneType
  <2>2. TrueCandles(p, E, rec, f)
    BY DEF Rising
  <2>3. \A j \in 1 .. n : E[f][j].end <= bar.start
    <3> SUFFICES ASSUME NEW j \in 1 .. n PROVE E[f][j].end <= bar.start
      OBVIOUS
    <3>1. E[f][j].end <= p[Len(p)].end
      BY <2>1, <2>2 DEF TrueCandles
    <3>2. p # << >>
      <4>1. CASE p = << >>
        <5>1. E[f] = << >>
          BY <4>1 DEF Rising
        <5> QED BY <5>1, <2>1
      <4> QED BY <4>1
    <3> QED BY <3>1, <3>2 DEF Follows
  <2>4. ASSUME NEW j \in 1 .. n
        PROVE  /\ E[f][j].end <= bar.end
               /\ j > 1 \/ ~ rec => /\ E[f][j].end - E[f][j].start = Period(f)
                                    /\ E[f][j].ticks = TicksIn(q, E[f][j].start, E[f][j].end)
                                    /\ j > 1 => E[f][j].start = E[f][j - 1].end
    <3>1. E[f][j].end < bar.end
      BY <1>1, <2>1, <2>3
    <3>2. TicksIn(q, E[f][j].start, E[f][j].end) = TicksIn(p, E[f][j].start, E[f][j].end)
      BY <1>1, <2>1, <3>1, TicksKept
    <3> QED BY <1>1, <2>1, <2>2, <3>1, <3>2 DEF TrueCandles
  <2>5. CASE up[f] = None
    <3>1. F[f] = E[f]
      BY <2>5, RaisedIs
    <3> HIDE DEF F, q, up, n
    <3> QED BY <1>2, <2>1, <2>4, <3>1 DEF TrueCandles
  <2>6. CASE up[f] # None
    <3>1. /\ DOMAIN F[f] = 1 .. n + 1 /\ F[f][n + 1] = up[f]
          /\ \A j \in 1 .. n : F[f][j] = E[f][j]
      BY <2>6, RaisedIs
    <3>2. /\ up[f].end = bar.end
          /\ Clean(E, rec, f) =>
                 /\ up[f].start = Done(E, s, f)
                 /\ bar.end = Done(E, s, f) + Period(f)
                 /\ up[f].ticks = TicksIn(q, Done(E, s, f), bar.end)
      BY <2>6, RiseIsTrue
    <3>3. Done(E, s, f) \in Nat /\ Period(f) \in Nat
      BY DoneType, PeriodFacts
    <3>4. n + 1 > 1 => Clean(E, rec, f) /\ Done(E, s, f) = E[f][n].end
      <4>1. n + 1 > 1 => E[f] # << >>
        BY <2>1
      <4> QED BY <4>1 DEF Clean, Done
    <3>5. n + 1 > 1 \/ ~ rec => Clean(E, rec, f)
      BY <3>4 DEF Clean
    <3> HIDE DEF F, q, up, n
    <3>6. ASSUME NEW j \in 1 .. n + 1
          PROVE  /\ F[f][j].end <= bar.end
                 /\ j > 1 \/ ~ rec => /\ F[f][j].end - F[f][j].start = Period(f)
                                      /\ F[f][j].ticks = TicksIn(q, F[f][j].start, F[f][j].end)
                                      /\ j > 1 => F[f][j].start = F[f][j - 1].end
      <4>1. CASE j = n + 1
        <5>1. F[f][j] = up[f] /\ (j > 1 => F[f][j - 1] = E[f][n])
          BY <4>1, <2>1, <3>1
        <5> QED BY <4>1, <5>1, <1>1, <3>2, <3>3, <3>4, <3>5
      <4>2. CASE j # n + 1
        <5>1. j \in 1 .. n /\ (j > 1 => j - 1 \in 1 .. n)
          BY <4>2, <2>1
        <5>2. F[f][j] = E[f][j] /\ (j > 1 => F[f][j - 1] = E[f][j - 1])
          BY <5>1, <3>1
        <5>3. bar.end \in Nat
          BY <1>1
        <5> QED BY <5>1, <5>2, <2>4
      <4> QED BY <4>1, <4>2
    <3> QED BY <1>2, <3>1, <3>6 DEF TrueCandles
  <2> QED BY <2>5, <2>6
<1> HIDE DEF up, q, F, y
<1>11. Rising(y, q, F, rec, s)
  BY <1>1, <1>2, <1>3, <1>5, <1>6, <1>7, <1>8, <1>9, <1>10 DEF Rising
<1> QED BY <1>11 DEF up, q, F, y

-----------------------------------------------------------------------------
(***************************************************************************)
(* The events of one bar.                                                  *)
(***************************************************************************)
LEMMA InstrumentFacts ==
  /\ Universe \in Seq(Instruments) /\ Len(Universe) \in Nat /\ DOMAIN Universe = 1 .. Len(Universe)
  /\ \A i \in DOMAIN Universe : Universe[i] \in Instruments
  /\ \A c \in Instruments : \E i \in DOMAIN Universe : Universe[i] = c
  /\ \A i, j \in DOMAIN Universe : Universe[i] = Universe[j] => i = j
  /\ IsFiniteSet(Instruments)
<1>1. Universe \in Seq(Instruments) /\ Instruments = Range(Universe)
  <2>1. Universe \in Seq(Range(Contracts)) /\ Instruments = Range(Universe)
    BY ForecastAssumption, MarketDataAssumption
  <2>2. Len(Universe) \in Nat /\ DOMAIN Universe = 1 .. Len(Universe)
        /\ Universe = [i \in 1 .. Len(Universe) |-> Universe[i]]
    BY <2>1
  <2>3. \A i \in 1 .. Len(Universe) : Universe[i] \in Instruments
    BY <2>1, <2>2 DEF Range
  <2>4. Universe \in [1 .. Len(Universe) -> Instruments]
    BY <2>2, <2>3
  <2> QED BY <2>1, <2>2, <2>4
<1>2. Len(Universe) \in Nat /\ DOMAIN Universe = 1 .. Len(Universe)
  BY <1>1
<1>3. \A i, j \in DOMAIN Universe : Universe[i] = Universe[j] => i = j
  BY ForecastAssumption DEF IsInjective
<1>4. Instruments = {Universe[i] : i \in 1 .. Len(Universe)}
  BY <1>1, <1>2 DEF Range
<1>5. IsFiniteSet(Instruments)
  <2> DEFINE S == 1 .. Len(Universe)
  <2>1. IsFiniteSet(S)
    BY <1>2, FS_Interval
  <2>2. Instruments = {Universe[i] : i \in S}
    BY <1>4
  <2> HIDE DEF S
  <2> QED BY <2>1, <2>2, FiniteImage
<1> QED BY <1>1, <1>2, <1>3, <1>4, <1>5

\* The levels a bar rises to are those up to one of them, and what rises ends with the bar.
LEMMA Risers ==
  ASSUME NEW x \in Cascade, NEW bar \in Candle
  PROVE  LET up == Risen(x, bar)
             top == Max({f \in Freqs : up[f] # None})
         IN /\ top \in Freqs
            /\ \A f \in Freqs : up[f] # None <=> f <= top
            /\ \A f \in Freqs : up[f] # None => up[f] \in Candle /\ up[f].end = bar.end
<1> DEFINE up == Risen(x, bar)
           Tops(m) == \E t \in 0 .. m : \A f \in 0 .. m : up[f] # None <=> f <= t
           Ends(m) == up[m] # None => up[m].end = bar.end
           D == {m \in Nat : m <= Levels => Tops(m) /\ Ends(m)}
<1>1. /\ up[0] = bar /\ up \in [Freqs -> CandleOrNone]
      /\ \A k \in 1 .. Levels :
           up[k] = IF up[k - 1] = None THEN None ELSE Step(x[k], up[k - 1], Counts[k])
  BY RisenIs
<1> HIDE DEF up
<1>2. 0 \in D
  BY <1>1, CandleIsNotNone
<1>3. ASSUME NEW m \in Nat, m \in D PROVE m + 1 \in D
  <2> SUFFICES ASSUME m + 1 <= Levels PROVE Tops(m + 1) /\ Ends(m + 1)
    OBVIOUS
  <2>1. m + 1 \in 1 .. Levels /\ (m + 1) - 1 = m /\ Tops(m) /\ Ends(m)
    BY <1>3, LevelFacts
  <2>2. PICK t \in 0 .. m : \A f \in 0 .. m : up[f] # None <=> f <= t
    BY <2>1
  <2>3. up[m + 1] = IF up[m] = None THEN None ELSE Step(x[m + 1], up[m], Counts[m + 1])
    BY <1>1, <2>1
  <2>4. CASE up[m + 1] = None
    <3>1. t \in 0 .. m + 1 /\ \A f \in 0 .. m + 1 : up[f] # None <=> f <= t
      BY <2>2, <2>4
    <3> QED BY <3>1, <2>4
  <2>5. CASE up[m + 1] # None
    <3>1. up[m] # None /\ up[m + 1] = Step(x[m + 1], up[m], Counts[m + 1])
      BY <2>3, <2>5
    <3>2. t = m
      BY <2>2, <3>1
    <3>3. m + 1 \in 0 .. m + 1 /\ \A f \in 0 .. m + 1 : up[f] # None <=> f <= m + 1
      BY <2>2, <2>5, <3>2
    <3>4. up[m + 1] = BuiltCandle(Added(x[m + 1], up[m]))
      BY <3>1, <2>5 DEF Step
    <3>5. up[m + 1].end = up[m].end
      BY <3>4 DEF BuiltCandle, Ohlc, Added
    <3> QED BY <3>1, <3>3, <3>5, <2>1
  <2> QED BY <2>4, <2>5
<1> HIDE DEF D
<1>4. Nat \subseteq D
  BY <1>2, <1>3, NaturalInduction
<1>5. \A f \in Freqs : up[f] # None => up[f] \in Candle /\ up[f].end = bar.end
  BY <1>1, <1>4, LevelFacts DEF D, CandleOrNone
<1>6. PICK t \in 0 .. Levels : \A f \in 0 .. Levels : up[f] # None <=> f <= t
  <2>1. Levels \in D /\ Levels <= Levels
    BY <1>4, LevelFacts
  <2>2. Tops(Levels)
    BY <2>1 DEF D
  <2> QED BY <2>2
<1>7. Max({f \in Freqs : up[f] # None}) = t
  <2> DEFINE S == {f \in Freqs : up[f] # None}
  <2>1. t \in S /\ S \subseteq Int /\ \A f \in S : f <= t
    BY <1>6, LevelFacts
  <2> HIDE DEF S
  <2>2. Max(S) = t
    BY <2>1, MaxOf
  <2> QED BY <2>2 DEF S
<1>8. t \in Freqs /\ \A f \in Freqs : up[f] # None <=> f <= t
  BY <1>6, LevelFacts
<1> QED BY <1>5, <1>7, <1>8 DEF up

EventSet == [con : Instruments, kind : KindSet, freq : Freqs, bar : Candle]

\* The events of a bar: for each kind the bar itself, then for each kind what it completes.
Announces(queue, all, c, bar, kind) ==
  /\ queue \in Seq(EventSet)
  /\ kind \in [DOMAIN queue -> DOMAIN Kinds]
  /\ \A i \in DOMAIN queue :
       /\ queue[i].con = c /\ queue[i].kind = Kinds[kind[i]] /\ queue[i].bar.end = bar.end
       /\ queue[i].bar = Risen(all[c][queue[i].kind], bar)[queue[i].freq]
       /\ Risen(all[c][queue[i].kind], bar)[queue[i].freq] # None
  /\ \A i, j \in DOMAIN queue : i < j =>
       \/ queue[i].freq = 0 /\ queue[j].freq > 0
       \/ queue[i].freq = 0 /\ queue[j].freq = 0 /\ kind[i] < kind[j]
       \/ queue[i].freq > 0 /\ queue[j].freq > 0 /\ kind[i] < kind[j]
       \/ queue[i].freq > 0 /\ queue[j].freq > queue[i].freq /\ kind[i] = kind[j]
  /\ \A k \in DOMAIN Kinds, f \in Freqs :
       Risen(all[c][Kinds[k]], bar)[f] # None =>
         \E i \in DOMAIN queue : kind[i] = k /\ queue[i].freq = f

LEMMA EventsOfIs ==
  ASSUME NEW all \in CascadeMap, NEW c \in Instruments, NEW bar \in Candle
  PROVE  \E kind : Announces(EventsOf(all, c, bar), all, c, bar, kind)
<1> DEFINE up(k) == Risen(all[c][Kinds[k]], bar)
           top(k) == Max({f \in Freqs : up(k)[f] # None})
           ss == [k \in DOMAIN Kinds |-> CandlesOf(all, c, Kinds[k], bar)]
           head == [k \in DOMAIN Kinds |-> Event(c, Kinds[k], 0, bar)]
           tail == FlattenSeq(ss)
           queue == EventsOf(all, c, bar)
           n == Len(Kinds)
<1>1. n \in Nat /\ DOMAIN Kinds = 1 .. n /\ \A k \in 1 .. n : Kinds[k] \in KindSet
  BY KindFacts
<1>2. \A k \in 1 .. n : all[c][Kinds[k]] \in Cascade
  BY <1>1 DEF CascadeMap
<1>3. ASSUME NEW k \in 1 .. n
      PROVE  /\ top(k) \in Freqs
             /\ \A f \in Freqs : up(k)[f] # None <=> f <= top(k)
             /\ \A f \in Freqs : up(k)[f] # None => up(k)[f] \in Candle /\ up(k)[f].end = bar.end
             /\ up(k)[0] = bar
  <2> DEFINE x == all[c][Kinds[k]]
  <2>1. x \in Cascade
    BY <1>2
  <2> HIDE DEF x
  <2>2. LET u == Risen(x, bar)
            t == Max({f \in Freqs : u[f] # None})
        IN /\ t \in Freqs
           /\ \A f \in Freqs : u[f] # None <=> f <= t
           /\ \A f \in Freqs : u[f] # None => u[f] \in Candle /\ u[f].end = bar.end
           /\ u[0] = bar
    BY <2>1, Risers, RisenIs
  <2> QED BY <2>2 DEF x
<1>4. \A k \in 1 .. n : CandlesOf(all, c, Kinds[k], bar) = [f \in 1 .. top(k) |-> Event(c, Kinds[k], f, up(k)[f])]
  BY DEF CandlesOf
<1>5. queue = head \o tail
  BY DEF EventsOf
<1> HIDE DEF up, top
<1>6. ASSUME NEW k \in 1 .. n, NEW f \in Freqs, up(k)[f] # None
      PROVE  Event(c, Kinds[k], f, up(k)[f]) \in EventSet
  BY <1>1, <1>3, <1>6 DEF Event, EventSet
<1>7. \A k \in 1 .. n : ss[k] = [f \in 1 .. top(k) |-> Event(c, Kinds[k], f, up(k)[f])]
  BY <1>1, <1>4
<1>8. ss \in Seq(Seq(EventSet)) /\ Len(ss) = n
  <2>1. \A k \in 1 .. n : ss[k] \in Seq(EventSet)
    <3> SUFFICES ASSUME NEW k \in 1 .. n PROVE ss[k] \in Seq(EventSet)
      OBVIOUS
    <3>1. top(k) \in Nat /\ \A f \in 1 .. top(k) : f \in Freqs /\ up(k)[f] # None
      BY <1>3, LevelFacts
    <3>2. [f \in 1 .. top(k) |-> Event(c, Kinds[k], f, up(k)[f])] \in [1 .. top(k) -> EventSet]
      BY <3>1, <1>6
    <3> HIDE DEF ss
    <3>3. ss[k] \in [1 .. top(k) -> EventSet]
      BY <3>2, <1>7
    <3> QED BY <3>1, <3>3, FunctionIsSeq
  <2>2. ss = [k \in 1 .. n |-> ss[k]]
    BY <1>1
  <2> HIDE DEF ss
  <2>3. ss \in [1 .. n -> Seq(EventSet)]
    BY <2>1, <2>2
  <2> QED BY <2>3, <1>1
<1>9. head \in Seq(EventSet) /\ Len(head) = n
      /\ \A k \in 1 .. n : head[k] = Event(c, Kinds[k], 0, up(k)[0])
  <2>1. \A k \in 1 .. n : Event(c, Kinds[k], 0, bar) \in EventSet /\ up(k)[0] = bar
    <3> SUFFICES ASSUME NEW k \in 1 .. n PROVE Event(c, Kinds[k], 0, bar) \in EventSet /\ up(k)[0] = bar
      OBVIOUS
    <3>1. 0 \in Freqs /\ up(k)[0] = bar /\ bar # None
      BY <1>3, LevelFacts, CandleIsNotNone
    <3> QED BY <3>1, <1>6
  <2>2. head \in [1 .. n -> EventSet]
    BY <1>1, <2>1
  <2>3. \A k \in 1 .. n : head[k] = Event(c, Kinds[k], 0, up(k)[0])
    BY <1>1, <2>1
  <2> HIDE DEF head
  <2> QED BY <1>1, <2>2, <2>3
<1>10. tail \in Seq(EventSet) /\ \E row, col : Laid(tail, ss, n, row, col)
  <2> HIDE DEF ss
  <2> QED BY <1>8, Flattened
<1> HIDE DEF ss, head, tail, queue
<1>11. PICK row, col : Laid(tail, ss, n, row, col)
  BY <1>10
<1> DEFINE m == Len(tail)
<1>12. m \in Nat /\ DOMAIN tail = 1 .. m
  BY <1>10
<1>13. /\ \A i \in 1 .. m : row[i] \in 1 .. n /\ col[i] \in DOMAIN ss[row[i]] /\ tail[i] = ss[row[i]][col[i]]
       /\ \A i, j \in 1 .. m : i < j => row[i] < row[j] \/ (row[i] = row[j] /\ col[i] < col[j])
       /\ \A r \in 1 .. n : \A k \in DOMAIN ss[r] : \E i \in 1 .. m : row[i] = r /\ col[i] = k
  BY <1>11, <1>12 DEF Laid
<1>14. /\ queue \in Seq(EventSet) /\ DOMAIN queue = 1 .. n + m
       /\ \A i \in 1 .. n : queue[i] = head[i]
       /\ \A i \in 1 .. m : queue[n + i] = tail[i]
  <2>1. /\ head \o tail \in Seq(EventSet) /\ DOMAIN (head \o tail) = 1 .. Len(head) + Len(tail)
        /\ \A i \in 1 .. Len(head) : (head \o tail)[i] = head[i]
        /\ \A i \in 1 .. Len(tail) : (head \o tail)[Len(head) + i] = tail[i]
    <3>1. head \in Seq(EventSet) /\ tail \in Seq(EventSet)
      BY <1>9, <1>10
    <3>2. head \o tail \in Seq(EventSet)
      BY <3>1, ConcatIs
    <3>3. DOMAIN (head \o tail) = 1 .. Len(head) + Len(tail)
      BY <3>1, ConcatIs
    <3>4. \A i \in 1 .. Len(head) : (head \o tail)[i] = head[i]
      BY <3>1, ConcatIs
    <3>5. \A i \in 1 .. Len(tail) : (head \o tail)[Len(head) + i] = tail[i]
      BY <3>1, ConcatIs
    <3> QED BY <3>2, <3>3, <3>4, <3>5
  <2>2. Len(head) = n
    BY <1>9
  <2> HIDE DEF n
  <2> QED BY <2>1, <2>2, <1>5
<1> HIDE DEF m
<1> DEFINE kind == [i \in 1 .. n + m |-> IF i <= n THEN i ELSE row[i - n]]
           freq == [i \in 1 .. n + m |-> IF i <= n THEN 0 ELSE col[i - n]]
<1>15. ASSUME NEW i \in 1 .. n + m
       PROVE  /\ kind[i] \in 1 .. n /\ freq[i] \in Freqs /\ up(kind[i])[freq[i]] # None
              /\ queue[i] = Event(c, Kinds[kind[i]], freq[i], up(kind[i])[freq[i]])
              /\ i <= n <=> freq[i] = 0
  <2>1. CASE i <= n
    <3>1. i \in 1 .. n /\ kind[i] = i /\ freq[i] = 0
      BY <2>1, <1>1, <1>12
    <3>2. up(i)[0] # None /\ 0 \in Freqs
      BY <3>1, <1>3, LevelFacts, CandleIsNotNone
    <3> HIDE DEF kind, freq
    <3> QED BY <2>1, <3>1, <3>2, <1>9, <1>14
  <2>2. CASE ~ (i <= n)
    <3> DEFINE j == i - n
    <3>1. j \in 1 .. m /\ kind[i] = row[j] /\ freq[i] = col[j] /\ i = n + j
      BY <2>2, <1>1, <1>12
    <3> HIDE DEF kind, freq, j
    <3>2. row[j] \in 1 .. n /\ col[j] \in DOMAIN ss[row[j]] /\ tail[j] = ss[row[j]][col[j]]
      BY <3>1, <1>13
    <3>3. top(row[j]) \in Freqs /\ col[j] \in 1 .. top(row[j])
      BY <3>2, <1>3, <1>7
    <3>4. col[j] \in Freqs /\ col[j] # 0 /\ col[j] <= top(row[j])
      BY <3>3, LevelFacts
    <3>5. up(row[j])[col[j]] # None
      BY <3>2, <3>4, <1>3
    <3>6. tail[j] = Event(c, Kinds[row[j]], col[j], up(row[j])[col[j]])
      BY <3>2, <3>3, <1>7
    <3> QED BY <2>2, <3>1, <3>2, <3>4, <3>5, <3>6, <1>14
  <2> QED BY <2>1, <2>2
<1>16. ASSUME NEW i \in 1 .. n + m, NEW j \in 1 .. n + m, i < j
       PROVE  \/ freq[i] = 0 /\ freq[j] > 0
              \/ freq[i] = 0 /\ freq[j] = 0 /\ kind[i] < kind[j]
              \/ freq[i] > 0 /\ freq[j] > 0 /\ kind[i] < kind[j]
              \/ freq[i] > 0 /\ freq[j] > freq[i] /\ kind[i] = kind[j]
  <2>1. freq[i] \in Nat /\ freq[j] \in Nat /\ (i <= n <=> freq[i] = 0) /\ (j <= n <=> freq[j] = 0)
    BY <1>15, LevelFacts
  <2>2. CASE j <= n
    <3>1. kind[i] = i /\ kind[j] = j /\ i <= n
      BY <2>2, <1>1, <1>12, <1>16
    <3> QED BY <3>1, <2>1, <2>2, <1>16
  <2>3. CASE i <= n /\ ~ (j <= n)
    BY <2>1, <2>3
  <2>4. CASE ~ (i <= n) /\ ~ (j <= n)
    <3> DEFINE a == i - n
               b == j - n
    <3>1. a \in 1 .. m /\ b \in 1 .. m /\ a < b
          /\ kind[i] = row[a] /\ freq[i] = col[a] /\ kind[j] = row[b] /\ freq[j] = col[b]
      BY <2>4, <1>1, <1>12, <1>16
    <3> HIDE DEF a, b, kind, freq
    <3>2. row[a] < row[b] \/ (row[a] = row[b] /\ col[a] < col[b])
      BY <3>1, <1>13
    <3> QED BY <3>1, <3>2, <2>1, <2>4
  <2> QED BY <2>2, <2>3, <2>4, <1>1, <1>12
<1>17. ASSUME NEW k \in 1 .. n, NEW f \in Freqs, up(k)[f] # None
       PROVE  \E i \in 1 .. n + m : kind[i] = k /\ freq[i] = f
  <2>1. CASE f = 0
    <3>1. k \in 1 .. n + m /\ kind[k] = k /\ freq[k] = 0
      BY <1>1, <1>12
    <3> QED BY <2>1, <3>1
  <2>2. CASE f # 0
    <3>1. f <= top(k) /\ top(k) \in Freqs
      BY <1>3, <1>17
    <3>2. f \in DOMAIN ss[k]
      <4>1. f \in 1 .. top(k)
        BY <2>2, <3>1, LevelFacts
      <4> QED BY <4>1, <1>7
    <3>3. PICK j \in 1 .. m : row[j] = k /\ col[j] = f
      BY <3>2, <1>13
    <3>4. n + j \in 1 .. n + m /\ kind[n + j] = row[j] /\ freq[n + j] = col[j]
      BY <3>3, <1>1, <1>12
    <3> QED BY <3>3, <3>4
  <2> QED BY <2>1, <2>2
<1>18. kind \in [1 .. n + m -> 1 .. n]
  BY <1>15
<1> HIDE DEF kind, freq
<1>19. ASSUME NEW i \in DOMAIN queue
       PROVE  /\ queue[i].con = c /\ queue[i].kind = Kinds[kind[i]] /\ queue[i].freq = freq[i]
              /\ queue[i].bar = up(kind[i])[freq[i]] /\ up(kind[i])[freq[i]] # None
              /\ queue[i].bar.end = bar.end
  <2>1. kind[i] \in 1 .. n /\ freq[i] \in Freqs /\ up(kind[i])[freq[i]] # None
        /\ queue[i] = Event(c, Kinds[kind[i]], freq[i], up(kind[i])[freq[i]])
    BY <1>14, <1>15
  <2>2. /\ queue[i].con = c /\ queue[i].kind = Kinds[kind[i]] /\ queue[i].freq = freq[i]
        /\ queue[i].bar = up(kind[i])[freq[i]]
    BY <2>1 DEF Event
  <2> QED BY <2>1, <2>2, <1>3
<1>20. Announces(queue, all, c, bar, kind)
  <2>1. /\ queue \in Seq(EventSet)
        /\ kind \in [DOMAIN queue -> DOMAIN Kinds]
    BY <1>1, <1>14, <1>18
  <2>2. \A i \in DOMAIN queue :
       /\ queue[i].con = c /\ queue[i].kind = Kinds[kind[i]] /\ queue[i].bar.end = bar.end
       /\ queue[i].bar = Risen(all[c][queue[i].kind], bar)[queue[i].freq]
       /\ Risen(all[c][queue[i].kind], bar)[queue[i].freq] # None
    BY <1>19 DEF up
  <2>3. \A i, j \in DOMAIN queue : i < j =>
       \/ queue[i].freq = 0 /\ queue[j].freq > 0
       \/ queue[i].freq = 0 /\ queue[j].freq = 0 /\ kind[i] < kind[j]
       \/ queue[i].freq > 0 /\ queue[j].freq > 0 /\ kind[i] < kind[j]
       \/ queue[i].freq > 0 /\ queue[j].freq > queue[i].freq /\ kind[i] = kind[j]
    BY <1>14, <1>16, <1>19
  <2>4. \A k \in DOMAIN Kinds, f \in Freqs :
       Risen(all[c][Kinds[k]], bar)[f] # None =>
         \E i \in DOMAIN queue : kind[i] = k /\ queue[i].freq = f
    BY <1>1, <1>14, <1>17, <1>19 DEF up
  <2> QED BY <2>1, <2>2, <2>3, <2>4 DEF Announces
<1> QED BY <1>20 DEF queue

-----------------------------------------------------------------------------
(***************************************************************************)
(* FeatureEngine: types, and what one event changes.                       *)
(***************************************************************************)
Time == Nat \cup {-1}
Row == [end : Nat, cells : [KindSet -> [Instruments -> CandleOrNone]], filled : [KindSet -> Nat]]
Bank == [rows : [0 .. Lookback - 1 -> Row], head : 0 .. Lookback - 1, full : BOOLEAN, end : Time]
State == [pending : BOOLEAN, derivedAt : Time, seen : SUBSET Instruments]
Engine ==
  [banks : {NoBanks} \cup [Freqs -> Bank],
   lastSeen : [Instruments -> [KindSet -> [Freqs -> Time]]],
   states : [Freqs -> State],
   latest : [Freqs -> [Instruments -> Time]],
   derived : [Freqs -> [Instruments -> Time]],
   cross : [Freqs -> SUBSET Instruments],
   processed : BOOLEAN]

\* The row written last is that of the bank's time stamp, and a cell is empty or of its row.
BankIsTrue(b) ==
  /\ b.end = -1 <=> b.head = 0 /\ ~ b.full
  /\ b.end # -1 => b.rows[(b.head - 1) % Lookback].end = b.end
  /\ \A r \in 0 .. Lookback - 1, k \in KindSet, c \in Instruments :
       b.rows[r].cells[k][c] # None => b.rows[r].cells[k][c].end = b.rows[r].end

TrueBanks(e) == e.banks # NoBanks /\ \A f \in Freqs : BankIsTrue(e.banks[f])

LEMMA NoBanksIsNone == \A banks \in [Freqs -> Bank] : banks # NoBanks
<1> SUFFICES ASSUME NEW banks \in [Freqs -> Bank], banks = NoBanks PROVE FALSE
  OBVIOUS
<1>1. DOMAIN banks = {} /\ 0 \in DOMAIN banks
  BY LevelFacts DEF NoBanks
<1> QED BY <1>1

LEMMA LookbackFacts ==
  /\ Lookback \in Nat /\ Lookback > 0 /\ 0 \in 0 .. Lookback - 1
  /\ \A h \in 0 .. Lookback - 1 :
       /\ (h + 1) % Lookback \in 0 .. Lookback - 1
       /\ (h + 1) % Lookback = IF h = Lookback - 1 THEN 0 ELSE h + 1
       /\ (h - 1) % Lookback \in 0 .. Lookback - 1
       /\ (h - 1) % Lookback = IF h = 0 THEN Lookback - 1 ELSE h - 1
       /\ (((h + 1) % Lookback) - 1) % Lookback = h
<1>1. Lookback \in Nat /\ Lookback > 0
  BY CandlesAssumption
<1>2. \A h \in 0 .. Lookback - 1 : h % Lookback = h
  BY <1>1
<1>3. Lookback % Lookback = 0 /\ (-1) % Lookback = Lookback - 1
  <2>1. Lookback % Lookback = 0
    BY <1>1
  <2>2. (-1) % Lookback = Lookback - 1
    BY <1>1
  <2> QED BY <2>1, <2>2
<1>4. \A h \in 0 .. Lookback - 1 : (h + 1) % Lookback = IF h = Lookback - 1 THEN 0 ELSE h + 1
  BY <1>1, <1>2, <1>3
<1>5. \A h \in 0 .. Lookback - 1 : (h - 1) % Lookback = IF h = 0 THEN Lookback - 1 ELSE h - 1
  BY <1>1, <1>2, <1>3
<1>6. ASSUME NEW h \in 0 .. Lookback - 1 PROVE (((h + 1) % Lookback) - 1) % Lookback = h
  <2>1. CASE h = Lookback - 1
    <3>1. (h + 1) % Lookback = 0
      BY <1>4, <2>1
    <3>2. 0 - 1 = -1
      OBVIOUS
    <3> QED BY <3>1, <3>2, <1>3, <2>1
  <2>2. CASE h # Lookback - 1
    <3>1. (h + 1) % Lookback = h + 1 /\ (h + 1) - 1 = h
      BY <1>4, <2>2
    <3> QED BY <3>1, <1>2
  <2> QED BY <2>1, <2>2
<1> QED BY <1>1, <1>4, <1>5, <1>6

LEMMA FreshFacts ==
  /\ EmptyBank \in Bank /\ BankIsTrue(EmptyBank)
  /\ FreshCascades \in CascadeMap
  /\ \A banks \in {NoBanks} \cup [Freqs -> Bank] : FreshEngine(banks) \in Engine
  /\ NothingMissed \in [Freqs -> SUBSET Instruments]
<1>1. EmptyRow \in Row /\ \A k \in KindSet, c \in Instruments : EmptyRow.cells[k][c] = None
  BY DEF EmptyRow, Row, CandleOrNone
<1>2. EmptyBank \in Bank /\ BankIsTrue(EmptyBank)
  <2>1. EmptyBank \in Bank
    BY <1>1, LookbackFacts DEF EmptyBank, Bank, Time
  <2>2. /\ EmptyBank.end = -1 /\ EmptyBank.head = 0 /\ EmptyBank.full = FALSE
        /\ \A r \in 0 .. Lookback - 1 : EmptyBank.rows[r] = EmptyRow
    BY DEF EmptyBank
  <2> QED BY <2>1, <2>2, <1>1 DEF BankIsTrue
<1>3. FreshCascades \in CascadeMap
  <2>1. FreshResampler \in Resampler /\ FreshResampler.seen = 0
    BY DEF FreshResampler, Resampler
  <2>2. FreshCascade = [k \in 1 .. Levels |-> FreshResampler]
    BY LevelFacts DEF FreshCascade
  <2>3. \A k \in 1 .. Levels : FreshCascade[k] = FreshResampler /\ 0 < Counts[k]
    BY <2>2, LevelFacts
  <2>4. FreshCascade \in Cascade
    BY <2>1, <2>2, <2>3 DEF Cascade
  <2> QED BY <2>4 DEF FreshCascades, CascadeMap
<1>4. NothingMissed \in [Freqs -> SUBSET Instruments]
  BY DEF NothingMissed
<1>5. ASSUME NEW banks \in {NoBanks} \cup [Freqs -> Bank] PROVE FreshEngine(banks) \in Engine
  BY <1>4 DEF FreshEngine, Engine, Time, State
<1> QED BY <1>2, <1>3, <1>4, <1>5

IsNextRow(n, b, end, kind) ==
  /\ n \in Bank /\ n.end = end
  /\ n.head = (b.head + 1) % Lookback /\ (n.head - 1) % Lookback = b.head
  /\ n.full <=> b.full \/ n.head = 0
  /\ \A r \in 0 .. Lookback - 1 : r # b.head => n.rows[r] = b.rows[r]
  /\ n.rows[b.head].end = end
  /\ \A k \in KindSet, c \in Instruments : n.rows[b.head].cells[k][c] = None
  /\ n.rows[b.head].filled[kind] = 0

LEMMA NextRowIs ==
  ASSUME NEW b \in Bank, NEW end \in Nat, NEW kind \in KindSet
  PROVE  IsNextRow(NextRow(b, end, kind), b, end, kind)
<1> DEFINE row == [EmptyRow EXCEPT !.end = end,
                                   !.filled = [b.rows[b.head].filled EXCEPT ![kind] = 0]]
           next == (b.head + 1) % Lookback
           n == NextRow(b, end, kind)
<1>1. b.head \in 0 .. Lookback - 1 /\ b.rows \in [0 .. Lookback - 1 -> Row] /\ b.full \in BOOLEAN
  BY DEF Bank
<1>2. next \in 0 .. Lookback - 1 /\ (next - 1) % Lookback = b.head
  BY <1>1, LookbackFacts
<1>3. b.rows[b.head] \in Row
  BY <1>1
<1>4. b.rows[b.head].filled \in [KindSet -> Nat]
  BY <1>3 DEF Row
<1> HIDE DEF next
<1>5. EmptyRow \in Row /\ \A k \in KindSet, c \in Instruments : EmptyRow.cells[k][c] = None
  BY DEF EmptyRow, Row, CandleOrNone
<1>6. row \in Row /\ row.end = end /\ row.filled[kind] = 0
      /\ \A k \in KindSet, c \in Instruments : row.cells[k][c] = None
  <2> DEFINE filled == [b.rows[b.head].filled EXCEPT ![kind] = 0]
  <2>1. filled \in [KindSet -> Nat] /\ filled[kind] = 0
    BY <1>4
  <2> HIDE DEF filled
  <2>2. /\ [EmptyRow EXCEPT !.end = end, !.filled = filled] \in Row
        /\ [EmptyRow EXCEPT !.end = end, !.filled = filled].end = end
        /\ [EmptyRow EXCEPT !.end = end, !.filled = filled].filled = filled
        /\ [EmptyRow EXCEPT !.end = end, !.filled = filled].cells = EmptyRow.cells
    BY <1>5, <2>1 DEF Row
  <2>3. row = [EmptyRow EXCEPT !.end = end, !.filled = filled]
    BY DEF filled
  <2> HIDE DEF row
  <2> QED BY <1>5, <2>1, <2>2, <2>3
<1>7. n = [rows |-> [b.rows EXCEPT ![b.head] = row], head |-> next, full |-> b.full \/ next = 0, end |-> end]
  BY DEF NextRow, next
<1> HIDE DEF row, n
<1>8. n.rows = [b.rows EXCEPT ![b.head] = row] /\ n.head = next /\ n.end = end
      /\ n.full = (b.full \/ next = 0)
  BY <1>7
<1>9. n \in Bank
  <2>1. [b.rows EXCEPT ![b.head] = row] \in [0 .. Lookback - 1 -> Row]
    BY <1>1, <1>6
  <2>2. (b.full \/ next = 0) \in BOOLEAN /\ end \in Time
    BY DEF Time
  <2> QED BY <1>2, <1>7, <2>1, <2>2 DEF Bank
<1>10. \A r \in 0 .. Lookback - 1 : n.rows[r] = IF r = b.head THEN row ELSE b.rows[r]
  BY <1>1, <1>8
<1>11. \A r \in 0 .. Lookback - 1 : r # b.head => n.rows[r] = b.rows[r]
  BY <1>10
<1>12. n.rows[b.head] = row
  BY <1>1, <1>10
<1>13. n.full <=> b.full \/ n.head = 0
  <2>1. n.full = (b.full \/ n.head = 0)
    BY <1>8
  <2> QED BY <2>1, Zenon
<1>14. /\ n.rows[b.head].end = end /\ n.rows[b.head].filled[kind] = 0
       /\ \A k \in KindSet, c \in Instruments : n.rows[b.head].cells[k][c] = None
  BY <1>6, <1>12
<1>15. n.head = (b.head + 1) % Lookback /\ (n.head - 1) % Lookback = b.head /\ n.end = end
  BY <1>2, <1>8 DEF next
<1> QED BY <1>9, <1>11, <1>13, <1>14, <1>15, Zenon DEF n, IsNextRow

IsWritten(w, b, c, kind, bar, at) ==
  /\ w \in Bank /\ at \in 0 .. Lookback - 1
  /\ w.end = b.end /\ w.head = b.head /\ w.full = b.full
  /\ \A r \in 0 .. Lookback - 1 : r # at => w.rows[r] = b.rows[r]
  /\ w.rows[at].end = b.rows[at].end
  /\ \A k \in KindSet, d \in Instruments :
       w.rows[at].cells[k][d] = IF k = kind /\ d = c THEN bar ELSE b.rows[at].cells[k][d]
  /\ \A k \in KindSet :
       w.rows[at].filled[k] = IF k = kind THEN b.rows[at].filled[k] + 1 ELSE b.rows[at].filled[k]

LEMMA WrittenIs ==
  ASSUME NEW b \in Bank, NEW c \in Instruments, NEW kind \in KindSet, NEW bar \in Candle
  PROVE  IsWritten(Written(b, c, kind, bar), b, c, kind, bar, (b.head - 1) % Lookback)
<1> DEFINE at == (b.head - 1) % Lookback
           old == b.rows[at]
           w == Written(b, c, kind, bar)
           row == [old EXCEPT !.cells[kind][c] = bar, !.filled[kind] = old.filled[kind] + 1]
<1>1. /\ b.head \in 0 .. Lookback - 1 /\ b.rows \in [0 .. Lookback - 1 -> Row]
      /\ b = [rows |-> b.rows, head |-> b.head, full |-> b.full, end |-> b.end]
      /\ b.full \in BOOLEAN /\ b.end \in Time
  BY DEF Bank
<1>2. at \in 0 .. Lookback - 1
  BY <1>1, LookbackFacts
<1>3. w = [b EXCEPT !.rows[at].cells[kind][c] = bar, !.rows[at].filled[kind] = b.rows[at].filled[kind] + 1]
  BY DEF Written
<1> HIDE DEF at
<1>4. old \in Row
  BY <1>1, <1>2
<1>5. old.cells \in [KindSet -> [Instruments -> CandleOrNone]] /\ old.filled \in [KindSet -> Nat]
      /\ old.end \in Nat
  BY <1>4 DEF Row
<1> HIDE DEF old, w
<1>6. bar \in CandleOrNone
  BY DEF CandleOrNone
<1>7. /\ row \in Row /\ row.end = old.end
      /\ \A k \in KindSet, d \in Instruments :
           row.cells[k][d] = IF k = kind /\ d = c THEN bar ELSE old.cells[k][d]
      /\ \A k \in KindSet : row.filled[k] = IF k = kind THEN old.filled[k] + 1 ELSE old.filled[k]
  <2> DEFINE cells == [old.cells EXCEPT ![kind][c] = bar]
             filled == [old.filled EXCEPT ![kind] = old.filled[kind] + 1]
  <2>1. cells \in [KindSet -> [Instruments -> CandleOrNone]]
        /\ \A k \in KindSet, d \in Instruments :
             cells[k][d] = IF k = kind /\ d = c THEN bar ELSE old.cells[k][d]
    BY <1>5, <1>6
  <2>2. filled \in [KindSet -> Nat]
        /\ \A k \in KindSet : filled[k] = IF k = kind THEN old.filled[k] + 1 ELSE old.filled[k]
    BY <1>5
  <2>3. row = [old EXCEPT !.cells = cells, !.filled = filled]
    OBVIOUS
  <2> HIDE DEF cells, filled, row
  <2>4. /\ [old EXCEPT !.cells = cells, !.filled = filled] \in Row
        /\ [old EXCEPT !.cells = cells, !.filled = filled].cells = cells
        /\ [old EXCEPT !.cells = cells, !.filled = filled].filled = filled
        /\ [old EXCEPT !.cells = cells, !.filled = filled].end = old.end
    BY <1>4, <2>1, <2>2 DEF Row
  <2> QED BY <2>1, <2>2, <2>3, <2>4
<1> HIDE DEF row
<1>8. w = [rows |-> [b.rows EXCEPT ![at] = row], head |-> b.head, full |-> b.full, end |-> b.end]
  <2>1. [b.rows EXCEPT ![at].cells[kind][c] = bar, ![at].filled[kind] = b.rows[at].filled[kind] + 1]
          = [b.rows EXCEPT ![at] = row]
    BY <1>1, <1>2, <1>4 DEF row, old
  <2> QED BY <1>1, <1>3, <2>1
<1>9. w.rows = [b.rows EXCEPT ![at] = row] /\ w.head = b.head /\ w.full = b.full /\ w.end = b.end
  BY <1>8
<1>10. w \in Bank
  <2>1. [b.rows EXCEPT ![at] = row] \in [0 .. Lookback - 1 -> Row]
    BY <1>1, <1>2, <1>7
  <2> QED BY <1>1, <1>8, <2>1 DEF Bank
<1>11. \A r \in 0 .. Lookback - 1 : w.rows[r] = IF r = at THEN row ELSE b.rows[r]
  BY <1>1, <1>2, <1>9
<1>12. /\ \A r \in 0 .. Lookback - 1 : r # at => w.rows[r] = b.rows[r]
       /\ w.rows[at] = row
  BY <1>2, <1>11
<1>13. /\ w.rows[at].end = b.rows[at].end
       /\ \A k \in KindSet, d \in Instruments :
            w.rows[at].cells[k][d] = IF k = kind /\ d = c THEN bar ELSE b.rows[at].cells[k][d]
       /\ \A k \in KindSet :
            w.rows[at].filled[k] = IF k = kind THEN b.rows[at].filled[k] + 1 ELSE b.rows[at].filled[k]
  BY <1>7, <1>12 DEF old
<1> QED BY <1>2, <1>9, <1>10, <1>12, <1>13, Zenon DEF at, w, IsWritten

LEMMA UpdatedBankIs ==
  ASSUME NEW b \in Bank, NEW c \in Instruments, NEW kind \in KindSet, NEW bar \in Candle,
         NEW recovery \in BOOLEAN, BankIsTrue(b)
  PROVE  /\ UpdatedBank(b, c, kind, bar, recovery) \in Bank
         /\ BankIsTrue(UpdatedBank(b, c, kind, bar, recovery))
         /\ Rejects(b, bar.end, recovery) => UpdatedBank(b, c, kind, bar, recovery) = b
         /\ ~ Rejects(b, bar.end, recovery) => UpdatedBank(b, c, kind, bar, recovery).end = bar.end
         /\ UpdatedBank(b, c, kind, bar, recovery).end # -1
<1> DEFINE u == UpdatedBank(b, c, kind, bar, recovery)
           n == IF bar.end = b.end THEN b ELSE NextRow(b, bar.end, kind)
           w == Written(n, c, kind, bar)
           at == (n.head - 1) % Lookback
<1>1. bar.end \in Nat /\ bar.end # 0 /\ bar.end # -1
  BY DEF Candle
<1>2. CASE Rejects(b, bar.end, recovery)
  <2>1. u = b /\ b.end # -1
    BY <1>2 DEF UpdatedBank, Rejects
  <2> QED BY <1>2, <2>1
<1>3. CASE ~ Rejects(b, bar.end, recovery)
  <2>1. u = w
    BY <1>3 DEF UpdatedBank
  <2>2. /\ n \in Bank /\ n.end = bar.end /\ n.rows[at].end = bar.end
        /\ \A r \in 0 .. Lookback - 1, k \in KindSet, d \in Instruments :
             n.rows[r].cells[k][d] # None => n.rows[r].cells[k][d].end = n.rows[r].end
        /\ ~ (n.head = 0 /\ ~ n.full)
    <3>1. CASE bar.end = b.end
      BY <3>1, <1>1 DEF BankIsTrue
    <3>2. CASE bar.end # b.end
      <4>1. n = NextRow(b, bar.end, kind)
        BY <3>2
      <4> HIDE DEF n
      <4>2. /\ n \in Bank /\ n.end = bar.end
            /\ (n.head - 1) % Lookback = b.head /\ n.rows[b.head].end = bar.end
            /\ n.full <=> b.full \/ n.head = 0
            /\ \A r \in 0 .. Lookback - 1 : r # b.head => n.rows[r] = b.rows[r]
            /\ \A k \in KindSet, d \in Instruments : n.rows[b.head].cells[k][d] = None
        <5>1. IsNextRow(n, b, bar.end, kind)
          BY <1>1, <4>1, NextRowIs
        <5> QED BY <5>1 DEF IsNextRow
      <4>3. ASSUME NEW r \in 0 .. Lookback - 1, NEW k \in KindSet, NEW d \in Instruments,
                   n.rows[r].cells[k][d] # None
            PROVE  n.rows[r].cells[k][d].end = n.rows[r].end
        <5>1. r # b.head /\ n.rows[r] = b.rows[r]
          BY <4>2, <4>3
        <5> QED BY <5>1, <4>3 DEF BankIsTrue
      <4> QED BY <4>2, <4>3
    <3> QED BY <3>1, <3>2
  <2> HIDE DEF n, w
  <2>3. /\ w \in Bank /\ at \in 0 .. Lookback - 1
        /\ w.end = n.end /\ w.head = n.head /\ w.full = n.full
        /\ \A r \in 0 .. Lookback - 1 : r # at => w.rows[r] = n.rows[r]
        /\ w.rows[at].end = n.rows[at].end
        /\ \A k \in KindSet, d \in Instruments :
             w.rows[at].cells[k][d] = IF k = kind /\ d = c THEN bar ELSE n.rows[at].cells[k][d]
    <3>1. IsWritten(w, n, c, kind, bar, at)
      BY <2>2, WrittenIs DEF w
    <3> HIDE DEF at
    <3> QED BY <3>1 DEF IsWritten
  <2> HIDE DEF at
  <2>4. ASSUME NEW r \in 0 .. Lookback - 1, NEW k \in KindSet, NEW d \in Instruments,
               w.rows[r].cells[k][d] # None
        PROVE  w.rows[r].cells[k][d].end = w.rows[r].end
    <3>1. CASE r # at
      BY <3>1, <2>2, <2>3, <2>4
    <3>2. CASE r = at /\ k = kind /\ d = c
      BY <3>2, <2>2, <2>3
    <3>3. CASE r = at /\ ~ (k = kind /\ d = c)
      BY <3>3, <2>2, <2>3, <2>4
    <3> QED BY <3>1, <3>2, <3>3
  <2>5. w.end = bar.end /\ w.rows[at].end = w.end /\ at = (w.head - 1) % Lookback
        /\ ~ (w.head = 0 /\ ~ w.full)
    BY <2>2, <2>3 DEF at
  <2>6. BankIsTrue(w)
    BY <1>1, <2>4, <2>5 DEF BankIsTrue
  <2> QED BY <1>1, <1>3, <2>1, <2>3, <2>5, <2>6
<1> QED BY <1>2, <1>3

Size(b) == IF b.full THEN Lookback ELSE b.head
Slot(b, j) == IF b.full THEN (b.head + j - 1) % Lookback ELSE j - 1

LEMMA ModFacts ==
  \A a \in Nat : a < Lookback + Lookback => a % Lookback = IF a < Lookback THEN a ELSE a - Lookback
<1> SUFFICES ASSUME NEW a \in Nat, a < Lookback + Lookback
             PROVE  a % Lookback = IF a < Lookback THEN a ELSE a - Lookback
  OBVIOUS
<1> QED BY LookbackFacts

LEMMA ViewIs ==
  ASSUME NEW b \in Bank, BankIsTrue(b)
  PROVE  /\ View(b) \in Seq(Row) /\ Len(View(b)) = Size(b) /\ DOMAIN View(b) = 1 .. Size(b)
         /\ Size(b) \in Nat
         /\ \A j \in 1 .. Size(b) : Slot(b, j) \in 0 .. Lookback - 1 /\ View(b)[j] = b.rows[Slot(b, j)]
         /\ (b.head - 1) % Lookback \in 0 .. Lookback - 1
         /\ b.end # -1 => /\ Size(b) >= 1 /\ Slot(b, Size(b)) = (b.head - 1) % Lookback
                          /\ LastRow(b) = b.rows[(b.head - 1) % Lookback]
         /\ b.end = -1 => Size(b) = 0
<1> DEFINE n == Size(b)
<1>1. /\ b.head \in 0 .. Lookback - 1 /\ b.rows \in [0 .. Lookback - 1 -> Row] /\ b.full \in BOOLEAN
      /\ Lookback \in Nat /\ Lookback > 0
  BY LookbackFacts DEF Bank
<1>2. n \in Nat /\ n <= Lookback
  BY <1>1 DEF Size
<1>3. View(b) = [j \in 1 .. n |-> b.rows[Slot(b, j)]]
  BY DEF View, Size, Slot
<1>4. \A j \in 1 .. n : Slot(b, j) \in 0 .. Lookback - 1
  <2>1. CASE b.full
    <3>1. ASSUME NEW j \in 1 .. n PROVE (b.head + j - 1) % Lookback \in 0 .. Lookback - 1
      <4>1. b.head + j - 1 \in Nat /\ b.head + j - 1 < Lookback + Lookback
        BY <1>1, <1>2
      <4> QED BY <4>1, <1>1, ModFacts
    <3> QED BY <3>1, <2>1 DEF Slot
  <2>2. CASE ~ b.full
    BY <2>2, <1>1 DEF Slot, Size
  <2> QED BY <2>1, <2>2
<1> HIDE DEF n
<1>5. View(b) \in [1 .. n -> Row]
  BY <1>1, <1>3, <1>4
<1>6. /\ View(b) \in Seq(Row) /\ Len(View(b)) = n /\ DOMAIN View(b) = 1 .. n
  BY <1>2, <1>5, FunctionIsSeq
<1>7. ASSUME b.end # -1
      PROVE  n >= 1 /\ Slot(b, n) = (b.head - 1) % Lookback
  <2>1. ~ (b.head = 0 /\ ~ b.full)
    BY <1>7 DEF BankIsTrue
  <2>2. CASE b.full
    <3>1. n = Lookback /\ Slot(b, n) = (b.head + Lookback - 1) % Lookback
      BY <2>2 DEF n, Size, Slot
    <3>2. (b.head + Lookback - 1) \in Nat /\ b.head + Lookback - 1 < Lookback + Lookback
      BY <1>1
    <3>3. (b.head + Lookback - 1) % Lookback
            = IF b.head + Lookback - 1 < Lookback THEN b.head + Lookback - 1
              ELSE (b.head + Lookback - 1) - Lookback
      BY <3>2, ModFacts
    <3>4. (b.head - 1) % Lookback = IF b.head = 0 THEN Lookback - 1 ELSE b.head - 1
      BY <1>1, LookbackFacts
    <3>5. Slot(b, n) = IF b.head = 0 THEN Lookback - 1 ELSE b.head - 1
      BY <1>1, <3>1, <3>3
    <3> QED BY <1>1, <3>1, <3>4, <3>5
  <2>3. CASE ~ b.full
    <3>1. n = b.head /\ b.head # 0 /\ Slot(b, n) = b.head - 1
      BY <2>1, <2>3 DEF n, Size, Slot
    <3>2. (b.head - 1) % Lookback = IF b.head = 0 THEN Lookback - 1 ELSE b.head - 1
      BY <1>1, LookbackFacts
    <3> QED BY <1>1, <3>1, <3>2
  <2> QED BY <2>2, <2>3
<1>8. b.end = -1 => n = 0
  BY DEF BankIsTrue, n, Size
<1>9. b.end # -1 => LastRow(b) = b.rows[(b.head - 1) % Lookback]
  <2> SUFFICES ASSUME b.end # -1 PROVE LastRow(b) = b.rows[(b.head - 1) % Lookback]
    OBVIOUS
  <2>1. LastRow(b) = View(b)[n] /\ n \in 1 .. n
    BY <1>2, <1>6, <1>7 DEF LastRow
  <2> QED BY <2>1, <1>3, <1>7
<1> QED BY <1>1, <1>2, <1>3, <1>4, <1>6, <1>7, <1>8, <1>9, LookbackFacts DEF n

SeenNow(e, event, g) == IF g = event.freq THEN e.states[g].seen \cup {event.con} ELSE e.states[g].seen
PendingNow(e, event, g) ==
  e.states[g].pending \/ (g = event.freq /\ SeenNow(e, event, g) = Instruments)
DueNow(e, event, g) == PendingNow(e, event, g) /\ e.states[g].derivedAt # event.bar.end

BankOf(e, event, recovery) ==
  UpdatedBank(e.banks[event.freq], event.con, event.kind, event.bar, recovery)
MissingNow(e, event, recovery) ==
  {d \in Instruments : LastRow(BankOf(e, event, recovery)).cells[event.kind][d] = None}
CrossNow(e, event, recovery) ==
  /\ ~ Rejects(e.banks[event.freq], event.bar.end, recovery)
  /\ LastRow(BankOf(e, event, recovery)).filled[event.kind] = Cardinality(Instruments)
  /\ event.kind = First

\* The event is new: e becomes p.
Processing(p, e, event, recovery) ==
  /\ p \in Engine /\ p.banks \in [Freqs -> Bank] /\ p.processed = TRUE
  /\ \A g \in Freqs : p.banks[g] = IF g = event.freq THEN BankOf(e, event, recovery) ELSE e.banks[g]
  /\ \A c \in Instruments, k \in KindSet, g \in Freqs :
       p.lastSeen[c][k][g] = IF c = event.con /\ k = event.kind /\ g = event.freq THEN event.bar.end
                             ELSE e.lastSeen[c][k][g]
  /\ \A c \in Instruments, g \in Freqs :
       p.latest[g][c] = IF c = event.con /\ g = event.freq /\ event.kind = First
                        THEN IF c \in MissingNow(e, event, recovery) THEN -1
                             ELSE LastRow(BankOf(e, event, recovery)).end
                        ELSE e.latest[g][c]
  /\ \A g \in Freqs :
       p.cross[g] = IF g = event.freq /\ CrossNow(e, event, recovery)
                    THEN MissingNow(e, event, recovery) ELSE e.cross[g]
  /\ \A g \in Freqs :
       IF DueNow(e, event, g)
       THEN /\ p.derived[g] = p.latest[g]
            /\ p.states[g].pending = FALSE /\ p.states[g].seen = {}
            /\ p.states[g].derivedAt = event.bar.end
       ELSE /\ p.derived[g] = e.derived[g]
            /\ p.states[g].pending = PendingNow(e, event, g)
            /\ p.states[g].seen = SeenNow(e, event, g)
            /\ p.states[g].derivedAt = e.states[g].derivedAt

LEMMA MarkedIs ==
  ASSUME NEW e \in Engine, NEW event \in EventSet
  PROVE  LET m == Marked(e, event)
         IN /\ m \in Engine
            /\ m.banks = e.banks /\ m.latest = e.latest /\ m.derived = e.derived /\ m.cross = e.cross
            /\ \A c \in Instruments, k \in KindSet, g \in Freqs :
                 m.lastSeen[c][k][g] = IF c = event.con /\ k = event.kind /\ g = event.freq
                                       THEN event.bar.end ELSE e.lastSeen[c][k][g]
            /\ \A g \in Freqs : /\ m.states[g].seen = SeenNow(e, event, g)
                                /\ m.states[g].pending = PendingNow(e, event, g)
                                /\ m.states[g].derivedAt = e.states[g].derivedAt
<1> DEFINE c == event.con
           k == event.kind
           f == event.freq
           end == event.bar.end
           state == e.states[f]
           seen == state.seen \cup {c}
           st == [state EXCEPT !.seen = seen, !.pending = state.pending \/ seen = Instruments]
           lastSeen == [e.lastSeen EXCEPT ![c][k][f] = end]
           states == [e.states EXCEPT ![f] = st]
           m == Marked(e, event)
<1>1. /\ c \in Instruments /\ k \in KindSet /\ f \in Freqs /\ end \in Time
  BY DEF EventSet, Candle, Time
<1>2. /\ e.states \in [Freqs -> State] /\ e.lastSeen \in [Instruments -> [KindSet -> [Freqs -> Time]]]
  BY DEF Engine
<1>3. m = [e EXCEPT !.lastSeen = lastSeen, !.states = states]
  BY DEF Marked
<1> HIDE DEF m
<1>4. state \in State
  BY <1>1, <1>2
<1>5. st \in State /\ st.seen = seen /\ st.pending = (state.pending \/ seen = Instruments)
      /\ st.derivedAt = state.derivedAt
  <2> HIDE DEF state
  <2>1. seen \in SUBSET Instruments
    BY <1>1, <1>4 DEF State
  <2>2. (state.pending \/ seen = Instruments) \in BOOLEAN
    OBVIOUS
  <2> HIDE DEF seen
  <2> QED BY <1>4, <2>1, <2>2 DEF State
<1> HIDE DEF st
<1>6. states \in [Freqs -> State] /\ \A g \in Freqs : states[g] = IF g = f THEN st ELSE e.states[g]
  BY <1>1, <1>2, <1>5
<1>7. /\ lastSeen \in [Instruments -> [KindSet -> [Freqs -> Time]]]
      /\ \A d \in Instruments, j \in KindSet, g \in Freqs :
           lastSeen[d][j][g] = IF d = c /\ j = k /\ g = f THEN end ELSE e.lastSeen[d][j][g]
  <2> HIDE DEF c, k, f, end
  <2> QED BY <1>1, <1>2
<1> HIDE DEF states, lastSeen
<1>8. m \in Engine /\ m.lastSeen = lastSeen /\ m.states = states
      /\ m.banks = e.banks /\ m.latest = e.latest /\ m.derived = e.derived /\ m.cross = e.cross
  BY <1>3, <1>6, <1>7 DEF Engine
<1>9. \A d \in Instruments, j \in KindSet, g \in Freqs :
        m.lastSeen[d][j][g] = IF d = event.con /\ j = event.kind /\ g = event.freq
                              THEN event.bar.end ELSE e.lastSeen[d][j][g]
  BY <1>7, <1>8
<1>10. ASSUME NEW g \in Freqs
       PROVE  /\ m.states[g].seen = SeenNow(e, event, g)
              /\ m.states[g].pending = PendingNow(e, event, g)
              /\ m.states[g].derivedAt = e.states[g].derivedAt
  <2>1. CASE g = f
    <3>1. m.states[g] = st /\ SeenNow(e, event, g) = seen
      BY <2>1, <1>6, <1>8 DEF SeenNow
    <3>2. PendingNow(e, event, g) = (state.pending \/ seen = Instruments)
      BY <2>1, <3>1 DEF PendingNow
    <3> HIDE DEF state, seen
    <3>3. m.states[g].pending = PendingNow(e, event, g)
      BY <3>1, <3>2, <1>5
    <3> QED BY <2>1, <3>1, <3>3, <1>5 DEF state
  <2>2. CASE g # f
    <3>1. m.states[g] = e.states[g] /\ SeenNow(e, event, g) = e.states[g].seen
      BY <2>2, <1>6, <1>8 DEF SeenNow
    <3>2. e.states[g].pending \in BOOLEAN
      BY <1>2 DEF State
    <3>3. PendingNow(e, event, g) = e.states[g].pending
      BY <2>2, <3>2 DEF PendingNow
    <3> QED BY <3>1, <3>3
  <2> QED BY <2>1, <2>2
<1> QED BY <1>8, <1>9, <1>10, Zenon DEF m

Featuring(p, e, event, recovery) ==
  /\ p \in Engine /\ p.banks \in [Freqs -> Bank] /\ p.processed = TRUE
  /\ p.lastSeen = e.lastSeen /\ p.states = e.states /\ p.derived = e.derived
  /\ \A g \in Freqs : p.banks[g] = IF g = event.freq THEN BankOf(e, event, recovery) ELSE e.banks[g]
  /\ \A c \in Instruments, g \in Freqs :
       p.latest[g][c] = IF c = event.con /\ g = event.freq /\ event.kind = First
                        THEN IF c \in MissingNow(e, event, recovery) THEN -1
                             ELSE LastRow(BankOf(e, event, recovery)).end
                        ELSE e.latest[g][c]
  /\ \A g \in Freqs :
       p.cross[g] = IF g = event.freq /\ CrossNow(e, event, recovery)
                    THEN MissingNow(e, event, recovery) ELSE e.cross[g]

LEMMA FeaturesIs ==
  ASSUME NEW e \in Engine, NEW event \in EventSet, NEW recovery \in BOOLEAN, TrueBanks(e)
  PROVE  Featuring(WithFeatures(e, event, recovery), e, event, recovery)
<1> DEFINE c == event.con
           f == event.freq
           bank == BankOf(e, event, recovery)
           row == LastRow(bank)
           missing == MissingNow(e, event, recovery)
           latest == IF event.kind # First THEN e.latest[f][c]
                     ELSE IF c \in missing THEN -1 ELSE row.end
           cross == IF CrossNow(e, event, recovery) THEN missing ELSE e.cross[f]
           p == WithFeatures(e, event, recovery)
<1>1. c \in Instruments /\ event.kind \in KindSet /\ f \in Freqs /\ event.bar \in Candle
  BY DEF EventSet
<1>2. /\ e.banks \in [Freqs -> Bank] /\ BankIsTrue(e.banks[f])
      /\ e.latest \in [Freqs -> [Instruments -> Time]] /\ e.cross \in [Freqs -> SUBSET Instruments]
  BY <1>1 DEF Engine, TrueBanks
<1>3. bank \in Bank /\ BankIsTrue(bank) /\ bank.end # -1
  BY <1>1, <1>2, UpdatedBankIs DEF BankOf
<1>4. row \in Row
  <2>1. row = bank.rows[(bank.head - 1) % Lookback] /\ (bank.head - 1) % Lookback \in 0 .. Lookback - 1
    BY <1>3, ViewIs
  <2>2. bank.rows \in [0 .. Lookback - 1 -> Row]
    BY <1>3 DEF Bank
  <2> HIDE DEF row
  <2> QED BY <2>1, <2>2
<1>5. latest \in Time
  BY <1>1, <1>2, <1>4 DEF Row, Time
<1>6. cross \in SUBSET Instruments
  BY <1>1, <1>2 DEF MissingNow
<1>7. p = [e EXCEPT !.banks[f] = bank, !.latest[f][c] = latest, !.cross[f] = cross, !.processed = TRUE]
  BY DEF WithFeatures, BankOf, MissingNow, CrossNow
<1> DEFINE banks == [e.banks EXCEPT ![f] = bank]
           latests == [e.latest EXCEPT ![f][c] = latest]
           crosses == [e.cross EXCEPT ![f] = cross]
<1>8. p = [e EXCEPT !.banks = banks, !.latest = latests, !.cross = crosses, !.processed = TRUE]
  BY <1>7
<1> HIDE DEF p, bank, missing, latest, cross
<1>9. banks \in [Freqs -> Bank] /\ \A g \in Freqs : banks[g] = IF g = f THEN bank ELSE e.banks[g]
  BY <1>1, <1>2, <1>3
<1>10. /\ latests \in [Freqs -> [Instruments -> Time]]
       /\ \A d \in Instruments, g \in Freqs :
            latests[g][d] = IF d = c /\ g = f THEN latest ELSE e.latest[g][d]
  <2> HIDE DEF c, f
  <2> QED BY <1>1, <1>2, <1>5
<1>11. /\ crosses \in [Freqs -> SUBSET Instruments]
       /\ \A g \in Freqs : crosses[g] = IF g = f THEN cross ELSE e.cross[g]
  BY <1>1, <1>2, <1>6
<1> HIDE DEF banks, latests, crosses
<1>12. /\ p \in Engine /\ p.processed = TRUE
       /\ p.lastSeen = e.lastSeen /\ p.states = e.states /\ p.derived = e.derived
       /\ p.banks = banks /\ p.latest = latests /\ p.cross = crosses
  BY <1>8, <1>9, <1>10, <1>11 DEF Engine
<1>13. \A g \in Freqs : p.banks[g] = IF g = event.freq THEN bank ELSE e.banks[g]
  BY <1>9, <1>12
<1>14. \A d \in Instruments, g \in Freqs :
         p.latest[g][d] = IF d = event.con /\ g = event.freq /\ event.kind = First
                          THEN IF d \in missing THEN -1 ELSE row.end
                          ELSE e.latest[g][d]
  BY <1>10, <1>12 DEF latest
<1>15. \A g \in Freqs :
         p.cross[g] = IF g = event.freq /\ CrossNow(e, event, recovery) THEN missing ELSE e.cross[g]
  BY <1>11, <1>12 DEF cross
<1> QED BY <1>12, <1>9, <1>13, <1>14, <1>15, Zenon DEF Featuring, p, bank, missing

LEMMA DerivedIs ==
  ASSUME NEW e \in Engine, NEW ts \in Time
  PROVE  LET d == WithDerived(e, ts)
             due(g) == e.states[g].pending /\ e.states[g].derivedAt # ts
         IN /\ d \in Engine
            /\ d.banks = e.banks /\ d.lastSeen = e.lastSeen /\ d.latest = e.latest
            /\ d.cross = e.cross /\ d.processed = e.processed
            /\ \A g \in Freqs :
                 /\ d.derived[g] = IF due(g) THEN e.latest[g] ELSE e.derived[g]
                 /\ d.states[g] = IF due(g) THEN [pending |-> FALSE, derivedAt |-> ts, seen |-> {}]
                                  ELSE e.states[g]
<1> DEFINE due == {g \in Freqs : e.states[g].pending /\ e.states[g].derivedAt # ts}
           derived == [g \in Freqs |-> IF g \in due THEN e.latest[g] ELSE e.derived[g]]
           states == [g \in Freqs |-> IF g \in due THEN [pending |-> FALSE, derivedAt |-> ts, seen |-> {}]
                                      ELSE e.states[g]]
           d == WithDerived(e, ts)
<1>1. d = [e EXCEPT !.derived = derived, !.states = states]
  BY DEF WithDerived
<1>2. /\ e.states \in [Freqs -> State] /\ e.latest \in [Freqs -> [Instruments -> Time]]
      /\ e.derived \in [Freqs -> [Instruments -> Time]]
  BY DEF Engine
<1> HIDE DEF d
<1>3. derived \in [Freqs -> [Instruments -> Time]] /\ states \in [Freqs -> State]
  <2>1. [pending |-> FALSE, derivedAt |-> ts, seen |-> {}] \in State
    BY DEF State
  <2> HIDE DEF due
  <2> QED BY <1>2, <2>1
<1>4. \A g \in Freqs : /\ derived[g] = IF g \in due THEN e.latest[g] ELSE e.derived[g]
                       /\ states[g] = IF g \in due THEN [pending |-> FALSE, derivedAt |-> ts, seen |-> {}]
                                      ELSE e.states[g]
  OBVIOUS
<1> HIDE DEF derived, states
<1>5. d \in Engine /\ d.derived = derived /\ d.states = states
      /\ d.banks = e.banks /\ d.lastSeen = e.lastSeen /\ d.latest = e.latest
      /\ d.cross = e.cross /\ d.processed = e.processed
  BY <1>1, <1>3 DEF Engine
<1> QED BY <1>4, <1>5, Zenon DEF d, due

LEMMA ProcessedIs ==
  ASSUME NEW e \in Engine, NEW event \in EventSet, NEW recovery \in BOOLEAN, TrueBanks(e)
  PROVE  /\ IsNew(e, event) => Processing(Processed(e, event, recovery), e, event, recovery)
         /\ ~ IsNew(e, event) => Processed(e, event, recovery) = e
         /\ Processed(e, event, recovery) \in Engine
         /\ TrueBanks(Processed(e, event, recovery))
<1>1. CASE ~ IsNew(e, event)
  BY <1>1 DEF Processed
<1>2. CASE IsNew(e, event)
  <2> DEFINE m == Marked(e, event)
             w == WithFeatures(m, event, recovery)
             ts == event.bar.end
             p == WithDerived(w, ts)
  <2>1. Processed(e, event, recovery) = p
    BY <1>2 DEF Processed
  <2>2. /\ event.con \in Instruments /\ event.kind \in KindSet /\ event.freq \in Freqs
        /\ event.bar \in Candle /\ ts \in Time
    BY DEF EventSet, Candle, Time
  <2>3. /\ m \in Engine
        /\ m.banks = e.banks /\ m.latest = e.latest /\ m.derived = e.derived /\ m.cross = e.cross
        /\ \A c \in Instruments, k \in KindSet, g \in Freqs :
             m.lastSeen[c][k][g] = IF c = event.con /\ k = event.kind /\ g = event.freq
                                   THEN event.bar.end ELSE e.lastSeen[c][k][g]
        /\ \A g \in Freqs : /\ m.states[g].seen = SeenNow(e, event, g)
                            /\ m.states[g].pending = PendingNow(e, event, g)
                            /\ m.states[g].derivedAt = e.states[g].derivedAt
    BY MarkedIs
  <2> HIDE DEF m
  <2>4. TrueBanks(m) /\ BankOf(m, event, recovery) = BankOf(e, event, recovery)
    BY <2>3 DEF TrueBanks, BankOf
  <2>5. MissingNow(m, event, recovery) = MissingNow(e, event, recovery)
        /\ CrossNow(m, event, recovery) = CrossNow(e, event, recovery)
    BY <2>3, <2>4 DEF MissingNow, CrossNow
  <2>6. Featuring(w, m, event, recovery)
    BY <2>3, <2>4, FeaturesIs
  <2> HIDE DEF w, ts
  <2>7. w \in Engine
    BY <2>6 DEF Featuring
  <2>8. LET due(g) == w.states[g].pending /\ w.states[g].derivedAt # ts
        IN /\ p \in Engine
           /\ p.banks = w.banks /\ p.lastSeen = w.lastSeen /\ p.latest = w.latest
           /\ p.cross = w.cross /\ p.processed = w.processed
           /\ \A g \in Freqs :
                /\ p.derived[g] = IF due(g) THEN w.latest[g] ELSE w.derived[g]
                /\ p.states[g] = IF due(g) THEN [pending |-> FALSE, derivedAt |-> ts, seen |-> {}]
                                 ELSE w.states[g]
    BY <2>2, <2>7, DerivedIs
  <2> HIDE DEF p
  <2>9. \A g \in Freqs : (w.states[g].pending /\ w.states[g].derivedAt # ts) = DueNow(e, event, g)
    BY <2>3, <2>6 DEF Featuring, DueNow, ts
  <2>10. ASSUME NEW g \in Freqs
         PROVE  IF DueNow(e, event, g)
                THEN /\ p.derived[g] = p.latest[g]
                     /\ p.states[g].pending = FALSE /\ p.states[g].seen = {}
                     /\ p.states[g].derivedAt = event.bar.end
                ELSE /\ p.derived[g] = e.derived[g]
                     /\ p.states[g].pending = PendingNow(e, event, g)
                     /\ p.states[g].seen = SeenNow(e, event, g)
                     /\ p.states[g].derivedAt = e.states[g].derivedAt
    <3>1. CASE DueNow(e, event, g)
      <4>1. /\ p.derived[g] = p.latest[g]
            /\ p.states[g] = [pending |-> FALSE, derivedAt |-> ts, seen |-> {}]
        BY <2>8, <2>9, <3>1
      <4> QED BY <4>1, <3>1 DEF ts
    <3>2. CASE ~ DueNow(e, event, g)
      <4>1. p.derived[g] = w.derived[g] /\ p.states[g] = w.states[g]
        BY <2>8, <2>9, <3>2
      <4>2. w.derived = e.derived /\ w.states = m.states
        BY <2>3, <2>6 DEF Featuring
      <4> QED BY <4>1, <4>2, <3>2, <2>3
    <3> QED BY <3>1, <3>2
  <2>11. p \in Engine /\ p.banks \in [Freqs -> Bank] /\ p.processed = TRUE
         /\ p.banks = w.banks /\ p.lastSeen = m.lastSeen /\ p.latest = w.latest /\ p.cross = w.cross
    BY <2>6, <2>8 DEF Featuring
  <2>12. \A g \in Freqs : p.banks[g] = IF g = event.freq THEN BankOf(e, event, recovery) ELSE e.banks[g]
    BY <2>3, <2>4, <2>6, <2>11 DEF Featuring
  <2>13. \A c \in Instruments, g \in Freqs :
           p.latest[g][c] = IF c = event.con /\ g = event.freq /\ event.kind = First
                            THEN IF c \in MissingNow(e, event, recovery) THEN -1
                                 ELSE LastRow(BankOf(e, event, recovery)).end
                            ELSE e.latest[g][c]
    BY <2>3, <2>4, <2>5, <2>6, <2>11 DEF Featuring
  <2>14. \A g \in Freqs :
           p.cross[g] = IF g = event.freq /\ CrossNow(e, event, recovery)
                        THEN MissingNow(e, event, recovery) ELSE e.cross[g]
    BY <2>3, <2>5, <2>6, <2>11 DEF Featuring
  <2>15. Processing(p, e, event, recovery)
    <3>1. \A c \in Instruments, k \in KindSet, g \in Freqs :
            p.lastSeen[c][k][g] = IF c = event.con /\ k = event.kind /\ g = event.freq
                                  THEN event.bar.end ELSE e.lastSeen[c][k][g]
      BY <2>3, <2>11
    <3> QED BY <3>1, <2>10, <2>11, <2>12, <2>13, <2>14, Zenon DEF Processing
  <2>16. TrueBanks(p)
    <3>1. e.banks \in [Freqs -> Bank] /\ \A g \in Freqs : BankIsTrue(e.banks[g])
      BY DEF Engine, TrueBanks
    <3>2. BankIsTrue(BankOf(e, event, recovery))
      BY <2>2, <3>1, UpdatedBankIs DEF BankOf
    <3>3. p.banks # NoBanks
      BY <2>11, NoBanksIsNone
    <3> QED BY <3>1, <3>2, <3>3, <2>12 DEF TrueBanks
  <2> QED BY <1>2, <2>1, <2>11, <2>15, <2>16
<1> QED BY <1>1, <1>2

\* The engine goes through the events one by one.
ProcessTrace(t, e, queue, recovery) ==
  /\ t[0] = e /\ t[Len(queue)] = ProcessAll(e, queue, recovery)
  /\ \A i \in 1 .. Len(queue) : t[i] = Processed(t[i - 1], queue[i], recovery)

LEMMA ProcessingFolded ==
  ASSUME NEW V, NEW e \in V, NEW recovery, NEW S, NEW queue \in Seq(S),
         \A x \in V : \A i \in DOMAIN queue : Processed(x, queue[i], recovery) \in V
  PROVE  \E t \in [0 .. Len(queue) -> V] : ProcessTrace(t, e, queue, recovery)
<1> DEFINE n == Len(queue)
           step(v, b) == Processed(v, b, recovery)
           Eq(k) == k = [u \in SUBSET DOMAIN queue |->
                           IF u = {} THEN e ELSE step(k[u \ {Max(u)}], queue[Max(u)])]
           k == CHOOSE j : Eq(j)
           h == [i \in 1 .. n |-> [v \in V |-> step(v, queue[i])]]
<1>1. n \in Nat /\ DOMAIN queue = 1 .. n
  OBVIOUS
<1>2. ProcessAll(e, queue, recovery) = k[DOMAIN queue]
  BY DEF ProcessAll, FoldLeft, MapThenFoldSet
<1>3. \A i \in 1 .. n, v \in V : step(v, queue[i]) \in V
  BY <1>1
<1> HIDE DEF n, step
<1>4. h \in [1 .. n -> [V -> V]]
  BY <1>3
<1>5. \A i \in 1 .. n, v \in V : h[i][v] = step(v, queue[i])
  OBVIOUS
<1> HIDE DEF h
<1>6. \E j : Eq(j)
  <2>1. PICK g \in [SUBSET (1 .. n) -> V] : Folding(g, h, e, n)
    BY <1>1, <1>4, FoldExists
  <2> DEFINE R == SUBSET (1 .. n)
  <2>2. \A u \in R : u # {} => Max(u) \in 1 .. n /\ u \ {Max(u)} \in R
    BY <1>1, MaxWithin
  <2>3. g[{}] = e /\ \A u \in R : u # {} => g[u] = h[Max(u)][g[u \ {Max(u)}]]
    BY <2>1 DEF Folding
  <2>4. g \in [R -> V]
    BY <2>1
  <2> HIDE DEF R
  <2>5. \A u \in R : u # {} => g[u] = step(g[u \ {Max(u)}], queue[Max(u)])
    BY <1>5, <2>2, <2>3, <2>4
  <2>6. g = [u \in R |-> IF u = {} THEN e ELSE step(g[u \ {Max(u)}], queue[Max(u)])]
    BY <2>3, <2>4, <2>5
  <2>7. R = SUBSET DOMAIN queue
    BY <1>1 DEF R
  <2> QED BY <2>6, <2>7
<1>7. Eq(k)
  BY <1>6
<1> HIDE DEF k
<1>8. FoldingWithin(k, h, e, n, V)
  <2> DEFINE R == SUBSET (1 .. n)
  <2>1. R = SUBSET DOMAIN queue /\ {} \in R
    BY <1>1
  <2>2. \A u \in R : u # {} => Max(u) \in 1 .. n
    BY <1>1, MaxWithin
  <2> HIDE DEF R
  <2>3. k[{}] = e /\ \A u \in R : u # {} => k[u] = step(k[u \ {Max(u)}], queue[Max(u)])
    BY <1>7, <2>1
  <2>4. \A u \in R : u # {} /\ k[u \ {Max(u)}] \in V => k[u] = h[Max(u)][k[u \ {Max(u)}]]
    BY <1>5, <2>2, <2>3
  <2> QED BY <2>3, <2>4 DEF FoldingWithin, R
<1>9. PICK t \in [0 .. n -> V] : Trace(t, h, e, n) /\ t[n] = k[1 .. n]
  BY <1>1, <1>4, <1>8, Traced
<1>10. \A i \in 1 .. n : t[i] = step(t[i - 1], queue[i])
  <2> SUFFICES ASSUME NEW i \in 1 .. n PROVE t[i] = step(t[i - 1], queue[i])
    OBVIOUS
  <2>1. i - 1 \in 0 .. n
    BY <1>1
  <2>2. t[i - 1] \in V
    BY <1>9, <2>1
  <2> QED BY <1>5, <1>9, <2>2 DEF Trace
<1>11. t[0] = e /\ t[n] = ProcessAll(e, queue, recovery)
  BY <1>1, <1>2, <1>9 DEF Trace
<1> QED BY <1>9, <1>10, <1>11 DEF n, step, ProcessTrace

TrueEngine == {e \in Engine : TrueBanks(e)}

LEMMA ProcessAllIs ==
  ASSUME NEW e \in TrueEngine, NEW recovery \in BOOLEAN, NEW queue \in Seq(EventSet)
  PROVE  /\ ProcessAll(e, queue, recovery) \in TrueEngine
         /\ \E t \in [0 .. Len(queue) -> TrueEngine] : ProcessTrace(t, e, queue, recovery)
<1>1. \A x \in TrueEngine : \A i \in DOMAIN queue : Processed(x, queue[i], recovery) \in TrueEngine
  <2> SUFFICES ASSUME NEW x \in TrueEngine, NEW i \in DOMAIN queue
               PROVE  Processed(x, queue[i], recovery) \in TrueEngine
    OBVIOUS
  <2>1. queue[i] \in EventSet
    OBVIOUS
  <2> QED BY <2>1, ProcessedIs DEF TrueEngine
<1>2. PICK t \in [0 .. Len(queue) -> TrueEngine] : ProcessTrace(t, e, queue, recovery)
  BY <1>1, ProcessingFolded
<1>3. Len(queue) \in 0 .. Len(queue)
  OBVIOUS
<1> QED BY <1>2, <1>3 DEF ProcessTrace

LEMMA ProcessNothing == \A e, recovery : ProcessAll(e, << >>, recovery) = e
<1> SUFFICES ASSUME NEW e, NEW recovery PROVE ProcessAll(e, << >>, recovery) = e
  OBVIOUS
<1> DEFINE V == {e}
           q == << >>
<1>1. e \in V /\ q \in Seq({}) /\ Len(q) = 0
      /\ \A x \in V : \A i \in DOMAIN q : Processed(x, q[i], recovery) \in V
  OBVIOUS
<1> HIDE DEF V, q
<1>2. PICK t \in [0 .. Len(q) -> V] : ProcessTrace(t, e, q, recovery)
  BY <1>1, ProcessingFolded
<1> QED BY <1>1, <1>2 DEF q, ProcessTrace

BarSet == [con : Instruments, bar : Candle]
Ingestion == [all : CascadeMap, events : Seq(EventSet)]
IngestedBar(s, b) ==
  [all |-> PushedBar(s.all, b.con, b.bar), events |-> s.events \o EventsOf(s.all, b.con, b.bar)]

LEMMA PushedBarIs ==
  ASSUME NEW all \in CascadeMap, NEW c \in Instruments, NEW bar \in Candle
  PROVE  /\ PushedBar(all, c, bar) \in CascadeMap
         /\ \A k \in KindSet : PushedBar(all, c, bar)[c][k] = PushedCascade(all[c][k], bar)
         /\ \A d \in Instruments : d # c => PushedBar(all, c, bar)[d] = all[d]
<1>1. ASSUME NEW x \in Cascade PROVE PushedCascade(x, bar) \in Cascade
  <2>1. CASE Levels = 0
    <3>1. 1 .. Levels = {} /\ DOMAIN Counts = {}
      BY <2>1, LevelFacts
    <3>2. PushedCascade(x, bar) = [k \in {} |-> 0]
      BY <3>1 DEF PushedCascade
    <3> QED BY <3>1, <3>2 DEF Cascade
  <2>2. CASE Levels # 0
    <3>1. 1 \in 1 .. Levels
      BY <2>2, LevelFacts
    <3> QED BY <3>1, PushedIs
  <2> QED BY <2>1, <2>2
<1> DEFINE new == [k \in KindSet |-> PushedCascade(all[c][k], bar)]
<1>2. new \in [KindSet -> Cascade] /\ \A k \in KindSet : new[k] = PushedCascade(all[c][k], bar)
  BY <1>1 DEF CascadeMap
<1>3. PushedBar(all, c, bar) = [all EXCEPT ![c] = new]
  BY DEF PushedBar
<1> HIDE DEF new
<1> QED BY <1>2, <1>3 DEF CascadeMap

LEMMA IngestedIs ==
  ASSUME NEW all \in CascadeMap, NEW gap \in Seq(BarSet)
  PROVE  /\ Ingested(all, gap) \in Ingestion
         /\ \E t \in [0 .. Len(gap) -> Ingestion] :
              /\ t[0] = [all |-> all, events |-> << >>] /\ t[Len(gap)] = Ingested(all, gap)
              /\ \A i \in 1 .. Len(gap) : t[i] = IngestedBar(t[i - 1], gap[i])
<1> DEFINE V == Ingestion
           e == [all |-> all, events |-> << >>]
           n == Len(gap)
           step(v, b) == IngestedBar(v, b)
           Eq(k) == k = [u \in SUBSET DOMAIN gap |->
                           IF u = {} THEN e ELSE step(k[u \ {Max(u)}], gap[Max(u)])]
           k == CHOOSE j : Eq(j)
           h == [i \in 1 .. n |-> [v \in V |-> step(v, gap[i])]]
<1>1. n \in Nat /\ DOMAIN gap = 1 .. n /\ \A i \in 1 .. n : gap[i] \in BarSet
  OBVIOUS
<1>2. Ingested(all, gap) = k[DOMAIN gap]
  BY DEF Ingested, FoldLeft, MapThenFoldSet, IngestedBar
<1>3. \A i \in 1 .. n, v \in V : step(v, gap[i]) \in V
  <2> SUFFICES ASSUME NEW v \in V, NEW b \in BarSet PROVE step(v, b) \in V
    BY <1>1
  <2>1. v.all \in CascadeMap /\ v.events \in Seq(EventSet) /\ b.con \in Instruments /\ b.bar \in Candle
    BY DEF Ingestion, BarSet
  <2>2. PushedBar(v.all, b.con, b.bar) \in CascadeMap
    BY <2>1, PushedBarIs
  <2>3. EventsOf(v.all, b.con, b.bar) \in Seq(EventSet)
    BY <2>1, EventsOfIs DEF Announces
  <2>4. v.events \o EventsOf(v.all, b.con, b.bar) \in Seq(EventSet)
    BY <2>1, <2>3, ConcatIs
  <2> QED BY <2>2, <2>4 DEF IngestedBar, Ingestion
<1>4. e \in V
  BY DEF Ingestion
<1> HIDE DEF n, step, e, V
<1>5. h \in [1 .. n -> [V -> V]]
  BY <1>3
<1>6. \A i \in 1 .. n, v \in V : h[i][v] = step(v, gap[i])
  OBVIOUS
<1> HIDE DEF h
<1>7. \E j : Eq(j)
  <2>1. PICK g \in [SUBSET (1 .. n) -> V] : Folding(g, h, e, n)
    BY <1>1, <1>4, <1>5, FoldExists
  <2> DEFINE R == SUBSET (1 .. n)
  <2>2. \A u \in R : u # {} => Max(u) \in 1 .. n /\ u \ {Max(u)} \in R
    BY <1>1, MaxWithin
  <2>3. g[{}] = e /\ \A u \in R : u # {} => g[u] = h[Max(u)][g[u \ {Max(u)}]]
    BY <2>1 DEF Folding
  <2>4. g \in [R -> V]
    BY <2>1
  <2> HIDE DEF R
  <2>5. \A u \in R : u # {} => g[u] = step(g[u \ {Max(u)}], gap[Max(u)])
    BY <1>6, <2>2, <2>3, <2>4
  <2>6. g = [u \in R |-> IF u = {} THEN e ELSE step(g[u \ {Max(u)}], gap[Max(u)])]
    BY <2>3, <2>4, <2>5
  <2>7. R = SUBSET DOMAIN gap
    BY <1>1 DEF R
  <2> QED BY <2>6, <2>7
<1>8. Eq(k)
  BY <1>7
<1> HIDE DEF k
<1>9. FoldingWithin(k, h, e, n, V)
  <2> DEFINE R == SUBSET (1 .. n)
  <2>1. R = SUBSET DOMAIN gap /\ {} \in R
    BY <1>1
  <2>2. \A u \in R : u # {} => Max(u) \in 1 .. n
    BY <1>1, MaxWithin
  <2> HIDE DEF R
  <2>3. k[{}] = e /\ \A u \in R : u # {} => k[u] = step(k[u \ {Max(u)}], gap[Max(u)])
    BY <1>8, <2>1
  <2>4. \A u \in R : u # {} /\ k[u \ {Max(u)}] \in V => k[u] = h[Max(u)][k[u \ {Max(u)}]]
    BY <1>6, <2>2, <2>3
  <2> QED BY <2>3, <2>4 DEF FoldingWithin, R
<1>10. PICK t \in [0 .. n -> V] : Trace(t, h, e, n) /\ t[n] = k[1 .. n]
  BY <1>1, <1>4, <1>5, <1>9, Traced
<1>11. \A i \in 1 .. n : t[i] = step(t[i - 1], gap[i])
  <2> SUFFICES ASSUME NEW i \in 1 .. n PROVE t[i] = step(t[i - 1], gap[i])
    OBVIOUS
  <2>1. i - 1 \in 0 .. n
    BY <1>1
  <2>2. t[i - 1] \in V
    BY <1>10, <2>1
  <2> QED BY <1>6, <1>10, <2>2 DEF Trace
<1>12. t[0] = e /\ t[n] = Ingested(all, gap) /\ t[n] \in V
  <2>1. n \in 0 .. n
    BY <1>1
  <2> QED BY <1>1, <1>2, <1>10, <2>1 DEF Trace
<1> QED BY <1>10, <1>11, <1>12 DEF n, step, e, V

-----------------------------------------------------------------------------
(***************************************************************************)
(* The queue of bars: one bar per instrument and interval, in order.       *)
(***************************************************************************)
Pos(c) == CHOOSE i \in DOMAIN Universe : Universe[i] = c

LEMMA PosFacts ==
  /\ \A c \in Instruments : Pos(c) \in 1 .. Len(Universe) /\ Pos(c) \in Nat /\ Universe[Pos(c)] = c
  /\ \A c, d \in Instruments : Pos(c) = Pos(d) => c = d
  /\ \A i \in DOMAIN Universe : Pos(Universe[i]) = i
<1>1. \A c \in Instruments : Pos(c) \in DOMAIN Universe /\ Universe[Pos(c)] = c
  BY InstrumentFacts DEF Pos
<1>2. \A i \in DOMAIN Universe : Pos(Universe[i]) = i
  BY <1>1, InstrumentFacts
<1>3. \A c \in Instruments : Pos(c) \in 1 .. Len(Universe) /\ Pos(c) \in Nat
  BY <1>1, InstrumentFacts
<1> QED BY <1>1, <1>2, <1>3

\* The end of the last bar of an instrument that was taken from the queue.
Reach(queue, last, c) ==
  IF queue = << >> THEN last
  ELSE IF Pos(c) < Pos(queue[1].con) THEN queue[1].bar.end ELSE queue[1].bar.end - 1

Before(a, b) ==
  a.bar.end < b.bar.end \/ (a.bar.end = b.bar.end /\ Pos(a.con) < Pos(b.con))

Queued(queue, last) ==
  /\ queue \in Seq(BarSet) /\ last \in Nat
  /\ \A i \in DOMAIN queue : /\ queue[i].bar.end = queue[i].bar.start + 1
                             /\ queue[i].bar.ticks \in Nat /\ queue[i].bar.end <= last
  /\ \A i, j \in DOMAIN queue : i < j => Before(queue[i], queue[j])
  /\ \A c \in Instruments, e \in Nat :
       Reach(queue, last, c) < e /\ e <= last =>
         \E i \in DOMAIN queue : queue[i].con = c /\ queue[i].bar.end = e

LEMMA QueuedFacts ==
  ASSUME NEW queue, NEW last, Queued(queue, last)
  PROVE  /\ Len(queue) \in Nat /\ DOMAIN queue = 1 .. Len(queue) /\ last \in Nat
         /\ \A i \in DOMAIN queue :
              /\ queue[i] \in BarSet /\ queue[i].con \in Instruments /\ queue[i].bar \in Candle
              /\ queue[i].bar.end \in Nat /\ queue[i].bar.start \in Nat /\ queue[i].bar.end > 0
              /\ Pos(queue[i].con) \in Nat
              /\ queue[i].bar.end = queue[i].bar.start + 1 /\ queue[i].bar.end <= last
              /\ Reach(queue, last, queue[i].con) < queue[i].bar.end
         /\ \A c \in Instruments : /\ Reach(queue, last, c) \in Nat /\ Reach(queue, last, c) <= last
<1>1. queue \in Seq(BarSet) /\ last \in Nat
  BY DEF Queued
<1>2. Len(queue) \in Nat /\ DOMAIN queue = 1 .. Len(queue)
  BY <1>1
<1>3. \A i \in DOMAIN queue : queue[i] \in BarSet
  BY <1>1
<1>4. \A i \in DOMAIN queue :
        /\ queue[i] \in BarSet /\ queue[i].con \in Instruments /\ queue[i].bar \in Candle
        /\ queue[i].bar.end \in Nat /\ queue[i].bar.start \in Nat /\ queue[i].bar.end > 0
        /\ Pos(queue[i].con) \in Nat
  <2>1. \A i \in DOMAIN queue : queue[i].con \in Instruments /\ queue[i].bar \in Candle
    BY <1>3 DEF BarSet
  <2>2. \A bar \in Candle : bar.end \in Nat /\ bar.start \in Nat /\ bar.end > 0
    BY DEF Candle
  <2> QED BY <1>3, <2>1, <2>2, PosFacts
<1>5. \A i \in DOMAIN queue : queue[i].bar.end = queue[i].bar.start + 1 /\ queue[i].bar.end <= last
  BY DEF Queued
<1>6. \A c \in Instruments : Reach(queue, last, c) \in Nat /\ Reach(queue, last, c) <= last
  <2>1. CASE queue = << >>
    BY <2>1, <1>1 DEF Reach
  <2>2. CASE queue # << >>
    <3>1. 1 \in DOMAIN queue
      BY <2>2, <1>1
    <3>2. queue[1].bar.end \in Nat /\ queue[1].bar.end > 0 /\ queue[1].bar.end <= last
      BY <3>1, <1>4, <1>5
    <3> QED BY <2>2, <3>2, <1>1 DEF Reach
  <2> QED BY <2>1, <2>2
<1>7. ASSUME NEW i \in DOMAIN queue PROVE Reach(queue, last, queue[i].con) < queue[i].bar.end
  <2>1. 1 \in DOMAIN queue /\ queue # << >>
    BY <1>2
  <2>2. /\ queue[1].bar.end \in Nat /\ queue[i].bar.end \in Nat
        /\ Pos(queue[1].con) \in Nat /\ Pos(queue[i].con) \in Nat
    BY <2>1, <1>4
  <2>3. i = 1 \/ Before(queue[1], queue[i])
    <3>1. i = 1 \/ 1 < i
      BY <1>2
    <3> QED BY <3>1, <2>1 DEF Queued
  <2> QED BY <2>1, <2>2, <2>3 DEF Reach, Before
<1> QED BY <1>1, <1>2, <1>4, <1>5, <1>6, <1>7

LEMMA TailIs ==
  ASSUME NEW S, NEW s \in Seq(S), s # << >>
  PROVE  /\ Tail(s) \in Seq(S) /\ Len(s) \in Nat /\ Len(s) >= 1
         /\ DOMAIN s = 1 .. Len(s) /\ 1 \in DOMAIN s /\ Head(s) = s[1] /\ s[1] \in S
         /\ DOMAIN Tail(s) = 1 .. Len(s) - 1 /\ Len(Tail(s)) = Len(s) - 1
         /\ \A i \in DOMAIN Tail(s) : Tail(s)[i] = s[i + 1] /\ i + 1 \in DOMAIN s /\ i + 1 # 1
         /\ \A i \in DOMAIN s : i # 1 => i - 1 \in DOMAIN Tail(s) /\ Tail(s)[i - 1] = s[i]
<1>1. Len(s) \in Nat /\ Len(s) >= 1 /\ DOMAIN s = 1 .. Len(s) /\ Tail(s) \in Seq(S)
      /\ Len(Tail(s)) = Len(s) - 1 /\ Head(s) = s[1] /\ s[1] \in S
  OBVIOUS
<1>2. DOMAIN Tail(s) = 1 .. Len(s) - 1 /\ \A i \in 1 .. Len(s) - 1 : Tail(s)[i] = s[i + 1]
  OBVIOUS
<1> DEFINE t == Tail(s)
           n == Len(s)
<1> HIDE DEF t, n
<1>3. \A i \in 1 .. n - 1 : i + 1 \in 1 .. n /\ i + 1 # 1
  BY <1>1 DEF n
<1>4. \A i \in 1 .. n : i # 1 => i - 1 \in 1 .. n - 1 /\ (i - 1) + 1 = i
  BY <1>1 DEF n
<1> QED BY <1>1, <1>2, <1>3, <1>4 DEF n

LEMMA QueuedTail ==
  ASSUME NEW queue, NEW last, Queued(queue, last), queue # << >>
  PROVE  /\ Queued(Tail(queue), last)
         /\ \A c \in Instruments :
              Reach(Tail(queue), last, c) = IF c = queue[1].con THEN queue[1].bar.end
                                            ELSE Reach(queue, last, c)
<1> DEFINE b == queue[1]
           e == b.bar.end
           p == Pos(b.con)
           rest == Tail(queue)
           Target(c) == IF c = b.con THEN e ELSE Reach(queue, last, c)
<1>1. queue \in Seq(BarSet)
  BY DEF Queued
<1>2. /\ Len(queue) \in Nat /\ Len(queue) >= 1 /\ DOMAIN queue = 1 .. Len(queue) /\ 1 \in DOMAIN queue
      /\ rest \in Seq(BarSet) /\ DOMAIN rest = 1 .. Len(queue) - 1 /\ Len(rest) = Len(queue) - 1
      /\ \A i \in DOMAIN rest : rest[i] = queue[i + 1] /\ i + 1 \in DOMAIN queue /\ i + 1 # 1
      /\ \A i \in DOMAIN queue : i # 1 => i - 1 \in DOMAIN rest /\ rest[i - 1] = queue[i]
  BY <1>1, TailIs
<1>3. /\ b.con \in Instruments /\ e \in Nat /\ p \in Nat /\ e > 0 /\ e <= last /\ last \in Nat
  BY <1>2, QueuedFacts
<1>4. \A c \in Instruments :
        /\ Pos(c) \in Nat /\ (Pos(c) = p => c = b.con)
        /\ Target(c) = IF c = b.con THEN e ELSE IF Pos(c) < p THEN e ELSE e - 1
        /\ Reach(queue, last, c) <= Target(c) /\ Target(c) \in Nat /\ Target(c) <= last
        /\ Reach(queue, last, c) \in Nat
  <2>1. \A c \in Instruments : Pos(c) \in Nat /\ (Pos(c) = p => c = b.con)
    BY <1>3, PosFacts
  <2>2. \A c \in Instruments : Reach(queue, last, c) = IF Pos(c) < p THEN e ELSE e - 1
    BY DEF Reach
  <2> HIDE DEF e, p, b
  <2> QED BY <2>1, <2>2, <1>3
<1> HIDE DEF Target, rest
\* What comes after the first bar is still in the queue.
<1>5. ASSUME NEW c \in Instruments, NEW x \in Nat, Target(c) < x, x <= last
      PROVE  \E i \in DOMAIN rest : rest[i].con = c /\ rest[i].bar.end = x
  <2>1. Reach(queue, last, c) < x
    BY <1>4, <1>5
  <2>2. PICK i \in DOMAIN queue : queue[i].con = c /\ queue[i].bar.end = x
    BY <2>1, <1>5 DEF Queued
  <2>3. i # 1
    <3>1. CASE c = b.con
      BY <3>1, <2>2, <1>3, <1>4, <1>5
    <3>2. CASE c # b.con
      BY <3>2, <2>2
    <3> QED BY <3>1, <3>2
  <2> QED BY <2>2, <2>3, <1>2
<1>6. ASSUME NEW c \in Instruments PROVE Reach(rest, last, c) = Target(c)
  <2>1. CASE rest = << >>
    <3>1. ~ (Target(c) < last)
      BY <2>1, <1>3, <1>5
    <3> QED BY <2>1, <3>1, <1>3, <1>4 DEF Reach
  <2>2. CASE rest # << >>
    <3> DEFINE b2 == rest[1]
               e2 == b2.bar.end
               p2 == Pos(b2.con)
    <3>1. 1 \in DOMAIN rest /\ b2 = queue[2] /\ 2 \in DOMAIN queue
      BY <2>2, <1>2
    <3>2. Before(b, b2)
      <4>1. 1 < 2
        OBVIOUS
      <4>2. Before(queue[1], queue[2])
        BY <3>1, <1>2, <4>1 DEF Queued
      <4> HIDE DEF b2
      <4> QED BY <3>1, <4>2
    <3>3. b2.con \in Instruments /\ e2 \in Nat /\ p2 \in Nat /\ e2 <= last
      BY <3>1, QueuedFacts
    <3>4. ASSUME NEW d \in Instruments, NEW x \in Nat, Target(d) < x, x <= last
          PROVE  e2 < x \/ (e2 = x /\ p2 <= Pos(d))
      <4>1. PICK i \in DOMAIN rest : rest[i].con = d /\ rest[i].bar.end = x
        BY <1>5, <3>4
      <4>2. i = 1 \/ Before(b2, rest[i])
        <5>1. i = 1 \/ (2 < i + 1 /\ i + 1 \in DOMAIN queue /\ rest[i] = queue[i + 1])
          BY <1>2
        <5> QED BY <5>1, <3>1 DEF Queued
      <4>3. Pos(d) \in Nat
        BY <1>4
      <4>4. CASE i = 1
        <5>1. e2 = x /\ p2 = Pos(d)
          BY <4>1, <4>4
        <5> HIDE DEF e2, p2
        <5> QED BY <5>1, <4>3
      <4>5. CASE Before(b2, rest[i])
        <5>1. e2 < x \/ (e2 = x /\ p2 < Pos(d))
          BY <4>1, <4>5 DEF Before
        <5> HIDE DEF e2, p2
        <5> QED BY <5>1, <4>3, <3>3
      <4> QED BY <4>2, <4>4, <4>5
    <3> HIDE DEF b2, e2, p2
    <3>5. Reach(rest, last, c) = IF Pos(c) < p2 THEN e2 ELSE e2 - 1
      BY <2>2 DEF Reach, b2, e2, p2
    <3>6. e < e2 \/ (e = e2 /\ p < p2)
      BY <3>2 DEF Before, e2, p2
    <3> HIDE DEF b, e, p
    <3>7. CASE e = e2
      <4>1. CASE c = b.con \/ Pos(c) < p
        <5>1. Target(c) = e /\ Pos(c) <= p
          BY <4>1, <1>3, <1>4 DEF p
        <5> QED BY <5>1, <3>3, <3>5, <3>6, <3>7, <1>3, <1>4
      <4>2. CASE ~ (c = b.con \/ Pos(c) < p)
        <5>1. Target(c) = e - 1
          BY <4>2, <1>4
        <5>2. p2 <= Pos(c)
          BY <5>1, <3>3, <3>4, <3>7, <1>3
        <5> QED BY <5>1, <5>2, <3>3, <3>5, <3>7, <1>3, <1>4
      <4> QED BY <4>1, <4>2
    <3>8. CASE e < e2
      <4>1. Target(c) = e
        <5>1. Target(c) \in {e, e - 1}
          BY <1>4
        <5>2. ~ (Target(c) < e)
          BY <3>3, <3>4, <3>8, <1>3
        <5> QED BY <5>1, <5>2, <1>3
      <4>2. e2 < e + 1 \/ (e2 = e + 1 /\ p2 <= Pos(c))
        BY <4>1, <3>3, <3>4, <3>8, <1>3
      <4> QED BY <4>1, <4>2, <3>3, <3>5, <3>8, <1>3, <1>4
    <3> QED BY <3>6, <3>7, <3>8
  <2> QED BY <2>1, <2>2
<1>7. Queued(rest, last)
  <2>1. \A i \in DOMAIN rest : /\ rest[i].bar.end = rest[i].bar.start + 1
                               /\ rest[i].bar.ticks \in Nat /\ rest[i].bar.end <= last
    BY <1>2 DEF Queued
  <2>2. \A i, j \in DOMAIN rest : i < j => Before(rest[i], rest[j])
    <3> SUFFICES ASSUME NEW i \in DOMAIN rest, NEW j \in DOMAIN rest, i < j
                 PROVE  Before(rest[i], rest[j])
      OBVIOUS
    <3>1. i + 1 < j + 1 /\ i + 1 \in DOMAIN queue /\ j + 1 \in DOMAIN queue
      BY <1>2
    <3> QED BY <3>1, <1>2 DEF Queued
  <2>3. \A c \in Instruments, x \in Nat :
          Reach(rest, last, c) < x /\ x <= last =>
            \E i \in DOMAIN rest : rest[i].con = c /\ rest[i].bar.end = x
    BY <1>5, <1>6
  <2> QED BY <1>2, <1>3, <2>1, <2>2, <2>3 DEF Queued
<1> QED BY <1>6, <1>7 DEF Target, rest

-----------------------------------------------------------------------------
(***************************************************************************)
(* Forecast: the rows, the plan and the routing.                           *)
(***************************************************************************)
LEMMA FlattenedHas ==
  ASSUME NEW S, NEW ss \in Seq(Seq(S))
  PROVE  /\ FlattenSeq(ss) \in Seq(S)
         /\ \A i \in DOMAIN FlattenSeq(ss) :
              \E r \in DOMAIN ss : \E k \in DOMAIN ss[r] : FlattenSeq(ss)[i] = ss[r][k]
         /\ \A r \in DOMAIN ss : \A k \in DOMAIN ss[r] :
              \E i \in DOMAIN FlattenSeq(ss) : FlattenSeq(ss)[i] = ss[r][k]
<1>1. DOMAIN ss = 1 .. Len(ss)
  OBVIOUS
<1>2. FlattenSeq(ss) \in Seq(S) /\ \E row, col : Laid(FlattenSeq(ss), ss, Len(ss), row, col)
  BY Flattened
<1> QED BY <1>1, <1>2 DEF Laid

\* A value is appended when it is taken and not there yet.
Collect(v, take, val, b) == IF take[b] /\ val[b] \notin Range(v) THEN Append(v, val[b]) ELSE v
Collecting(k, s, take, val) ==
  k = [u \in SUBSET DOMAIN s |->
         IF u = {} THEN << >> ELSE Collect(k[u \ {Max(u)}], take, val, s[Max(u)])]

\* v holds the values that were taken, each once.
Collected(v, s, take, val) ==
  /\ IsInjective(v)
  /\ \A i \in DOMAIN v : \E j \in DOMAIN s : take[s[j]] /\ v[i] = val[s[j]]
  /\ \A j \in DOMAIN s : take[s[j]] => \E i \in DOMAIN v : v[i] = val[s[j]]

LEMMA CollectedIs ==
  ASSUME NEW S, NEW s \in Seq(S), NEW W, NEW take \in [S -> BOOLEAN], NEW val \in [S -> W]
  PROVE  /\ \E k : Collecting(k, s, take, val)
         /\ \A k : Collecting(k, s, take, val) =>
              k[DOMAIN s] \in Seq(W) /\ Collected(k[DOMAIN s], s, take, val)
<1> DEFINE n == Len(s)
           V == Seq(W)
           e == << >>
           step(v, b) == Collect(v, take, val, b)
           h == [i \in 1 .. n |-> [v \in V |-> step(v, s[i])]]
<1>1. n \in Nat /\ DOMAIN s = 1 .. n /\ \A i \in 1 .. n : s[i] \in S /\ take[s[i]] \in BOOLEAN /\ val[s[i]] \in W
  OBVIOUS
<1>2. e \in V
  OBVIOUS
<1>3. \A i \in 1 .. n, v \in V : step(v, s[i]) \in V
  BY <1>1 DEF Collect
<1>a. \A v, b : step(v, b) = Collect(v, take, val, b)
  OBVIOUS
<1> HIDE DEF n, V, step
<1>4. h \in [1 .. n -> [V -> V]] /\ \A i \in 1 .. n, v \in V : h[i][v] = step(v, s[i])
  BY <1>3
<1> HIDE DEF h, e
<1>5. \E k : Collecting(k, s, take, val)
  <2>1. PICK g \in [SUBSET (1 .. n) -> V] : Folding(g, h, e, n)
    BY <1>1, <1>2, <1>4, FoldExists
  <2> DEFINE R == SUBSET (1 .. n)
  <2>2. \A u \in R : u # {} => Max(u) \in 1 .. n /\ u \ {Max(u)} \in R
    BY <1>1, MaxWithin
  <2>3. g[{}] = e /\ \A u \in R : u # {} => g[u] = h[Max(u)][g[u \ {Max(u)}]]
    BY <2>1 DEF Folding
  <2>4. g \in [R -> V]
    BY <2>1
  <2> HIDE DEF R
  <2>5. \A u \in R : u # {} => g[u] = step(g[u \ {Max(u)}], s[Max(u)])
    BY <1>4, <2>2, <2>3, <2>4
  <2>6. g = [u \in R |-> IF u = {} THEN e ELSE step(g[u \ {Max(u)}], s[Max(u)])]
    BY <2>3, <2>4, <2>5
  <2>7. R = SUBSET DOMAIN s
    BY <1>1 DEF R
  <2>8. Collecting(g, s, take, val)
    BY <2>6, <2>7 DEF Collecting, e, step
  <2> QED BY <2>8
<1>6. ASSUME NEW k, Collecting(k, s, take, val)
      PROVE  k[DOMAIN s] \in Seq(W) /\ Collected(k[DOMAIN s], s, take, val)
  <2>1. FoldingWithin(k, h, e, n, V)
    <3> DEFINE R == SUBSET (1 .. n)
    <3>1. R = SUBSET DOMAIN s /\ {} \in R
      BY <1>1
    <3>2. \A u \in R : u # {} => Max(u) \in 1 .. n
      BY <1>1, MaxWithin
    <3> HIDE DEF R
    <3>3. k[{}] = e /\ \A u \in R : u # {} => k[u] = step(k[u \ {Max(u)}], s[Max(u)])
      BY <1>6, <3>1, <1>a DEF Collecting, e
    <3>4. \A u \in R : u # {} /\ k[u \ {Max(u)}] \in V => k[u] = h[Max(u)][k[u \ {Max(u)}]]
      BY <1>4, <3>2, <3>3
    <3> QED BY <3>3, <3>4 DEF FoldingWithin, R
  <2>2. PICK t \in [0 .. n -> V] : Trace(t, h, e, n) /\ t[n] = k[1 .. n]
    <3>1. n \in Nat /\ e \in V /\ h \in [1 .. n -> [V -> V]]
      BY <1>1, <1>2, <1>4
    <3> QED BY <2>1, <3>1, Traced
  <2> DEFINE Good(m) ==
               /\ IsInjective(t[m])
               /\ \A i \in DOMAIN t[m] : \E j \in 1 .. m : take[s[j]] /\ t[m][i] = val[s[j]]
               /\ \A j \in 1 .. m : take[s[j]] => \E i \in DOMAIN t[m] : t[m][i] = val[s[j]]
             D == {m \in Nat : m <= n => Good(m)}
  <2>3. 0 \in D
    <3>1. t[0] = << >>
      BY <2>2 DEF Trace, e
    <3> QED BY <3>1 DEF IsInjective
  <2>4. ASSUME NEW m \in Nat, m \in D PROVE m + 1 \in D
    <3> SUFFICES ASSUME m + 1 <= n PROVE Good(m + 1)
      OBVIOUS
    <3>1. m + 1 \in 1 .. n /\ (m + 1) - 1 = m /\ m \in 0 .. n /\ Good(m)
      BY <1>1, <2>4
    <3> DEFINE b == s[m + 1]
               v == t[m]
               w == t[m + 1]
    <3>2. v \in Seq(W) /\ Len(v) \in Nat /\ DOMAIN v = 1 .. Len(v)
      <4>1. v \in Seq(W)
        BY <3>1 DEF V
      <4> HIDE DEF v
      <4> QED BY <4>1
    <3>3. w = Collect(v, take, val, b)
      BY <3>1, <2>2, <1>4, <1>a DEF Trace
    <3>4. \A j \in 1 .. m + 1 : j \in 1 .. m \/ j = m + 1
      OBVIOUS
    <3>5. \A j \in 1 .. m : j \in 1 .. m + 1
      OBVIOUS
    <3>6. IsInjective(v) /\ (\A i \in DOMAIN v : \E j \in 1 .. m : take[s[j]] /\ v[i] = val[s[j]])
          /\ \A j \in 1 .. m : take[s[j]] => \E i \in DOMAIN v : v[i] = val[s[j]]
      BY <3>1
    <3>7. val[b] \in W /\ m + 1 \in 1 .. m + 1
      BY <3>1, <1>1
    <3> HIDE DEF v, w
    <3>8. CASE ~ (take[b] /\ val[b] \notin Range(v))
      <4>1. w = v
        BY <3>3, <3>8 DEF Collect
      <4>2. take[b] => \E i \in DOMAIN v : v[i] = val[b]
        BY <3>8 DEF Range
      <4> QED BY <4>1, <4>2, <3>4, <3>5, <3>6 DEF w
    <3>9. CASE take[b] /\ val[b] \notin Range(v)
      <4>1. w = Append(v, val[b])
        BY <3>3, <3>9 DEF Collect
      <4>2. DOMAIN w = 1 .. Len(v) + 1 /\ w[Len(v) + 1] = val[b] /\ \A i \in 1 .. Len(v) : w[i] = v[i]
        BY <4>1, <3>2, <3>7
      <4>3. \A i \in DOMAIN w : i \in DOMAIN v \/ i = Len(v) + 1
        BY <4>2, <3>2
      <4>4. \A i \in DOMAIN v : i \in DOMAIN w /\ w[i] = v[i] /\ v[i] # val[b]
        BY <4>2, <3>2, <3>9 DEF Range
      <4>5. IsInjective(w)
        BY <4>2, <4>3, <4>4, <3>6 DEF IsInjective
      <4>6. \A i \in DOMAIN w : \E j \in 1 .. m + 1 : take[s[j]] /\ w[i] = val[s[j]]
        <5> SUFFICES ASSUME NEW i \in DOMAIN w
                     PROVE  \E j \in 1 .. m + 1 : take[s[j]] /\ w[i] = val[s[j]]
          OBVIOUS
        <5>1. CASE i \in DOMAIN v
          BY <5>1, <4>4, <3>6, <3>5
        <5>2. CASE i = Len(v) + 1
          BY <5>2, <4>2, <3>7, <3>9
        <5> QED BY <5>1, <5>2, <4>3
      <4>7. \A j \in 1 .. m + 1 : take[s[j]] => \E i \in DOMAIN w : w[i] = val[s[j]]
        <5> SUFFICES ASSUME NEW j \in 1 .. m + 1, take[s[j]]
                     PROVE  \E i \in DOMAIN w : w[i] = val[s[j]]
          OBVIOUS
        <5>1. CASE j \in 1 .. m
          BY <5>1, <4>4, <3>6
        <5>2. CASE j = m + 1
          <6>1. Len(v) + 1 \in DOMAIN w
            BY <4>2, <3>2
          <6> QED BY <6>1, <5>2, <4>2
        <5> QED BY <5>1, <5>2, <3>4
      <4> QED BY <4>5, <4>6, <4>7 DEF w
    <3> QED BY <3>8, <3>9
  <2> HIDE DEF D
  <2>5. n \in D
    BY <2>3, <2>4, <1>1, NaturalInduction
  <2>6. Good(n) /\ t[n] \in Seq(W) /\ t[n] = k[DOMAIN s]
    <3>1. n \in 0 .. n
      BY <1>1
    <3> QED BY <2>2, <2>5, <3>1, <1>1 DEF D, V
  <2> DEFINE v == k[DOMAIN s]
  <2>7. v = t[n]
    BY <2>6
  <2> HIDE DEF v
  <2>8. Good(n) => /\ IsInjective(v)
                   /\ \A i \in DOMAIN v : \E j \in 1 .. n : take[s[j]] /\ v[i] = val[s[j]]
                   /\ \A j \in 1 .. n : take[s[j]] => \E i \in DOMAIN v : v[i] = val[s[j]]
    BY <2>7
  <2> HIDE DEF Good
  <2> QED BY <2>6, <2>7, <2>8, <1>1 DEF v, Collected
<1> QED BY <1>5, <1>6

\* u holds what s and t hold.
Joins(u, s, t) ==
  /\ \A i \in DOMAIN u : (\E j \in DOMAIN s : u[i] = s[j]) \/ (\E j \in DOMAIN t : u[i] = t[j])
  /\ \A j \in DOMAIN s : \E i \in DOMAIN u : u[i] = s[j]
  /\ \A j \in DOMAIN t : \E i \in DOMAIN u : u[i] = t[j]

LEMMA Joined ==
  ASSUME NEW S, NEW s \in Seq(S), NEW t \in Seq(S)
  PROVE  s \o t \in Seq(S) /\ Joins(s \o t, s, t)
<1> DEFINE u == s \o t
           n == Len(s)
           m == Len(t)
<1>1. u \in Seq(S) /\ DOMAIN s = 1 .. n /\ DOMAIN t = 1 .. m
  BY ConcatIs
<1>2. \A i \in 1 .. n : u[i] = s[i] /\ i \in DOMAIN u
  BY ConcatIs
<1>3. \A i \in 1 .. m : u[n + i] = t[i] /\ n + i \in DOMAIN u
  BY ConcatIs
<1>4. \A j \in DOMAIN u : j \in 1 .. n \/ \E i \in 1 .. m : j = n + i
  BY ConcatIs
<1> HIDE DEF u, n, m
<1> QED BY <1>1, <1>2, <1>3, <1>4 DEF u, Joins

Owners == {Portfolios[j].portfolio : j \in DOMAIN Portfolios}
Sessions == {Portfolios[j].session : j \in DOMAIN Portfolios}
PositionSet ==
  [session : Sessions \cup {"OTHER"}, portfolio : Owners \cup {NoPortfolio},
   con : Range(Contracts), action : {"BUY", "SELL", "HOLD"}]
Held == {row \in PositionSet : row.portfolio # NoPortfolio}
AskSet == [model : Range(Models), con : Range(Contracts)]

LEMMA ContractsOnly ==
  ASSUME NEW T
  PROVE  /\ Only(Contracts, T) \in Seq(Range(Contracts))
         /\ Only(Universe, T) \in Seq(Range(Contracts))
BY ForecastAssumption, OnlyIs

\* The model of an id is one of its rows.
LEMMA PooledIs ==
  ASSUME NEW m \in Range(Models)
  PROVE  Pooled(m.id) \in Range(Models) /\ Pooled(m.id).id = m.id
<1> DEFINE n == Len(Models)
           rows == {k \in DOMAIN Models : Models[k].id = m.id}
<1>1. n \in Nat /\ DOMAIN Models = 1 .. n
  <2>1. Models \in Seq(Range(Models))
    BY ForecastAssumption
  <2> QED BY <2>1
<1>2. rows \in SUBSET (1 .. n) /\ rows # {}
  BY <1>1 DEF Range
<1> HIDE DEF rows
<1>3. Max(rows) \in rows
  BY <1>1, <1>2, MaxWithin
<1>4. Pooled(m.id) = Models[Max(rows)]
  BY DEF Pooled, rows
<1> QED BY <1>3, <1>4 DEF rows, Range

LEMMA PositionsAre == Positions \in Seq(Held)
<1> DEFINE cons(j) == Only(Contracts, DOMAIN Portfolios[j].held \cup DOMAIN Portfolios[j].targets)
           rows(j) == [i \in DOMAIN cons(j) |->
                         [session |-> Portfolios[j].session, portfolio |-> Portfolios[j].portfolio,
                          con |-> cons(j)[i], action |-> Action(Portfolios[j], cons(j)[i])]]
           ss == [j \in DOMAIN Portfolios |-> rows(j)]
<1>1. DOMAIN Portfolios = 1 .. Len(Portfolios) /\ Len(Portfolios) \in Nat
      /\ \A j \in DOMAIN Portfolios : Portfolios[j].portfolio # NoPortfolio
  BY ForecastAssumption
<1>2. ASSUME NEW j \in DOMAIN Portfolios PROVE rows(j) \in Seq(Held)
  <2>1. cons(j) \in Seq(Range(Contracts))
    BY ContractsOnly
  <2> HIDE DEF cons
  <2>2. Len(cons(j)) \in Nat /\ DOMAIN cons(j) = 1 .. Len(cons(j))
        /\ \A i \in 1 .. Len(cons(j)) : cons(j)[i] \in Range(Contracts)
    BY <2>1
  <2>3. \A p, c : Action(p, c) \in {"BUY", "SELL", "HOLD"}
    BY DEF Action
  <2>4. Portfolios[j].session \in Sessions /\ Portfolios[j].portfolio \in Owners
    BY DEF Sessions, Owners
  <2>5. \A i \in 1 .. Len(cons(j)) : rows(j)[i] \in Held
    BY <1>1, <2>2, <2>3, <2>4 DEF Held, PositionSet
  <2>6. DOMAIN rows(j) = 1 .. Len(cons(j))
    BY <2>2
  <2>7. rows(j) = [i \in 1 .. Len(cons(j)) |-> rows(j)[i]]
    BY <2>6
  <2> HIDE DEF rows
  <2>8. rows(j) \in [1 .. Len(cons(j)) -> Held]
    BY <2>5, <2>7
  <2> QED BY <2>2, <2>8
<1>3. Positions = FlattenSeq(ss)
  BY DEF Positions
<1> HIDE DEF rows
<1>4. ss \in [1 .. Len(Portfolios) -> Seq(Held)]
  BY <1>1, <1>2
<1> HIDE DEF ss
<1>5. ss \in Seq(Seq(Held))
  BY <1>1, <1>4
<1> QED BY <1>3, <1>5, FlattenedHas

\* The rows, and one for each instrument of none.
LEMMA GroupedIs ==
  /\ Grouped \in Seq(PositionSet)
  /\ \A row \in Range(Positions) : row \in Held /\ row \in Range(Grouped)
  /\ \A row \in Range(Grouped) :
       row \in PositionSet /\ (row.portfolio # NoPortfolio => row \in Range(Positions))
<1> DEFINE live == {row \in Range(Positions) : row.session = "LIVE"}
           paper == {row \in Range(Positions) : row.session = "PAPER"}
           rest == {row \in Range(Positions) : row.session \notin {"LIVE", "PAPER"}}
           A == Only(Positions, live)
           B == Only(Positions, paper)
           C == Only(Positions, rest)
           D == [j \in DOMAIN Unheld |-> [session |-> "OTHER", portfolio |-> NoPortfolio,
                                          con |-> Unheld[j], action |-> "BUY"]]
<1>1. Grouped = ((A \o B) \o C) \o D
  BY DEF Grouped
<1>2. Positions \in Seq(Held) /\ Held \subseteq PositionSet
  BY PositionsAre DEF Held
<1>3. Positions \in Seq(PositionSet)
  BY <1>2
<1>4. ASSUME NEW T
      PROVE  /\ Only(Positions, T) \in Seq(PositionSet)
             /\ \A i \in DOMAIN Only(Positions, T) : Only(Positions, T)[i] \in Range(Positions)
             /\ \A row \in Range(Positions) :
                  row \in T => \E i \in DOMAIN Only(Positions, T) : Only(Positions, T)[i] = row
  <2> DEFINE o == Only(Positions, T)
  <2>1. /\ o \in Seq(PositionSet)
        /\ \E at \in [DOMAIN o -> DOMAIN Positions] :
              /\ \A i \in DOMAIN o : o[i] = Positions[at[i]] /\ Positions[at[i]] \in T
              /\ \A k \in DOMAIN Positions : Positions[k] \in T => \E i \in DOMAIN o : at[i] = k
    BY <1>3, OnlyIs
  <2> HIDE DEF o
  <2>2. /\ \A i \in DOMAIN o : o[i] \in Range(Positions)
        /\ \A row \in Range(Positions) : row \in T => \E i \in DOMAIN o : o[i] = row
    BY <2>1 DEF Range
  <2> QED BY <2>1, <2>2 DEF o
<1>5. D \in Seq(PositionSet) /\ \A j \in DOMAIN D : D[j].portfolio = NoPortfolio
  <2>1. Unheld \in Seq(Range(Contracts))
    BY ContractsOnly DEF Unheld
  <2>2. Len(Unheld) \in Nat /\ DOMAIN Unheld = 1 .. Len(Unheld)
        /\ \A i \in 1 .. Len(Unheld) : Unheld[i] \in Range(Contracts)
    BY <2>1
  <2>3. D \in [1 .. Len(Unheld) -> PositionSet]
    BY <2>2 DEF PositionSet
  <2> QED BY <2>2, <2>3
<1>6. /\ A \in Seq(PositionSet) /\ B \in Seq(PositionSet) /\ C \in Seq(PositionSet)
      /\ \A i \in DOMAIN A : A[i] \in Range(Positions)
      /\ \A i \in DOMAIN B : B[i] \in Range(Positions)
      /\ \A i \in DOMAIN C : C[i] \in Range(Positions)
  BY <1>4
<1>7. \A row \in Range(Positions) :
         \/ \E i \in DOMAIN A : A[i] = row
         \/ \E i \in DOMAIN B : B[i] = row
         \/ \E i \in DOMAIN C : C[i] = row
  <2> SUFFICES ASSUME NEW row \in Range(Positions)
               PROVE  \/ \E i \in DOMAIN A : A[i] = row
                      \/ \E i \in DOMAIN B : B[i] = row
                      \/ \E i \in DOMAIN C : C[i] = row
    OBVIOUS
  <2>1. row \in live \/ row \in paper \/ row \in rest
    OBVIOUS
  <2> HIDE DEF live, paper, rest
  <2> QED BY <1>4, <2>1
<1> HIDE DEF A, B, C, D
<1> DEFINE AB == A \o B
           ABC == AB \o C
<1>8. AB \in Seq(PositionSet) /\ Joins(AB, A, B)
  BY <1>6, Joined
<1>9. ABC \in Seq(PositionSet) /\ Joins(ABC, AB, C)
  <2> HIDE DEF AB
  <2> QED BY <1>6, <1>8, Joined
<1> HIDE DEF AB, ABC
<1>10. Grouped \in Seq(PositionSet) /\ Joins(Grouped, ABC, D)
  <2>1. Grouped = ABC \o D
    BY <1>1 DEF AB, ABC
  <2> QED BY <2>1, <1>5, <1>9, Joined
<1>11. \A row \in Range(Positions) : row \in Held /\ row \in Range(Grouped)
  <2> SUFFICES ASSUME NEW row \in Range(Positions) PROVE row \in Held /\ row \in Range(Grouped)
    OBVIOUS
  <2>1. row \in Held
    BY <1>2 DEF Range
  <2>2. \E i \in DOMAIN ABC : ABC[i] = row
    BY <1>7, <1>8, <1>9 DEF Joins
  <2> QED BY <2>1, <2>2, <1>10 DEF Range, Joins
<1>12. ASSUME NEW row \in Range(Grouped)
       PROVE  row \in PositionSet /\ (row.portfolio # NoPortfolio => row \in Range(Positions))
  <2>1. PICK i \in DOMAIN Grouped : row = Grouped[i]
    BY <1>12 DEF Range
  <2>2. row \in PositionSet
    BY <2>1, <1>10
  <2>3. (\E j \in DOMAIN D : row = D[j]) \/ \E j \in DOMAIN ABC : row = ABC[j]
    BY <2>1, <1>10 DEF Joins
  <2>4. ASSUME NEW j \in DOMAIN ABC PROVE ABC[j] \in Range(Positions)
    <3>1. (\E k \in DOMAIN AB : ABC[j] = AB[k]) \/ \E k \in DOMAIN C : ABC[j] = C[k]
      BY <1>9 DEF Joins
    <3>2. \A k \in DOMAIN AB : AB[k] \in Range(Positions)
      BY <1>6, <1>8 DEF Joins
    <3> QED BY <1>6, <3>1, <3>2
  <2> QED BY <2>2, <2>3, <2>4, <1>5
<1> QED BY <1>10, <1>11, <1>12

\* A row asks, for its instrument, for the models whose rows have a type of its action.
Wants(row, type) == type \in Range(TypesFor(row.action))
Ask(m, con) == [model |-> Pooled(m.id), con |-> con]

LEMMA AskedByIs ==
  ASSUME NEW row \in PositionSet
  PROVE  /\ AskedBy(row) \in Seq(AskSet)
         /\ \A i \in DOMAIN AskedBy(row) : \E m \in Range(Models) :
              Wants(row, m.type) /\ AskedBy(row)[i] = Ask(m, row.con)
         /\ \A m \in Range(Models) : Wants(row, m.type) =>
              \E i \in DOMAIN AskedBy(row) : AskedBy(row)[i] = Ask(m, row.con)
<1> DEFINE types == TypesFor(row.action)
           ofType(t) == Only(Models, {m \in Range(Models) : m.type = types[t]})
           asks(t) == [m \in DOMAIN ofType(t) |-> Ask(ofType(t)[m], row.con)]
           ss == [t \in DOMAIN types |-> asks(t)]
<1>1. AskedBy(row) = FlattenSeq(ss)
  BY DEF AskedBy, Ask
<1>2. types \in Seq({"STOP_LOSS", "SELL", "BUY"})
  <2>1. \/ types = <<"STOP_LOSS">> \/ types = <<"STOP_LOSS", "SELL">>
        \/ types = <<"BUY">> \/ types = << >>
    BY DEF TypesFor
  <2> DEFINE T == {"STOP_LOSS", "SELL", "BUY"}
  <2>2. "STOP_LOSS" \in T /\ "SELL" \in T /\ "BUY" \in T
    OBVIOUS
  <2> HIDE DEF types, T
  <2>3. \A x, y \in T : <<x>> \in Seq(T) /\ <<x, y>> \in Seq(T) /\ << >> \in Seq(T)
    OBVIOUS
  <2>4. types \in Seq(T)
    BY <2>1, <2>2, <2>3
  <2> QED BY <2>4 DEF T
<1>3. Models \in Seq(Range(Models)) /\ row.con \in Range(Contracts)
  BY ForecastAssumption DEF PositionSet
<1>4. ASSUME NEW t \in DOMAIN types
      PROVE  /\ asks(t) \in Seq(AskSet)
             /\ \A i \in DOMAIN asks(t) : \E m \in Range(Models) :
                  m.type = types[t] /\ asks(t)[i] = Ask(m, row.con)
             /\ \A m \in Range(Models) : m.type = types[t] =>
                  \E i \in DOMAIN asks(t) : asks(t)[i] = Ask(m, row.con)
  <2> DEFINE T == {m \in Range(Models) : m.type = types[t]}
             o == Only(Models, T)
  <2>1. /\ o \in Seq(Range(Models))
        /\ \E at \in [DOMAIN o -> DOMAIN Models] :
              /\ \A i \in DOMAIN o : o[i] = Models[at[i]] /\ Models[at[i]] \in T
              /\ \A k \in DOMAIN Models : Models[k] \in T => \E i \in DOMAIN o : at[i] = k
    <3> HIDE DEF T, types, ofType, asks, ss
    <3>1. Models \in Seq(Range(Models))
      BY <1>3
    <3> QED BY <3>1, OnlyIs
  <2>2. asks(t) = [m \in DOMAIN o |-> Ask(o[m], row.con)]
    OBVIOUS
  <2> HIDE DEF o, asks
  <2>3. DOMAIN asks(t) = DOMAIN o
        /\ \A i \in DOMAIN o : asks(t)[i] = Ask(o[i], row.con)
    BY <2>2
  <2>4. \A i \in DOMAIN o : o[i] \in T /\ o[i] \in Range(Models)
    BY <2>1
  <2>5. \A m \in Range(Models) : m \in T => \E i \in DOMAIN o : o[i] = m
    BY <2>1 DEF Range
  <2>6. asks(t) \in Seq(AskSet)
    <3>1. Len(o) \in Nat /\ DOMAIN o = 1 .. Len(o)
      BY <2>1
    <3>2. \A i \in DOMAIN o : Ask(o[i], row.con) \in AskSet
      BY <2>4, <1>3, PooledIs DEF AskSet, Ask
    <3>3. asks(t) \in [1 .. Len(o) -> AskSet]
      BY <2>2, <3>1, <3>2
    <3> QED BY <3>1, <3>3
  <2>7. \A i \in DOMAIN asks(t) : \E m \in Range(Models) :
          m.type = types[t] /\ asks(t)[i] = Ask(m, row.con)
    BY <2>3, <2>4
  <2>8. \A m \in Range(Models) : m.type = types[t] =>
          \E i \in DOMAIN asks(t) : asks(t)[i] = Ask(m, row.con)
    BY <2>3, <2>5
  <2> QED BY <2>6, <2>7, <2>8
<1> HIDE DEF types, asks
<1>5. ss \in Seq(Seq(AskSet)) /\ DOMAIN ss = DOMAIN types /\ \A t \in DOMAIN types : ss[t] = asks(t)
  <2>1. Len(types) \in Nat /\ DOMAIN types = 1 .. Len(types)
    BY <1>2
  <2>2. ss \in [1 .. Len(types) -> Seq(AskSet)]
    BY <2>1, <1>4
  <2> QED BY <2>1, <2>2
<1> HIDE DEF ss
<1>6. /\ AskedBy(row) \in Seq(AskSet)
      /\ \A i \in DOMAIN AskedBy(row) :
           \E t \in DOMAIN ss : \E k \in DOMAIN ss[t] : AskedBy(row)[i] = ss[t][k]
      /\ \A t \in DOMAIN ss : \A k \in DOMAIN ss[t] :
           \E i \in DOMAIN AskedBy(row) : AskedBy(row)[i] = ss[t][k]
  BY <1>1, <1>5, FlattenedHas
<1>7. ASSUME NEW i \in DOMAIN AskedBy(row)
      PROVE  \E m \in Range(Models) : Wants(row, m.type) /\ AskedBy(row)[i] = Ask(m, row.con)
  <2>1. PICK t \in DOMAIN types : \E k \in DOMAIN asks(t) : AskedBy(row)[i] = asks(t)[k]
    BY <1>5, <1>6
  <2>2. PICK m \in Range(Models) : m.type = types[t] /\ AskedBy(row)[i] = Ask(m, row.con)
    BY <2>1, <1>4
  <2> QED BY <2>2 DEF Wants, Range, types
<1>8. ASSUME NEW m \in Range(Models), Wants(row, m.type)
      PROVE  \E i \in DOMAIN AskedBy(row) : AskedBy(row)[i] = Ask(m, row.con)
  <2>1. PICK t \in DOMAIN types : types[t] = m.type
    BY <1>8 DEF Wants, Range, types
  <2>2. PICK k \in DOMAIN asks(t) : asks(t)[k] = Ask(m, row.con)
    BY <1>4, <2>1
  <2> QED BY <2>2, <1>5, <1>6
<1> QED BY <1>6, <1>7, <1>8

LEMMA AskedIs ==
  /\ Asked \in Seq(AskSet)
  /\ \A i \in DOMAIN Asked : \E row \in Range(Grouped), m \in Range(Models) :
       Wants(row, m.type) /\ Asked[i] = Ask(m, row.con)
  /\ \A row \in Range(Grouped), m \in Range(Models) : Wants(row, m.type) =>
       \E i \in DOMAIN Asked : Asked[i] = Ask(m, row.con)
<1> DEFINE ss == [g \in DOMAIN Grouped |-> AskedBy(Grouped[g])]
<1>1. Asked = FlattenSeq(ss)
  BY DEF Asked
<1>2. Grouped \in Seq(PositionSet)
  BY GroupedIs
<1>3. Len(Grouped) \in Nat /\ DOMAIN Grouped = 1 .. Len(Grouped)
      /\ \A g \in DOMAIN Grouped : Grouped[g] \in PositionSet
  BY <1>2
<1>4. ss \in Seq(Seq(AskSet)) /\ DOMAIN ss = DOMAIN Grouped
      /\ \A g \in DOMAIN Grouped : ss[g] = AskedBy(Grouped[g])
  <2>1. ss \in [1 .. Len(Grouped) -> Seq(AskSet)]
    BY <1>3, AskedByIs
  <2> QED BY <1>3, <2>1
<1> HIDE DEF ss
<1>5. /\ Asked \in Seq(AskSet)
      /\ \A i \in DOMAIN Asked : \E t \in DOMAIN ss : \E k \in DOMAIN ss[t] : Asked[i] = ss[t][k]
      /\ \A t \in DOMAIN ss : \A k \in DOMAIN ss[t] : \E i \in DOMAIN Asked : Asked[i] = ss[t][k]
  BY <1>1, <1>4, FlattenedHas
<1>6. ASSUME NEW i \in DOMAIN Asked
      PROVE  \E row \in Range(Grouped), m \in Range(Models) :
               Wants(row, m.type) /\ Asked[i] = Ask(m, row.con)
  <2>1. PICK g \in DOMAIN Grouped : \E k \in DOMAIN AskedBy(Grouped[g]) : Asked[i] = AskedBy(Grouped[g])[k]
    BY <1>4, <1>5
  <2>2. PICK m \in Range(Models) : Wants(Grouped[g], m.type) /\ Asked[i] = Ask(m, Grouped[g].con)
    BY <2>1, <1>3, AskedByIs
  <2> QED BY <2>2 DEF Range
<1>7. ASSUME NEW row \in Range(Grouped), NEW m \in Range(Models), Wants(row, m.type)
      PROVE  \E i \in DOMAIN Asked : Asked[i] = Ask(m, row.con)
  <2>1. PICK g \in DOMAIN Grouped : row = Grouped[g]
    BY DEF Range
  <2>2. PICK k \in DOMAIN AskedBy(Grouped[g]) : AskedBy(Grouped[g])[k] = Ask(m, row.con)
    BY <2>1, <1>3, <1>7, AskedByIs
  <2> QED BY <2>2, <1>4, <1>5
<1> QED BY <1>5, <1>6, <1>7

LEMMA PlanIs ==
  /\ PredictionPlan \in Seq(AskSet) /\ IsInjective(PredictionPlan)
  /\ \A i \in DOMAIN PredictionPlan : \E row \in Range(Grouped), m \in Range(Models) :
       Wants(row, m.type) /\ PredictionPlan[i] = Ask(m, row.con)
  /\ \A row \in Range(Grouped), m \in Range(Models) : Wants(row, m.type) =>
       \E i \in DOMAIN PredictionPlan : PredictionPlan[i] = Ask(m, row.con)
<1> DEFINE s == Asked
           take == [a \in AskSet |-> TRUE]
           val == [a \in AskSet |-> a]
           Eq(k) == k = [u \in SUBSET DOMAIN s |->
                           IF u = {} THEN << >>
                           ELSE IF s[Max(u)] \in Range(k[u \ {Max(u)}]) THEN k[u \ {Max(u)}]
                                ELSE Append(k[u \ {Max(u)}], s[Max(u)])]
           k == CHOOSE j : Eq(j)
<1>1. PredictionPlan = k[DOMAIN s]
  BY DEF PredictionPlan, FoldLeft, MapThenFoldSet
<1>2. s \in Seq(AskSet) /\ take \in [AskSet -> BOOLEAN] /\ val \in [AskSet -> AskSet]
      /\ DOMAIN s = 1 .. Len(s) /\ Len(s) \in Nat
  BY AskedIs
<1>3. ASSUME NEW j PROVE Eq(j) <=> Collecting(j, s, take, val)
  <2> DEFINE R == SUBSET DOMAIN s
  <2>1. \A u \in R : u # {} => s[Max(u)] \in AskSet
    <3> SUFFICES ASSUME NEW u \in R, u # {} PROVE s[Max(u)] \in AskSet
      OBVIOUS
    <3> HIDE DEF s
    <3>1. u \in SUBSET (1 .. Len(s)) /\ Len(s) \in Nat
      BY <1>2
    <3>2. Max(u) \in DOMAIN s
      BY <1>2, <3>1, MaxWithin
    <3> QED BY <1>2, <3>2
  <2> HIDE DEF R, s
  <2>2. \A v : \A b \in AskSet :
          Collect(v, take, val, b) = IF b \in Range(v) THEN v ELSE Append(v, b)
    BY DEF Collect
  <2>3. \A u \in R : u # {} =>
          Collect(j[u \ {Max(u)}], take, val, s[Max(u)])
            = IF s[Max(u)] \in Range(j[u \ {Max(u)}]) THEN j[u \ {Max(u)}]
              ELSE Append(j[u \ {Max(u)}], s[Max(u)])
    BY <2>1, <2>2
  <2> QED BY <2>3 DEF Collecting, R
<1> HIDE DEF s, take, val, Eq
<1>4. Collecting(k, s, take, val)
  <2>1. \E j : Eq(j)
    BY <1>2, <1>3, CollectedIs
  <2> QED BY <2>1, <1>3
<1>5. PredictionPlan \in Seq(AskSet) /\ Collected(PredictionPlan, s, take, val)
  <2> HIDE DEF k
  <2> QED BY <1>1, <1>2, <1>4, CollectedIs
<1>6. \A j \in DOMAIN s : take[s[j]] /\ val[s[j]] = s[j]
  BY <1>2 DEF take, val
<1>7. /\ IsInjective(PredictionPlan)
      /\ \A i \in DOMAIN PredictionPlan : \E j \in DOMAIN s : PredictionPlan[i] = s[j]
      /\ \A j \in DOMAIN s : \E i \in DOMAIN PredictionPlan : PredictionPlan[i] = s[j]
  BY <1>5, <1>6 DEF Collected
<1>8. ASSUME NEW i \in DOMAIN PredictionPlan
      PROVE  \E row \in Range(Grouped), m \in Range(Models) :
               Wants(row, m.type) /\ PredictionPlan[i] = Ask(m, row.con)
  <2>1. PICK j \in DOMAIN s : PredictionPlan[i] = s[j]
    BY <1>7
  <2>2. \E row \in Range(Grouped), m \in Range(Models) : Wants(row, m.type) /\ s[j] = Ask(m, row.con)
    BY <2>1, AskedIs DEF s
  <2> QED BY <2>1, <2>2
<1>9. ASSUME NEW row \in Range(Grouped), NEW m \in Range(Models), Wants(row, m.type)
      PROVE  \E i \in DOMAIN PredictionPlan : PredictionPlan[i] = Ask(m, row.con)
  <2>1. PICK j \in DOMAIN s : s[j] = Ask(m, row.con)
    BY <1>9, AskedIs DEF s
  <2> QED BY <2>1, <1>7
<1> QED BY <1>5, <1>7, <1>8, <1>9

\* The portfolios of v have a row for the instrument that asks for the type, and no other has.
Hears(v, con, type) ==
  /\ v \in Seq(Owners) /\ IsInjective(v)
  /\ \A i \in DOMAIN v : \E row \in Range(Positions) :
       row.con = con /\ Wants(row, type) /\ v[i] = row.portfolio
  /\ \A row \in Range(Positions) : row.con = con /\ Wants(row, type) =>
       \E i \in DOMAIN v : v[i] = row.portfolio

LEMMA RoutingIs ==
  ASSUME NEW con, NEW type
  PROVE  Hears(Routing(con, type), con, type)
<1> DEFINE s == Grouped
           good(row) == row.con = con /\ type \in Range(TypesFor(row.action)) /\ row.portfolio # NoPortfolio
           take == [row \in PositionSet |-> good(row)]
           val == [row \in PositionSet |-> row.portfolio]
           W == Owners \cup {NoPortfolio}
           Eq(k) == k = [u \in SUBSET DOMAIN s |->
                           IF u = {} THEN << >>
                           ELSE IF /\ s[Max(u)].con = con
                                   /\ type \in Range(TypesFor(s[Max(u)].action))
                                   /\ s[Max(u)].portfolio # NoPortfolio
                                   /\ s[Max(u)].portfolio \notin Range(k[u \ {Max(u)}])
                                THEN Append(k[u \ {Max(u)}], s[Max(u)].portfolio)
                                ELSE k[u \ {Max(u)}]]
           k == CHOOSE j : Eq(j)
           v == Routing(con, type)
<1>1. v = k[DOMAIN s]
  BY DEF Routing, FoldLeft, MapThenFoldSet
<1>2. s \in Seq(PositionSet) /\ take \in [PositionSet -> BOOLEAN] /\ val \in [PositionSet -> W]
      /\ DOMAIN s = 1 .. Len(s) /\ Len(s) \in Nat
  <2>1. s \in Seq(PositionSet)
    BY GroupedIs
  <2>2. val \in [PositionSet -> W]
    BY DEF PositionSet
  <2>3. \A row \in PositionSet : good(row) \in BOOLEAN
    OBVIOUS
  <2> HIDE DEF good
  <2>4. take \in [PositionSet -> BOOLEAN]
    BY <2>3
  <2> HIDE DEF s, take, val
  <2> QED BY <2>1, <2>2, <2>4
<1>3. ASSUME NEW j PROVE Eq(j) <=> Collecting(j, s, take, val)
  <2> DEFINE R == SUBSET DOMAIN s
  <2>1. \A u \in R : u # {} => s[Max(u)] \in PositionSet
    <3> SUFFICES ASSUME NEW u \in R, u # {} PROVE s[Max(u)] \in PositionSet
      OBVIOUS
    <3> HIDE DEF s
    <3>1. u \in SUBSET (1 .. Len(s)) /\ Len(s) \in Nat
      BY <1>2
    <3>2. Max(u) \in DOMAIN s
      BY <1>2, <3>1, MaxWithin
    <3> QED BY <1>2, <3>2
  <2> HIDE DEF R, s
  <2>2. \A x : \A b \in PositionSet :
          Collect(x, take, val, b) = IF /\ b.con = con
                                        /\ type \in Range(TypesFor(b.action))
                                        /\ b.portfolio # NoPortfolio
                                        /\ b.portfolio \notin Range(x)
                                     THEN Append(x, b.portfolio) ELSE x
    BY DEF Collect
  <2>3. \A u \in R : u # {} =>
          Collect(j[u \ {Max(u)}], take, val, s[Max(u)])
            = IF /\ s[Max(u)].con = con
                 /\ type \in Range(TypesFor(s[Max(u)].action))
                 /\ s[Max(u)].portfolio # NoPortfolio
                 /\ s[Max(u)].portfolio \notin Range(j[u \ {Max(u)}])
              THEN Append(j[u \ {Max(u)}], s[Max(u)].portfolio)
              ELSE j[u \ {Max(u)}]
    BY <2>1, <2>2
  <2> QED BY <2>3 DEF Collecting, R
<1> HIDE DEF s, take, val, Eq, v
<1>4. Collecting(k, s, take, val)
  <2>1. \E j : Eq(j)
    <3> HIDE DEF W
    <3> QED BY <1>2, <1>3, CollectedIs
  <2> QED BY <2>1, <1>3
<1>5. v \in Seq(W) /\ Collected(v, s, take, val)
  <2> HIDE DEF k, W
  <2> QED BY <1>1, <1>2, <1>4, CollectedIs
<1>6. \A j \in DOMAIN s : s[j] \in PositionSet /\ s[j] \in Range(Grouped)
  BY <1>2 DEF Range, s
<1>7. ASSUME NEW i \in DOMAIN v
      PROVE  \E row \in Range(Positions) : row.con = con /\ Wants(row, type) /\ v[i] = row.portfolio
  <2>1. PICK j \in DOMAIN s : take[s[j]] /\ v[i] = val[s[j]]
    BY <1>5 DEF Collected
  <2>2. good(s[j]) /\ v[i] = s[j].portfolio
    BY <2>1, <1>6 DEF take, val
  <2>3. s[j] \in Range(Positions)
    BY <2>2, <1>6, GroupedIs
  <2> QED BY <2>2, <2>3 DEF Wants
<1>8. ASSUME NEW row \in Range(Positions), row.con = con, Wants(row, type)
      PROVE  \E i \in DOMAIN v : v[i] = row.portfolio
  <2>1. PICK j \in DOMAIN s : s[j] = row
    BY GroupedIs DEF Range, s
  <2>2. row \in PositionSet /\ row.portfolio # NoPortfolio
    BY GroupedIs DEF Held
  <2>3. take[s[j]] /\ val[s[j]] = row.portfolio
    BY <2>1, <2>2, <1>8 DEF take, val, Wants
  <2> QED BY <2>3, <1>5 DEF Collected
<1>9. v \in Seq(Owners)
  <2>1. Len(v) \in Nat /\ DOMAIN v = 1 .. Len(v) /\ v \in [1 .. Len(v) -> W]
    <3> HIDE DEF W
    <3> QED BY <1>5
  <2>2. \A i \in DOMAIN v : v[i] \in Owners
    <3> SUFFICES ASSUME NEW i \in DOMAIN v PROVE v[i] \in Owners
      OBVIOUS
    <3>1. PICK row \in Range(Positions) : v[i] = row.portfolio
      BY <1>7
    <3>2. row \in Held
      BY GroupedIs
    <3> QED BY <3>1, <3>2 DEF Held, PositionSet
  <2> QED BY <2>1, <2>2
<1> QED BY <1>5, <1>7, <1>8, <1>9 DEF v, Collected, Hears

\* What run_predictions sends when it does not raise.
LEMMA RoutedIs ==
  {x \in Range(Routed) : OneType(x.model)} = SignalsDue /\ IsInjective(Routed)
<1> DEFINE plan == PredictionPlan
           to(j) == Routing(plan[j].con, plan[j].model.type)
           sent(j) == [p \in DOMAIN to(j) |->
                         [portfolio |-> to(j)[p], model |-> plan[j].model, con |-> plan[j].con]]
           ss == [j \in DOMAIN plan |-> sent(j)]
           out == Routed
           S == [portfolio : Owners, model : Range(Models), con : Range(Contracts)]
<1>1. out = FlattenSeq(ss)
  BY DEF Routed
<1>2. plan \in Seq(AskSet) /\ IsInjective(plan)
  BY PlanIs
<1>3. DOMAIN plan = 1 .. Len(plan) /\ Len(plan) \in Nat
      /\ \A j \in DOMAIN plan : plan[j].model \in Range(Models) /\ plan[j].con \in Range(Contracts)
  <2> HIDE DEF plan
  <2>1. \A j \in DOMAIN plan : plan[j] \in AskSet
    BY <1>2
  <2> QED BY <1>2, <2>1 DEF AskSet
<1>4. ASSUME NEW j \in DOMAIN plan
      PROVE  /\ to(j) \in Seq(Owners) /\ IsInjective(to(j))
             /\ \A i \in DOMAIN to(j) : \E row \in Range(Positions) :
                  row.con = plan[j].con /\ Wants(row, plan[j].model.type) /\ to(j)[i] = row.portfolio
             /\ \A row \in Range(Positions) :
                  row.con = plan[j].con /\ Wants(row, plan[j].model.type) =>
                    \E i \in DOMAIN to(j) : to(j)[i] = row.portfolio
  <2>1. Hears(to(j), plan[j].con, plan[j].model.type)
    BY RoutingIs
  <2> HIDE DEF plan, to
  <2> QED BY <2>1 DEF Hears
<1> HIDE DEF out, plan, to
<1>5. ASSUME NEW j \in DOMAIN plan PROVE sent(j) \in Seq(S)
  <2>1. Len(to(j)) \in Nat /\ DOMAIN to(j) = 1 .. Len(to(j)) /\ \A p \in DOMAIN to(j) : to(j)[p] \in Owners
    BY <1>4
  <2>2. \A p \in DOMAIN to(j) :
          [portfolio |-> to(j)[p], model |-> plan[j].model, con |-> plan[j].con] \in S
    BY <2>1, <1>3
  <2> HIDE DEF S
  <2>3. sent(j) \in [1 .. Len(to(j)) -> S]
    BY <2>1, <2>2
  <2> QED BY <2>1, <2>3
<1>6. \A j \in DOMAIN plan :
        /\ DOMAIN sent(j) = DOMAIN to(j)
        /\ \A p \in DOMAIN to(j) :
             sent(j)[p] = [portfolio |-> to(j)[p], model |-> plan[j].model, con |-> plan[j].con]
  OBVIOUS
<1> HIDE DEF sent, S
<1>7. ss \in Seq(Seq(S)) /\ DOMAIN ss = DOMAIN plan /\ Len(ss) = Len(plan)
      /\ \A j \in DOMAIN plan : ss[j] = sent(j)
  <2>1. ss \in [1 .. Len(plan) -> Seq(S)]
    BY <1>3, <1>5
  <2> QED BY <1>3, <2>1
<1> HIDE DEF ss
<1>8. PICK row, col : Laid(out, ss, Len(ss), row, col)
  BY <1>1, <1>7, Flattened
<1>9. /\ \A i \in DOMAIN out : /\ row[i] \in DOMAIN plan /\ col[i] \in DOMAIN to(row[i])
                               /\ out[i] = sent(row[i])[col[i]]
      /\ \A j \in DOMAIN plan : \A p \in DOMAIN to(j) :
           \E i \in DOMAIN out : row[i] = j /\ col[i] = p
  BY <1>3, <1>6, <1>7, <1>8 DEF Laid
<1>10. ASSUME NEW i \in DOMAIN out
       PROVE
         /\ out[i].portfolio = to(row[i])[col[i]]
         /\ out[i].model = plan[row[i]].model /\ out[i].con = plan[row[i]].con
         /\ out[i] = [portfolio |-> to(row[i])[col[i]], model |-> plan[row[i]].model,
                      con |-> plan[row[i]].con]
  <2>1. row[i] \in DOMAIN plan /\ col[i] \in DOMAIN to(row[i]) /\ out[i] = sent(row[i])[col[i]]
    BY <1>9
  <2>2. sent(row[i])[col[i]] = [portfolio |-> to(row[i])[col[i]], model |-> plan[row[i]].model,
                                con |-> plan[row[i]].con]
    BY <2>1, <1>6
  <2> QED BY <2>1, <2>2
<1>11. IsInjective(out)
  <2> SUFFICES ASSUME NEW i \in DOMAIN out, NEW j \in DOMAIN out, out[i] = out[j] PROVE i = j
    BY DEF IsInjective
  <2>1. plan[row[i]].model = plan[row[j]].model /\ plan[row[i]].con = plan[row[j]].con
    BY <1>10
  <2>2. plan[row[i]] \in AskSet /\ plan[row[j]] \in AskSet
    BY <1>2, <1>3, <1>9
  <2>3. plan[row[i]] = plan[row[j]]
    BY <2>1, <2>2 DEF AskSet
  <2>4. row[i] = row[j]
    BY <2>3, <1>2, <1>9 DEF IsInjective
  <2>5. col[i] = col[j]
    <3>1. to(row[i])[col[i]] = to(row[i])[col[j]]
      BY <1>10, <2>4
    <3>2. row[i] \in DOMAIN plan /\ col[i] \in DOMAIN to(row[i]) /\ col[j] \in DOMAIN to(row[i])
      <4>1. row[j] \in DOMAIN plan /\ col[j] \in DOMAIN to(row[j])
        BY <1>9
      <4> QED BY <4>1, <2>4, <1>9
    <3>3. IsInjective(to(row[i]))
      BY <3>2, <1>4
    <3> QED BY <3>1, <3>2, <3>3 DEF IsInjective
  <2>6. ~ (i < j) /\ ~ (j < i)
    <3>1. row[i] \in Nat /\ col[i] \in Nat
      BY <1>3, <1>8, <1>9 DEF Laid
    <3> QED BY <3>1, <2>4, <2>5, <1>8 DEF Laid
  <2>7. out \in Seq(S)
    BY <1>1, <1>7, Flattened
  <2>8. i \in Nat /\ j \in Nat
    BY <2>7
  <2> QED BY <2>6, <2>8
<1> DEFINE signal(r, m) == [portfolio |-> r.portfolio, model |-> Pooled(m.id), con |-> r.con]
           due(r, m) == OneType(m) /\ Wants(r, m.type)
<1>12. \A x : x \in SignalsDue <=>
         \E r \in Range(Positions), m \in Range(Models) : due(r, m) /\ x = signal(r, m)
  <2> DEFINE all == {y \in Range(Positions) \X {m \in Range(Models) : OneType(m)} :
                       y[2].type \in Range(TypesFor(y[1].action))}
  <2>1. \A x : x \in SignalsDue <=> \E y \in all : x = signal(y[1], y[2])
    BY DEF SignalsDue
  <2>2. \A y : y \in all <=> /\ y \in Range(Positions) \X {m \in Range(Models) : OneType(m)}
                             /\ Wants(y[1], y[2].type)
    BY DEF Wants
  <2> HIDE DEF all, signal
  <2>3. \A r \in Range(Positions), m \in Range(Models) : due(r, m) => <<r, m>> \in all
    BY <2>2
  <2>4. \A y \in all : y[1] \in Range(Positions) /\ y[2] \in Range(Models) /\ due(y[1], y[2])
    BY <2>2
  <2>5. \A r, m : <<r, m>>[1] = r /\ <<r, m>>[2] = m
    OBVIOUS
  <2>6. ASSUME NEW x \in SignalsDue
        PROVE  \E r \in Range(Positions), m \in Range(Models) : due(r, m) /\ x = signal(r, m)
    <3>1. PICK y \in all : x = signal(y[1], y[2])
      BY <2>1, <2>6
    <3> QED BY <3>1, <2>4
  <2>7. ASSUME NEW r \in Range(Positions), NEW m \in Range(Models), due(r, m)
        PROVE  signal(r, m) \in SignalsDue
    <3> DEFINE y == <<r, m>>
    <3>1. y \in all /\ y[1] = r /\ y[2] = m
      BY <2>3, <2>7
    <3> HIDE DEF y
    <3>2. signal(r, m) = signal(y[1], y[2])
      BY <3>1
    <3> QED BY <3>1, <3>2, <2>1
  <2> QED BY <2>6, <2>7
\* An id with one type is asked for by the rows that want the type of its model.
<1>13. ASSUME NEW m \in Range(Models)
       PROVE  /\ OneType(Pooled(m.id)) <=> OneType(m)
              /\ OneType(m) => Pooled(m.id).type = m.type
  <2>1. Pooled(m.id) \in Range(Models) /\ Pooled(m.id).id = m.id
    BY PooledIs
  <2> DEFINE n == Pooled(m.id)
  <2>2. n \in Range(Models) /\ n.id = m.id
    BY <2>1
  <2> HIDE DEF n
  <2>3. (OneType(n) <=> OneType(m)) /\ (OneType(m) => n.type = m.type)
    BY <2>2 DEF OneType
  <2> QED BY <2>3 DEF n
<1>14. ASSUME NEW x \in Range(out), OneType(x.model) PROVE x \in SignalsDue
  <2>1. PICK i \in DOMAIN out : x = out[i]
    BY <1>14 DEF Range
  <2>2. PICK r \in Range(Positions) : /\ r.con = plan[row[i]].con /\ Wants(r, plan[row[i]].model.type)
                                      /\ to(row[i])[col[i]] = r.portfolio
    BY <1>4, <1>9
  <2>3. PICK g \in Range(Grouped), m \in Range(Models) :
          Wants(g, m.type) /\ plan[row[i]] = Ask(m, g.con)
    BY <1>9, PlanIs DEF plan
  <2>4. plan[row[i]].model = Pooled(m.id) /\ x = signal(r, m)
    BY <2>1, <2>2, <2>3, <1>10 DEF Ask
  <2>5. x.model = Pooled(m.id)
    BY <2>4
  <2>6. due(r, m)
    BY <2>2, <2>4, <2>5, <1>13, <1>14
  <2> HIDE DEF signal, due
  <2> QED BY <2>4, <2>6, <1>12
<1>15. ASSUME NEW x \in SignalsDue PROVE x \in Range(out) /\ OneType(x.model)
  <2>1. PICK r \in Range(Positions), m \in Range(Models) : due(r, m) /\ x = signal(r, m)
    <3> HIDE DEF signal, due
    <3> QED BY <1>12, <1>15
  <2>2. r \in Range(Grouped)
    BY GroupedIs
  <2>3. PICK j \in DOMAIN plan : plan[j] = Ask(m, r.con)
    BY <2>1, <2>2, PlanIs DEF plan
  <2>4. plan[j].con = r.con /\ plan[j].model = Pooled(m.id) /\ Wants(r, plan[j].model.type)
    BY <2>1, <2>3, <1>13 DEF Ask
  <2>5. PICK p \in DOMAIN to(j) : to(j)[p] = r.portfolio
    BY <2>4, <1>4
  <2>6. PICK i \in DOMAIN out : row[i] = j /\ col[i] = p
    BY <2>5, <1>9
  <2>7. out[i] = x /\ x.model = Pooled(m.id)
    BY <2>1, <2>4, <2>5, <2>6, <1>10
  <2> QED BY <2>1, <2>7, <1>13 DEF Range
<1> QED BY <1>11, <1>14, <1>15 DEF out

\* SignalsRouted: what one tick hands to the portfolios is due, whole and without repetition,
\* whatever the rows of positions, targets and models; of a model with versions of two types
\* only that it is not repeated.
THEOREM SignalsAreRouted == Spec => []SignalsRouted
<1>1. Init => SignalsRouted
  BY DEF Init, SignalsRouted
<1>2. SignalsRouted /\ [Next]_vars => SignalsRouted'
  <2> SUFFICES ASSUME SignalsRouted, [Next]_vars PROVE SignalsRouted'
    OBVIOUS
  <2>1. CASE FinishTick
    <3>1. delivered' \in {delivered, Routed}
      BY <2>1 DEF FinishTick
    <3>2. CASE delivered' = Routed
      BY <3>2, RoutedIs DEF SignalsRouted
    <3> QED BY <3>1, <3>2 DEF SignalsRouted
  <2>2. CASE Crash \/ NextDay
    BY <2>2 DEF Crash, NextDay, SignalsRouted
  <2>3. CASE UNCHANGED delivered
    BY <2>3 DEF SignalsRouted
  <2>4. TimePasses \/ StartTick \/ SaveBanks \/ SaveManager \/ UNCHANGED vars => UNCHANGED delivered
    BY DEF TimePasses, StartTick, SaveBanks, SaveManager, vars, history
  <2>5. IngestBar \/ ProcessEvents \/ Recover \/ StartLoop => UNCHANGED delivered
    BY DEF IngestBar, ProcessEvents, Recover, StartLoop, history
  <2> QED BY <2>1, <2>2, <2>3, <2>4, <2>5 DEF Next
<1> QED BY <1>1, <1>2, PTL DEF Spec


\* The bars of the intervals from one tick to the next.
BarsBetween(last, to) ==
  FlattenSeq([s \in 1..to - last |->
    [i \in DOMAIN Universe |->
       [con |-> Universe[i],
        bar |-> Ohlc(last + s - 1, last + s, IF s = 1 THEN Quotes[Universe[i]][last] ELSE 0)]]])

LEMMA BarsBetweenQueued ==
  ASSUME NEW last \in Nat, NEW to \in Nat, last <= to, to <= MaxTime
  PROVE  /\ Queued(BarsBetween(last, to), to)
         /\ \A c \in Instruments : Reach(BarsBetween(last, to), to, c) = last
<1> DEFINE n == to - last
           bar(s, i) == Ohlc(last + s - 1, last + s, IF s = 1 THEN Quotes[Universe[i]][last] ELSE 0)
           entry(s, i) == [con |-> Universe[i], bar |-> bar(s, i)]
           round(s) == [i \in DOMAIN Universe |-> entry(s, i)]
           ss == [s \in 1 .. n |-> round(s)]
           out == BarsBetween(last, to)
           u == Len(Universe)
<1>1. n \in Nat /\ u \in Nat /\ DOMAIN Universe = 1 .. u
      /\ \A i \in 1 .. u : Universe[i] \in Instruments /\ Pos(Universe[i]) = i
  BY InstrumentFacts, PosFacts
<1>2. out = FlattenSeq(ss)
  BY DEF BarsBetween
<1>3. ASSUME NEW s \in 1 .. n, NEW i \in 1 .. u
      PROVE  /\ entry(s, i) \in BarSet /\ entry(s, i).con = Universe[i]
             /\ entry(s, i).bar.start = last + s - 1 /\ entry(s, i).bar.end = last + s
             /\ entry(s, i).bar.ticks \in Nat
  <2>1. Quotes[Universe[i]][last] \in Nat
    <3>1. last \in 0 .. MaxTime /\ Quotes \in [Instruments -> [0 .. MaxTime -> Nat]]
      BY MarketDataAssumption
    <3> QED BY <3>1, <1>1
  <2>2. last + s - 1 \in Nat /\ last + s \in Nat \ {0}
    OBVIOUS
  <2> QED BY <1>1, <2>1, <2>2 DEF BarSet, Candle, Ohlc
<1> HIDE DEF entry, out
<1>4. ASSUME NEW s \in 1 .. n
      PROVE  round(s) \in Seq(BarSet) /\ DOMAIN round(s) = 1 .. u
             /\ \A i \in 1 .. u : round(s)[i] = entry(s, i)
  <2>1. round(s) \in [1 .. u -> BarSet]
    BY <1>1, <1>3
  <2> QED BY <1>1, <2>1
<1> HIDE DEF round
<1>5. ss \in Seq(Seq(BarSet)) /\ Len(ss) = n /\ \A s \in 1 .. n : ss[s] = round(s)
  <2>1. ss \in [1 .. n -> Seq(BarSet)]
    BY <1>4
  <2> QED BY <1>1, <2>1
<1> HIDE DEF ss
<1>6. out \in Seq(BarSet) /\ \E row, col : Laid(out, ss, n, row, col)
  BY <1>2, <1>5, Flattened
<1>7. PICK row, col : Laid(out, ss, n, row, col)
  BY <1>6
<1> HIDE DEF n
<1>8. ASSUME NEW i \in DOMAIN out
      PROVE  /\ row[i] \in 1 .. n /\ col[i] \in 1 .. u /\ row[i] \in Nat /\ col[i] \in Nat
             /\ out[i] = entry(row[i], col[i])
             /\ out[i].con = Universe[col[i]] /\ Pos(out[i].con) = col[i]
             /\ out[i].bar.start = last + row[i] - 1 /\ out[i].bar.end = last + row[i]
             /\ out[i].bar.ticks \in Nat
  <2>1. row[i] \in 1 .. n /\ col[i] \in DOMAIN ss[row[i]] /\ out[i] = ss[row[i]][col[i]]
    BY <1>7 DEF Laid
  <2>2. col[i] \in 1 .. u /\ out[i] = entry(row[i], col[i])
    BY <2>1, <1>4, <1>5
  <2>3. row[i] \in Nat /\ col[i] \in Nat
    BY <2>1, <2>2, <1>1
  <2> QED BY <2>1, <2>2, <2>3, <1>1, <1>3
<1>9. \A s \in 1 .. n, k \in 1 .. u : \E i \in DOMAIN out : row[i] = s /\ col[i] = k
  BY <1>4, <1>5, <1>7 DEF Laid
<1>10. \A i \in DOMAIN out : /\ out[i].bar.end = out[i].bar.start + 1
                             /\ out[i].bar.ticks \in Nat /\ out[i].bar.end <= to
  <2> SUFFICES ASSUME NEW i \in DOMAIN out
               PROVE  /\ out[i].bar.end = out[i].bar.start + 1
                      /\ out[i].bar.ticks \in Nat /\ out[i].bar.end <= to
    OBVIOUS
  <2>1. last + row[i] <= to /\ last + row[i] = (last + row[i] - 1) + 1
    BY <1>8 DEF n
  <2> QED BY <2>1, <1>8
<1>11. ASSUME NEW i \in DOMAIN out, NEW j \in DOMAIN out, i < j PROVE Before(out[i], out[j])
  <2>1. row[i] < row[j] \/ (row[i] = row[j] /\ col[i] < col[j])
    BY <1>7, <1>11 DEF Laid
  <2>2. /\ row[i] \in Nat /\ row[j] \in Nat
        /\ out[i].bar.end = last + row[i] /\ out[j].bar.end = last + row[j]
        /\ Pos(out[i].con) = col[i] /\ Pos(out[j].con) = col[j]
    BY <1>8
  <2> QED BY <2>1, <2>2 DEF Before
<1>12. ASSUME NEW c \in Instruments PROVE Reach(out, to, c) = last
  <2>1. Pos(c) \in 1 .. u
    BY PosFacts
  <2>2. CASE out = << >>
    <3>1. n = 0
      <4>1. DOMAIN out = {}
        BY <2>2
      <4>2. ~ (1 \in 1 .. n)
        BY <4>1, <2>1, <1>9
      <4> QED BY <4>2, <1>1
    <3> QED BY <2>2, <3>1 DEF Reach, n
  <2>3. CASE out # << >>
    <3>1. 1 \in DOMAIN out /\ \A i \in DOMAIN out : i = 1 \/ 1 < i
      BY <2>3, <1>6
    <3>2. 1 \in 1 .. n /\ 1 \in 1 .. u
      BY <3>1, <1>8, <1>1
    <3>3. PICK i \in DOMAIN out : row[i] = 1 /\ col[i] = 1
      BY <3>2, <1>9
    <3>4. i = 1
      <4>1. ~ (row[1] < 1) /\ ~ (col[1] < 1)
        BY <3>1, <1>8
      <4>2. ~ (1 < i)
        <5> SUFFICES ASSUME 1 < i PROVE FALSE
          OBVIOUS
        <5>1. row[1] < row[i] \/ (row[1] = row[i] /\ col[1] < col[i])
          BY <3>1, <1>7 DEF Laid
        <5> QED BY <5>1, <4>1, <3>3
      <4> QED BY <4>2, <3>1
    <3>5. out[1].bar.end = last + 1 /\ Pos(out[1].con) = 1
      BY <3>1, <3>3, <3>4, <1>8
    <3> QED BY <2>1, <2>3, <3>5 DEF Reach
  <2> QED BY <2>2, <2>3
<1>13. ASSUME NEW c \in Instruments, NEW e \in Nat, Reach(out, to, c) < e, e <= to
       PROVE  \E i \in DOMAIN out : out[i].con = c /\ out[i].bar.end = e
  <2>1. e - last \in 1 .. n /\ Pos(c) \in 1 .. u /\ Universe[Pos(c)] = c /\ last + (e - last) = e
    BY <1>12, <1>13, PosFacts DEF n
  <2>2. PICK i \in DOMAIN out : row[i] = e - last /\ col[i] = Pos(c)
    BY <2>1, <1>9
  <2> QED BY <2>1, <2>2, <1>8
<1>14. Queued(out, to)
  BY <1>6, <1>10, <1>11, <1>13 DEF Queued
<1> QED BY <1>12, <1>14 DEF out

BankFile == {NoBanks} \cup {banks \in [Freqs -> Bank] : \A f \in Freqs : BankIsTrue(banks[f])}

LEMMA BankFileIs ==
  ASSUME NEW banks \in BankFile, ~ CannotFill(banks)
  PROVE  /\ banks \in [Freqs -> Bank] /\ \A f \in Freqs : BankIsTrue(banks[f])
         /\ GapRow(banks) \in Row
<1>1. banks # NoBanks /\ View(banks[GapFreq]) # << >>
  BY DEF CannotFill
<1>2. banks \in [Freqs -> Bank] /\ \A f \in Freqs : BankIsTrue(banks[f])
  BY <1>1 DEF BankFile
<1>3. GapFreq \in Freqs
  BY MarketDataAssumption
<1> DEFINE b == banks[GapFreq]
           v == View(b)
<1>4. b \in Bank /\ BankIsTrue(b)
  BY <1>2, <1>3
<1> HIDE DEF b, v
<1>5. v \in Seq(Row)
  BY <1>4, ViewIs DEF v
<1>6. v # << >>
  BY <1>1 DEF v, b
<1>7. v[Len(v)] \in Row
  BY <1>5, <1>6
<1> QED BY <1>2, <1>7 DEF GapRow, LastRow, v, b

LEMMA GapBarsAre ==
  ASSUME NEW banks \in BankFile, NEW all \in CascadeMap, ~ CannotFill(banks), now \in Nat
  PROVE  /\ GapBars(banks, all) \in Seq(BarSet)
         /\ \A i \in DOMAIN GapBars(banks, all) : GapBars(banks, all)[i].bar.end <= now
<1> DEFINE start == [c \in Instruments |-> GapStart(banks, all, c)]
           due(s) == {c \in Instruments : HasClose(banks, c) /\ start[c] + s <= now}
           at(s) == Only(Universe, due(s))
           entry(s, i) ==
             [con |-> at(s)[i], bar |-> Ohlc(start[at(s)[i]] + s - 1, start[at(s)[i]] + s, -1)]
           round(s) == [i \in DOMAIN at(s) |-> entry(s, i)]
           ss == [s \in 1 .. now |-> round(s)]
           out == GapBars(banks, all)
           Good == {b \in BarSet : b.bar.end <= now}
<1>1. out = FlattenSeq(ss)
  BY DEF GapBars
<1>2. ASSUME NEW c \in Instruments PROVE start[c] \in Nat /\ start[c] > 0
  <2>1. 1 \in 1 .. Levels
    BY LevelFacts, MarketDataAssumption
  <2>2. all[c][First] \in Cascade
    BY KindFacts DEF CascadeMap
  <2>3. all[c][First][1] \in Resampler
    BY <2>1, <2>2 DEF Cascade
  <2>4. all[c][First][1].end \in Nat /\ GapRow(banks).end \in Nat
    BY <2>3, BankFileIs DEF Resampler, Row
  <2>5. start[c] = GapStart(banks, all, c)
    OBVIOUS
  <2> QED BY <2>4, <2>5 DEF GapStart
<1> HIDE DEF start
<1>3. ASSUME NEW s \in 1 .. now
      PROVE  /\ Len(at(s)) \in Nat /\ DOMAIN at(s) = 1 .. Len(at(s))
             /\ \A i \in DOMAIN at(s) : at(s)[i] \in Instruments /\ start[at(s)[i]] + s <= now
  <2> DEFINE T == due(s)
             o == Only(Universe, T)
  <2>1. Universe \in Seq(Instruments)
    BY InstrumentFacts
  <2>2. /\ o \in Seq(Instruments)
        /\ \E p \in [DOMAIN o -> DOMAIN Universe] :
             \A i \in DOMAIN o : o[i] = Universe[p[i]] /\ Universe[p[i]] \in T
    <3> HIDE DEF T
    <3> QED BY <2>1, OnlyIs
  <2>3. \A i \in DOMAIN o : o[i] \in T
    <3> HIDE DEF o, T
    <3> QED BY <2>2
  <2>4. Len(o) \in Nat /\ DOMAIN o = 1 .. Len(o)
    <3> HIDE DEF o
    <3> QED BY <2>2
  <2> HIDE DEF o
  <2>5. \A i \in DOMAIN o : o[i] \in Instruments /\ start[o[i]] + s <= now
    BY <2>3
  <2> QED BY <2>4, <2>5 DEF o
<1> HIDE DEF at
<1>4. ASSUME NEW s \in 1 .. now PROVE round(s) \in Seq(Good)
  <2>1. ASSUME NEW i \in DOMAIN at(s) PROVE entry(s, i) \in Good
    <3> DEFINE c == at(s)[i]
    <3>1. c \in Instruments /\ start[c] \in Nat /\ start[c] > 0 /\ start[c] + s <= now
      BY <1>2, <1>3
    <3> HIDE DEF c
    <3>2. start[c] + s - 1 \in Nat /\ start[c] + s \in Nat \ {0} /\ -1 \in Int
      BY <3>1
    <3>3. [con |-> c, bar |-> Ohlc(start[c] + s - 1, start[c] + s, -1)] \in Good
      BY <3>1, <3>2 DEF BarSet, Candle, Ohlc
    <3> QED BY <3>3 DEF c
  <2> HIDE DEF entry, Good
  <2>2. round(s) \in [1 .. Len(at(s)) -> Good]
    BY <1>3, <2>1
  <2> QED BY <1>3, <2>2
<1> HIDE DEF round
<1>5. ss \in Seq(Seq(Good))
  <2> HIDE DEF Good
  <2>1. ss \in [1 .. now -> Seq(Good)]
    BY <1>4
  <2> QED BY <2>1
<1> HIDE DEF ss, out
<1>6. out \in Seq(Good)
  <2> HIDE DEF Good
  <2> QED BY <1>1, <1>5, Flattened
<1>7. out \in Seq(BarSet) /\ \A i \in DOMAIN out : out[i].bar.end <= now
  <2>1. DOMAIN out = 1 .. Len(out) /\ Len(out) \in Nat /\ \A i \in DOMAIN out : out[i] \in Good
    <3> HIDE DEF Good
    <3> QED BY <1>6
  <2>2. \A i \in DOMAIN out : out[i] \in BarSet /\ out[i].bar.end <= now
    BY <2>1
  <2>3. Seq(Good) \subseteq Seq(BarSet)
    OBVIOUS
  <2> QED BY <1>6, <2>2, <2>3
<1> QED BY <1>7 DEF out

-----------------------------------------------------------------------------
(***************************************************************************)
(* The invariants.                                                         *)
(***************************************************************************)
LoopSet == [at : {"tick", "run"}, last : Time, minute : Int]
FileSet(data) == [is : {"absent", "written", "torn"}, data : data]

TypeInv ==
  /\ now \in 0 .. MaxTime
  /\ proc \in {"live", "recovered", "down", "dead"}
  /\ loop \in LoopSet
  /\ bars \in Seq(BarSet) /\ cascades \in CascadeMap /\ events \in Seq(EventSet)
  /\ engine \in Engine /\ engine.banks \in BankFile
  /\ snapshots \in Seq(SUBSET Instruments)
  /\ saver \in [jobs : Nat, at : {"banks", "manager"}]
  /\ files \in [banks : FileSet(BankFile), manager : FileSet(CascadeMap)]
  /\ published \in [Instruments -> Seq(Candle)]
  /\ emitted \in [Instruments -> [Freqs -> Seq(Candle)]]
  /\ since \in [start : Nat, recovered : BOOLEAN]

\* The queues are empty between two ticks, and there is nothing before runtime_loop starts.
PlaceInv ==
  /\ loop.at = "tick" => bars = << >> /\ events = << >>
  /\ proc \in {"down", "recovered"} =>
       /\ loop = FreshLoop /\ since.recovered
       /\ published = NoHistory(<< >>) /\ emitted = NoHistory([f \in Freqs |-> << >>])

\* Where the bars of an instrument began, or will.
Origin(c) == IF published[c] = << >> THEN Reach(bars, loop.last, c) ELSE published[c][1].start

FrontInv ==
  /\ loop.last = -1 => bars = << >> /\ \A c \in Instruments : published[c] = << >>
  /\ loop.last # -1 =>
       /\ since.start <= loop.last /\ loop.last <= now
       /\ Queued(bars, loop.last)
       /\ \A i \in DOMAIN bars : bars[i].bar.end > since.start
       /\ \A c \in Instruments : published[c] # << >> =>
            published[c][Len(published[c])].end = Reach(bars, loop.last, c)
       /\ \A c, d \in Instruments : Origin(c) = Origin(d)

LanesInv ==
  \A c \in Instruments, s \in Nat :
    (published[c] # << >> => s = published[c][1].start) =>
      Rising(cascades[c][First], published[c], emitted[c], since.recovered, s)

SameKinds(all) == \A c \in Instruments, k \in KindSet : all[c][k] = all[c][First]
KindsInv == SameKinds(cascades) /\ SameKinds(files.manager.data)

\* No time stamp of the engine is later than t.
BanksWithin(banks, t) ==
  banks # NoBanks => \A f \in Freqs : /\ banks[f].end <= t
                                      /\ \A r \in 0 .. Lookback - 1 : banks[f].rows[r].end <= t
Within(e, t) ==
  /\ BanksWithin(e.banks, t)
  /\ \A c \in Instruments, k \in KindSet, f \in Freqs : e.lastSeen[c][k][f] <= t
  /\ \A f \in Freqs : e.states[f].derivedAt <= t

TimeInv ==
  /\ since.start <= now
  /\ Within(engine, now) /\ BanksWithin(files.banks.data, now)
  /\ \A i \in DOMAIN events : events[i].bar.end <= now

\* Where the rows of a bank begin.
Oldest(b) == IF b.full THEN b.head ELSE 0
Used(b, r) == b.full \/ r < b.head
\* The counter of the first kind counts the cells, and none is later than what its instrument
\* has had.
Counted(row, seen) ==
  /\ row.filled[First] = Cardinality({c \in Instruments : row.cells[First][c] # None})
  /\ \A c \in Instruments : row.cells[First][c] # None => row.end <= seen[c]

\* The rows later than T grow from one to the next and are counted.
RingIsTrue(b, T, seen) ==
  /\ \A r \in 0 .. Lookback - 1 :
       Used(b, r) /\ r # Oldest(b) /\ b.rows[r].end > T => b.rows[(r - 1) % Lookback].end < b.rows[r].end
  /\ \A r \in 0 .. Lookback - 1 : b.rows[r].end > T => Counted(b.rows[r], seen)
  /\ \A c \in Instruments : seen[c] > T => seen[c] <= b.end

SeenOf(e, f) == [c \in Instruments |-> e.lastSeen[c][First][f]]

Rings(e, T) ==
  /\ e.banks # NoBanks => \A f \in Freqs : RingIsTrue(e.banks[f], T, SeenOf(e, f))
  /\ \A f \in Freqs : e.cross[f] = {}
RingsInv == Rings(engine, since.start)

Settled(e) ==
  \A f \in Freqs : Instruments # {} /\ e.states[f].seen = Instruments => e.states[f].pending

\* What is later than T of the features, em being the candles so far.
Following(e, T, em) ==
  \A f \in Freqs, c \in Instruments :
    /\ e.lastSeen[c][First][f] > T =>
         /\ e.latest[f][c] >= e.lastSeen[c][First][f]
         /\ c \in e.states[f].seen \/ e.states[f].derivedAt >= e.lastSeen[c][First][f]
         /\ e.states[f].pending => e.states[f].derivedAt >= e.lastSeen[c][First][f]
    /\ \A j \in DOMAIN em[c][f] :
         em[c][f][j].end < e.states[f].derivedAt => e.derived[f][c] >= em[c][f][j].end

FollowInv == Settled(engine) /\ Following(engine, since.start, emitted)

\* The events from k + 1 on are to come: their candles are in order, and that of the first kind
\* before those of the others.
Same(a, b) == a.con = b.con /\ a.freq = b.freq /\ a.bar.end = b.bar.end

Queue(e, q, k, T) ==
  /\ \A i, j \in DOMAIN q : i <= j => q[i].bar.end <= q[j].bar.end
  /\ \A i \in DOMAIN q : k < i =>
       /\ q[i].bar.end > T /\ Within(e, q[i].bar.end)
       /\ \/ q[i].kind = First
          \/ e.lastSeen[q[i].con][First][q[i].freq] >= q[i].bar.end
          \/ \E j \in DOMAIN q : k < j /\ j < i /\ Same(q[i], q[j]) /\ q[j].kind = First

\* A candle has been seen by the engine or is to come.
Covered(e, q, k, T, em) ==
  \A c \in Instruments, f \in Freqs : \A j \in DOMAIN em[c][f] :
    /\ em[c][f][j].end > T
    /\ \/ em[c][f][j].end <= e.lastSeen[c][First][f]
       \/ \E i \in DOMAIN q : /\ k < i /\ q[i].con = c /\ q[i].kind = First /\ q[i].freq = f
                              /\ q[i].bar.end = em[c][f][j].end

DeskInv ==
  proc # "dead" =>
    /\ Queue(engine, events, 0, since.start)
    /\ Covered(engine, events, 0, since.start, emitted)
    /\ loop.last # -1 =>
         /\ Within(engine, loop.last)
         /\ \A i \in DOMAIN events : events[i].bar.end <= loop.last
    /\ \A j \in DOMAIN bars :
         /\ Within(engine, bars[j].bar.end)
         /\ \A i \in DOMAIN events : events[i].bar.end <= bars[j].bar.end

ReadyInv ==
  /\ engine.processed \/ events # << >> => \E c \in Instruments : published[c] # << >>
  /\ ~ since.recovered => /\ proc = "live" \/ ~ PlanIsServed
                         /\ engine.banks # NoBanks /\ snapshots = << >>

-----------------------------------------------------------------------------
(***************************************************************************)
(* What one event, and a recovery, may do to the engine.                   *)
(***************************************************************************)
\* A row is used again unless the event is of the last one.
Refreshes(u, b, c, kind, bar, recovery) ==
  \/ Rejects(b, bar.end, recovery) /\ u = b
  \/ bar.end = b.end /\ IsWritten(u, b, c, kind, bar, (b.head - 1) % Lookback)
  \/ bar.end # b.end /\ \E n : IsNextRow(n, b, bar.end, kind) /\ IsWritten(u, n, c, kind, bar, b.head)

LEMMA RefreshedBank ==
  ASSUME NEW b \in Bank, NEW c \in Instruments, NEW kind \in KindSet, NEW bar \in Candle,
         NEW recovery \in BOOLEAN
  PROVE  Refreshes(UpdatedBank(b, c, kind, bar, recovery), b, c, kind, bar, recovery)
<1> DEFINE u == UpdatedBank(b, c, kind, bar, recovery)
           n == NextRow(b, bar.end, kind)
<1>1. CASE Rejects(b, bar.end, recovery)
  BY <1>1 DEF UpdatedBank, Refreshes
<1>2. CASE ~ Rejects(b, bar.end, recovery) /\ bar.end = b.end
  <2>1. u = Written(b, c, kind, bar)
    BY <1>2 DEF UpdatedBank
  <2> QED BY <1>2, <2>1, WrittenIs DEF Refreshes
<1>3. CASE ~ Rejects(b, bar.end, recovery) /\ bar.end # b.end
  <2>1. u = Written(n, c, kind, bar)
    BY <1>3 DEF UpdatedBank
  <2>2. bar.end \in Nat
    BY DEF Candle
  <2>3. IsNextRow(n, b, bar.end, kind)
    BY <2>2, NextRowIs
  <2> HIDE DEF n, u
  <2>4. n \in Bank /\ (n.head - 1) % Lookback = b.head
    BY <2>3 DEF IsNextRow
  <2>5. IsWritten(u, n, c, kind, bar, b.head)
    BY <2>1, <2>4, WrittenIs
  <2> QED BY <1>3, <2>3, <2>5 DEF Refreshes, u
<1> QED BY <1>1, <1>2, <1>3

LEMMA RefreshedEnds ==
  ASSUME NEW b \in Bank, NEW c \in Instruments, NEW kind \in KindSet, NEW bar \in Candle,
         NEW recovery, NEW u, Refreshes(u, b, c, kind, bar, recovery)
  PROVE  /\ u.end \in {b.end, bar.end}
         /\ \A r \in 0 .. Lookback - 1 : u.rows[r].end \in {b.rows[r].end, bar.end}
<1>1. b.head \in 0 .. Lookback - 1
  BY DEF Bank
<1>2. (b.head - 1) % Lookback \in 0 .. Lookback - 1
  BY <1>1, LookbackFacts
<1>3. CASE u = b
  BY <1>3
<1>4. CASE bar.end = b.end /\ IsWritten(u, b, c, kind, bar, (b.head - 1) % Lookback)
  <2> DEFINE at == (b.head - 1) % Lookback
  <2>1. IsWritten(u, b, c, kind, bar, at)
    BY <1>4
  <2> HIDE DEF at
  <2>2. u.end = b.end /\ \A r \in 0 .. Lookback - 1 : IF r = at THEN u.rows[r].end = b.rows[r].end
                                                      ELSE u.rows[r] = b.rows[r]
    BY <2>1 DEF IsWritten
  <2> QED BY <2>2
<1>5. CASE bar.end # b.end /\ \E n : IsNextRow(n, b, bar.end, kind) /\ IsWritten(u, n, c, kind, bar, b.head)
  <2>1. PICK n : IsNextRow(n, b, bar.end, kind) /\ IsWritten(u, n, c, kind, bar, b.head)
    BY <1>5
  <2>2. u.end = bar.end
    BY <2>1 DEF IsNextRow, IsWritten
  <2>3. \A r \in 0 .. Lookback - 1 : IF r = b.head THEN u.rows[r].end = n.rows[r].end
                                     ELSE u.rows[r] = n.rows[r]
    BY <2>1 DEF IsWritten
  <2>4. \A r \in 0 .. Lookback - 1 : IF r = b.head THEN n.rows[r].end = bar.end
                                     ELSE n.rows[r] = b.rows[r]
    BY <2>1 DEF IsNextRow
  <2> QED BY <2>2, <2>3, <2>4
<1> QED BY <1>3, <1>4, <1>5 DEF Refreshes

Reasonable(e, t) == Within(e, t) /\ Settled(e)

LEMMA ProcessedWithin ==
  ASSUME NEW e \in TrueEngine, NEW event \in EventSet, NEW recovery \in BOOLEAN,
         NEW t \in Int, event.bar.end <= t, Reasonable(e, t)
  PROVE  Reasonable(Processed(e, event, recovery), t)
<1> DEFINE p == Processed(e, event, recovery)
           f == event.freq
<1>1. CASE ~ IsNew(e, event)
  BY <1>1 DEF Processed
<1>2. CASE IsNew(e, event)
  <2>1. Processing(p, e, event, recovery) /\ e \in Engine /\ TrueBanks(e)
    BY <1>2, ProcessedIs DEF TrueEngine
  <2> HIDE DEF p
  <2>2. /\ event.con \in Instruments /\ event.kind \in KindSet /\ f \in Freqs /\ event.bar \in Candle
    BY DEF EventSet
  <2>3. e.banks # NoBanks /\ p.banks # NoBanks
    BY <2>1, NoBanksIsNone DEF Processing, TrueBanks
  <2>4. e.banks[f] \in Bank /\ BanksWithin(e.banks, t)
    <3>1. e.banks \in [Freqs -> Bank]
      BY <2>1, <2>3 DEF Engine
    <3> QED BY <2>2, <3>1 DEF Reasonable, Within
  <2>5. BanksWithin(p.banks, t)
    <3>1. ASSUME NEW g \in Freqs
          PROVE  p.banks[g].end <= t /\ \A r \in 0 .. Lookback - 1 : p.banks[g].rows[r].end <= t
      <4>1. e.banks[g].end <= t /\ \A r \in 0 .. Lookback - 1 : e.banks[g].rows[r].end <= t
        BY <2>3, <2>4 DEF BanksWithin
      <4>2. CASE g = f
        <5> DEFINE u == UpdatedBank(e.banks[f], event.con, event.kind, event.bar, recovery)
        <5>1. p.banks[g] = u
          BY <4>2, <2>1, <2>2 DEF Processing, BankOf
        <5>2. Refreshes(u, e.banks[f], event.con, event.kind, event.bar, recovery)
          BY <2>2, <2>4, RefreshedBank
        <5> HIDE DEF u
        <5>3. /\ u.end \in {e.banks[f].end, event.bar.end}
              /\ \A r \in 0 .. Lookback - 1 : u.rows[r].end \in {e.banks[f].rows[r].end, event.bar.end}
          BY <2>2, <2>4, <5>2, RefreshedEnds
        <5> QED BY <4>1, <4>2, <5>1, <5>3
      <4>3. CASE g # f
        <5>1. p.banks[g] = e.banks[g]
          BY <4>3, <2>1 DEF Processing
        <5> QED BY <4>1, <5>1
      <4> QED BY <4>2, <4>3
    <3> QED BY <3>1 DEF BanksWithin
  <2>6. \A c \in Instruments, k \in KindSet, g \in Freqs : p.lastSeen[c][k][g] <= t
    <3>1. \A c \in Instruments, k \in KindSet, g \in Freqs :
            p.lastSeen[c][k][g] \in {e.lastSeen[c][k][g], event.bar.end}
      BY <2>1 DEF Processing
    <3> QED BY <3>1 DEF Reasonable, Within
  <2>7. \A g \in Freqs : p.states[g].derivedAt \in {e.states[g].derivedAt, event.bar.end}
    BY <2>1 DEF Processing
  <2>8. Within(p, t)
    BY <2>5, <2>6, <2>7 DEF Within, Reasonable
  <2>9. ASSUME NEW g \in Freqs, Instruments # {}, p.states[g].seen = Instruments
        PROVE  p.states[g].pending
    <3>1. IF DueNow(e, event, g) THEN p.states[g].seen = {}
          ELSE (p.states[g].pending <=> PendingNow(e, event, g)) /\ p.states[g].seen = SeenNow(e, event, g)
      BY <2>1, Zenon DEF Processing
    <3>2. SeenNow(e, event, g) = Instruments => PendingNow(e, event, g)
      BY <2>9 DEF Reasonable, Settled, SeenNow, PendingNow
    <3> QED BY <2>9, <3>1, <3>2
  <2> QED BY <2>8, <2>9 DEF Reasonable, Settled, p
<1> QED BY <1>1, <1>2

LEMMA ProcessedAllWithin ==
  ASSUME NEW e \in TrueEngine, NEW queue \in Seq(EventSet), NEW recovery \in BOOLEAN,
         NEW t \in Int, Reasonable(e, t), \A i \in DOMAIN queue : queue[i].bar.end <= t
  PROVE  ProcessAll(e, queue, recovery) \in TrueEngine /\ Reasonable(ProcessAll(e, queue, recovery), t)
<1> DEFINE V == {x \in TrueEngine : Reasonable(x, t)}
<1>1. \A x \in V : \A i \in DOMAIN queue : Processed(x, queue[i], recovery) \in V
  <2> SUFFICES ASSUME NEW x \in TrueEngine, Reasonable(x, t), NEW i \in DOMAIN queue
               PROVE  /\ Processed(x, queue[i], recovery) \in TrueEngine
                      /\ Reasonable(Processed(x, queue[i], recovery), t)
    OBVIOUS
  <2>1. queue[i] \in EventSet /\ queue[i].bar.end <= t
    OBVIOUS
  <2>2. Reasonable(Processed(x, queue[i], recovery), t)
    BY <2>1, ProcessedWithin
  <2> QED BY <2>1, <2>2, ProcessedIs DEF TrueEngine
<1>2. e \in V
  OBVIOUS
<1> HIDE DEF V
<1>3. PICK tr \in [0 .. Len(queue) -> V] : ProcessTrace(tr, e, queue, recovery)
  BY <1>1, <1>2, ProcessingFolded
<1>4. Len(queue) \in 0 .. Len(queue)
  OBVIOUS
<1>5. ProcessAll(e, queue, recovery) \in V
  BY <1>3, <1>4 DEF ProcessTrace
<1> QED BY <1>5 DEF V

-----------------------------------------------------------------------------
(***************************************************************************)
(* The turn of an instrument, the rest of the queue, and a recovery.       *)
(***************************************************************************)
LEMMA MinExists ==
  ASSUME NEW S \in SUBSET Nat, S # {}
  PROVE  Min(S) \in S /\ \A y \in S : Min(S) <= y
<1>1. \E x \in S : \A y \in S : x <= y
  <2> SUFFICES ASSUME \A x \in S : \E y \in S : y < x PROVE FALSE
    <3>1. \A x, y \in Nat : ~ (x <= y) => y < x
      OBVIOUS
    <3> QED BY <3>1
  <2> DEFINE D == {m \in Nat : \A x \in S : x > m}
  <2>1. 0 \in D
    <3>1. \A x \in S : x > 0
      <4> SUFFICES ASSUME NEW x \in S, ~ (x > 0) PROVE FALSE
        OBVIOUS
      <4>1. PICK y \in S : y < x
        OBVIOUS
      <4> QED BY <4>1
    <3> QED BY <3>1
  <2>2. ASSUME NEW m \in Nat, m \in D PROVE m + 1 \in D
    <3>1. \A x \in S : x > m + 1
      <4> SUFFICES ASSUME NEW x \in S, ~ (x > m + 1) PROVE FALSE
        OBVIOUS
      <4>1. PICK y \in S : y < x
        OBVIOUS
      <4>2. x \in Nat /\ y \in Nat /\ y > m
        BY <2>2
      <4> QED BY <4>1, <4>2
    <3> QED BY <3>1
  <2> HIDE DEF D
  <2>3. Nat \subseteq D
    BY <2>1, <2>2, NaturalInduction
  <2>4. PICK x \in S : TRUE
    OBVIOUS
  <2>5. x \in D /\ x \in Nat
    BY <2>3
  <2> QED BY <2>4, <2>5 DEF D
<1>2. \E x \in S : \A y \in S : x =< y
  BY <1>1
<1> QED BY <1>2 DEF Min

LEMMA TurnIs ==
  ASSUME events \in Seq(EventSet)
  PROVE  Turn \in 0 .. Len(events) /\ Len(events) \in Nat
<1> DEFINE I == {i \in 1 .. Len(events) : events[i].con # Head(events).con}
           other == IF I # {} THEN Min(I) ELSE 0
<1>1. Len(events) \in Nat
  OBVIOUS
<1>2. Turn = IF other = 0 THEN Len(events) ELSE other - 1
  BY DEF Turn, SelectInSeq
<1>3. other \in 0 .. Len(events)
  <2>1. CASE I = {}
    BY <1>1, <2>1
  <2>2. CASE I # {}
    <3>1. I \in SUBSET Nat /\ I \subseteq 1 .. Len(events)
      OBVIOUS
    <3> HIDE DEF I
    <3>2. Min(I) \in I
      BY <2>2, <3>1, MinExists
    <3>3. Min(I) \in 1 .. Len(events)
      BY <3>1, <3>2
    <3>4. other = Min(I)
      BY <2>2
    <3> HIDE DEF other
    <3> QED BY <3>3, <3>4, <1>1
  <2> QED BY <2>1, <2>2
<1> HIDE DEF other
<1> QED BY <1>1, <1>2, <1>3

IsCut(a, b, s, n) ==
  /\ Len(a) = n /\ DOMAIN a = 1 .. n /\ \A i \in 1 .. n : a[i] = s[i]
  /\ Len(b) = Len(s) - n /\ DOMAIN b = 1 .. Len(s) - n
  /\ \A i \in DOMAIN b : b[i] = s[n + i] /\ n + i \in DOMAIN s

LEMMA CutIs ==
  ASSUME NEW S, NEW s \in Seq(S), NEW n \in 0 .. Len(s)
  PROVE  /\ SubSeq(s, 1, n) \in Seq(S) /\ SubSeq(s, n + 1, Len(s)) \in Seq(S)
         /\ IsCut(SubSeq(s, 1, n), SubSeq(s, n + 1, Len(s)), s, n)
<1> DEFINE a == SubSeq(s, 1, n)
           b == SubSeq(s, n + 1, Len(s))
           m == Len(s)
<1>1. m \in Nat /\ n \in Nat /\ DOMAIN s = 1 .. m
  OBVIOUS
<1>2. a \in Seq(S) /\ Len(a) = (IF 1 <= n THEN n - 1 + 1 ELSE 0) /\ \A i \in 1 .. n - 1 + 1 : a[i] = s[1 + i - 1]
  <2>1. 1 \in 1 .. Len(s) + 1 /\ n \in 1 - 1 .. Len(s)
    BY <1>1
  <2> QED BY <2>1, SubSeqProperties
<1>3. /\ b \in Seq(S) /\ Len(b) = (IF n + 1 <= m THEN m - (n + 1) + 1 ELSE 0)
      /\ \A i \in 1 .. m - (n + 1) + 1 : b[i] = s[(n + 1) + i - 1]
  <2>1. n + 1 \in 1 .. Len(s) + 1 /\ Len(s) \in (n + 1) - 1 .. Len(s)
    BY <1>1
  <2> QED BY <2>1, SubSeqProperties
<1> HIDE DEF a, b, m
<1>4. Len(a) = n /\ DOMAIN a = 1 .. n /\ \A i \in 1 .. n : a[i] = s[i]
  <2>1. Len(a) = n
    BY <1>1, <1>2
  <2>2. DOMAIN a = 1 .. n
    BY <2>1, <1>2
  <2>3. \A i \in 1 .. n : i \in 1 .. n - 1 + 1 /\ 1 + i - 1 = i
    BY <1>1
  <2> QED BY <2>1, <2>2, <2>3, <1>2
<1>5. n <= m
  BY DEF m
<1>6. Len(b) = m - n /\ DOMAIN b = 1 .. m - n /\ \A i \in 1 .. m - n : b[i] = s[n + i] /\ n + i \in 1 .. m
  <2>1. Len(b) = m - n
    BY <1>1, <1>3, <1>5
  <2>2. DOMAIN b = 1 .. m - n
    BY <2>1, <1>3
  <2>3. \A i \in 1 .. m - n : i \in 1 .. m - (n + 1) + 1 /\ (n + 1) + i - 1 = n + i /\ n + i \in 1 .. m
    BY <1>1, <1>5
  <2> QED BY <2>1, <2>2, <2>3, <1>3
<1>7. IsCut(a, b, s, n)
  BY <1>1, <1>4, <1>6 DEF IsCut, m
<1> QED BY <1>2, <1>3, <1>7 DEF a, b, m

\* The end of process_candle_events.
IsIdle(i, e) ==
  /\ i \in Engine /\ i.banks = e.banks /\ i.lastSeen = e.lastSeen /\ i.states = e.states
  /\ i.latest = e.latest /\ i.derived = e.derived

LEMMA IdleIs ==
  ASSUME NEW e \in Engine
  PROVE  /\ IsIdle([e EXCEPT !.processed = FALSE], e)
         /\ [e EXCEPT !.processed = FALSE].cross = e.cross
         /\ [e EXCEPT !.processed = FALSE].processed = FALSE
         /\ IsIdle([e EXCEPT !.processed = FALSE, !.cross = NothingMissed], e)
         /\ [e EXCEPT !.processed = FALSE, !.cross = NothingMissed].cross = NothingMissed
         /\ [e EXCEPT !.processed = FALSE, !.cross = NothingMissed].processed = FALSE
<1> DEFINE i == [e EXCEPT !.processed = FALSE]
           j == [e EXCEPT !.processed = FALSE, !.cross = NothingMissed]
<1>1. NothingMissed \in [Freqs -> SUBSET Instruments]
  BY FreshFacts
<1>2. /\ i.banks = e.banks /\ i.lastSeen = e.lastSeen /\ i.states = e.states
      /\ i.latest = e.latest /\ i.derived = e.derived /\ i.cross = e.cross /\ i.processed = FALSE
  BY DEF Engine
<1>3. /\ j.banks = e.banks /\ j.lastSeen = e.lastSeen /\ j.states = e.states
      /\ j.latest = e.latest /\ j.derived = e.derived /\ j.cross = NothingMissed /\ j.processed = FALSE
  BY DEF Engine
<1>4. i \in Engine
  BY DEF Engine
<1>5. j \in Engine
  BY <1>1 DEF Engine
<1> HIDE DEF i, j
<1>6. IsIdle(i, e) /\ IsIdle(j, e)
  BY <1>2, <1>3, <1>4, <1>5 DEF IsIdle
<1> QED BY <1>2, <1>3, <1>6 DEF i, j

LEMMA PushedAlike ==
  ASSUME NEW all \in CascadeMap, NEW c \in Instruments, NEW bar \in Candle, SameKinds(all)
  PROVE  SameKinds(PushedBar(all, c, bar))
<1> SUFFICES ASSUME NEW d \in Instruments, NEW k \in KindSet
             PROVE  PushedBar(all, c, bar)[d][k] = PushedBar(all, c, bar)[d][First]
  BY DEF SameKinds
<1>1. First \in KindSet /\ all[d][k] = all[d][First]
  BY KindFacts DEF SameKinds
<1>2. CASE d = c
  BY <1>1, <1>2, PushedBarIs
<1>3. CASE d # c
  BY <1>1, <1>3, PushedBarIs
<1> QED BY <1>2, <1>3

LEMMA IngestedWithin ==
  ASSUME NEW all \in CascadeMap, NEW gap \in Seq(BarSet), NEW t \in Int,
         \A i \in DOMAIN gap : gap[i].bar.end <= t
  PROVE  /\ Ingested(all, gap) \in Ingestion
         /\ SameKinds(all) => SameKinds(Ingested(all, gap).all)
         /\ \A i \in DOMAIN Ingested(all, gap).events : Ingested(all, gap).events[i].bar.end <= t
<1> DEFINE n == Len(gap)
           Good(v) == /\ SameKinds(all) => SameKinds(v.all)
                      /\ \A i \in DOMAIN v.events : v.events[i].bar.end <= t
<1>1. n \in Nat /\ DOMAIN gap = 1 .. n /\ \A i \in 1 .. n : gap[i] \in BarSet
  OBVIOUS
<1>2. PICK tr \in [0 .. n -> Ingestion] :
        /\ tr[0] = [all |-> all, events |-> << >>] /\ tr[n] = Ingested(all, gap)
        /\ \A i \in 1 .. n : tr[i] = IngestedBar(tr[i - 1], gap[i])
  BY IngestedIs
<1>3. ASSUME NEW v \in Ingestion, NEW i \in 1 .. n, Good(v) PROVE Good(IngestedBar(v, gap[i]))
  <2> DEFINE b == gap[i]
             q == EventsOf(v.all, b.con, b.bar)
             w == IngestedBar(v, b)
             u == v.events \o q
  <2>1. v.all \in CascadeMap /\ v.events \in Seq(EventSet) /\ b.con \in Instruments /\ b.bar \in Candle
        /\ b.bar.end <= t
    BY <1>1 DEF Ingestion, BarSet
  <2>2. w.all = PushedBar(v.all, b.con, b.bar) /\ w.events = u
    BY DEF IngestedBar
  <2>3. PICK kind : Announces(q, v.all, b.con, b.bar, kind)
    BY <2>1, EventsOfIs
  <2>4. q \in Seq(EventSet) /\ \A j \in DOMAIN q : q[j].bar.end = b.bar.end
    BY <2>3 DEF Announces
  <2> HIDE DEF b, q, w
  <2>5. Joins(u, v.events, q)
    BY <2>1, <2>4, Joined
  <2> HIDE DEF u
  <2>6. ASSUME NEW j \in DOMAIN w.events PROVE w.events[j].bar.end <= t
    <3>1. \A i0 \in DOMAIN v.events : v.events[i0].bar.end <= t
      BY <1>3
    <3>2. \/ \E k \in DOMAIN v.events : w.events[j] = v.events[k]
          \/ \E k \in DOMAIN q : w.events[j] = q[k]
      BY <2>2, <2>5 DEF Joins
    <3> HIDE DEF Good
    <3> QED BY <3>1, <3>2, <2>1, <2>4
  <2>7. SameKinds(all) => SameKinds(w.all)
    BY <1>3, <2>1, <2>2, PushedAlike
  <2> QED BY <2>6, <2>7 DEF b, w
<1> DEFINE D == {i \in Nat : i <= n => Good(tr[i])}
<1>4. 0 \in D
  BY <1>2
<1>5. ASSUME NEW i \in Nat, i \in D PROVE i + 1 \in D
  <2> SUFFICES ASSUME i + 1 <= n PROVE Good(tr[i + 1])
    OBVIOUS
  <2>1. Good(tr[i])
    <3>1. i <= n
      BY <1>1
    <3> HIDE DEF n, Good
    <3> QED BY <3>1, <1>5
  <2>2. i + 1 \in 1 .. n /\ (i + 1) - 1 = i /\ i \in 0 .. n
    BY <1>1
  <2> HIDE DEF n, Good
  <2>3. tr[i + 1] = IngestedBar(tr[i], gap[i + 1]) /\ tr[i] \in Ingestion
    <3>1. tr[i + 1] = IngestedBar(tr[(i + 1) - 1], gap[i + 1])
      BY <1>2, <2>2
    <3> QED BY <3>1, <1>2, <2>2
  <2> QED BY <2>1, <2>2, <2>3, <1>3
<1> HIDE DEF D
<1>6. Nat \subseteq D
  BY <1>4, <1>5, NaturalInduction
<1>7. Good(tr[n]) /\ tr[n] \in Ingestion
  <2>1. n \in D /\ n \in 0 .. n
    BY <1>1, <1>6
  <2> QED BY <1>1, <1>2, <2>1 DEF D
<1> QED BY <1>2, <1>7

LEMMA FreshWithin ==
  ASSUME NEW banks \in BankFile, NEW t \in Nat, BanksWithin(banks, t)
  PROVE  Reasonable(FreshEngine(banks), t)
<1> DEFINE fresh == FreshEngine(banks)
<1>1. /\ \A c \in Instruments, k \in KindSet, f \in Freqs : fresh.lastSeen[c][k][f] = -1
      /\ \A f \in Freqs : fresh.states[f].derivedAt = -1 /\ fresh.states[f].seen = {}
      /\ fresh.banks = banks
  BY DEF FreshEngine
<1>2. Within(fresh, t)
  BY <1>1 DEF Within
<1>3. Settled(fresh)
  BY <1>1 DEF Settled
<1> QED BY <1>2, <1>3 DEF Reasonable

LEMMA WithinLater ==
  ASSUME NEW e \in Engine, NEW t \in Int, NEW u \in Int, t <= u
  PROVE  /\ Within(e, t) => Within(e, u)
         /\ \A banks \in BankFile : BanksWithin(banks, t) => BanksWithin(banks, u)
<1>1. ASSUME NEW banks \in {NoBanks} \cup [Freqs -> Bank], BanksWithin(banks, t) PROVE BanksWithin(banks, u)
  <2> SUFFICES ASSUME banks # NoBanks, NEW f \in Freqs
               PROVE  banks[f].end <= u /\ \A r \in 0 .. Lookback - 1 : banks[f].rows[r].end <= u
    BY DEF BanksWithin
  <2>1. banks[f] \in Bank
    OBVIOUS
  <2>2. banks[f].end \in Int /\ \A r \in 0 .. Lookback - 1 : banks[f].rows[r].end \in Int
    <3>1. banks[f].rows \in [0 .. Lookback - 1 -> Row] /\ banks[f].end \in Int
      BY <2>1 DEF Bank, Time
    <3>2. \A row \in Row : row.end \in Int
      BY DEF Row
    <3> QED BY <3>1, <3>2
  <2>3. banks[f].end <= t /\ \A r \in 0 .. Lookback - 1 : banks[f].rows[r].end <= t
    BY <1>1 DEF BanksWithin
  <2> QED BY <2>2, <2>3
<1>2. ASSUME Within(e, t) PROVE Within(e, u)
  <2>1. BanksWithin(e.banks, u)
    BY <1>1, <1>2 DEF Within, Engine
  <2>2. \A c \in Instruments, k \in KindSet, f \in Freqs : e.lastSeen[c][k][f] \in Int
    BY DEF Engine, Time
  <2>3. \A f \in Freqs : e.states[f].derivedAt \in Int
    BY DEF Engine, State, Time
  <2>4. \A c \in Instruments, k \in KindSet, f \in Freqs : e.lastSeen[c][k][f] <= u
    BY <1>2, <2>2 DEF Within
  <2>5. \A f \in Freqs : e.states[f].derivedAt <= u
    BY <1>2, <2>3 DEF Within
  <2> QED BY <2>1, <2>4, <2>5 DEF Within
<1>3. \A banks \in BankFile : banks \in {NoBanks} \cup [Freqs -> Bank]
  BY DEF BankFile
<1> QED BY <1>1, <1>2, <1>3

Recovered(all) == IF CannotFill(files.banks.data) THEN << >> ELSE GapBars(files.banks.data, all)
Rebuilt == Ingested(files.manager.data, Recovered(files.manager.data))
Filled == ProcessAll(FreshEngine(files.banks.data), Rebuilt.events, TRUE)

\* What a recovery leaves, whatever the two files hold.
LEMMA RecoveredIs ==
  ASSUME files.banks.data \in BankFile, files.manager.data \in CascadeMap, now \in Nat,
         BanksWithin(files.banks.data, now)
  PROVE  /\ Rebuilt.all \in CascadeMap
         /\ SameKinds(files.manager.data) => SameKinds(Rebuilt.all)
         /\ Filled \in Engine /\ Filled.banks \in BankFile
         /\ Reasonable(Filled, now)
<1> DEFINE banks == files.banks.data
           all == files.manager.data
           gap == Recovered(all)
           fresh == FreshEngine(banks)
<1>1. banks \in {NoBanks} \cup [Freqs -> Bank]
  BY DEF BankFile
<1>2. fresh \in Engine /\ fresh.banks = banks
  BY <1>1, FreshFacts DEF FreshEngine
<1>3. Reasonable(fresh, now)
  BY FreshWithin
<1>4. gap \in Seq(BarSet) /\ \A i \in DOMAIN gap : gap[i].bar.end <= now
  <2>1. CASE CannotFill(banks)
    BY <2>1 DEF Recovered
  <2>2. CASE ~ CannotFill(banks)
    <3>1. gap = GapBars(banks, all)
      BY <2>2 DEF Recovered
    <3> QED BY <2>2, <3>1, GapBarsAre
  <2> QED BY <2>1, <2>2
<1> HIDE DEF fresh, gap
<1>5. /\ Rebuilt \in Ingestion
      /\ SameKinds(all) => SameKinds(Rebuilt.all)
      /\ \A i \in DOMAIN Rebuilt.events : Rebuilt.events[i].bar.end <= now
  BY <1>4, IngestedWithin DEF Rebuilt, gap
<1>6. Rebuilt.all \in CascadeMap /\ Rebuilt.events \in Seq(EventSet)
  BY <1>5 DEF Ingestion
<1>7. CASE CannotFill(banks)
  <2>1. gap = << >>
    BY <1>7 DEF gap, Recovered
  <2>2. Rebuilt = Ingested(all, << >>)
    BY <2>1 DEF Rebuilt, gap
  <2>3. Rebuilt.events = << >>
    <3>1. << >> \in Seq(BarSet) /\ Len(<< >>) = 0
      OBVIOUS
    <3>2. PICK t \in [0 .. Len(<< >>) -> Ingestion] :
            /\ t[0] = [all |-> all, events |-> << >>] /\ t[Len(<< >>)] = Ingested(all, << >>)
      BY <3>1, IngestedIs
    <3> QED BY <3>1, <3>2, <2>2
  <2>4. Filled = fresh
    BY <2>3, ProcessNothing DEF Filled, fresh
  <2> QED BY <2>4, <1>2, <1>3, <1>5, <1>6
<1>8. CASE ~ CannotFill(banks)
  <2>1. banks \in [Freqs -> Bank] /\ \A f \in Freqs : BankIsTrue(banks[f])
    BY <1>8, BankFileIs
  <2>2. fresh \in TrueEngine
    BY <1>2, <2>1, NoBanksIsNone DEF TrueEngine, TrueBanks
  <2>3. Filled \in TrueEngine /\ Reasonable(Filled, now)
    <3>1. Filled = ProcessAll(fresh, Rebuilt.events, TRUE)
      BY DEF Filled, fresh
    <3>2. now \in Int /\ TRUE \in BOOLEAN /\ Rebuilt.events \in Seq(EventSet)
      BY <1>6
    <3>3. \A i \in DOMAIN Rebuilt.events : Rebuilt.events[i].bar.end <= now
      BY <1>5
    <3> HIDE DEF banks, all
    <3> QED BY <3>1, <3>2, <3>3, <1>3, <2>2, ProcessedAllWithin
  <2>4. Filled \in Engine /\ TrueBanks(Filled)
    BY <2>3 DEF TrueEngine
  <2>5. Filled.banks \in BankFile
    BY <2>4 DEF Engine, TrueBanks, BankFile
  <2> QED BY <2>3, <2>4, <2>5, <1>5, <1>6
<1> QED BY <1>7, <1>8

-----------------------------------------------------------------------------
(***************************************************************************)
(* The steps that need more than their own text.                           *)
(***************************************************************************)
Con == bars[1].con
Bar == bars[1].bar

Ingests ==
  /\ proc = "live" /\ loop.at = "run" /\ bars # << >>
  /\ Con \in Instruments /\ Bar \in Candle
  /\ bars' = Tail(bars)
  /\ cascades' = PushedBar(cascades, Con, Bar)
  /\ events' = events \o EventsOf(cascades, Con, Bar)
  /\ published' \in [Instruments -> Seq(Candle)]
  /\ \A c \in Instruments : published'[c] = IF c = Con THEN Append(published[c], Bar) ELSE published[c]
  /\ emitted' \in [Instruments -> [Freqs -> Seq(Candle)]]
  /\ \A c \in Instruments :
       emitted'[c] = IF c = Con THEN Raised(emitted[c], Risen(cascades[c][First], Bar)) ELSE emitted[c]
  /\ UNCHANGED <<now, proc, crashes, loop, engine, snapshots, saver, files, delivered, since>>

LEMMA IngestIs == ASSUME TypeInv, IngestBar PROVE Ingests
<1>1. bars \in Seq(BarSet) /\ bars # << >>
  BY DEF TypeInv, IngestBar
<1>2. Head(bars) = bars[1] /\ bars[1] \in BarSet
  BY <1>1, TailIs
<1>3. Con \in Instruments /\ Bar \in Candle /\ Head(bars).con = Con /\ Head(bars).bar = Bar
  BY <1>2 DEF Con, Bar, BarSet
<1> DEFINE up == Risen(cascades[Con][First], Bar)
           lane == [f \in Freqs |-> LET candle == up[f]
                                    IN IF candle = None THEN emitted[Con][f] ELSE Append(emitted[Con][f], candle)]
<1>4. /\ proc = "live" /\ loop.at = "run" /\ bars' = Tail(bars)
      /\ cascades' = PushedBar(cascades, Con, Bar)
      /\ events' = events \o EventsOf(cascades, Con, Bar)
      /\ published' = [published EXCEPT ![Con] = Append(published[Con], Bar)]
      /\ emitted' = [emitted EXCEPT ![Con] = lane]
      /\ UNCHANGED <<now, proc, crashes, loop, engine, snapshots, saver, files, delivered, since>>
  BY <1>3 DEF IngestBar, disk
<1>5. lane = Raised(emitted[Con], up)
  BY DEF Raised
<1>6. up \in [Freqs -> CandleOrNone] /\ cascades \in CascadeMap
  <2>1. cascades[Con][First] \in Cascade /\ cascades \in CascadeMap
    BY <1>3, KindFacts DEF TypeInv, CascadeMap
  <2> QED BY <2>1, <1>3, RisenIs
<1>7. published \in [Instruments -> Seq(Candle)] /\ emitted \in [Instruments -> [Freqs -> Seq(Candle)]]
  BY DEF TypeInv
<1> HIDE DEF up
<1>8. lane \in [Freqs -> Seq(Candle)]
  <2>1. ASSUME NEW f \in Freqs
        PROVE  (IF up[f] = None THEN emitted[Con][f] ELSE Append(emitted[Con][f], up[f])) \in Seq(Candle)
    <3>1. emitted[Con][f] \in Seq(Candle) /\ up[f] \in CandleOrNone
      BY <1>3, <1>6, <1>7
    <3> QED BY <3>1 DEF CandleOrNone
  <2> QED BY <2>1
<1> HIDE DEF lane
<1>9. /\ published' \in [Instruments -> Seq(Candle)]
      /\ \A c \in Instruments : published'[c] = IF c = Con THEN Append(published[c], Bar) ELSE published[c]
  <2> DEFINE more == Append(published[Con], Bar)
  <2>1. more \in Seq(Candle)
    BY <1>3, <1>7
  <2>2. published' = [published EXCEPT ![Con] = more]
    BY <1>4
  <2> HIDE DEF more
  <2>3. /\ published' \in [Instruments -> Seq(Candle)]
        /\ \A c \in Instruments : published'[c] = IF c = Con THEN more ELSE published[c]
    BY <2>1, <2>2, <1>7
  <2> QED BY <2>3 DEF more
<1>10. /\ emitted' \in [Instruments -> [Freqs -> Seq(Candle)]]
       /\ \A c \in Instruments : emitted'[c] = IF c = Con THEN lane ELSE emitted[c]
  BY <1>4, <1>7, <1>8
<1> QED BY <1>1, <1>3, <1>4, <1>5, <1>9, <1>10 DEF Ingests, up

\* The events of the turn are processed, unless there are no banks.
Processes ==
  LET a == SubSeq(events, 1, Turn)
      b == SubSeq(events, Turn + 1, Len(events))
  IN /\ proc = "live" /\ loop.at = "run" /\ bars = << >> /\ events # << >>
     /\ a \in Seq(EventSet) /\ b \in Seq(EventSet) /\ IsCut(a, b, events, Turn)
     /\ Turn \in 0 .. Len(events) /\ Len(events) \in Nat
     /\ events' = b
     /\ \/ proc' = "dead" /\ engine.banks = NoBanks /\ engine' = engine
        \/ /\ proc' = "live" /\ engine \in TrueEngine
           /\ engine' = ProcessAll(engine, a, FALSE)
     /\ UNCHANGED <<now, crashes, loop, bars, cascades, snapshots, saver, files, delivered,
                    published, emitted, since>>

LEMMA ProcessIs == ASSUME TypeInv, ProcessEvents PROVE Processes
<1> DEFINE a == SubSeq(events, 1, Turn)
           b == SubSeq(events, Turn + 1, Len(events))
<1>1. events \in Seq(EventSet) /\ engine \in Engine /\ engine.banks \in BankFile
  BY DEF TypeInv
<1>2. Turn \in 0 .. Len(events) /\ Len(events) \in Nat
  BY <1>1, TurnIs
<1>3. a \in Seq(EventSet) /\ b \in Seq(EventSet) /\ IsCut(a, b, events, Turn)
  BY <1>1, <1>2, CutIs
<1>4. engine.banks # NoBanks => engine \in TrueEngine
  BY <1>1 DEF BankFile, TrueEngine, TrueBanks
<1>5. /\ proc = "live" /\ loop.at = "run" /\ bars = << >> /\ events # << >> /\ events' = b
      /\ IF engine.banks = NoBanks THEN proc' = "dead" /\ engine' = engine
         ELSE engine' = ProcessAll(engine, a, FALSE) /\ proc' = proc
      /\ UNCHANGED <<now, crashes, loop, bars, cascades, snapshots, saver, files, delivered,
                     published, emitted, since>>
  BY DEF ProcessEvents, disk, history
<1> HIDE DEF a, b
<1> QED BY <1>2, <1>3, <1>4, <1>5 DEF Processes, a, b

Recovers ==
  /\ proc = "down" /\ proc' = "recovered"
  /\ cascades' = Rebuilt.all
  /\ engine' = [Filled EXCEPT !.processed = FALSE, !.cross = NothingMissed]
  /\ snapshots' = IF Filled.processed THEN <<HasFeatures(Filled)>> ELSE << >>
  /\ saver' = [jobs |-> IF CannotFill(files.banks.data) THEN 0 ELSE 1, at |-> "banks"]
  /\ since' = [since EXCEPT !.start = now]
  /\ UNCHANGED <<now, crashes, loop, bars, events, files, delivered, published, emitted>>

LEMMA RecoverIs == ASSUME Recover PROVE Recovers
BY DEF Recover, Recovers, Rebuilt, Filled, Recovered

-----------------------------------------------------------------------------
(***************************************************************************)
(* The types, and where runtime_loop is.                                   *)
(***************************************************************************)
Base == TypeInv /\ PlaceInv /\ FrontInv /\ KindsInv /\ TimeInv /\ Settled(engine)

LEMMA FreshTypes ==
  /\ [f \in Freqs |-> EmptyBank] \in BankFile /\ NoBanks \in BankFile
  /\ \A banks \in BankFile : FreshEngine(banks) \in Engine /\ FreshEngine(banks).banks = banks
  /\ FreshCascades \in CascadeMap
  /\ NoHistory(<< >>) \in [Instruments -> Seq(Candle)]
  /\ NoHistory([f \in Freqs |-> << >>]) \in [Instruments -> [Freqs -> Seq(Candle)]]
  /\ FreshLoop \in LoopSet
<1>1. [f \in Freqs |-> EmptyBank] \in BankFile /\ NoBanks \in BankFile
  BY FreshFacts DEF BankFile
<1>2. \A banks \in BankFile : banks \in {NoBanks} \cup [Freqs -> Bank]
  BY DEF BankFile
<1>3. \A banks \in BankFile : FreshEngine(banks) \in Engine /\ FreshEngine(banks).banks = banks
  BY <1>2, FreshFacts DEF FreshEngine
<1>4. NoHistory(<< >>) \in [Instruments -> Seq(Candle)]
  BY DEF NoHistory
<1>5. NoHistory([f \in Freqs |-> << >>]) \in [Instruments -> [Freqs -> Seq(Candle)]]
  BY DEF NoHistory
<1>6. FreshLoop \in LoopSet
  BY DEF FreshLoop, LoopSet, Time
<1> QED BY <1>1, <1>3, <1>4, <1>5, <1>6, FreshFacts

LEMMA TypeInit == Init => TypeInv /\ PlaceInv
<1> SUFFICES ASSUME Init PROVE TypeInv /\ PlaceInv
  OBVIOUS
<1>1. now \in 0 .. MaxTime
  BY MarketDataAssumption DEF Init
<1>2. engine \in Engine /\ engine.banks \in BankFile
  BY FreshTypes DEF Init
<1>3. files \in [banks : FileSet(BankFile), manager : FileSet(CascadeMap)]
  BY FreshTypes DEF Init, File, FileSet
<1>4. saver \in [jobs : Nat, at : {"banks", "manager"}] /\ since \in [start : Nat, recovered : BOOLEAN]
  BY DEF Init
<1>5. /\ published \in [Instruments -> Seq(Candle)] /\ emitted \in [Instruments -> [Freqs -> Seq(Candle)]]
      /\ loop \in LoopSet /\ cascades \in CascadeMap
  BY FreshTypes DEF Init
<1>6. /\ bars = << >> /\ events = << >> /\ snapshots = << >> /\ proc = "live"
  BY DEF Init
<1> QED BY <1>1, <1>2, <1>3, <1>4, <1>5, <1>6 DEF TypeInv, PlaceInv

LEMMA TypeStep == Base /\ [Next]_vars => TypeInv' /\ PlaceInv'
<1> SUFFICES ASSUME Base, [Next]_vars PROVE TypeInv' /\ PlaceInv'
  OBVIOUS
<1> USE DEF Base
<1>0. /\ now \in 0 .. MaxTime /\ now \in Nat /\ now <= MaxTime
      /\ loop \in LoopSet /\ loop.last \in Time /\ loop.minute \in Int
      /\ saver \in [jobs : Nat, at : {"banks", "manager"}] /\ saver.jobs \in Nat
      /\ since \in [start : Nat, recovered : BOOLEAN]
  <2>1. /\ now \in 0 .. MaxTime /\ loop \in LoopSet /\ saver \in [jobs : Nat, at : {"banks", "manager"}]
        /\ since \in [start : Nat, recovered : BOOLEAN] /\ MaxTime \in Nat
    BY MarketDataAssumption DEF TypeInv
  <2>2. loop.last \in Time /\ loop.minute \in Int
    BY <2>1 DEF LoopSet
  <2> QED BY <2>1, <2>2
<1>1. CASE TimePasses
  <2>1. now' \in 0 .. MaxTime
    BY <1>1, MarketDataAssumption DEF TimePasses, TypeInv
  <2>2. UNCHANGED <<proc, loop, bars, cascades, events, engine, snapshots, saver, files, published, emitted, since>>
    BY <1>1 DEF TimePasses, hub, disk, history
  <2> QED BY <2>1, <2>2 DEF TypeInv, PlaceInv
<1>2. CASE StartTick
  <2>1. bars' \in Seq(BarSet)
    <3>1. CASE loop.last = -1
      BY <1>2, <3>1 DEF StartTick
    <3>2. CASE loop.last # -1
      <4>1. loop.last \in Nat /\ now \in Nat /\ now <= MaxTime /\ loop.last <= now
        BY <3>2, MarketDataAssumption DEF TypeInv, LoopSet, Time, FrontInv
      <4>2. bars' = BarsBetween(loop.last, now)
        BY <1>2, <3>2 DEF StartTick, NewBars, BarsBetween
      <4> QED BY <4>1, <4>2, BarsBetweenQueued DEF Queued
    <3> QED BY <3>1, <3>2
  <2>2. loop' \in LoopSet /\ loop'.at = "run"
    <3>1. loop' = [loop EXCEPT !.at = "run", !.last = now]
      BY <1>2 DEF StartTick
    <3>2. now \in Time
      BY <1>0 DEF Time
    <3> QED BY <3>1, <3>2, <1>0 DEF LoopSet
  <2>3. UNCHANGED <<now, proc, cascades, events, engine, snapshots, saver, files, published, emitted, since>>
    BY <1>2 DEF StartTick, disk, history
  <2>4. proc = "live"
    BY <1>2 DEF StartTick
  <2> QED BY <2>1, <2>2, <2>3, <2>4 DEF TypeInv, PlaceInv
<1>3. CASE IngestBar
  <2>1. Ingests
    BY <1>3, IngestIs
  <2>2. bars' \in Seq(BarSet)
    <3>1. bars \in Seq(BarSet) /\ bars # << >>
      BY <2>1 DEF TypeInv, Ingests
    <3> QED BY <2>1, <3>1, TailIs DEF Ingests
  <2>3. cascades' \in CascadeMap
    BY <2>1, PushedBarIs DEF Ingests, TypeInv
  <2>4. events' \in Seq(EventSet)
    <3>1. EventsOf(cascades, Con, Bar) \in Seq(EventSet) /\ events \in Seq(EventSet)
      BY <2>1, EventsOfIs DEF Ingests, TypeInv, Announces
    <3> QED BY <2>1, <3>1, ConcatIs DEF Ingests
  <2>5. /\ published' \in [Instruments -> Seq(Candle)]
        /\ emitted' \in [Instruments -> [Freqs -> Seq(Candle)]]
        /\ UNCHANGED <<now, proc, crashes, loop, engine, snapshots, saver, files, delivered, since>>
        /\ proc = "live" /\ loop.at = "run"
    BY <2>1 DEF Ingests
  <2> QED BY <2>2, <2>3, <2>4, <2>5 DEF TypeInv, PlaceInv
<1>4. CASE ProcessEvents
  <2>1. Processes
    BY <1>4, ProcessIs
  <2>2. engine' \in Engine /\ engine'.banks \in BankFile
    <3>1. CASE engine' = engine
      BY <3>1 DEF TypeInv
    <3>2. CASE engine \in TrueEngine /\ engine' = ProcessAll(engine, SubSeq(events, 1, Turn), FALSE)
      <4>1. SubSeq(events, 1, Turn) \in Seq(EventSet)
        BY <2>1 DEF Processes
      <4>2. engine' \in TrueEngine
        BY <3>2, <4>1, ProcessAllIs
      <4> QED BY <4>2 DEF TrueEngine, TrueBanks, Engine, BankFile
    <3> QED BY <2>1, <3>1, <3>2 DEF Processes
  <2>3. events' \in Seq(EventSet)
    BY <2>1 DEF Processes
  <2>4. /\ UNCHANGED <<now, crashes, loop, bars, cascades, snapshots, saver, files, delivered,
                       published, emitted, since>>
        /\ proc' \in {"live", "dead"} /\ loop.at = "run"
    BY <2>1 DEF Processes
  <2> QED BY <2>2, <2>3, <2>4 DEF TypeInv, PlaceInv
<1>5. CASE FinishTick
  <2>1. engine' \in Engine /\ engine'.banks \in BankFile
    BY <1>5, IdleIs DEF FinishTick, TypeInv, IsIdle
  <2>2. snapshots' \in Seq(SUBSET Instruments)
    <3> DEFINE ready == IF engine.processed THEN Append(snapshots, HasFeatures(engine)) ELSE snapshots
    <3>1. HasFeatures(engine) \in SUBSET Instruments /\ snapshots \in Seq(SUBSET Instruments)
      BY DEF HasFeatures, TypeInv
    <3>2. ready \in Seq(SUBSET Instruments)
      BY <3>1
    <3>3. snapshots' = IF ready = << >> THEN << >> ELSE Tail(ready)
      BY <1>5 DEF FinishTick
    <3> HIDE DEF ready
    <3>4. CASE ready = << >>
      BY <3>3, <3>4
    <3>5. CASE ready # << >>
      BY <3>2, <3>3, <3>5, TailIs
    <3> QED BY <3>4, <3>5
  <2>3. loop' \in LoopSet /\ saver' \in [jobs : Nat, at : {"banks", "manager"}]
        /\ proc' \in {"live", "dead"}
    <3> DEFINE minute == loop.last \div Period(GapFreq)
    <3>1. minute \in Int
      <4>1. Period(GapFreq) \in Nat /\ Period(GapFreq) > 0 /\ loop.last \in Int
        BY PeriodFacts, MarketDataAssumption DEF TypeInv, LoopSet, Time
      <4> QED BY <4>1
    <3>2. loop' = loop \/ loop' = [loop EXCEPT !.at = "tick", !.minute = minute]
      BY <1>5 DEF FinishTick
    <3>3. saver' = saver \/ saver' = [saver EXCEPT !.jobs = saver.jobs + 1]
      BY <1>5 DEF FinishTick
    <3>4. proc = "live" /\ proc' \in {proc, "dead"}
      BY <1>5 DEF FinishTick
    <3> HIDE DEF minute
    <3>5. loop' \in LoopSet
      BY <3>1, <3>2, <1>0 DEF LoopSet
    <3>6. saver' \in [jobs : Nat, at : {"banks", "manager"}]
      BY <3>3, <1>0
    <3> QED BY <3>4, <3>5, <3>6
  <2>4. /\ UNCHANGED <<now, bars, cascades, events, files, published, emitted, since>>
        /\ bars = << >> /\ events = << >>
    BY <1>5 DEF FinishTick, hub
  <2> QED BY <2>1, <2>2, <2>3, <2>4 DEF TypeInv, PlaceInv
<1>6. CASE SaveBanks
  <2>1. files' \in [banks : FileSet(BankFile), manager : FileSet(CascadeMap)]
    BY <1>6 DEF SaveBanks, File, FileSet, TypeInv
  <2>2. saver' \in [jobs : Nat, at : {"banks", "manager"}]
    BY <1>6 DEF SaveBanks, TypeInv
  <2>3. UNCHANGED <<now, proc, loop, bars, cascades, events, engine, snapshots, published, emitted, since>>
    BY <1>6 DEF SaveBanks, hub, history
  <2> QED BY <2>1, <2>2, <2>3 DEF TypeInv, PlaceInv
<1>7. CASE SaveManager
  <2>1. files' \in [banks : FileSet(BankFile), manager : FileSet(CascadeMap)]
    BY <1>7 DEF SaveManager, File, FileSet, TypeInv
  <2>2. saver' \in [jobs : Nat, at : {"banks", "manager"}]
    BY <1>7 DEF SaveManager, Saves, TypeInv
  <2>3. UNCHANGED <<now, proc, loop, bars, cascades, events, engine, snapshots, published, emitted, since>>
    BY <1>7 DEF SaveManager, hub, history
  <2> QED BY <2>1, <2>2, <2>3 DEF TypeInv, PlaceInv
<1>8. CASE Crash
  <2>1. files' \in [banks : FileSet(BankFile), manager : FileSet(CascadeMap)]
    <3>1. CASE files' = files
      BY <3>1 DEF TypeInv
    <3>2. CASE files' = [files EXCEPT ![saver.at].is = "torn"]
      <4>1. saver.at \in {"banks", "manager"}
        BY DEF TypeInv
      <4>2. CASE saver.at = "banks"
        <5>1. files' = [files EXCEPT !["banks"].is = "torn"]
          BY <3>2, <4>2
        <5> QED BY <5>1 DEF FileSet, TypeInv
      <4>3. CASE saver.at = "manager"
        <5>1. files' = [files EXCEPT !["manager"].is = "torn"]
          BY <3>2, <4>3
        <5> QED BY <5>1 DEF FileSet, TypeInv
      <4> QED BY <4>1, <4>2, <4>3
    <3> QED BY <1>8, <3>1, <3>2 DEF Crash
  <2>2. engine' \in Engine /\ engine'.banks \in BankFile /\ cascades' \in CascadeMap
    BY <1>8, FreshTypes DEF Crash
  <2>3. since' = [start |-> now, recovered |-> TRUE] /\ now' = now /\ now \in Nat
    BY <1>8, MarketDataAssumption DEF Crash, TypeInv
  <2>4. /\ published' = NoHistory(<< >>) /\ emitted' = NoHistory([f \in Freqs |-> << >>])
        /\ loop' = FreshLoop /\ bars' = << >> /\ events' = << >> /\ snapshots' = << >>
        /\ saver' = [jobs |-> 0, at |-> "banks"] /\ proc' = "down"
    BY <1>8 DEF Crash
  <2>5. TypeInv'
    <3>1. /\ now' \in 0 .. MaxTime /\ proc' \in {"live", "recovered", "down", "dead"}
          /\ since' \in [start : Nat, recovered : BOOLEAN]
      BY <1>0, <2>3, <2>4
    <3>2. /\ bars' \in Seq(BarSet) /\ events' \in Seq(EventSet) /\ snapshots' \in Seq(SUBSET Instruments)
          /\ saver' \in [jobs : Nat, at : {"banks", "manager"}]
      BY <2>4
    <3>3. /\ loop' \in LoopSet /\ published' \in [Instruments -> Seq(Candle)]
          /\ emitted' \in [Instruments -> [Freqs -> Seq(Candle)]]
      BY <2>4, FreshTypes
    <3> QED BY <2>1, <2>2, <3>1, <3>2, <3>3 DEF TypeInv
  <2>6. PlaceInv'
    BY <2>3, <2>4 DEF PlaceInv
  <2> QED BY <2>5, <2>6
<1>9. CASE Recover
  <2>1. Recovers
    BY <1>9, RecoverIs
  <2>2. Rebuilt.all \in CascadeMap /\ Filled \in Engine /\ Filled.banks \in BankFile
    <3>1. now \in Nat /\ files.banks.data \in BankFile /\ files.manager.data \in CascadeMap
      BY DEF TypeInv, FileSet
    <3> QED BY <3>1, RecoveredIs DEF TimeInv
  <2>3. engine' \in Engine /\ engine'.banks \in BankFile
    BY <2>1, <2>2, IdleIs DEF Recovers, IsIdle
  <2>4. snapshots' \in Seq(SUBSET Instruments)
    <3>1. HasFeatures(Filled) \in SUBSET Instruments
      BY DEF HasFeatures
    <3> DEFINE h == HasFeatures(Filled)
    <3>2. snapshots' = IF Filled.processed THEN <<h>> ELSE << >>
      BY <2>1 DEF Recovers
    <3> HIDE DEF h
    <3>3. h \in SUBSET Instruments
      BY <3>1 DEF h
    <3>4. <<h>> \in Seq(SUBSET Instruments)
      BY <3>3
    <3>5. << >> \in Seq(SUBSET Instruments)
      OBVIOUS
    <3> DEFINE one == <<h>>
               all == Seq(SUBSET Instruments)
    <3>6. one \in all /\ << >> \in all /\ snapshots' = IF Filled.processed THEN one ELSE << >>
      BY <3>2, <3>4, <3>5
    <3> HIDE DEF one, all
    <3>7. snapshots' \in all
      BY <3>6
    <3> QED BY <3>7 DEF all
  <2>5. /\ cascades' \in CascadeMap /\ saver' \in [jobs : Nat, at : {"banks", "manager"}]
        /\ proc' = "recovered" /\ proc = "down"
        /\ UNCHANGED <<now, crashes, loop, bars, events, files, delivered, published, emitted>>
    BY <2>1, <2>2 DEF Recovers
  <2>6. since' = [since EXCEPT !.start = now] /\ since' \in [start : Nat, recovered : BOOLEAN]
        /\ since'.recovered = since.recovered
    <3>1. since' = [since EXCEPT !.start = now]
      BY <2>1 DEF Recovers
    <3> QED BY <3>1, <1>0
  <2>7. TypeInv'
    BY <2>3, <2>4, <2>5, <2>6 DEF TypeInv
  <2>8. PlaceInv'
    BY <2>5, <2>6 DEF PlaceInv
  <2> QED BY <2>7, <2>8
<1>10. CASE StartLoop
  <2>1. since' = [since EXCEPT !.start = now] /\ since' \in [start : Nat, recovered : BOOLEAN]
    <3>1. since' = [since EXCEPT !.start = now]
      BY <1>10 DEF StartLoop
    <3> QED BY <3>1, <1>0
  <2>2. proc' = "live" /\ proc = "recovered"
        /\ UNCHANGED <<now, loop, bars, cascades, events, engine, snapshots, saver, files, published, emitted>>
    BY <1>10 DEF StartLoop, hub, disk
  <2> QED BY <2>1, <2>2 DEF TypeInv, PlaceInv
<1>11. CASE UNCHANGED vars
  BY <1>11 DEF vars, hub, disk, history, TypeInv, PlaceInv
<1>12. CASE NextDay
  <2>1. engine' \in Engine /\ engine'.banks \in BankFile /\ cascades' \in CascadeMap
    BY <1>12, FreshTypes DEF NextDay
  <2>2. /\ now' \in 0 .. MaxTime /\ proc' = "live" /\ files' = files
        /\ since' \in [start : Nat, recovered : BOOLEAN]
    BY <1>0, <1>12 DEF NextDay
  <2>3. /\ bars' = << >> /\ events' = << >> /\ snapshots' = << >>
        /\ saver' \in [jobs : Nat, at : {"banks", "manager"}]
    BY <1>12 DEF NextDay
  <2>4. /\ loop' \in LoopSet /\ published' \in [Instruments -> Seq(Candle)]
        /\ emitted' \in [Instruments -> [Freqs -> Seq(Candle)]]
    BY <1>12, FreshTypes DEF NextDay
  <2> QED BY <2>1, <2>2, <2>3, <2>4 DEF TypeInv, PlaceInv
<1> QED BY <1>1, <1>2, <1>3, <1>4, <1>5, <1>6, <1>7, <1>8, <1>9, <1>10, <1>11, <1>12 DEF Next

-----------------------------------------------------------------------------
(***************************************************************************)
(* The queue of bars.                                                      *)
(***************************************************************************)
LEMMA FrontKept ==
  ASSUME FrontInv, bars' = bars, published' = published, loop'.last = loop.last,
         since'.start = since.start, loop.last \in Time, now \in Nat, now' \in Nat, now' >= now
  PROVE  FrontInv'
<1>1. \A c : Origin(c)' = Origin(c)
  BY DEF Origin
<1>2. loop.last # -1 => loop.last \in Nat
  BY DEF Time
<1> QED BY <1>1, <1>2 DEF FrontInv

LEMMA FrontInit == Init => FrontInv
<1> SUFFICES ASSUME Init PROVE FrontInv
  OBVIOUS
<1>1. loop.last = -1 /\ bars = << >> /\ \A c \in Instruments : published[c] = << >>
  BY DEF Init, FreshLoop, NoHistory
<1> QED BY <1>1 DEF FrontInv

LEMMA FrontStep == Base /\ [Next]_vars => FrontInv'
<1> SUFFICES ASSUME Base, [Next]_vars PROVE FrontInv'
  OBVIOUS
<1>0. /\ now \in Nat /\ now <= MaxTime /\ loop \in LoopSet /\ loop.last \in Time /\ FrontInv
      /\ since.start \in Nat
  <2>1. now \in 0 .. MaxTime /\ loop \in LoopSet /\ MaxTime \in Nat /\ FrontInv
        /\ since \in [start : Nat, recovered : BOOLEAN]
    BY MarketDataAssumption DEF Base, TypeInv
  <2> QED BY <2>1 DEF LoopSet
<1>1. CASE TimePasses
  <2>1. UNCHANGED <<bars, published, loop, since>> /\ now' = now + 1
    BY <1>1 DEF TimePasses, hub, history
  <2> QED BY <1>0, <2>1, FrontKept
<1>2. CASE StartTick
  <2>1. /\ loop' = [loop EXCEPT !.at = "run", !.last = now] /\ loop.at = "tick"
        /\ UNCHANGED <<now, since, published>>
        /\ bars' = IF loop.last = -1 THEN << >> ELSE BarsBetween(loop.last, now)
    BY <1>2 DEF StartTick, history, NewBars, BarsBetween
  <2>2. loop'.last = now /\ now # -1
    BY <1>0, <2>1 DEF LoopSet
  <2>3. bars = << >> /\ since.start <= now
    BY <2>1 DEF Base, PlaceInv, TimeInv
  <2>4. CASE loop.last = -1
    <3>1. bars' = << >> /\ \A c \in Instruments : published[c] = << >>
      BY <1>0, <2>1, <2>4 DEF FrontInv
    <3>2. \A c : Reach(<< >>, now, c) = now
      BY DEF Reach
    <3>3. Queued(<< >>, now)
      BY <1>0, <3>2 DEF Queued
    <3>4. \A c \in Instruments : Origin(c)' = now
      BY <2>1, <2>2, <3>1, <3>2 DEF Origin
    <3> QED BY <1>0, <2>1, <2>2, <2>3, <3>1, <3>3, <3>4 DEF FrontInv
  <2>5. CASE loop.last # -1
    <3> DEFINE q == BarsBetween(loop.last, now)
               last == loop.last
    <3>1. /\ last \in Nat /\ since.start <= last /\ last <= now
          /\ \A c \in Instruments : published[c] # << >> => published[c][Len(published[c])].end = Reach(bars, last, c)
          /\ \A c, d \in Instruments : Origin(c) = Origin(d)
      BY <1>0, <2>5 DEF FrontInv, Time
    <3>2. Queued(q, now) /\ \A c \in Instruments : Reach(q, now, c) = last
      BY <1>0, <3>1, BarsBetweenQueued
    <3>3. bars' = q
      BY <2>1, <2>5
    <3> HIDE DEF q
    <3>4. \A i \in DOMAIN q : last < q[i].bar.end /\ q[i].bar.end \in Nat
      BY <3>2, QueuedFacts
    <3>5. \A i \in DOMAIN q : q[i].bar.end > since.start
      BY <1>0, <3>1, <3>4
    <3>6. \A c \in Instruments : Reach(bars, last, c) = last
      BY <2>3 DEF Reach
    <3>7. \A c \in Instruments : Origin(c)' = Origin(c)
      BY <2>1, <2>2, <3>2, <3>3, <3>6 DEF Origin
    <3> QED BY <1>0, <2>1, <2>2, <2>3, <3>1, <3>2, <3>3, <3>5, <3>6, <3>7 DEF FrontInv
  <2> QED BY <2>4, <2>5
<1>3. CASE IngestBar
  <2>1. Ingests /\ TypeInv
    BY <1>3, IngestIs DEF Base
  <2> DEFINE last == loop.last
  <2>2. /\ bars # << >> /\ bars' = Tail(bars) /\ UNCHANGED <<now, loop, since>> /\ Con \in Instruments
        /\ Bar \in Candle
        /\ \A c \in Instruments : published'[c] = IF c = Con THEN Append(published[c], Bar) ELSE published[c]
    BY <2>1 DEF Ingests
  <2>3. last # -1 /\ last \in Nat
    BY <1>0, <2>2 DEF FrontInv, Time
  <2>4. /\ since.start <= last /\ last <= now /\ Queued(bars, last)
        /\ \A i \in DOMAIN bars : bars[i].bar.end > since.start
        /\ \A c \in Instruments : published[c] # << >> => published[c][Len(published[c])].end = Reach(bars, last, c)
        /\ \A c, d \in Instruments : Origin(c) = Origin(d)
    BY <1>0, <2>3 DEF FrontInv
  <2>5. /\ Queued(Tail(bars), last)
        /\ \A c \in Instruments : Reach(Tail(bars), last, c) = IF c = Con THEN Bar.end ELSE Reach(bars, last, c)
    BY <2>2, <2>4, QueuedTail DEF Con, Bar
  <2>6. 1 \in DOMAIN bars /\ \A i \in DOMAIN Tail(bars) : Tail(bars)[i] = bars[i + 1] /\ i + 1 \in DOMAIN bars
    <3>1. bars \in Seq(BarSet)
      BY <2>4 DEF Queued
    <3> QED BY <2>2, <3>1, TailIs
  <2>7. \A c \in Instruments : published[c] \in Seq(Candle)
    BY <2>1 DEF TypeInv
  <2>8. ASSUME NEW c \in Instruments, published'[c] # << >>
        PROVE  published'[c][Len(published'[c])].end = Reach(Tail(bars), last, c)
    <3>1. CASE c = Con
      <4>1. published'[c] = Append(published[c], Bar) /\ published[c] \in Seq(Candle)
        BY <2>2, <2>7, <3>1
      <4>2. published'[c][Len(published'[c])] = Bar
        BY <4>1
      <4> QED BY <2>5, <3>1, <4>2
    <3>2. CASE c # Con
      BY <2>2, <2>4, <2>5, <2>8, <3>2
    <3> QED BY <3>1, <3>2
  <2>9. ASSUME NEW c \in Instruments PROVE Origin(c)' = Origin(c)
    <3>1. Origin(c)' = IF published'[c] = << >> THEN Reach(Tail(bars), last, c) ELSE published'[c][1].start
      BY <2>2 DEF Origin
    <3>2. CASE c = Con
      <4>1. published'[c] = Append(published[c], Bar) /\ published[c] \in Seq(Candle)
        BY <2>2, <2>7, <3>2
      <4>2. published'[c] # << >>
            /\ published'[c][1] = IF published[c] = << >> THEN Bar ELSE published[c][1]
        <5> DEFINE s == published[c]
                   b == Bar
        <5>1. s \in Seq(Candle) /\ b \in Candle
          BY <2>2, <4>1
        <5> HIDE DEF s, b
        <5>2. Append(s, b) # << >> /\ Append(s, b)[1] = IF s = << >> THEN b ELSE s[1]
          <6>1. /\ Append(s, b) # << >> /\ Append(s, b)[Len(s) + 1] = b /\ Len(s) \in Nat
                /\ \A i \in 1 .. Len(s) : Append(s, b)[i] = s[i]
            BY <5>1, AppendProperties
          <6>2. CASE s = << >>
            <7>1. Len(s) + 1 = 1
              BY <6>2
            <7> QED BY <6>1, <6>2, <7>1
          <6>3. CASE s # << >>
            <7>1. 1 \in 1 .. Len(s)
              BY <5>1, <6>3
            <7> QED BY <6>1, <6>3, <7>1
          <6> QED BY <6>2, <6>3
        <5> QED BY <4>1, <5>2 DEF s, b
      <4>3. published[c] = << >> => Reach(bars, last, c) = Bar.start
        <5>1. bars[1].bar.end = bars[1].bar.start + 1 /\ Pos(Con) \in Nat /\ bars[1].bar.start \in Nat
              /\ bars[1].bar.end \in Nat
          BY <2>4, <2>6, QueuedFacts DEF Con
        <5>2. Reach(bars, last, Con) = bars[1].bar.end - 1
          BY <2>2, <5>1 DEF Reach, Con
        <5> QED BY <3>2, <5>1, <5>2 DEF Bar
      <4> QED BY <3>1, <4>2, <4>3 DEF Origin
    <3>3. CASE c # Con
      BY <2>2, <2>5, <3>1, <3>3 DEF Origin
    <3> QED BY <3>2, <3>3
  <2>10. \A i \in DOMAIN Tail(bars) : Tail(bars)[i].bar.end > since.start
    BY <2>4, <2>6
  <2>11. \A c, d \in Instruments : Origin(c)' = Origin(d)'
    BY <2>4, <2>9
  <2> HIDE DEF last
  <2> QED BY <2>2, <2>3, <2>4, <2>5, <2>8, <2>10, <2>11 DEF FrontInv, last
<1>4. CASE ProcessEvents
  <2>1. UNCHANGED <<bars, published, loop, since, now>>
    BY <1>4 DEF ProcessEvents, history
  <2> QED BY <1>0, <2>1, FrontKept
<1>5. CASE FinishTick
  <2>1. UNCHANGED <<bars, published, since, now>>
    BY <1>5 DEF FinishTick, hub
  <2>2. loop'.last = loop.last
    <3> DEFINE minute == loop.last \div Period(GapFreq)
    <3>1. loop' = loop \/ loop' = [loop EXCEPT !.at = "tick", !.minute = minute]
      BY <1>5 DEF FinishTick
    <3> HIDE DEF minute
    <3> QED BY <1>0, <3>1 DEF LoopSet
  <2> QED BY <1>0, <2>1, <2>2, FrontKept
<1>6. CASE SaveBanks \/ SaveManager
  <2>1. UNCHANGED <<bars, published, loop, since, now>>
    BY <1>6 DEF SaveBanks, SaveManager, hub, history
  <2> QED BY <1>0, <2>1, FrontKept
<1>7. CASE Crash \/ NextDay
  <2>1. loop'.last = -1 /\ bars' = << >> /\ \A c \in Instruments : published'[c] = << >>
    BY <1>7 DEF Crash, NextDay, FreshLoop, NoHistory
  <2> QED BY <2>1 DEF FrontInv
<1>8. CASE Recover \/ StartLoop
  <2>1. UNCHANGED <<loop, bars, published>> /\ proc \in {"down", "recovered"}
    BY <1>8 DEF Recover, StartLoop, hub
  <2>2. loop.last = -1 /\ PlaceInv
    BY <2>1 DEF Base, PlaceInv, FreshLoop
  <2>3. bars = << >> /\ \A c \in Instruments : published[c] = << >>
    BY <1>0, <2>2 DEF FrontInv
  <2> QED BY <2>1, <2>2, <2>3 DEF FrontInv
<1>9. CASE UNCHANGED vars
  <2>1. UNCHANGED <<bars, published, loop, since, now>>
    BY <1>9 DEF vars, hub, history
  <2> QED BY <1>0, <2>1, FrontKept
<1> QED BY <1>1, <1>2, <1>3, <1>4, <1>5, <1>6, <1>7, <1>8, <1>9 DEF Next

-----------------------------------------------------------------------------
(***************************************************************************)
(* The kinds alike, nothing later than the clock.                          *)
(***************************************************************************)
LEMMA EmptyIsReasonable ==
  ASSUME NEW t \in Nat
  PROVE  Reasonable(FreshEngine([f \in Freqs |-> EmptyBank]), t)
<1> DEFINE banks == [f \in Freqs |-> EmptyBank]
<1>1. EmptyBank.end = -1 /\ \A r \in 0 .. Lookback - 1 : EmptyBank.rows[r].end = 0
  BY DEF EmptyBank, EmptyRow
<1>2. \A f \in Freqs : banks[f] = EmptyBank
  OBVIOUS
<1>3. banks \in BankFile
  BY FreshTypes
<1> HIDE DEF banks
<1>4. BanksWithin(banks, t)
  BY <1>1, <1>2 DEF BanksWithin
<1>5. Reasonable(FreshEngine(banks), t)
  BY <1>3, <1>4, FreshWithin
<1> QED BY <1>5 DEF banks

LEMMA TimeInit == Init => KindsInv /\ TimeInv /\ Settled(engine)
<1> SUFFICES ASSUME Init PROVE KindsInv /\ TimeInv /\ Settled(engine)
  OBVIOUS
<1> DEFINE banks == [f \in Freqs |-> EmptyBank]
<1>1. SameKinds(FreshCascades)
  BY KindFacts DEF SameKinds, FreshCascades
<1>2. KindsInv
  BY <1>1 DEF Init, KindsInv, File
<1>4. Reasonable(FreshEngine(banks), 0)
  BY EmptyIsReasonable
<1>5. now = 0 /\ engine = FreshEngine(banks) /\ files.banks.data = NoBanks /\ events = << >> /\ since.start = 0
  BY DEF Init, File
<1>6. TimeInv
  BY <1>4, <1>5 DEF TimeInv, Reasonable, BanksWithin
<1> QED BY <1>2, <1>4, <1>5, <1>6 DEF Reasonable

LEMMA TimeStep == Base /\ [Next]_vars => KindsInv' /\ TimeInv' /\ Settled(engine)'
<1> SUFFICES ASSUME Base, [Next]_vars PROVE KindsInv' /\ TimeInv' /\ Settled(engine)'
  OBVIOUS
<1>0. /\ now \in Nat /\ now \in Int /\ TypeInv /\ FrontInv /\ KindsInv /\ TimeInv /\ Settled(engine)
      /\ Reasonable(engine, now) /\ engine \in Engine /\ engine.banks \in BankFile
      /\ events \in Seq(EventSet)
      /\ files.banks.data \in BankFile /\ files.manager.data \in CascadeMap /\ since.start \in Nat
  <2>1. TypeInv /\ FrontInv /\ KindsInv /\ TimeInv /\ Settled(engine)
    BY DEF Base
  <2> QED BY <2>1, MarketDataAssumption DEF Reasonable, TimeInv, TypeInv, FileSet
<1>1. CASE TimePasses
  <2>1. UNCHANGED <<cascades, files, since, engine, events>> /\ now' = now + 1
    BY <1>1 DEF TimePasses, hub, disk, history
  <2>2. /\ Within(engine, now) /\ BanksWithin(files.banks.data, now) /\ since.start <= now
        /\ \A i \in DOMAIN events : events[i].bar.end <= now
    BY <1>0 DEF TimeInv
  <2>3. now + 1 \in Int /\ now <= now + 1
    BY <1>0
  <2>4. Within(engine, now + 1) /\ BanksWithin(files.banks.data, now + 1)
    BY <1>0, <2>2, <2>3, WithinLater
  <2>5. \A i \in DOMAIN events : events[i].bar.end <= now + 1
    <3>1. \A i \in DOMAIN events : events[i].bar.end \in Int
      <4>1. \A i \in DOMAIN events : events[i] \in EventSet
        BY <1>0
      <4> QED BY <4>1 DEF EventSet, Candle
    <3> QED BY <1>0, <2>2, <3>1
  <2>6. since.start <= now + 1
    BY <1>0, <2>2
  <2>7. TimeInv'
    BY <2>1, <2>4, <2>5, <2>6 DEF TimeInv
  <2> QED BY <1>0, <2>1, <2>7 DEF KindsInv
<1>2. CASE StartTick
  <2>1. UNCHANGED <<cascades, files, since, engine, events, now>>
    BY <1>2 DEF StartTick, disk, history
  <2> QED BY <1>0, <2>1 DEF KindsInv, TimeInv
<1>3. CASE IngestBar
  <2>1. Ingests
    BY <1>0, <1>3, IngestIs
  <2> DEFINE q == EventsOf(cascades, Con, Bar)
             u == events \o q
  <2>2. /\ bars # << >> /\ Con \in Instruments /\ Bar \in Candle /\ cascades' = PushedBar(cascades, Con, Bar)
        /\ events' = u /\ UNCHANGED <<now, loop, engine, files, since>> /\ cascades \in CascadeMap
    BY <1>0, <2>1 DEF Ingests, TypeInv
  <2>3. Bar.end <= now /\ Bar.end \in Nat
    <3>1. loop.last # -1 /\ loop.last \in Time
      BY <1>0, <2>2 DEF FrontInv, TypeInv, LoopSet
    <3>2. Queued(bars, loop.last) /\ loop.last <= now /\ loop.last \in Nat
      BY <1>0, <3>1 DEF FrontInv, Time
    <3>3. 1 \in DOMAIN bars
      BY <1>0, <2>2 DEF TypeInv
    <3>4. Bar.end <= loop.last /\ Bar.end \in Nat
      BY <3>2, <3>3, QueuedFacts DEF Bar
    <3> QED BY <1>0, <3>2, <3>4
  <2>4. SameKinds(cascades')
    BY <1>0, <2>2, PushedAlike DEF KindsInv
  <2>5. PICK kind : Announces(q, cascades, Con, Bar, kind)
    BY <2>2, EventsOfIs
  <2>6. q \in Seq(EventSet) /\ \A j \in DOMAIN q : q[j].bar.end = Bar.end
    BY <2>5 DEF Announces
  <2> HIDE DEF q
  <2>7. Joins(u, events, q)
    BY <1>0, <2>6, Joined
  <2> HIDE DEF u
  <2>8. \A i \in DOMAIN u : u[i].bar.end <= now
    <3> SUFFICES ASSUME NEW i \in DOMAIN u PROVE u[i].bar.end <= now
      OBVIOUS
    <3>1. (\E j \in DOMAIN events : u[i] = events[j]) \/ (\E j \in DOMAIN q : u[i] = q[j])
      BY <2>7 DEF Joins
    <3>2. \A j \in DOMAIN events : events[j].bar.end <= now
      BY <1>0 DEF TimeInv
    <3> QED BY <3>1, <3>2, <2>3, <2>6
  <2> QED BY <1>0, <2>2, <2>4, <2>8 DEF KindsInv, TimeInv
<1>4. CASE ProcessEvents
  <2> DEFINE a == SubSeq(events, 1, Turn)
  <2>1. Processes
    BY <1>0, <1>4, ProcessIs
  <2>2. /\ a \in Seq(EventSet) /\ UNCHANGED <<now, cascades, files, since>>
        /\ \/ engine' = engine
           \/ engine \in TrueEngine /\ engine' = ProcessAll(engine, a, FALSE)
        /\ IsCut(a, events', events, Turn) /\ Turn \in 0 .. Len(events)
    BY <2>1 DEF Processes
  <2> HIDE DEF a
  <2>3. \A i \in DOMAIN events : events[i].bar.end <= now
    BY <1>0 DEF TimeInv
  <2>4. \A i \in DOMAIN a : a[i].bar.end <= now
    <3>1. \A i \in DOMAIN a : a[i] = events[i] /\ i \in DOMAIN events
      BY <1>0, <2>2 DEF IsCut
    <3> QED BY <2>3, <3>1
  <2>5. \A i \in DOMAIN events' : events'[i].bar.end <= now
    <3>1. \A i \in DOMAIN events' : events'[i] = events[Turn + i] /\ Turn + i \in DOMAIN events
      BY <2>2 DEF IsCut
    <3> QED BY <2>3, <3>1
  <2>6. Reasonable(engine', now)
    <3>1. CASE engine' = engine
      BY <1>0, <3>1
    <3>2. CASE engine \in TrueEngine /\ engine' = ProcessAll(engine, a, FALSE)
      BY <1>0, <2>2, <2>4, <3>2, ProcessedAllWithin
    <3> QED BY <2>2, <3>1, <3>2
  <2> QED BY <1>0, <2>2, <2>5, <2>6 DEF KindsInv, TimeInv, Reasonable
<1>5. CASE FinishTick
  <2>1. UNCHANGED <<now, cascades, events, files, since>> /\ engine' = [engine EXCEPT !.processed = FALSE]
    BY <1>5 DEF FinishTick, hub
  <2>2. IsIdle(engine', engine)
    BY <1>0, <2>1, IdleIs
  <2>3. Within(engine', now) /\ Settled(engine')
    BY <1>0, <2>2 DEF IsIdle, Within, Settled, Reasonable
  <2> QED BY <1>0, <2>1, <2>3 DEF KindsInv, TimeInv
<1>6. CASE SaveBanks
  <2>1. files'.banks.data = engine.banks /\ files'.manager = files.manager
    BY <1>6, <1>0 DEF SaveBanks, File, TypeInv
  <2>2. UNCHANGED <<now, cascades, events, engine, since>>
    BY <1>6 DEF SaveBanks, hub, history
  <2>3. BanksWithin(engine.banks, now)
    BY <1>0 DEF TimeInv, Within
  <2> QED BY <1>0, <2>1, <2>2, <2>3 DEF KindsInv, TimeInv
<1>7. CASE SaveManager
  <2>1. files'.banks = files.banks /\ files'.manager.data = cascades
    BY <1>7, <1>0 DEF SaveManager, File, TypeInv
  <2>2. UNCHANGED <<now, cascades, events, engine, since>>
    BY <1>7 DEF SaveManager, hub, history
  <2> QED BY <1>0, <2>1, <2>2 DEF KindsInv, TimeInv
<1>8. CASE Crash
  <2>1. files'.banks.data = files.banks.data /\ files'.manager.data = files.manager.data
    <3>1. CASE files' = files
      BY <3>1
    <3>2. CASE files' = [files EXCEPT ![saver.at].is = "torn"]
      <4>1. saver.at \in {"banks", "manager"} /\ files \in [banks : FileSet(BankFile), manager : FileSet(CascadeMap)]
        BY <1>0 DEF TypeInv
      <4>2. CASE saver.at = "banks"
        <5>1. files' = [files EXCEPT !["banks"].is = "torn"]
          BY <3>2, <4>2
        <5> QED BY <4>1, <5>1 DEF FileSet
      <4>3. CASE saver.at = "manager"
        <5>1. files' = [files EXCEPT !["manager"].is = "torn"]
          BY <3>2, <4>3
        <5> QED BY <4>1, <5>1 DEF FileSet
      <4> QED BY <4>1, <4>2, <4>3
    <3> QED BY <1>8, <3>1, <3>2 DEF Crash
  <2>2. /\ now' = now /\ cascades' = FreshCascades /\ engine' = FreshEngine(NoBanks) /\ events' = << >>
        /\ since'.start = now
    BY <1>8 DEF Crash
  <2>3. SameKinds(FreshCascades)
    BY KindFacts DEF SameKinds, FreshCascades
  <2>4. Reasonable(FreshEngine(NoBanks), now)
    <3>1. NoBanks \in BankFile /\ BanksWithin(NoBanks, now)
      BY FreshTypes DEF BanksWithin
    <3> QED BY <1>0, <3>1, FreshWithin
  <2>5. KindsInv'
    BY <1>0, <2>1, <2>2, <2>3 DEF KindsInv
  <2>6. TimeInv'
    BY <1>0, <2>1, <2>2, <2>4 DEF TimeInv, Reasonable
  <2> QED BY <2>2, <2>4, <2>5, <2>6 DEF Reasonable
<1>9. CASE Recover
  <2>1. Recovers
    BY <1>9, RecoverIs
  <2>2. /\ Rebuilt.all \in CascadeMap /\ (SameKinds(files.manager.data) => SameKinds(Rebuilt.all))
        /\ Filled \in Engine /\ Filled.banks \in BankFile /\ Reasonable(Filled, now)
    BY <1>0, RecoveredIs DEF TimeInv
  <2>3. IsIdle(engine', Filled)
    BY <2>1, <2>2, IdleIs DEF Recovers
  <2>4. Within(engine', now) /\ Settled(engine')
    BY <2>2, <2>3 DEF IsIdle, Within, Settled, Reasonable
  <2>5. UNCHANGED <<now, events, files>> /\ cascades' = Rebuilt.all
    BY <2>1 DEF Recovers
  <2>6. since'.start = now
    <3>1. since' = [since EXCEPT !.start = now] /\ since \in [start : Nat, recovered : BOOLEAN]
      BY <1>0, <2>1 DEF Recovers, TypeInv
    <3> QED BY <3>1
  <2> QED BY <1>0, <2>2, <2>4, <2>5, <2>6 DEF KindsInv, TimeInv
<1>10. CASE StartLoop
  <2>1. UNCHANGED <<now, cascades, events, engine, files>>
    BY <1>10 DEF StartLoop, hub, disk
  <2>2. since'.start = now
    <3>1. since' = [since EXCEPT !.start = now] /\ since \in [start : Nat, recovered : BOOLEAN]
      BY <1>0, <1>10 DEF StartLoop, TypeInv
    <3> QED BY <3>1
  <2> QED BY <1>0, <2>1, <2>2 DEF KindsInv, TimeInv
<1>11. CASE UNCHANGED vars
  <2>1. UNCHANGED <<now, cascades, events, engine, files, since>>
    BY <1>11 DEF vars, hub, disk, history
  <2> QED BY <1>0, <2>1 DEF KindsInv, TimeInv
<1>12. CASE NextDay
  <2> DEFINE fresh == FreshEngine([f \in Freqs |-> EmptyBank])
  <2>1. /\ now' = now /\ files' = files /\ cascades' = FreshCascades /\ engine' = fresh
        /\ events' = << >> /\ since'.start = now
    BY <1>12 DEF NextDay
  <2>2. SameKinds(FreshCascades)
    BY KindFacts DEF SameKinds, FreshCascades
  <2>3. Reasonable(fresh, now)
    BY <1>0, EmptyIsReasonable
  <2> HIDE DEF fresh
  <2>4. KindsInv'
    BY <1>0, <2>1, <2>2 DEF KindsInv
  <2>5. TimeInv'
    BY <1>0, <2>1, <2>3 DEF TimeInv, Reasonable
  <2> QED BY <2>1, <2>3, <2>4, <2>5 DEF Reasonable
<1> QED BY <1>1, <1>2, <1>3, <1>4, <1>5, <1>6, <1>7, <1>8, <1>9, <1>10, <1>11, <1>12 DEF Next

\* The types of the state; where runtime_loop is; what its queue of bars still holds; the
\* resamplers of the kinds alike (CandleManager.push_5s feeds them the same bars); nothing
\* in the engine, the queues and the files is later than the clock.
THEOREM BaseHolds == Spec => []Base
<1>1. Init => Base
  BY TypeInit, FrontInit, TimeInit DEF Base
<1>2. Base /\ [Next]_vars => Base'
  BY TypeStep, FrontStep, TimeStep DEF Base
<1> QED BY <1>1, <1>2, PTL DEF Spec

-----------------------------------------------------------------------------
(***************************************************************************)
(* The candles.                                                            *)
(***************************************************************************)
LEMMA RisingFresh ==
  ASSUME NEW x \in Cascade, NEW rec \in BOOLEAN, NEW s \in Nat, rec \/ x = FreshCascade
  PROVE  Rising(x, << >>, [f \in Freqs |-> << >>], rec, s)
<1> DEFINE p == << >>
           E == [f \in Freqs |-> << >>]
<1>1. Steady(p) /\ p = << >>
  BY DEF Steady
<1>2. E \in [Freqs -> Seq(Candle)] /\ \A f \in Freqs : E[f] = p
  OBVIOUS
<1> HIDE DEF p, E
<1>3. \A f \in Freqs : Done(E, s, f) = s /\ TrueCandles(p, E, rec, f)
  BY <1>1, <1>2 DEF Done, TrueCandles
<1>4. ASSUME NEW f \in 1 .. Levels PROVE Level(x, p, E, rec, s, f)
  <2>1. f \in Freqs /\ f - 1 \in Freqs /\ E[f] = << >>
    BY <1>1, <1>2, LevelFacts
  <2>2. CASE rec
    BY <2>1, <2>2 DEF Level, Clean
  <2>3. CASE ~ rec
    <3>1. x[f] = FreshResampler
      BY <2>3, LevelFacts DEF FreshCascade
    <3>2. x[f].seen = 0 /\ x[f].ticks = 0 /\ x[f].hasData = FALSE
      BY <3>1 DEF FreshResampler
    <3>3. Period(f - 1) \in Nat
      BY <2>1, PeriodFacts
    <3>4. TicksIn(p, s, s) = 0
      BY <1>1, TicksNone
    <3> QED BY <1>3, <2>1, <3>2, <3>3, <3>4 DEF Level
  <2> QED BY <2>2, <2>3
<1>5. \A f \in 1 .. Levels : f \in Freqs /\ f - 1 \in Freqs
  BY LevelFacts
<1> QED BY <1>1, <1>2, <1>3, <1>4, <1>5, LevelFacts DEF Rising, p, E

LEMMA HeadFollows ==
  ASSUME Base, Ingests
  PROVE  /\ loop.last \in Nat /\ Queued(bars, loop.last) /\ Bar.end <= loop.last /\ Bar.end > since.start
         /\ 1 \in DOMAIN bars /\ bars \in Seq(BarSet)
         /\ Reach(bars, loop.last, Con) = Bar.start
         /\ Follows(published[Con], Bar) /\ Steady(<<>>)
<1>1. bars # << >> /\ FrontInv /\ loop.last \in Time
  BY DEF Base, Ingests, TypeInv, LoopSet
<1>2. loop.last \in Nat /\ Queued(bars, loop.last)
  BY <1>1 DEF FrontInv, Time
<1>3. 1 \in DOMAIN bars /\ bars \in Seq(BarSet)
  BY <1>1, <1>2 DEF Queued
<1>4. /\ Bar \in Candle /\ Bar.end = Bar.start + 1 /\ Bar.ticks \in Nat /\ Bar.end <= loop.last
      /\ Bar.start \in Nat /\ Bar.end > since.start /\ Pos(Con) \in Nat /\ Con \in Instruments
  BY <1>1, <1>2, <1>3, QueuedFacts DEF Bar, Con, Queued, FrontInv
<1>5. Reach(bars, loop.last, Con) = Bar.start
  BY <1>1, <1>4 DEF Reach, Bar, Con
<1>6. published[Con] # << >> => published[Con][Len(published[Con])].end = Bar.start
  BY <1>1, <1>2, <1>4, <1>5 DEF FrontInv
<1> QED BY <1>2, <1>3, <1>4, <1>5, <1>6 DEF Follows, Steady

LEMMA LanesFresh ==
  ASSUME \A c \in Instruments : cascades[c][First] \in Cascade /\ published[c] = << >>
                                /\ emitted[c] = [f \in Freqs |-> << >>],
         since.recovered \in BOOLEAN,
         since.recovered \/ \A c \in Instruments : cascades[c][First] = FreshCascade
  PROVE  LanesInv
BY RisingFresh DEF LanesInv

LEMMA LanesInit == Init => LanesInv
<1> SUFFICES ASSUME Init PROVE LanesInv
  OBVIOUS
<1>1. /\ since.recovered = FALSE
      /\ \A c \in Instruments : /\ cascades[c][First] = FreshCascade /\ published[c] = << >>
                                /\ emitted[c] = [f \in Freqs |-> << >>]
  BY KindFacts DEF Init, NoHistory, FreshCascades
<1>2. \A c \in Instruments : cascades[c][First] \in Cascade
  BY FreshTypes, KindFacts DEF CascadeMap, Init
<1> QED BY <1>1, <1>2, LanesFresh

LEMMA LanesKept ==
  ASSUME LanesInv, cascades' = cascades, published' = published, emitted' = emitted,
         since'.recovered = since.recovered
  PROVE  LanesInv'
BY DEF LanesInv

LEMMA LanesStep == Base /\ Base' /\ LanesInv /\ [Next]_vars => LanesInv'
<1> SUFFICES ASSUME Base, Base', LanesInv, [Next]_vars PROVE LanesInv'
  OBVIOUS
<1>1. CASE TimePasses \/ StartTick \/ ProcessEvents \/ FinishTick \/ SaveBanks \/ SaveManager \/ UNCHANGED vars
  <2>1. UNCHANGED <<cascades, published, emitted, since>>
    BY <1>1 DEF TimePasses, StartTick, ProcessEvents, FinishTick, SaveBanks, SaveManager, vars, hub, history
  <2> QED BY <2>1, LanesKept
<1>2. CASE IngestBar
  <2>1. Ingests
    BY <1>2, IngestIs DEF Base
  <2>2. Follows(published[Con], Bar)
    BY <2>1, HeadFollows
  <2> SUFFICES ASSUME NEW c \in Instruments, NEW s \in Nat,
                      published'[c] # << >> => s = published'[c][1].start
               PROVE  Rising(cascades'[c][First], published'[c], emitted'[c], since'.recovered, s)
    BY DEF LanesInv
  <2>3. CASE c = Con
    <3> DEFINE p == published[c]
               x == cascades[c][First]
    <3>1. p \in Seq(Candle) /\ Bar \in Candle /\ x \in Cascade /\ cascades \in CascadeMap
      BY <2>1, KindFacts DEF Base, TypeInv, Ingests, CascadeMap
    <3>2. /\ published'[c] = Append(p, Bar) /\ emitted'[c] = Raised(emitted[c], Risen(x, Bar))
          /\ since' = since /\ cascades'[c][First] = PushedCascade(x, Bar)
      BY <2>1, <2>3, <3>1, KindFacts, PushedBarIs DEF Ingests
    <3> HIDE DEF p, x
    <3>3. Append(p, Bar) # << >> /\ Append(p, Bar)[1] = IF p = << >> THEN Bar ELSE p[1]
      <4>1. /\ Append(p, Bar) # << >> /\ Append(p, Bar)[Len(p) + 1] = Bar /\ Len(p) \in Nat
            /\ \A i \in 1 .. Len(p) : Append(p, Bar)[i] = p[i]
        BY <3>1, AppendProperties
      <4>2. CASE p = << >>
        <5>1. Len(p) + 1 = 1
          BY <4>2
        <5> QED BY <4>1, <4>2, <5>1
      <4>3. CASE p # << >>
        <5>1. 1 \in 1 .. Len(p)
          BY <3>1, <4>3
        <5> QED BY <4>1, <4>3, <5>1
      <4> QED BY <4>2, <4>3
    <3>4. s = IF p = << >> THEN Bar.start ELSE p[1].start
      BY <3>2, <3>3
    <3>5. Rising(x, p, emitted[c], since.recovered, s)
      BY <3>4 DEF LanesInv, p, x
    <3>6. Follows(p, Bar) /\ (p = << >> => s = Bar.start)
      BY <2>2, <2>3, <3>4 DEF p
    <3>7. Rising(PushedCascade(x, Bar), Append(p, Bar), Raised(emitted[c], Risen(x, Bar)), since.recovered, s)
      BY <3>5, <3>6, Pushed
    <3> QED BY <3>2, <3>7
  <2>4. CASE c # Con
    <3>1. published'[c] = published[c] /\ emitted'[c] = emitted[c] /\ since' = since
      BY <2>1, <2>4 DEF Ingests
    <3>2. cascades'[c] = cascades[c]
      <4>1. /\ cascades \in CascadeMap /\ cascades' = PushedBar(cascades, Con, Bar)
            /\ Con \in Instruments /\ Bar \in Candle
        BY <2>1 DEF Ingests, Base, TypeInv
      <4> QED BY <2>4, <4>1, PushedBarIs
    <3> QED BY <3>1, <3>2 DEF LanesInv
  <2> QED BY <2>3, <2>4
<1>3. CASE Crash \/ Recover \/ StartLoop
  <2>1. /\ proc' \in {"down", "recovered"} \/ proc \in {"down", "recovered"}
        /\ since'.recovered = TRUE
        /\ \A c \in Instruments : published'[c] = << >> /\ emitted'[c] = [f \in Freqs |-> << >>]
    <3>1. CASE Crash
      BY <3>1 DEF Crash, NoHistory
    <3>2. CASE Recover \/ StartLoop
      <4>1. /\ proc \in {"down", "recovered"} /\ UNCHANGED <<published, emitted>>
            /\ since' = [since EXCEPT !.start = now]
        BY <3>2 DEF Recover, StartLoop
      <4>2. /\ since.recovered /\ since \in [start : Nat, recovered : BOOLEAN]
            /\ published = NoHistory(<< >>) /\ emitted = NoHistory([f \in Freqs |-> << >>])
        BY <4>1 DEF Base, PlaceInv, TypeInv
      <4>3. since'.recovered = TRUE
        BY <4>1, <4>2
      <4> QED BY <4>1, <4>2, <4>3 DEF NoHistory
    <3> QED BY <1>3, <3>1, <3>2
  <2>2. \A c \in Instruments : cascades'[c][First] \in Cascade
    BY KindFacts DEF Base, TypeInv, CascadeMap
  <2>3. ASSUME NEW c \in Instruments, NEW s \in Nat
        PROVE  Rising(cascades'[c][First], published'[c], emitted'[c], since'.recovered, s)
    <3>1. Rising(cascades'[c][First], << >>, [f \in Freqs |-> << >>], TRUE, s)
      BY <2>2, RisingFresh
    <3> QED BY <2>1, <3>1
  <2> QED BY <2>3 DEF LanesInv
<1>4. CASE NextDay
  <2>1. /\ since'.recovered = FALSE
        /\ \A c \in Instruments : /\ cascades'[c][First] = FreshCascade /\ published'[c] = << >>
                                  /\ emitted'[c] = [f \in Freqs |-> << >>]
    BY <1>4, KindFacts DEF NextDay, NoHistory, FreshCascades
  <2>2. \A c \in Instruments : cascades'[c][First] \in Cascade
    BY KindFacts DEF Base, TypeInv, CascadeMap
  <2>3. ASSUME NEW c \in Instruments, NEW s \in Nat
        PROVE  Rising(cascades'[c][First], published'[c], emitted'[c], since'.recovered, s)
    <3>1. Rising(cascades'[c][First], << >>, [f \in Freqs |-> << >>], FALSE, s)
      BY <2>1, <2>2, RisingFresh
    <3> QED BY <2>1, <3>1
  <2> QED BY <2>3 DEF LanesInv
<1> QED BY <1>1, <1>2, <1>3, <1>4 DEF Next

\* The cascades at every moment, for any counts of the levels: a resampler holds the candles
\* of the level below since the last of its own, from the first bar of the process on, or from
\* its first candle on where the cascade was restored (CandleResampler, ResampleCascade).
THEOREM LanesHold == Spec => []LanesInv
<1>1. Base /\ LanesInv /\ Base' /\ [Next]_vars => LanesInv'
  BY LanesStep
<1> QED BY <1>1, LanesInit, BaseHolds, PTL DEF Spec

\* No candle is late: less than its period has passed since the last one of a level.
LEMMA NotLate ==
  ASSUME NEW x, NEW p, NEW E, NEW rec, NEW s, Rising(x, p, E, rec, s), p # << >>,
         NEW f \in Freqs, Clean(E, rec, f)
  PROVE  p[Len(p)].end - Done(E, s, f) < Period(f)
<1> DEFINE e == p[Len(p)].end
           D == {m \in Nat : m <= f => e - Done(E, s, m) < Period(m)}
<1>1. f \in 0 .. Levels /\ Levels \in Nat /\ Freqs = 0 .. Levels
  BY LevelFacts
<1>2. \A m \in Freqs : Done(E, s, m) \in Nat /\ Done(E, s, 0) = e
  BY DoneType, LevelFacts
<1>3. \A m \in Nat : m <= f => Clean(E, rec, f - m)
  <2> DEFINE C == {m \in Nat : m <= f => Clean(E, rec, f - m)}
  <2>1. 0 \in C
    BY <1>1
  <2>2. ASSUME NEW m \in Nat, m \in C PROVE m + 1 \in C
    <3> SUFFICES ASSUME m + 1 <= f PROVE Clean(E, rec, f - (m + 1))
      OBVIOUS
    <3>1. Clean(E, rec, f - m) /\ f - m \in 1 .. Levels /\ (f - m) - 1 = f - (m + 1)
      BY <1>1, <2>2
    <3>2. E[f - m] # << >> => E[(f - m) - 1] # << >>
      BY <3>1 DEF Rising
    <3> QED BY <3>1, <3>2 DEF Clean
  <2> HIDE DEF C
  <2>3. Nat \subseteq C
    BY <2>1, <2>2, NaturalInduction
  <2> QED BY <2>3 DEF C
<1>4. \A m \in 0 .. f : Clean(E, rec, m)
  <2> SUFFICES ASSUME NEW m \in 0 .. f PROVE Clean(E, rec, m)
    OBVIOUS
  <2>1. f - m \in Nat /\ f - m <= f /\ f - (f - m) = m
    BY <1>1
  <2> QED BY <2>1, <1>3
<1>5. 0 \in D
  BY <1>1, <1>2, PeriodFacts
<1> HIDE DEF e
<1>6. ASSUME NEW m \in Nat, m \in D PROVE m + 1 \in D
  <2> SUFFICES ASSUME m + 1 <= f PROVE e - Done(E, s, m + 1) < Period(m + 1)
    OBVIOUS
  <2> DEFINE k == x[m + 1].seen
             P == Period(m)
             n == Counts[m + 1]
  <2>1. m + 1 \in 1 .. Levels /\ m + 1 \in Freqs /\ m \in Freqs /\ (m + 1) - 1 = m /\ m + 1 \in 0 .. f
        /\ e - Done(E, s, m) < P
    BY <1>1, <1>6
  <2>2. Level(x, p, E, rec, s, m + 1) /\ Clean(E, rec, m + 1) /\ x \in Cascade
    BY <1>4, <2>1 DEF Rising
  <2>3. Done(E, s, m) = Done(E, s, m + 1) + k * P
    BY <2>1, <2>2 DEF Level
  <2>4. k \in Nat /\ n \in Nat /\ k < n /\ P \in Nat /\ Period(m + 1) = n * P
    <3>1. x[m + 1] \in Resampler /\ k < n
      BY <2>1, <2>2 DEF Cascade
    <3>2. P \in Nat /\ Period(m + 1) = n * P /\ n \in Nat
      BY <2>1, PeriodFacts, LevelFacts
    <3> QED BY <3>1, <3>2 DEF Resampler
  <2>5. Done(E, s, m) \in Nat /\ Done(E, s, m + 1) \in Nat /\ e \in Nat
    BY <1>2, <2>1, LevelFacts
  <2> HIDE DEF k, P, n, D
  <2>6. k * P + P <= n * P
    <3>1. \A a, b \in Nat : a * b \in Nat
      OBVIOUS
    <3>2. n = k + 1 + (n - k - 1) /\ n - k - 1 \in Nat
      BY <2>4
    <3> DEFINE d == n - k - 1
    <3>3. (k + 1 + d) * P = k * P + P + d * P /\ d * P \in Nat
      <4> HIDE DEF d
      <4>1. d \in Nat
        BY <3>2 DEF d
      <4>2. d * P \in Nat /\ k * P \in Nat
        BY <3>1, <4>1, <2>4
      <4> QED BY <2>4, <4>1, <4>2
    <3> HIDE DEF d
    <3>4. n * P = k * P + P + d * P
      BY <3>2, <3>3 DEF d
    <3>5. k * P \in Nat
      BY <3>1, <2>4
    <3> QED BY <3>3, <3>4, <3>5, <2>4
  <2> DEFINE kp == k * P
             np == n * P
  <2>7. kp \in Nat /\ np \in Nat
    <3>1. \A a, b \in Nat : a * b \in Nat
      OBVIOUS
    <3> QED BY <3>1, <2>4
  <2>8. kp + P <= np /\ Done(E, s, m) = Done(E, s, m + 1) + kp /\ Period(m + 1) = np
    BY <2>3, <2>4, <2>6
  <2> HIDE DEF kp, np
  <2> QED BY <2>1, <2>4, <2>5, <2>7, <2>8 DEF P
<1> HIDE DEF D
<1>7. Nat \subseteq D
  BY <1>5, <1>6, NaturalInduction
<1>8. f \in D /\ f \in Nat /\ f <= f
  BY <1>1, <1>7
<1> QED BY <1>8 DEF D, e

LEMMA LanesImply == Base /\ LanesInv => CandlesAreTrue
<1> SUFFICES ASSUME Base, LanesInv, NEW c \in Instruments, NEW f \in Freqs \ {0},
                    NEW j \in DOMAIN emitted[c][f], j > 1 \/ ~ since.recovered
             PROVE  LET E == emitted[c][f]
                    IN /\ E[j].end - E[j].start = Period(f)
                       /\ E[j].ticks = TicksWithin(c, E[j].start, E[j].end)
                       /\ j > 1 => E[j].start = E[j - 1].end
                       /\ j = Len(E) => published[c][Len(published[c])].end - E[j].end < Period(f)
  BY DEF CandlesAreTrue
<1> DEFINE p == published[c]
           x == cascades[c][First]
           em == emitted[c]
           E == em[f]
           rec == since.recovered
           s == IF p = << >> THEN 0 ELSE p[1].start
<1>1. p \in Seq(Candle)
  BY DEF Base, TypeInv
<1>2. s \in Nat
  <2>1. p # << >> => p[1] \in Candle
    BY <1>1
  <2> QED BY <2>1 DEF Candle
<1>3. Rising(x, p, em, rec, s)
  BY <1>2 DEF LanesInv
<1> HIDE DEF s, p, x, em, rec
<1>4. f \in Freqs /\ f \in 1 .. Levels
  BY LevelFacts
<1>5. E \in Seq(Candle) /\ DOMAIN E = 1 .. Len(E) /\ j \in DOMAIN E /\ E[j].start \in Nat /\ E[j].end \in Nat
  <2>1. j \in DOMAIN E
    BY DEF em
  <2> QED BY <1>3, <1>4, <2>1, DoneType
<1>6. TrueCandles(p, em, rec, f)
  BY <1>3, <1>4 DEF Rising
<1>7. /\ E[j].end - E[j].start = Period(f) /\ E[j].ticks = TicksIn(p, E[j].start, E[j].end)
      /\ j > 1 => E[j].start = E[j - 1].end
  BY <1>5, <1>6 DEF TrueCandles, rec
<1>8. TicksWithin(c, E[j].start, E[j].end) = TicksIn(p, E[j].start, E[j].end)
  <2> DEFINE a == E[j].start
             b == E[j].end
  <2>1. a \in Int /\ b \in Int
    BY <1>5
  <2> HIDE DEF a, b
  <2>2. FoldLeft(LAMBDA sum, x0 : IF x0.start >= a /\ x0.end <= b THEN sum + x0.ticks ELSE sum, 0, p)
          = TicksIn(p, a, b)
    BY <1>1, <2>1, TicksFolded
  <2>3. TicksWithin(c, a, b) = TicksIn(p, a, b)
    BY <2>2 DEF TicksWithin, p
  <2> QED BY <2>3 DEF a, b
<1>9. j = Len(E) => p[Len(p)].end - E[j].end < Period(f)
  <2> SUFFICES ASSUME j = Len(E) PROVE p[Len(p)].end - E[j].end < Period(f)
    OBVIOUS
  <2>1. E # << >>
    BY <1>5
  <2>2. p # << >>
    BY <1>3, <1>4, <2>1 DEF Rising
  <2>3. Clean(em, rec, f) /\ Done(em, s, f) = E[j].end
    BY <2>1 DEF Clean, Done
  <2> QED BY <1>3, <1>4, <2>2, <2>3, NotLate
<1> QED BY <1>7, <1>8, <1>9 DEF p, em

\* A candle of the cascade (ResampleCascade.push_5s) has the length of its frequency, begins
\* where the one before it ended, holds every tick between, and none is late: for any number
\* of levels and bars per level, any ticks, and processes that crash and recover at will.
THEOREM CandlesAreAlwaysTrue == Spec => []CandlesAreTrue
<1>1. Base /\ LanesInv => CandlesAreTrue
  BY LanesImply
<1> QED BY <1>1, BaseHolds, LanesHold, PTL

-----------------------------------------------------------------------------
(***************************************************************************)
(* The rings: what one event does to that of its frequency.                *)
(***************************************************************************)
Filling(row) == {c \in Instruments : row.cells[First][c] # None}

LEMMA FillingIs ==
  ASSUME NEW row
  PROVE  IsFiniteSet(Filling(row)) /\ Cardinality(Filling(row)) \in Nat
         /\ (Cardinality(Filling(row)) = Cardinality(Instruments) => Filling(row) = Instruments)
<1>1. Filling(row) \subseteq Instruments /\ IsFiniteSet(Instruments)
  BY InstrumentFacts DEF Filling
<1> QED BY <1>1, FS_Subset, FS_CardinalityType

\* The cell of the event is filled, and counted.
LEMMA CellCounted ==
  ASSUME NEW old, NEW row, NEW c \in Instruments, NEW bar \in Candle,
         \A d \in Instruments : row.cells[First][d] = IF d = c THEN bar ELSE old.cells[First][d],
         old.cells[First][c] = None,
         old.filled[First] = Cardinality(Filling(old)),
         row.filled[First] = old.filled[First] + 1
  PROVE  row.filled[First] = Cardinality(Filling(row))
<1>1. Filling(row) = Filling(old) \cup {c} /\ c \notin Filling(old)
  BY CandleIsNotNone DEF Filling
<1>2. IsFiniteSet(Filling(old))
  BY FillingIs
<1>3. Cardinality(Filling(old) \cup {c}) = Cardinality(Filling(old)) + 1
  BY <1>1, <1>2, FS_AddElement
<1> QED BY <1>1, <1>3

\* Nothing but the candles of the first kind is later than what has been seen.
SeenAfter(more, seen, c, kind, t) ==
  /\ seen \in [Instruments -> Time] /\ more \in [Instruments -> Time]
  /\ \A d \in Instruments : seen[d] <= t /\ more[d] = IF d = c /\ kind = First THEN t ELSE seen[d]
  /\ kind = First => seen[c] < t

LEMMA RingWritten ==
  ASSUME NEW b \in Bank, BankIsTrue(b), NEW c \in Instruments, NEW kind \in KindSet, NEW bar \in Candle,
         NEW T \in Nat, NEW seen, NEW more, SeenAfter(more, seen, c, kind, bar.end),
         RingIsTrue(b, T, seen), bar.end > T, bar.end = b.end,
         NEW u, IsWritten(u, b, c, kind, bar, (b.head - 1) % Lookback)
  PROVE  RingIsTrue(u, T, more)
<1> DEFINE at == (b.head - 1) % Lookback
           t == bar.end
<1>1. /\ u \in Bank /\ at \in 0 .. Lookback - 1 /\ u.end = t /\ u.head = b.head /\ u.full = b.full
      /\ \A r \in 0 .. Lookback - 1 : r # at => u.rows[r] = b.rows[r]
      /\ u.rows[at].end = b.rows[at].end
      /\ \A k \in KindSet, d \in Instruments :
           u.rows[at].cells[k][d] = IF k = kind /\ d = c THEN bar ELSE b.rows[at].cells[k][d]
      /\ \A k \in KindSet :
           u.rows[at].filled[k] = IF k = kind THEN b.rows[at].filled[k] + 1 ELSE b.rows[at].filled[k]
  BY DEF IsWritten
<1>2. b.rows[at].end = t /\ t \in Nat
  BY DEF BankIsTrue, Candle
<1>3. /\ \A d \in Instruments : seen[d] \in Int /\ more[d] \in Int /\ seen[d] <= more[d] /\ more[d] <= t
      /\ more[c] = IF kind = First THEN t ELSE seen[c]
  BY <1>2 DEF SeenAfter, Time
<1>4. \A r \in 0 .. Lookback - 1 : u.rows[r].end = b.rows[r].end /\ b.rows[r].end \in Int
                                   /\ (r - 1) % Lookback \in 0 .. Lookback - 1
  <2>1. \A r \in 0 .. Lookback - 1 : u.rows[r].end = b.rows[r].end
    BY <1>1
  <2>2. b.rows \in [0 .. Lookback - 1 -> Row] /\ \A row \in Row : row.end \in Int
    BY DEF Bank, Row
  <2> QED BY <2>1, <2>2, LookbackFacts
<1> HIDE DEF at, t
<1>5. ASSUME NEW r \in 0 .. Lookback - 1, u.rows[r].end > T PROVE Counted(u.rows[r], more)
  <2>1. Counted(b.rows[r], seen)
    BY <1>4, <1>5 DEF RingIsTrue
  <2>2. CASE r # at
    <3>1. u.rows[r] = b.rows[r] /\ b.rows[r].end \in Int
      BY <1>1, <1>4, <2>2
    <3> QED BY <1>3, <2>1, <3>1 DEF Counted
  <2>3. CASE r = at
    <3>1. \A d \in Instruments : u.rows[r].end <= more[d] \/ more[d] = seen[d]
      BY <1>1, <1>2, <1>3, <2>3 DEF SeenAfter
    <3>2. CASE kind # First
      <4>1. /\ u.rows[r].filled[First] = b.rows[r].filled[First] /\ u.rows[r].end = b.rows[r].end
            /\ \A d \in Instruments : u.rows[r].cells[First][d] = b.rows[r].cells[First][d]
        BY <1>1, <2>3, <3>2, KindFacts
      <4>2. Filling(u.rows[r]) = Filling(b.rows[r])
        BY <4>1 DEF Filling
      <4> QED BY <2>1, <3>1, <4>1, <4>2 DEF Counted, Filling
    <3>3. CASE kind = First
      <4>1. b.rows[r].cells[First][c] = None
        <5>1. seen[c] < b.rows[r].end /\ seen[c] \in Int /\ b.rows[r].end \in Int
          BY <1>2, <1>3, <1>4, <2>3, <3>3 DEF SeenAfter, t
        <5> QED BY <2>1, <5>1 DEF Counted
      <4>2. /\ u.rows[r].filled[First] = b.rows[r].filled[First] + 1 /\ u.rows[r].end = b.rows[r].end
            /\ \A d \in Instruments : u.rows[r].cells[First][d] = IF d = c THEN bar ELSE b.rows[r].cells[First][d]
        BY <1>1, <2>3, <3>3, KindFacts
      <4>3. b.rows[r].filled[First] = Cardinality(Filling(b.rows[r]))
        BY <2>1 DEF Counted, Filling
      <4>4. u.rows[r].filled[First] = Cardinality(Filling(u.rows[r]))
        <5> DEFINE old == b.rows[r]
                   row == u.rows[r]
        <5>1. /\ \A d \in Instruments : row.cells[First][d] = IF d = c THEN bar ELSE old.cells[First][d]
              /\ old.cells[First][c] = None /\ old.filled[First] = Cardinality(Filling(old))
              /\ row.filled[First] = old.filled[First] + 1
          BY <4>1, <4>2, <4>3
        <5> HIDE DEF old, row
        <5>2. row.filled[First] = Cardinality(Filling(row))
          BY <5>1, CellCounted
        <5> QED BY <5>2 DEF row
      <4>5. \A d \in Instruments : u.rows[r].cells[First][d] # None => u.rows[r].end <= more[d]
        <5> SUFFICES ASSUME NEW d \in Instruments, u.rows[r].cells[First][d] # None
                     PROVE  u.rows[r].end <= more[d]
          OBVIOUS
        <5>1. CASE d = c
          BY <1>2, <1>3, <2>3, <3>3, <4>2, <5>1
        <5>2. CASE d # c
          <6>1. b.rows[r].end <= seen[d]
            BY <2>1, <4>2, <5>2 DEF Counted
          <6> QED BY <1>3, <1>4, <4>2, <6>1
        <5> QED BY <5>1, <5>2
      <4> QED BY <4>4, <4>5 DEF Counted, Filling
    <3> QED BY <3>2, <3>3
  <2> QED BY <2>2, <2>3
<1>6. \A r \in 0 .. Lookback - 1 :
        Used(u, r) /\ r # Oldest(u) /\ u.rows[r].end > T => u.rows[(r - 1) % Lookback].end < u.rows[r].end
  BY <1>1, <1>4 DEF RingIsTrue, Used, Oldest
<1>7. \A d \in Instruments : more[d] > T => more[d] <= u.end
  BY <1>1, <1>3
<1> QED BY <1>5, <1>6, <1>7 DEF RingIsTrue

LEMMA RingNext ==
  ASSUME NEW b \in Bank, BankIsTrue(b), NEW c \in Instruments, NEW bar \in Candle,
         NEW T \in Nat, NEW seen, NEW more, SeenAfter(more, seen, c, First, bar.end),
         RingIsTrue(b, T, seen), bar.end > T, b.end < bar.end,
         NEW n, IsNextRow(n, b, bar.end, First),
         NEW u, IsWritten(u, n, c, First, bar, b.head)
  PROVE  RingIsTrue(u, T, more)
<1> DEFINE at == b.head
           t == bar.end
<1>1. /\ at \in 0 .. Lookback - 1 /\ b.rows \in [0 .. Lookback - 1 -> Row] /\ b.full \in BOOLEAN
      /\ t \in Nat /\ b.end \in Int /\ First \in KindSet
  BY KindFacts DEF Bank, Candle, Time
<1>2. /\ u.end = t /\ u.head = (at + 1) % Lookback /\ (u.full <=> b.full \/ u.head = 0)
      /\ \A r \in 0 .. Lookback - 1 : r # at => u.rows[r] = b.rows[r]
      /\ u.rows[at].end = t
      /\ \A d \in Instruments : u.rows[at].cells[First][d] = IF d = c THEN bar ELSE None
      /\ u.rows[at].filled[First] = 1
  BY <1>1 DEF IsNextRow, IsWritten
<1>3. /\ \A d \in Instruments : seen[d] \in Int /\ more[d] \in Int /\ seen[d] <= more[d] /\ more[d] <= t
      /\ more[c] = t
  BY <1>1 DEF SeenAfter, Time
<1>4. \A r \in 0 .. Lookback - 1 : b.rows[r].end \in Int /\ (r - 1) % Lookback \in 0 .. Lookback - 1
  <2>1. \A row \in Row : row.end \in Int
    BY DEF Row
  <2> QED BY <1>1, <2>1, LookbackFacts
<1> HIDE DEF at, t
<1>5. ASSUME NEW r \in 0 .. Lookback - 1, u.rows[r].end > T PROVE Counted(u.rows[r], more)
  <2>1. CASE r # at
    <3>1. u.rows[r] = b.rows[r] /\ b.rows[r].end \in Int
      BY <1>2, <1>4, <2>1
    <3>2. Counted(b.rows[r], seen)
      BY <1>5, <3>1 DEF RingIsTrue
    <3> QED BY <1>3, <3>1, <3>2 DEF Counted
  <2>2. CASE r = at
    <3>1. Filling(u.rows[r]) = {c}
      BY <1>2, <2>2, CandleIsNotNone DEF Filling
    <3>2. Cardinality({c}) = 1
      BY FS_Singleton
    <3>3. u.rows[r].filled[First] = Cardinality(Filling(u.rows[r]))
      BY <1>2, <2>2, <3>1, <3>2
    <3>4. \A d \in Instruments : u.rows[r].cells[First][d] # None => u.rows[r].end <= more[d]
      BY <1>1, <1>2, <1>3, <2>2
    <3> QED BY <3>3, <3>4 DEF Counted, Filling
  <2> QED BY <2>1, <2>2
<1>6. ASSUME NEW r \in 0 .. Lookback - 1, Used(u, r), r # Oldest(u), u.rows[r].end > T
      PROVE  u.rows[(r - 1) % Lookback].end < u.rows[r].end
  <2>1. /\ Lookback \in Nat /\ Lookback > 0
        /\ u.head = IF at = Lookback - 1 THEN 0 ELSE at + 1
        /\ (r - 1) % Lookback = IF r = 0 THEN Lookback - 1 ELSE r - 1
        /\ (at - 1) % Lookback = IF at = 0 THEN Lookback - 1 ELSE at - 1
    BY <1>1, <1>2, LookbackFacts
  <2>2. CASE r = at
    <3>1. b.end # -1
      <4> SUFFICES ASSUME b.end = -1 PROVE FALSE
        OBVIOUS
      <4>1. at = 0 /\ ~ b.full
        BY DEF BankIsTrue, at
      <4>2. r = 0 /\ (u.full => u.head = 0)
        BY <1>2, <2>2, <4>1
      <4> QED BY <1>6, <4>2 DEF Oldest
    <3>2. b.rows[(at - 1) % Lookback].end = b.end
      BY <3>1 DEF BankIsTrue, at
    <3>3. (at - 1) % Lookback # at
      <4> SUFFICES ASSUME (at - 1) % Lookback = at PROVE FALSE
        OBVIOUS
      <4>1. Lookback = 1 /\ at = 0 /\ u.head = 0
        BY <1>1, <2>1
      <4>2. Oldest(u) = 0
        BY <4>1 DEF Oldest
      <4> QED BY <1>6, <2>2, <4>1, <4>2
    <3>4. u.rows[(at - 1) % Lookback] = b.rows[(at - 1) % Lookback]
      BY <1>1, <1>2, <1>4, <3>3
    <3> QED BY <1>2, <2>2, <3>2, <3>4 DEF t
  <2>3. CASE r # at
    <3>1. Used(b, r) /\ r # Oldest(b) /\ (r - 1) % Lookback # at
      <4>1. CASE b.full
        <5>1. u.full /\ Oldest(u) = u.head /\ Oldest(b) = at /\ Used(b, r)
          BY <1>2, <4>1 DEF Oldest, Used, at
        <5>2. r # u.head
          BY <1>6, <5>1
        <5>3. (r - 1) % Lookback # at
          BY <1>1, <2>1, <5>2
        <5> QED BY <2>3, <5>1, <5>3
      <4>2. CASE ~ b.full
        <5>1. Oldest(b) = 0 /\ (Used(b, r) <=> r < at)
          BY <4>2 DEF Oldest, Used, at
        <5>2. r # 0 /\ r < at
          <6>1. CASE at = Lookback - 1
            <7>1. u.head = 0 /\ Oldest(u) = 0
              BY <2>1, <6>1 DEF Oldest
            <7> QED BY <1>1, <1>6, <2>1, <2>3, <6>1, <7>1
          <6>2. CASE at # Lookback - 1
            <7>1. u.head = at + 1 /\ u.head # 0
              BY <1>1, <2>1, <6>2
            <7>2. ~ u.full
              BY <1>2, <4>2, <7>1
            <7>3. Oldest(u) = 0 /\ r < u.head
              BY <1>6, <7>2 DEF Oldest, Used
            <7> QED BY <1>1, <1>6, <2>3, <7>1, <7>3
          <6> QED BY <6>1, <6>2
        <5>3. (r - 1) % Lookback # at
          BY <1>1, <2>1, <5>2
        <5> QED BY <5>1, <5>2, <5>3
      <4> QED BY <4>1, <4>2
    <3>2. u.rows[r] = b.rows[r] /\ u.rows[(r - 1) % Lookback] = b.rows[(r - 1) % Lookback]
      BY <1>2, <1>4, <2>3, <3>1
    <3> QED BY <1>6, <3>1, <3>2 DEF RingIsTrue
  <2> QED BY <2>2, <2>3
<1>7. \A d \in Instruments : more[d] > T => more[d] <= u.end
  BY <1>2, <1>3
<1> QED BY <1>5, <1>6, <1>7 DEF RingIsTrue

IsLast(u, c, kind, bar) ==
  /\ u \in Bank /\ u.end = bar.end
  /\ LastRow(u) = u.rows[(u.head - 1) % Lookback] /\ (u.head - 1) % Lookback \in 0 .. Lookback - 1
  /\ LastRow(u).end = bar.end /\ LastRow(u).cells[kind][c] = bar

LEMMA LastWritten ==
  ASSUME NEW b \in Bank, BankIsTrue(b), NEW c \in Instruments, NEW kind \in KindSet, NEW bar \in Candle,
         NEW recovery \in BOOLEAN, ~ Rejects(b, bar.end, recovery),
         NEW u, u = UpdatedBank(b, c, kind, bar, recovery)
  PROVE  IsLast(u, c, kind, bar)
<1>1. u \in Bank /\ BankIsTrue(u) /\ u.end = bar.end /\ u.end # -1
  BY UpdatedBankIs
<1> DEFINE at == (u.head - 1) % Lookback
<1>2. LastRow(u) = u.rows[at] /\ at \in 0 .. Lookback - 1
  BY <1>1, ViewIs
<1>3. u.rows[at].end = bar.end
  BY <1>1 DEF BankIsTrue
<1>4. Refreshes(u, b, c, kind, bar, recovery)
  BY RefreshedBank
<1>5. u.rows[at].cells[kind][c] = bar
  <2>1. CASE bar.end = b.end /\ IsWritten(u, b, c, kind, bar, (b.head - 1) % Lookback)
    BY <2>1 DEF IsWritten
  <2>2. CASE bar.end # b.end /\ \E n : IsNextRow(n, b, bar.end, kind) /\ IsWritten(u, n, c, kind, bar, b.head)
    <3>1. PICK n : IsNextRow(n, b, bar.end, kind) /\ IsWritten(u, n, c, kind, bar, b.head)
      BY <2>2
    <3>2. at = b.head
      BY <3>1 DEF IsNextRow, IsWritten
    <3> HIDE DEF at
    <3> QED BY <3>1, <3>2 DEF IsWritten
  <2> QED BY <1>4, <2>1, <2>2 DEF Refreshes
<1> QED BY <1>1, <1>2, <1>3, <1>5 DEF IsLast

\* The engine at work on a queue.
Desk(e, q, k, T, em) ==
  /\ e \in TrueEngine /\ Settled(e) /\ Queue(e, q, k, T) /\ Rings(e, T)
  /\ Covered(e, q, k, T, em) /\ Following(e, T, em)

AtDesk(e, q, k, T, em, event) ==
  /\ q \in Seq(EventSet) /\ k \in Nat /\ k + 1 \in DOMAIN q /\ T \in Nat /\ event = q[k + 1]
  /\ em \in [Instruments -> [Freqs -> Seq(Candle)]]
  /\ Desk(e, q, k, T, em)

LEMMA DeskFacts ==
  ASSUME NEW e, NEW q, NEW k, NEW T, NEW em, NEW event, AtDesk(e, q, k, T, em, event)
  PROVE  /\ event \in EventSet /\ event.con \in Instruments /\ event.kind \in KindSet
         /\ event.freq \in Freqs /\ event.bar \in Candle /\ event.bar.end \in Nat /\ event.bar.end > T
         /\ Within(e, event.bar.end) /\ e \in Engine /\ TrueBanks(e)
         /\ e.banks # NoBanks /\ e.banks[event.freq] \in Bank /\ BankIsTrue(e.banks[event.freq])
         /\ ~ Rejects(e.banks[event.freq], event.bar.end, FALSE)
         /\ \/ event.kind = First
            \/ e.lastSeen[event.con][First][event.freq] >= event.bar.end
<1>1. event \in EventSet
  BY DEF AtDesk
<1>2. /\ event.con \in Instruments /\ event.kind \in KindSet
      /\ event.freq \in Freqs /\ event.bar \in Candle /\ event.bar.end \in Nat
  BY <1>1 DEF EventSet, Candle
<1>3. e \in Engine /\ TrueBanks(e) /\ Queue(e, q, k, T)
  BY DEF AtDesk, Desk, TrueEngine
<1>4. e.banks # NoBanks /\ e.banks \in [Freqs -> Bank] /\ \A f \in Freqs : BankIsTrue(e.banks[f])
  BY <1>3 DEF TrueBanks, Engine
<1>5. /\ event.bar.end > T /\ Within(e, event.bar.end)
      /\ \/ event.kind = First
         \/ e.lastSeen[event.con][First][event.freq] >= event.bar.end
  <2>1. k + 1 \in DOMAIN q /\ k < k + 1 /\ event = q[k + 1] /\ ~ \E j \in DOMAIN q : k < j /\ j < k + 1
    BY DEF AtDesk
  <2> QED BY <1>3, <2>1 DEF Queue
<1>6. ~ Rejects(e.banks[event.freq], event.bar.end, FALSE)
  <2>1. e.banks[event.freq].end <= event.bar.end /\ e.banks[event.freq] \in Bank
    BY <1>2, <1>4, <1>5 DEF Within, BanksWithin
  <2>2. e.banks[event.freq].end \in Int
    BY <2>1 DEF Bank, Time
  <2> QED BY <1>2, <2>1, <2>2 DEF Rejects
<1> QED BY <1>1, <1>2, <1>3, <1>4, <1>5, <1>6

\* What has been seen of the first kind, after an event.
SeenMoves(p, e, event) ==
  \A f \in Freqs :
    /\ f = event.freq => SeenAfter(SeenOf(p, f), SeenOf(e, f), event.con, event.kind, event.bar.end)
    /\ f # event.freq => SeenOf(p, f) = SeenOf(e, f)

LEMMA SeenIs ==
  ASSUME NEW e, NEW q, NEW k, NEW T, NEW em, NEW event, AtDesk(e, q, k, T, em, event),
         NEW p, Processing(p, e, event, FALSE), IsNew(e, event)
  PROVE  SeenMoves(p, e, event)
<1> SUFFICES ASSUME NEW f \in Freqs
             PROVE  /\ f = event.freq => SeenAfter(SeenOf(p, f), SeenOf(e, f), event.con, event.kind, event.bar.end)
                    /\ f # event.freq => SeenOf(p, f) = SeenOf(e, f)
  BY DEF SeenMoves
<1> DEFINE t == event.bar.end
<1>1. /\ e \in Engine /\ p \in Engine /\ Within(e, t) /\ event.con \in Instruments /\ First \in KindSet
      /\ t \in Nat
  BY DeskFacts, KindFacts DEF Processing
<1>2. \A c \in Instruments :
        p.lastSeen[c][First][f] = IF c = event.con /\ First = event.kind /\ f = event.freq THEN t
                                  ELSE e.lastSeen[c][First][f]
  BY <1>1 DEF Processing
<1>3. \A c \in Instruments : /\ e.lastSeen[c][First][f] \in Time /\ p.lastSeen[c][First][f] \in Time
                             /\ e.lastSeen[c][First][f] <= t
  BY <1>1 DEF Engine, Within
<1>4. SeenOf(p, f) \in [Instruments -> Time] /\ SeenOf(e, f) \in [Instruments -> Time]
  BY <1>3 DEF SeenOf
<1>5. f = event.freq => SeenAfter(SeenOf(p, f), SeenOf(e, f), event.con, event.kind, t)
  <2> SUFFICES ASSUME f = event.freq PROVE SeenAfter(SeenOf(p, f), SeenOf(e, f), event.con, event.kind, t)
    OBVIOUS
  <2>1. \A d \in Instruments : /\ SeenOf(e, f)[d] = e.lastSeen[d][First][f]
                               /\ SeenOf(p, f)[d] = p.lastSeen[d][First][f]
    BY DEF SeenOf
  <2>2. event.kind = First => e.lastSeen[event.con][First][f] < t
    <3>1. event.kind = First => t > e.lastSeen[event.con][First][f]
      BY DEF IsNew
    <3>2. t \in Int
      BY <1>1
    <3>3. e.lastSeen[event.con][First][f] \in Int
      BY <1>1, <1>3 DEF Time
    <3> QED BY <3>1, <3>2, <3>3
  <2>3. \A d \in Instruments : /\ SeenOf(e, f)[d] <= t
                               /\ SeenOf(p, f)[d] = IF d = event.con /\ event.kind = First THEN t ELSE SeenOf(e, f)[d]
    BY <1>2, <1>3, <2>1
  <2> QED BY <1>1, <1>4, <2>1, <2>2, <2>3 DEF SeenAfter
<1>6. f # event.freq => SeenOf(p, f) = SeenOf(e, f)
  BY <1>2 DEF SeenOf
<1> QED BY <1>5, <1>6

LEMMA RingsKept ==
  ASSUME NEW e, NEW q, NEW k, NEW T, NEW em, NEW event, AtDesk(e, q, k, T, em, event),
         NEW p, Processing(p, e, event, FALSE), IsNew(e, event)
  PROVE  Rings(p, T)
<1>0. SeenMoves(p, e, event)
  BY SeenIs
<1> DEFINE f == event.freq
           c == event.con
           kind == event.kind
           bar == event.bar
           t == event.bar.end
           b == e.banks[f]
           u == p.banks[f]
<1>1. /\ c \in Instruments /\ kind \in KindSet /\ f \in Freqs /\ bar \in Candle /\ t \in Nat /\ t > T
      /\ Within(e, t) /\ e \in Engine /\ e.banks # NoBanks /\ b \in Bank /\ BankIsTrue(b)
      /\ ~ Rejects(b, t, FALSE) /\ (kind = First \/ e.lastSeen[c][First][f] >= t)
      /\ T \in Nat /\ Rings(e, T)
  BY DeskFacts DEF AtDesk, Desk
<1>2. u = UpdatedBank(b, c, kind, bar, FALSE)
  BY <1>1 DEF Processing, BankOf
<1>3. SeenAfter(SeenOf(p, f), SeenOf(e, f), c, kind, t)
  BY <1>0, <1>1 DEF SeenMoves
<1>4. RingIsTrue(b, T, SeenOf(e, f)) /\ e.cross[f] = {}
  BY <1>1 DEF Rings
<1> DEFINE seen == SeenOf(e, f)
           more == SeenOf(p, f)
<1>5. Refreshes(u, b, c, kind, bar, FALSE)
  BY <1>1, <1>2, RefreshedBank
<1>6. b.end <= t /\ b.end \in Int
  BY <1>1 DEF Within, BanksWithin, Bank, Time
<1>7. /\ u \in Bank /\ u.end = t /\ LastRow(u) = u.rows[(u.head - 1) % Lookback]
      /\ (u.head - 1) % Lookback \in 0 .. Lookback - 1
      /\ LastRow(u).end = t /\ LastRow(u).cells[kind][c] = bar
  <2>1. bar.end = t /\ FALSE \in BOOLEAN
    OBVIOUS
  <2> HIDE DEF b, u, c, kind, bar, t
  <2>2. ~ Rejects(b, bar.end, FALSE)
    BY <1>1, <2>1
  <2>3. IsLast(u, c, kind, bar)
    BY <1>1, <1>2, <2>1, <2>2, LastWritten
  <2> QED BY <2>1, <2>3 DEF IsLast
<1>8. RingIsTrue(u, T, more)
  <2>1. CASE t = b.end /\ IsWritten(u, b, c, kind, bar, (b.head - 1) % Lookback)
    <3>1. bar.end = t
      OBVIOUS
    <3> HIDE DEF b, u, c, kind, bar, seen, more, t
    <3>2. SeenAfter(more, seen, c, kind, bar.end) /\ RingIsTrue(b, T, seen)
      BY <1>3, <1>4, <3>1 DEF seen, more
    <3> QED BY <1>1, <2>1, <3>1, <3>2, RingWritten
  <2>2. CASE t # b.end /\ \E n : IsNextRow(n, b, t, kind) /\ IsWritten(u, n, c, kind, bar, b.head)
    <3>1. PICK n : IsNextRow(n, b, t, kind) /\ IsWritten(u, n, c, kind, bar, b.head)
      BY <2>2
    <3>2. kind = First
      <4> SUFFICES ASSUME kind # First PROVE FALSE
        OBVIOUS
      <4>1. seen[c] >= t
        BY <1>1 DEF SeenOf
      <4>2. seen[c] \in Int /\ seen[c] <= t
        BY <1>1, <1>3 DEF SeenAfter, Time
      <4>3. seen[c] > T => seen[c] <= b.end
        BY <1>1, <1>4 DEF RingIsTrue
      <4> HIDE DEF seen, t, b, c, kind, f
      <4> QED BY <1>1, <1>6, <2>2, <4>1, <4>2, <4>3
    <3>3. b.end < t
      BY <1>1, <1>6, <2>2
    <3>4. bar.end = t
      OBVIOUS
    <3> HIDE DEF b, u, c, kind, bar, seen, more, t
    <3>5. SeenAfter(more, seen, c, First, bar.end) /\ RingIsTrue(b, T, seen)
      BY <1>3, <1>4, <3>2, <3>4 DEF seen, more
    <3>6. IsNextRow(n, b, bar.end, First) /\ IsWritten(u, n, c, First, bar, b.head)
      BY <3>1, <3>2, <3>4
    <3> QED BY <1>1, <3>3, <3>4, <3>5, <3>6, RingNext
  <2> QED BY <1>1, <1>5, <2>1, <2>2 DEF Refreshes
<1>9. \A g \in Freqs : RingIsTrue(p.banks[g], T, SeenOf(p, g))
  <2> SUFFICES ASSUME NEW g \in Freqs, g # f PROVE RingIsTrue(p.banks[g], T, SeenOf(p, g))
    BY <1>8
  <2>1. p.banks[g] = e.banks[g]
    BY DEF Processing
  <2>2. SeenOf(p, g) = SeenOf(e, g)
    BY <1>0 DEF SeenMoves
  <2> QED BY <1>1, <2>1, <2>2 DEF Rings
<1>10. \A g \in Freqs : p.cross[g] = {}
  <2> SUFFICES ASSUME NEW g \in Freqs PROVE p.cross[g] = {}
    OBVIOUS
  <2>1. e.cross[g] = {}
    BY <1>1 DEF Rings
  <2>2. CASE g = f /\ CrossNow(e, event, FALSE)
    <3> DEFINE row == LastRow(u)
    <3>1. BankOf(e, event, FALSE) = u
      BY <1>2 DEF BankOf
    <3>2. p.cross[g] = MissingNow(e, event, FALSE)
      BY <2>2 DEF Processing
    <3>3. kind = First /\ row.filled[kind] = Cardinality(Instruments)
      BY <2>2, <3>1 DEF CrossNow
    <3>4. Counted(row, more)
      BY <1>1, <1>7, <1>8 DEF RingIsTrue
    <3>5. row.filled[First] = Cardinality(Filling(row))
      BY <3>4 DEF Counted, Filling
    <3> HIDE DEF row, u
    <3>6. Filling(row) = Instruments
      BY <3>3, <3>5, FillingIs
    <3>7. MissingNow(e, event, FALSE) = {d \in Instruments : row.cells[kind][d] = None}
      BY <3>1 DEF MissingNow, row
    <3> QED BY <3>2, <3>3, <3>6, <3>7 DEF Filling
  <2>3. CASE ~ (g = f /\ CrossNow(e, event, FALSE))
    <3>1. p.cross[g] = e.cross[g]
      BY <2>3 DEF Processing
    <3> QED BY <2>1, <3>1
  <2> QED BY <2>2, <2>3
<1> QED BY <1>9, <1>10 DEF Rings

\* The time stamps of the first kind grow, that of the event to its end at least.
Moved(p, e, event) ==
  /\ \A c \in Instruments, f \in Freqs :
       /\ e.lastSeen[c][First][f] \in Int /\ p.lastSeen[c][First][f] \in Int
       /\ e.lastSeen[c][First][f] <= p.lastSeen[c][First][f]
  /\ event.kind = First => p.lastSeen[event.con][First][event.freq] >= event.bar.end

LEMMA MovedOn ==
  ASSUME NEW e, NEW q, NEW k, NEW T, NEW em, NEW event, AtDesk(e, q, k, T, em, event)
  PROVE  Moved(Processed(e, event, FALSE), e, event)
<1>1. /\ event.con \in Instruments /\ event.kind \in KindSet /\ event.freq \in Freqs /\ event.bar.end \in Nat
      /\ event \in EventSet /\ e \in Engine /\ TrueBanks(e) /\ FALSE \in BOOLEAN /\ First \in KindSet
  BY DeskFacts, KindFacts
<1>2. \A c \in Instruments, f \in Freqs : e.lastSeen[c][First][f] \in Int
  BY <1>1 DEF Engine, Time
<1> DEFINE p == Processed(e, event, FALSE)
<1>3. CASE ~ IsNew(e, event)
  <2>1. p = e
    BY <1>1, <1>3, ProcessedIs
  <2>2. event.kind = First => e.lastSeen[event.con][First][event.freq] >= event.bar.end
    <3>1. event.kind = First => ~ (event.bar.end > e.lastSeen[event.con][First][event.freq])
      BY <1>3 DEF IsNew
    <3>2. e.lastSeen[event.con][First][event.freq] \in Int
      BY <1>1, <1>2
    <3> QED BY <1>1, <3>1, <3>2
  <2>3. Moved(e, e, event)
    BY <1>2, <2>2 DEF Moved
  <2> QED BY <2>1, <2>3
<1>4. CASE IsNew(e, event)
  <2>1. Processing(p, e, event, FALSE) /\ p \in Engine
    BY <1>1, <1>4, ProcessedIs
  <2> HIDE DEF p
  <2>2. \A c \in Instruments, f \in Freqs :
          p.lastSeen[c][First][f] = IF c = event.con /\ First = event.kind /\ f = event.freq THEN event.bar.end
                                    ELSE e.lastSeen[c][First][f]
    BY <1>1, <2>1 DEF Processing
  <2>3. event.kind = First => event.bar.end > e.lastSeen[event.con][First][event.freq]
    BY <1>4 DEF IsNew
  <2>4. Moved(p, e, event)
    BY <1>1, <1>2, <2>2, <2>3 DEF Moved
  <2> QED BY <2>4 DEF p
<1> QED BY <1>3, <1>4

LEMMA QueueMoves ==
  ASSUME NEW e, NEW q, NEW k, NEW T, NEW em, NEW event, AtDesk(e, q, k, T, em, event),
         NEW p, Moved(p, e, event), \A i \in DOMAIN q : k + 1 < i => Within(p, q[i].bar.end)
  PROVE  Queue(p, q, k + 1, T) /\ Covered(p, q, k + 1, T, em)
<1>1. /\ k \in Nat /\ DOMAIN q \subseteq Nat /\ k + 1 \in DOMAIN q /\ event = q[k + 1] /\ q \in Seq(EventSet)
      /\ Queue(e, q, k, T) /\ Covered(e, q, k, T, em) /\ em \in [Instruments -> [Freqs -> Seq(Candle)]]
  BY DEF AtDesk, Desk
<1>2. \A i \in DOMAIN q : k < i => i = k + 1 \/ k + 1 < i
  BY <1>1
<1>3. \A i \in DOMAIN q : /\ q[i] \in EventSet /\ q[i].con \in Instruments /\ q[i].freq \in Freqs
                          /\ q[i].bar.end \in Int
  <2>1. \A i \in DOMAIN q : q[i] \in EventSet
    BY <1>1
  <2> QED BY <2>1 DEF EventSet, Candle
<1>4. ASSUME NEW i \in DOMAIN q, k + 1 < i
      PROVE  \/ q[i].kind = First
             \/ p.lastSeen[q[i].con][First][q[i].freq] >= q[i].bar.end
             \/ \E j \in DOMAIN q : k + 1 < j /\ j < i /\ Same(q[i], q[j]) /\ q[j].kind = First
  <2>1. k < i
    BY <1>1, <1>4
  <2>2. \/ q[i].kind = First
        \/ e.lastSeen[q[i].con][First][q[i].freq] >= q[i].bar.end
        \/ \E j \in DOMAIN q : k < j /\ j < i /\ Same(q[i], q[j]) /\ q[j].kind = First
    BY <1>1, <2>1 DEF Queue
  <2>3. CASE e.lastSeen[q[i].con][First][q[i].freq] >= q[i].bar.end
    BY <1>3, <2>3 DEF Moved
  <2>4. CASE \E j \in DOMAIN q : k < j /\ j < i /\ Same(q[i], q[j]) /\ q[j].kind = First
    <3>1. PICK j \in DOMAIN q : k < j /\ j < i /\ Same(q[i], q[j]) /\ q[j].kind = First
      BY <2>4
    <3>2. CASE j = k + 1
      BY <1>1, <1>3, <3>1, <3>2 DEF Moved, Same
    <3>3. CASE k + 1 < j
      BY <3>1, <3>3
    <3> QED BY <1>2, <3>1, <3>2, <3>3
  <2> QED BY <2>2, <2>3, <2>4
<1>5. Queue(p, q, k + 1, T)
  <2>1. \A i \in DOMAIN q : k + 1 < i => k < i
    BY <1>1
  <2> QED BY <1>1, <1>4, <2>1 DEF Queue
<1>6. ASSUME NEW c \in Instruments, NEW f \in Freqs, NEW j \in DOMAIN em[c][f]
      PROVE  /\ em[c][f][j].end > T
             /\ \/ em[c][f][j].end <= p.lastSeen[c][First][f]
                \/ \E i \in DOMAIN q : /\ k + 1 < i /\ q[i].con = c /\ q[i].kind = First /\ q[i].freq = f
                                       /\ q[i].bar.end = em[c][f][j].end
  <2> DEFINE m == em[c][f][j].end
  <2>1. m > T /\ (m <= e.lastSeen[c][First][f]
                  \/ \E i \in DOMAIN q : /\ k < i /\ q[i].con = c /\ q[i].kind = First /\ q[i].freq = f
                                         /\ q[i].bar.end = m)
    BY <1>1 DEF Covered
  <2>2. m \in Int
    <3>1. em[c][f] \in Seq(Candle)
      BY <1>1
    <3>2. em[c][f][j] \in Candle
      BY <3>1
    <3> QED BY <3>2 DEF Candle
  <2> HIDE DEF m
  <2>3. CASE m <= e.lastSeen[c][First][f]
    BY <2>1, <2>2, <2>3 DEF Moved, m
  <2>4. CASE \E i \in DOMAIN q : k < i /\ q[i].con = c /\ q[i].kind = First /\ q[i].freq = f /\ q[i].bar.end = m
    <3>1. PICK i \in DOMAIN q : k < i /\ q[i].con = c /\ q[i].kind = First /\ q[i].freq = f /\ q[i].bar.end = m
      BY <2>4
    <3>2. CASE i = k + 1
      <4>1. p.lastSeen[c][First][f] >= m /\ p.lastSeen[c][First][f] \in Int
        BY <1>1, <3>1, <3>2 DEF Moved
      <4> QED BY <2>1, <2>2, <4>1 DEF m
    <3>3. CASE k + 1 < i
      BY <2>1, <3>1, <3>3 DEF m
    <3> QED BY <1>2, <3>1, <3>2, <3>3
  <2> QED BY <2>1, <2>3, <2>4
<1> QED BY <1>5, <1>6 DEF Covered

LEMMA FollowingKept ==
  ASSUME NEW e, NEW q, NEW k, NEW T, NEW em, NEW event, AtDesk(e, q, k, T, em, event),
         NEW p, Processing(p, e, event, FALSE), Moved(p, e, event)
  PROVE  Following(p, T, em)
<1> DEFINE t == event.bar.end
           b == e.banks[event.freq]
           u == p.banks[event.freq]
<1>1. /\ event.con \in Instruments /\ event.kind \in KindSet /\ event.freq \in Freqs /\ event.bar \in Candle
      /\ t \in Nat /\ t > T /\ Within(e, t) /\ e \in Engine /\ p \in Engine /\ b \in Bank /\ BankIsTrue(b)
      /\ ~ Rejects(b, t, FALSE) /\ T \in Nat /\ Following(e, T, em) /\ Covered(e, q, k, T, em)
      /\ Queue(e, q, k, T) /\ em \in [Instruments -> [Freqs -> Seq(Candle)]]
      /\ q \in Seq(EventSet) /\ k \in Nat /\ k + 1 \in DOMAIN q /\ event = q[k + 1]
  BY DeskFacts DEF AtDesk, Desk, Processing
<1>2. u = UpdatedBank(b, event.con, event.kind, event.bar, FALSE) /\ u = BankOf(e, event, FALSE)
  BY <1>1 DEF Processing, BankOf
<1>3. LastRow(u).end = t /\ LastRow(u).cells[event.kind][event.con] = event.bar
  <2> DEFINE bar == event.bar
             kind == event.kind
             c == event.con
  <2>1. bar.end = t /\ FALSE \in BOOLEAN /\ bar \in Candle /\ kind \in KindSet /\ c \in Instruments
    BY <1>1
  <2>2. u = UpdatedBank(b, c, kind, bar, FALSE) /\ b \in Bank /\ BankIsTrue(b)
    BY <1>1, <1>2
  <2> HIDE DEF b, u, c, kind, bar, t
  <2>3. ~ Rejects(b, bar.end, FALSE)
    BY <1>1, <2>1
  <2>4. IsLast(u, c, kind, bar)
    BY <2>1, <2>2, <2>3, LastWritten
  <2> QED BY <2>1, <2>4 DEF IsLast, c, kind, bar
<1>4. event.con \notin MissingNow(e, event, FALSE)
  BY <1>1, <1>2, <1>3, CandleIsNotNone DEF MissingNow
<1> HIDE DEF b, u
<1> SUFFICES ASSUME NEW f \in Freqs, NEW c \in Instruments
             PROVE  /\ p.lastSeen[c][First][f] > T =>
                         /\ p.latest[f][c] >= p.lastSeen[c][First][f]
                         /\ c \in p.states[f].seen \/ p.states[f].derivedAt >= p.lastSeen[c][First][f]
                         /\ p.states[f].pending => p.states[f].derivedAt >= p.lastSeen[c][First][f]
                    /\ \A j \in DOMAIN em[c][f] :
                         em[c][f][j].end < p.states[f].derivedAt => p.derived[f][c] >= em[c][f][j].end
  BY DEF Following
<1> DEFINE old == e.lastSeen[c][First][f]
           new == p.lastSeen[c][First][f]
           mine == c = event.con /\ event.kind = First /\ f = event.freq
<1>5. /\ new = IF mine THEN t ELSE old
      /\ p.latest[f][c] = IF mine THEN t ELSE e.latest[f][c]
  <2>1. new = IF mine THEN t ELSE old
    BY KindFacts DEF Processing
  <2>2. p.latest[f][c] = IF mine THEN (IF c \in MissingNow(e, event, FALSE) THEN -1 ELSE LastRow(BankOf(e, event, FALSE)).end)
                         ELSE e.latest[f][c]
    <3>1. p.latest[f][c] = IF c = event.con /\ f = event.freq /\ event.kind = First
                           THEN IF c \in MissingNow(e, event, FALSE) THEN -1
                                ELSE LastRow(BankOf(e, event, FALSE)).end
                           ELSE e.latest[f][c]
      BY Zenon DEF Processing
    <3> QED BY <3>1
  <2> QED BY <1>2, <1>3, <1>4, <2>1, <2>2
<1>6. /\ old \in Int /\ new \in Int /\ p.latest[f][c] \in Int /\ e.latest[f][c] \in Int
      /\ p.derived[f][c] \in Int /\ p.states[f].derivedAt \in Int /\ e.states[f].derivedAt \in Int
      /\ new <= t
  <2>1. /\ e.latest[f][c] \in Int /\ p.latest[f][c] \in Int /\ p.derived[f][c] \in Int
    BY <1>1 DEF Engine, Time
  <2>2. p.states[f].derivedAt \in Int /\ e.states[f].derivedAt \in Int
    BY <1>1 DEF Engine, State, Time
  <2>3. old \in Int /\ new \in Int
    BY DEF Moved
  <2>4. old <= t
    BY <1>1, KindFacts DEF Within
  <2> QED BY <1>1, <1>5, <2>1, <2>2, <2>3, <2>4
<1>7. IF DueNow(e, event, f)
      THEN p.derived[f] = p.latest[f] /\ p.states[f].pending = FALSE /\ p.states[f].derivedAt = t
      ELSE /\ p.derived[f] = e.derived[f] /\ p.states[f].derivedAt = e.states[f].derivedAt
           /\ p.states[f].pending <=> PendingNow(e, event, f)
           /\ p.states[f].seen = SeenNow(e, event, f)
  <2>1. IF DueNow(e, event, f)
        THEN /\ p.derived[f] = p.latest[f]
             /\ p.states[f].pending = FALSE /\ p.states[f].seen = {}
             /\ p.states[f].derivedAt = event.bar.end
        ELSE /\ p.derived[f] = e.derived[f]
             /\ p.states[f].pending = PendingNow(e, event, f)
             /\ p.states[f].seen = SeenNow(e, event, f)
             /\ p.states[f].derivedAt = e.states[f].derivedAt
    BY Zenon DEF Processing
  <2>2. CASE DueNow(e, event, f)
    BY <2>1, <2>2
  <2>3. CASE ~ DueNow(e, event, f)
    BY <2>1, <2>3, Zenon
  <2> QED BY <2>2, <2>3
<1>8. DueNow(e, event, f) <=> PendingNow(e, event, f) /\ e.states[f].derivedAt # t
  BY DEF DueNow
<1>9. e.states[f].seen \subseteq SeenNow(e, event, f) /\ (mine => c \in SeenNow(e, event, f))
  BY DEF SeenNow
<1>10. old > T =>
         /\ e.latest[f][c] >= old
         /\ c \in e.states[f].seen \/ e.states[f].derivedAt >= old
  BY <1>1 DEF Following
<1> HIDE DEF old, new, mine, t
<1>11. new > T =>
         /\ p.latest[f][c] >= new
         /\ c \in p.states[f].seen \/ p.states[f].derivedAt >= new
         /\ p.states[f].pending => p.states[f].derivedAt >= new
  <2>1. new > T => p.latest[f][c] >= new
    BY <1>1, <1>5, <1>6, <1>10
  <2>2. CASE DueNow(e, event, f)
    BY <1>1, <1>6, <1>7, <2>1, <2>2
  <2>3. CASE ~ DueNow(e, event, f)
    <3>1. new > T => c \in p.states[f].seen \/ p.states[f].derivedAt >= new
      BY <1>5, <1>7, <1>9, <1>10, <2>3
    <3>2. p.states[f].pending => p.states[f].derivedAt = t
      BY <1>7, <1>8, <2>3
    <3> QED BY <1>1, <1>6, <2>1, <3>1, <3>2
  <2> QED BY <2>2, <2>3
<1>12. ASSUME NEW j \in DOMAIN em[c][f], em[c][f][j].end < p.states[f].derivedAt
       PROVE  p.derived[f][c] >= em[c][f][j].end
  <2> DEFINE m == em[c][f][j].end
  <2>0. m \in Int
    <3>1. em[c][f] \in Seq(Candle)
      BY <1>1
    <3>2. em[c][f][j] \in Candle
      BY <3>1
    <3> QED BY <3>2 DEF Candle
  <2>1. CASE ~ DueNow(e, event, f)
    <3>1. p.derived[f] = e.derived[f] /\ m < e.states[f].derivedAt
      BY <1>7, <1>12, <2>1
    <3> QED BY <1>1, <3>1 DEF Following
  <2>2. CASE DueNow(e, event, f)
    <3>1. m < t
      BY <1>7, <1>12, <2>2
    <3>2. m > T /\ (m <= old \/ \E i \in DOMAIN q : k < i /\ q[i].bar.end = m)
      BY <1>1 DEF Covered, old
    <3>3. \A i \in DOMAIN q : k < i => t <= q[i].bar.end
      <4>1. \A i \in DOMAIN q : k < i => k + 1 <= i
        BY <1>1
      <4> QED BY <1>1, <4>1 DEF Queue, t
    <3> HIDE DEF m
    <3>4. m <= old
      <4> SUFFICES ASSUME NEW i \in DOMAIN q, k < i, q[i].bar.end = m PROVE FALSE
        BY <3>2
      <4>1. t <= m
        BY <3>3
      <4> QED BY <1>1, <2>0, <3>1, <4>1
    <3>5. old <= new
      BY DEF Moved, old, new
    <3>6. p.derived[f][c] >= new
      <4>1. new > T
        BY <1>1, <1>6, <2>0, <3>2, <3>4, <3>5
      <4>2. p.latest[f][c] >= new
        BY <1>11, <4>1
      <4> QED BY <1>7, <2>2, <4>2
    <3> QED BY <1>6, <2>0, <3>4, <3>5, <3>6 DEF m
  <2> QED BY <2>1, <2>2
<1> QED BY <1>11, <1>12 DEF new

LEMMA DeskStep ==
  ASSUME NEW e, NEW q, NEW k, NEW T, NEW em, NEW event, AtDesk(e, q, k, T, em, event)
  PROVE  Desk(Processed(e, event, FALSE), q, k + 1, T, em)
<1> DEFINE p == Processed(e, event, FALSE)
<1>1. /\ event \in EventSet /\ e \in Engine /\ TrueBanks(e) /\ e \in TrueEngine /\ FALSE \in BOOLEAN
      /\ Settled(e) /\ Queue(e, q, k, T) /\ Rings(e, T) /\ Following(e, T, em) /\ event.bar.end \in Int
      /\ Within(e, event.bar.end) /\ k \in Nat /\ k + 1 \in DOMAIN q /\ event = q[k + 1] /\ q \in Seq(EventSet)
  <2>1. /\ event \in EventSet /\ e \in Engine /\ TrueBanks(e) /\ event.bar.end \in Nat
        /\ Within(e, event.bar.end)
    BY DeskFacts
  <2>2. /\ Settled(e) /\ Queue(e, q, k, T) /\ Rings(e, T) /\ Following(e, T, em)
        /\ k \in Nat /\ k + 1 \in DOMAIN q /\ event = q[k + 1] /\ q \in Seq(EventSet) /\ e \in TrueEngine
    BY DEF AtDesk, Desk
  <2> QED BY <2>1, <2>2
<1>2. p \in TrueEngine
  BY <1>1, ProcessedIs DEF TrueEngine
<1>3. Moved(p, e, event)
  BY MovedOn
<1>4. Settled(p)
  <2> DEFINE t == event.bar.end
  <2>1. event.bar.end <= t /\ Reasonable(e, t) /\ t \in Int
    BY <1>1 DEF Reasonable
  <2> HIDE DEF t
  <2>2. Reasonable(p, t)
    BY <1>1, <2>1, ProcessedWithin
  <2> QED BY <2>2 DEF Reasonable
<1>5. \A i \in DOMAIN q : k + 1 < i => Within(p, q[i].bar.end)
  <2> SUFFICES ASSUME NEW i \in DOMAIN q, k + 1 < i PROVE Within(p, q[i].bar.end)
    OBVIOUS
  <2> DEFINE t == q[i].bar.end
  <2>1. k + 1 <= i /\ k < i
    BY <1>1
  <2>2. event.bar.end <= t /\ Within(e, t)
    BY <1>1, <2>1 DEF Queue
  <2>3. t \in Int
    <3>1. q[i] \in EventSet
      BY <1>1
    <3> QED BY <3>1 DEF EventSet, Candle
  <2> HIDE DEF t
  <2>4. Reasonable(p, t)
    BY <1>1, <2>2, <2>3, ProcessedWithin DEF Reasonable
  <2> QED BY <2>4 DEF Reasonable, t
<1>6. Queue(p, q, k + 1, T) /\ Covered(p, q, k + 1, T, em)
  BY <1>3, <1>5, QueueMoves
<1>7. Rings(p, T) /\ Following(p, T, em)
  <2>1. CASE ~ IsNew(e, event)
    <3>1. p = e
      BY <1>1, <2>1, ProcessedIs
    <3> QED BY <1>1, <3>1
  <2>2. CASE IsNew(e, event)
    <3>1. Processing(p, e, event, FALSE)
      BY <1>1, <2>2, ProcessedIs
    <3> HIDE DEF p
    <3> QED BY <1>3, <2>2, <3>1, RingsKept, FollowingKept
  <2> QED BY <2>1, <2>2
<1> QED BY <1>2, <1>4, <1>6, <1>7 DEF Desk

\* The events of a turn, one after the other; then the rest of the queue is the queue.
LEMMA DeskCut ==
  ASSUME NEW p, NEW q \in Seq(EventSet), NEW n \in 0 .. Len(q), NEW T, NEW em, Desk(p, q, n, T, em),
         NEW a, NEW b, IsCut(a, b, q, n)
  PROVE  Desk(p, b, 0, T, em)
<1>1. /\ n \in Nat /\ Len(q) \in Nat /\ DOMAIN q = 1 .. Len(q) /\ DOMAIN b = 1 .. Len(q) - n
      /\ \A i \in DOMAIN b : b[i] = q[n + i] /\ n + i \in DOMAIN q /\ n < n + i /\ i \in Nat /\ 0 < i
  BY DEF IsCut
<1>2. \A j \in DOMAIN q : n < j => j - n \in DOMAIN b /\ b[j - n] = q[j] /\ 0 < j - n
  <2> SUFFICES ASSUME NEW j \in DOMAIN q, n < j PROVE j - n \in DOMAIN b /\ b[j - n] = q[j] /\ 0 < j - n
    OBVIOUS
  <2>1. j - n \in DOMAIN b /\ n + (j - n) = j /\ 0 < j - n
    BY <1>1
  <2> QED BY <1>1, <2>1
<1>3. Queue(p, q, n, T) /\ Covered(p, q, n, T, em)
  BY DEF Desk
<1>4. ASSUME NEW i \in DOMAIN b
      PROVE  /\ b[i].bar.end > T /\ Within(p, b[i].bar.end)
             /\ \/ b[i].kind = First
                \/ p.lastSeen[b[i].con][First][b[i].freq] >= b[i].bar.end
                \/ \E j \in DOMAIN b : 0 < j /\ j < i /\ Same(b[i], b[j]) /\ b[j].kind = First
  <2>1. n + i \in DOMAIN q /\ n < n + i /\ b[i] = q[n + i] /\ i \in Nat
    BY <1>1
  <2>2. /\ b[i].bar.end > T /\ Within(p, b[i].bar.end)
        /\ \/ b[i].kind = First
           \/ p.lastSeen[b[i].con][First][b[i].freq] >= b[i].bar.end
           \/ \E j \in DOMAIN q : n < j /\ j < n + i /\ Same(b[i], q[j]) /\ q[j].kind = First
    BY <1>3, <2>1 DEF Queue
  <2>3. ASSUME NEW j \in DOMAIN q, n < j, j < n + i, Same(b[i], q[j]), q[j].kind = First
        PROVE  \E m \in DOMAIN b : 0 < m /\ m < i /\ Same(b[i], b[m]) /\ b[m].kind = First
    <3>1. j - n \in DOMAIN b /\ b[j - n] = q[j] /\ 0 < j - n
      BY <1>2, <2>3
    <3>2. j - n < i
      BY <1>1, <2>1, <2>3
    <3> QED BY <2>3, <3>1, <3>2
  <2> QED BY <2>2, <2>3
<1>5. \A i, j \in DOMAIN b : i <= j => b[i].bar.end <= b[j].bar.end
  <2> SUFFICES ASSUME NEW i \in DOMAIN b, NEW j \in DOMAIN b, i <= j PROVE b[i].bar.end <= b[j].bar.end
    OBVIOUS
  <2>1. n + i \in DOMAIN q /\ n + j \in DOMAIN q /\ n + i <= n + j /\ b[i] = q[n + i] /\ b[j] = q[n + j]
    BY <1>1
  <2> QED BY <1>3, <2>1 DEF Queue
<1>6. Queue(p, b, 0, T)
  BY <1>4, <1>5 DEF Queue
<1>7. Covered(p, b, 0, T, em)
  <2> SUFFICES ASSUME NEW c \in Instruments, NEW f \in Freqs, NEW j \in DOMAIN em[c][f]
               PROVE  /\ em[c][f][j].end > T
                      /\ \/ em[c][f][j].end <= p.lastSeen[c][First][f]
                         \/ \E i \in DOMAIN b : /\ 0 < i /\ b[i].con = c /\ b[i].kind = First /\ b[i].freq = f
                                                /\ b[i].bar.end = em[c][f][j].end
    BY DEF Covered
  <2>1. /\ em[c][f][j].end > T
        /\ \/ em[c][f][j].end <= p.lastSeen[c][First][f]
           \/ \E i \in DOMAIN q : /\ n < i /\ q[i].con = c /\ q[i].kind = First /\ q[i].freq = f
                                  /\ q[i].bar.end = em[c][f][j].end
    BY <1>3 DEF Covered
  <2> QED BY <1>2, <2>1
<1> QED BY <1>6, <1>7 DEF Desk

LEMMA TurnDone ==
  ASSUME NEW e, NEW q \in Seq(EventSet), NEW n \in 0 .. Len(q), NEW T \in Nat,
         NEW em \in [Instruments -> [Freqs -> Seq(Candle)]], Desk(e, q, 0, T, em),
         NEW a \in Seq(EventSet), NEW b, IsCut(a, b, q, n)
  PROVE  Desk(ProcessAll(e, a, FALSE), b, 0, T, em)
<1>1. e \in TrueEngine /\ FALSE \in BOOLEAN
  BY DEF Desk
<1>2. PICK t \in [0 .. Len(a) -> TrueEngine] : ProcessTrace(t, e, a, FALSE)
  BY <1>1, ProcessAllIs
<1>3. /\ Len(a) = n /\ DOMAIN a = 1 .. n /\ \A i \in 1 .. n : a[i] = q[i]
      /\ n \in Nat /\ DOMAIN q = 1 .. Len(q) /\ Len(q) \in Nat
  BY DEF IsCut
<1> DEFINE D == {i \in Nat : i <= n => Desk(t[i], q, i, T, em)}
<1>4. 0 \in D
  BY <1>2 DEF ProcessTrace
<1>5. ASSUME NEW i \in Nat, i \in D PROVE i + 1 \in D
  <2> SUFFICES ASSUME i + 1 <= n PROVE Desk(t[i + 1], q, i + 1, T, em)
    OBVIOUS
  <2> DEFINE event == q[i + 1]
             x == t[i]
  <2>1. Desk(x, q, i, T, em) /\ i + 1 \in 1 .. n /\ i + 1 \in DOMAIN q /\ (i + 1) - 1 = i /\ a[i + 1] = event
    BY <1>3, <1>5
  <2>2. AtDesk(x, q, i, T, em, event)
    BY <2>1 DEF AtDesk
  <2>3. t[i + 1] = Processed(x, event, FALSE)
    <3>1. t[i + 1] = Processed(t[(i + 1) - 1], a[i + 1], FALSE)
      BY <1>2, <1>3, <2>1 DEF ProcessTrace
    <3> QED BY <2>1, <3>1
  <2> HIDE DEF x, event
  <2> QED BY <2>2, <2>3, DeskStep
<1> HIDE DEF D
<1>6. Nat \subseteq D
  BY <1>4, <1>5, NaturalInduction
<1>7. Desk(t[n], q, n, T, em)
  <2>1. n \in D /\ n <= n
    BY <1>3, <1>6
  <2> QED BY <2>1 DEF D
<1>8. t[n] = ProcessAll(e, a, FALSE)
  BY <1>2, <1>3 DEF ProcessTrace
<1> DEFINE p == ProcessAll(e, a, FALSE)
<1>9. Desk(p, q, n, T, em)
  BY <1>7, <1>8
<1> HIDE DEF p
<1>10. Desk(p, b, 0, T, em)
  BY <1>9, DeskCut
<1> QED BY <1>10 DEF p


-----------------------------------------------------------------------------
(***************************************************************************)
(* The desk: what the engine has seen, and what it has made of it.         *)
(***************************************************************************)
DeskAll == RingsInv /\ FollowInv /\ DeskInv

\* Where nothing is later than T.
LEMMA NothingLater ==
  ASSUME NEW e \in Engine, NEW T \in Nat, Reasonable(e, T), \A f \in Freqs : e.cross[f] = {}
  PROVE  Rings(e, T)
         /\ \A em : (\A c \in Instruments, f \in Freqs : em[c][f] = << >>) =>
              Following(e, T, em) /\ Queue(e, << >>, 0, T) /\ Covered(e, << >>, 0, T, em)
<1>1. /\ \A c \in Instruments, f \in Freqs : e.lastSeen[c][First][f] \in Int /\ e.lastSeen[c][First][f] <= T
      /\ BanksWithin(e.banks, T)
  BY KindFacts DEF Engine, Time, Reasonable, Within
<1>2. ASSUME e.banks # NoBanks, NEW f \in Freqs PROVE RingIsTrue(e.banks[f], T, SeenOf(e, f))
  <2>1. e.banks[f] \in Bank
    BY <1>2 DEF Engine
  <2>2. \A r \in 0 .. Lookback - 1 : e.banks[f].rows[r].end \in Int /\ e.banks[f].rows[r].end <= T
    <3>1. \A row \in Row : row.end \in Int
      BY DEF Row
    <3> QED BY <1>1, <1>2, <2>1, <3>1 DEF Bank, BanksWithin
  <2>3. \A r \in 0 .. Lookback - 1 : ~ (e.banks[f].rows[r].end > T)
    BY <2>2
  <2>4. \A c \in Instruments : ~ (SeenOf(e, f)[c] > T)
    BY <1>1 DEF SeenOf
  <2> QED BY <2>3, <2>4 DEF RingIsTrue
<1>3. \A c \in Instruments, f \in Freqs : ~ (e.lastSeen[c][First][f] > T)
  BY <1>1
<1>4. ASSUME NEW em, \A c \in Instruments, f \in Freqs : em[c][f] = << >>
      PROVE  Following(e, T, em) /\ Queue(e, << >>, 0, T) /\ Covered(e, << >>, 0, T, em)
  BY <1>3, <1>4 DEF Following, Queue, Covered
<1> QED BY <1>2, <1>4 DEF Rings

LEMMA DeskInit == Init => DeskAll
<1> SUFFICES ASSUME Init PROVE DeskAll
  OBVIOUS
<1>1. /\ engine \in Engine /\ Reasonable(engine, 0) /\ since.start = 0 /\ now = 0
  <2>1. TypeInv /\ TimeInv /\ Settled(engine)
    BY TypeInit, TimeInit
  <2> QED BY <2>1 DEF Init, TypeInv, TimeInv, Reasonable
<1>2. /\ \A f \in Freqs : engine.cross[f] = {}
      /\ \A c \in Instruments, f \in Freqs : emitted[c][f] = << >>
      /\ events = << >> /\ bars = << >> /\ loop.last = -1
  BY DEF Init, FreshEngine, NothingMissed, NoHistory, FreshLoop
<1>3. /\ Rings(engine, 0) /\ Following(engine, 0, emitted)
      /\ Queue(engine, << >>, 0, 0) /\ Covered(engine, << >>, 0, 0, emitted)
  BY <1>1, <1>2, NothingLater
<1>4. RingsInv /\ FollowInv
  BY <1>1, <1>3 DEF RingsInv, FollowInv, Reasonable
<1>5. DeskInv
  BY <1>1, <1>2, <1>3 DEF DeskInv
<1> QED BY <1>4, <1>5 DEF DeskAll

\* A new process, and a start of its loop.
LEMMA DeskRestarted ==
  ASSUME Base', since'.start = now', \A f \in Freqs : engine'.cross[f] = {}, loop'.last = -1,
         emitted' = NoHistory([f \in Freqs |-> << >>]), events' = << >>, bars' = << >>
  PROVE  DeskAll'
<1>1. engine' \in Engine /\ Reasonable(engine', now') /\ now' \in Nat
  BY MarketDataAssumption DEF Base, TypeInv, TimeInv, Reasonable
<1>2. \A c \in Instruments, f \in Freqs : emitted'[c][f] = << >>
  BY DEF NoHistory
<1>3. /\ Rings(engine', now') /\ Following(engine', now', emitted')
      /\ Queue(engine', << >>, 0, now') /\ Covered(engine', << >>, 0, now', emitted')
  BY <1>1, <1>2, NothingLater
<1>4. (RingsInv /\ FollowInv)'
  BY <1>1, <1>3 DEF RingsInv, FollowInv, Reasonable
<1>5. DeskInv'
  BY <1>3 DEF DeskInv
<1> QED BY <1>4, <1>5 DEF DeskAll

LEMMA DeskKept ==
  ASSUME DeskAll, UNCHANGED <<engine, since, emitted, events, bars, loop, proc>>
  PROVE  DeskAll'
BY DEF DeskAll, RingsInv, FollowInv, DeskInv

LEMMA DeskStarted == ASSUME Base, DeskAll, StartTick PROVE DeskAll'
<1>1. /\ loop' = [loop EXCEPT !.at = "run", !.last = now] /\ loop.at = "tick" /\ proc = "live" /\ proc' = proc
      /\ UNCHANGED <<now, since, emitted, engine, events>>
      /\ bars' = IF loop.last = -1 THEN << >> ELSE BarsBetween(loop.last, now)
  BY DEF StartTick, history, NewBars, BarsBetween
<1>2. /\ now \in Nat /\ now <= MaxTime /\ loop \in LoopSet /\ events = << >> /\ engine \in Engine /\ FrontInv
      /\ Within(engine, now)
  BY <1>1, MarketDataAssumption DEF Base, TypeInv, PlaceInv, TimeInv
<1>3. loop'.last = now /\ loop.last \in Time
  BY <1>1, <1>2 DEF LoopSet
<1>4. \A j \in DOMAIN bars' : Within(engine, bars'[j].bar.end)
  <2>1. CASE loop.last = -1
    BY <1>1, <2>1
  <2>2. CASE loop.last # -1
    <3> DEFINE last == loop.last
               q == BarsBetween(last, now)
    <3>1. last \in Nat /\ last <= now /\ Within(engine, last)
      BY <1>1, <1>2, <1>3, <2>2 DEF FrontInv, Time, DeskAll, DeskInv
    <3>2. Queued(q, now) /\ \A c \in Instruments : Reach(q, now, c) = last
      BY <1>2, <3>1, BarsBetweenQueued
    <3>3. bars' = q
      BY <1>1, <2>2
    <3> HIDE DEF q, last
    <3>4. ASSUME NEW j \in DOMAIN q PROVE Within(engine, q[j].bar.end)
      <4>1. q[j].con \in Instruments /\ Reach(q, now, q[j].con) < q[j].bar.end /\ q[j].bar.end \in Nat
        BY <3>2, QueuedFacts
      <4>2. last <= q[j].bar.end
        BY <3>1, <3>2, <4>1
      <4> DEFINE t == q[j].bar.end
      <4>3. t \in Int /\ last \in Int /\ last <= t
        BY <3>1, <4>1, <4>2
      <4> HIDE DEF t
      <4>4. Within(engine, t)
        BY <1>2, <3>1, <4>3, WithinLater
      <4> QED BY <4>4 DEF t
    <3> QED BY <3>3, <3>4
  <2> QED BY <2>1, <2>2
<1>5. (RingsInv /\ FollowInv)'
  BY <1>1 DEF DeskAll, RingsInv, FollowInv
<1>6. DeskInv'
  BY <1>1, <1>2, <1>3, <1>4 DEF DeskAll, DeskInv
<1> QED BY <1>5, <1>6 DEF DeskAll

LEMMA DeskProcessed == ASSUME Base, DeskAll, ProcessEvents PROVE DeskAll'
<1> DEFINE a == SubSeq(events, 1, Turn)
<1>1. Processes /\ events \in Seq(EventSet) /\ engine \in Engine /\ since.start \in Nat
      /\ emitted \in [Instruments -> [Freqs -> Seq(Candle)]] /\ loop.last \in Time
  BY ProcessIs DEF Base, TypeInv, LoopSet
<1>2. /\ a \in Seq(EventSet) /\ Turn \in 0 .. Len(events) /\ IsCut(a, events', events, Turn)
      /\ bars = << >> /\ bars' = bars /\ UNCHANGED <<loop, emitted, since>> /\ proc = "live"
      /\ \/ proc' = "dead" /\ engine' = engine
         \/ proc' = "live" /\ engine \in TrueEngine /\ engine' = ProcessAll(engine, a, FALSE)
  BY <1>1 DEF Processes
<1> HIDE DEF a
<1>3. CASE proc' = "dead" /\ engine' = engine
  BY <1>2, <1>3 DEF DeskAll, RingsInv, FollowInv, DeskInv
<1>4. CASE proc' = "live" /\ engine \in TrueEngine /\ engine' = ProcessAll(engine, a, FALSE)
  <2> DEFINE T == since.start
             n == Turn
             b == events'
             e == ProcessAll(engine, a, FALSE)
             q == events
             em == emitted
  <2>1. Desk(engine, q, 0, T, em)
    BY <1>2, <1>4 DEF DeskAll, RingsInv, FollowInv, DeskInv, Desk
  <2>2. n \in 0 .. Len(q) /\ q \in Seq(EventSet) /\ T \in Nat /\ IsCut(a, b, q, n)
        /\ em \in [Instruments -> [Freqs -> Seq(Candle)]] /\ a \in Seq(EventSet)
    BY <1>1, <1>2
  <2> HIDE DEF T, n, b, q, em
  <2>3. Desk(e, b, 0, T, em)
    BY <2>1, <2>2, TurnDone
  <2> HIDE DEF e
  <2>4. /\ Rings(e, T) /\ Settled(e) /\ Following(e, T, em) /\ Queue(e, b, 0, T) /\ Covered(e, b, 0, T, em)
    BY <2>3 DEF Desk
  <2>5. loop.last # -1 => Within(e, loop.last) /\ \A i \in DOMAIN b : b[i].bar.end <= loop.last
    <3> SUFFICES ASSUME loop.last # -1
                 PROVE  Within(e, loop.last) /\ \A i \in DOMAIN b : b[i].bar.end <= loop.last
      OBVIOUS
    <3>1. Within(engine, loop.last) /\ \A i \in DOMAIN q : q[i].bar.end <= loop.last
      BY <1>2 DEF DeskAll, DeskInv, q
    <3>2. \A i \in DOMAIN a : a[i] = q[i] /\ i \in DOMAIN q
      BY <2>2 DEF IsCut
    <3>3. \A i \in DOMAIN b : b[i] = q[n + i] /\ n + i \in DOMAIN q
      BY <2>2 DEF IsCut
    <3>4. loop.last \in Int /\ Reasonable(engine, loop.last) /\ \A i \in DOMAIN a : a[i].bar.end <= loop.last
      BY <1>1, <3>1, <3>2, <2>1 DEF Time, Reasonable, Desk
    <3> DEFINE t == loop.last
    <3>5. t \in Int /\ Reasonable(engine, t) /\ \A i \in DOMAIN a : a[i].bar.end <= t
      BY <3>4
    <3> HIDE DEF t
    <3>6. Reasonable(e, t)
      BY <1>4, <2>2, <3>5, ProcessedAllWithin DEF e
    <3>7. Within(e, t)
      BY <3>6 DEF Reasonable
    <3> QED BY <3>1, <3>3, <3>7 DEF t
  <2>6. engine' = e /\ events' = b /\ since'.start = T /\ emitted' = em /\ loop' = loop /\ bars' = << >>
    BY <1>2, <1>4 DEF e, b, T, em
  <2>7. (RingsInv /\ FollowInv)'
    BY <2>4, <2>6 DEF RingsInv, FollowInv
  <2>8. DeskInv'
    BY <2>4, <2>5, <2>6 DEF DeskInv
  <2> QED BY <2>7, <2>8 DEF DeskAll
<1> QED BY <1>2, <1>3, <1>4

LEMMA DeskFinished == ASSUME Base, DeskAll, FinishTick PROVE DeskAll'
<1>1. /\ engine' = [engine EXCEPT !.processed = FALSE] /\ events = << >> /\ bars = << >> /\ proc = "live"
      /\ UNCHANGED <<events, bars, emitted, since>> /\ engine \in Engine
      /\ loop'.last = loop.last
  <2>1. loop' = loop \/ \E minute : loop' = [loop EXCEPT !.at = "tick", !.minute = minute]
    BY DEF FinishTick
  <2>2. loop \in LoopSet
    BY DEF Base, TypeInv
  <2>3. loop'.last = loop.last
    BY <2>1, <2>2 DEF LoopSet
  <2> QED BY <2>3 DEF FinishTick, hub, Base, TypeInv
<1>2. IsIdle(engine', engine) /\ engine'.cross = engine.cross
  BY <1>1, IdleIs
<1>3. Rings(engine', since.start)
  BY <1>2 DEF IsIdle, DeskAll, RingsInv, Rings, SeenOf
<1>4. Settled(engine') /\ Following(engine', since.start, emitted)
  BY <1>2 DEF IsIdle, DeskAll, FollowInv, Settled, Following
<1>5. /\ Queue(engine', << >>, 0, since.start) /\ Covered(engine', << >>, 0, since.start, emitted)
      /\ loop.last # -1 => Within(engine', loop.last)
  <2>1. /\ Queue(engine, << >>, 0, since.start) /\ Covered(engine, << >>, 0, since.start, emitted)
        /\ loop.last # -1 => Within(engine, loop.last)
    BY <1>1 DEF DeskAll, DeskInv
  <2> QED BY <1>2, <2>1 DEF IsIdle, Queue, Covered, Within
<1>6. (RingsInv /\ FollowInv)'
  BY <1>1, <1>3, <1>4 DEF RingsInv, FollowInv
<1>7. DeskInv'
  BY <1>1, <1>5 DEF DeskInv
<1> QED BY <1>6, <1>7 DEF DeskAll

\* What a bar adds to the queue: a candle of the first kind before the same of the others.
Adds(n, c, all, bar) ==
  /\ n \in Seq(EventSet)
  /\ \A i \in DOMAIN n : /\ n[i].con = c /\ n[i].bar.end = bar.end
                         /\ \/ n[i].kind = First
                            \/ \E j \in DOMAIN n : j < i /\ n[j].kind = First /\ n[j].freq = n[i].freq
  /\ \A f \in Freqs : Risen(all[c][First], bar)[f] # None =>
       \E i \in DOMAIN n : n[i].kind = First /\ n[i].freq = f

LEMMA AddsIs ==
  ASSUME NEW all \in CascadeMap, SameKinds(all), NEW c \in Instruments, NEW bar \in Candle
  PROVE  Adds(EventsOf(all, c, bar), c, all, bar)
<1> DEFINE n == EventsOf(all, c, bar)
<1>1. PICK kind : Announces(n, all, c, bar, kind)
  BY EventsOfIs
<1> HIDE DEF n
<1>2. /\ n \in Seq(EventSet) /\ kind \in [DOMAIN n -> DOMAIN Kinds] /\ DOMAIN n \subseteq Nat
      /\ \A i \in DOMAIN n : /\ n[i].con = c /\ n[i].kind = Kinds[kind[i]] /\ n[i].bar.end = bar.end
                             /\ n[i] \in EventSet
  BY <1>1 DEF Announces
<1>3. \A i \in DOMAIN n : /\ kind[i] \in DOMAIN Kinds /\ kind[i] \in Nat /\ kind[i] >= 1
                          /\ n[i].freq \in Freqs /\ n[i].kind \in KindSet /\ n[i].freq \in Nat
  BY <1>2, KindFacts, LevelFacts DEF EventSet
<1>4. ASSUME NEW i \in DOMAIN n, n[i].kind # First
      PROVE  \E j \in DOMAIN n : j < i /\ n[j].kind = First /\ n[j].freq = n[i].freq
  <2> DEFINE f == n[i].freq
  <2>1. Risen(all[c][n[i].kind], bar)[f] # None
    BY <1>1 DEF Announces
  <2>2. all[c][n[i].kind] = all[c][First] /\ First = Kinds[1] /\ 1 \in DOMAIN Kinds
    BY <1>3, KindFacts DEF SameKinds
  <2>3. Risen(all[c][Kinds[1]], bar)[f] # None
    BY <2>1, <2>2
  <2>4. PICK j \in DOMAIN n : kind[j] = 1 /\ n[j].freq = f
    BY <1>1, <1>3, <2>2, <2>3 DEF Announces
  <2>5. n[j].kind = First /\ kind[i] # 1 /\ kind[i] > 1
    BY <1>2, <1>3, <1>4, <2>2, <2>4
  <2>6. ~ (i < j)
    <3> SUFFICES ASSUME i < j PROVE FALSE
      OBVIOUS
    <3>1. \/ n[i].freq = 0 /\ n[j].freq > 0
          \/ n[i].freq = 0 /\ n[j].freq = 0 /\ kind[i] < kind[j]
          \/ n[i].freq > 0 /\ n[j].freq > 0 /\ kind[i] < kind[j]
          \/ n[i].freq > 0 /\ n[j].freq > n[i].freq /\ kind[i] = kind[j]
      BY <1>1 DEF Announces
    <3> QED BY <1>3, <2>4, <2>5, <3>1
  <2>7. i # j /\ i \in Nat /\ j \in Nat
    BY <1>2, <1>4, <2>5
  <2> QED BY <2>4, <2>5, <2>6, <2>7
<1>5. ASSUME NEW f \in Freqs, Risen(all[c][First], bar)[f] # None
      PROVE  \E i \in DOMAIN n : n[i].kind = First /\ n[i].freq = f
  <2>1. First = Kinds[1] /\ 1 \in DOMAIN Kinds
    BY KindFacts
  <2>2. PICK i \in DOMAIN n : kind[i] = 1 /\ n[i].freq = f
    BY <1>1, <1>5, <2>1 DEF Announces
  <2> QED BY <1>2, <2>1, <2>2
<1>6. Adds(n, c, all, bar)
  BY <1>2, <1>4, <1>5 DEF Adds
<1> QED BY <1>6 DEF n

\* The queue with the events of a bar that is later than T and than what it holds.
LEMMA QueueGrows ==
  ASSUME NEW e, NEW q \in Seq(EventSet), NEW T, Queue(e, q, 0, T), NEW c \in Instruments, NEW all,
         NEW bar \in Candle, NEW n, Adds(n, c, all, bar), bar.end > T, Within(e, bar.end),
         \A i \in DOMAIN q : q[i].bar.end <= bar.end
  PROVE  Queue(e, q \o n, 0, T)
<1> DEFINE u == q \o n
           l == Len(q)
           t == bar.end
<1>1. /\ n \in Seq(EventSet) /\ t \in Nat
      /\ \A i \in DOMAIN n : n[i].con = c /\ n[i].bar.end = t
  BY DEF Adds, Candle
<1>2. /\ l \in Nat /\ Len(n) \in Nat /\ DOMAIN u = 1 .. l + Len(n) /\ DOMAIN q = 1 .. l /\ DOMAIN n = 1 .. Len(n)
      /\ \A i \in 1 .. l : u[i] = q[i] /\ i \in DOMAIN u
      /\ \A i \in 1 .. Len(n) : u[l + i] = n[i] /\ l + i \in DOMAIN u
      /\ \A j \in DOMAIN u : j \in 1 .. l \/ \E i \in 1 .. Len(n) : j = l + i
  BY <1>1, ConcatIs
<1> HIDE DEF u, l, t
<1>3. \A j \in DOMAIN u : \/ j \in 1 .. l /\ u[j].bar.end <= t
                          \/ j > l /\ u[j].bar.end = t
  <2>1. \A j \in 1 .. l : u[j] = q[j] /\ q[j].bar.end <= t
    BY <1>2 DEF t
  <2>2. \A i \in 1 .. Len(n) : u[l + i].bar.end = t /\ l + i > l
    BY <1>1, <1>2
  <2> QED BY <1>2, <2>1, <2>2
<1>4. \A i, j \in DOMAIN u : i <= j => u[i].bar.end <= u[j].bar.end
  <2> SUFFICES ASSUME NEW i \in DOMAIN u, NEW j \in DOMAIN u, i <= j PROVE u[i].bar.end <= u[j].bar.end
    OBVIOUS
  <2>1. CASE j \in 1 .. l
    <3>1. i \in 1 .. l
      BY <1>2, <2>1
    <3>2. u[i] = q[i] /\ u[j] = q[j] /\ i \in DOMAIN q /\ j \in DOMAIN q
      BY <1>2, <2>1, <3>1
    <3> QED BY <3>2 DEF Queue
  <2>2. CASE j \notin 1 .. l
    <3>1. u[j].bar.end = t
      BY <1>3, <2>2
    <3>2. u[i].bar.end <= t \/ u[i].bar.end = t
      BY <1>3
    <3> QED BY <1>1, <3>1, <3>2
  <2> QED BY <2>1, <2>2
<1>5. ASSUME NEW i \in DOMAIN u
      PROVE  /\ u[i].bar.end > T /\ Within(e, u[i].bar.end)
             /\ \/ u[i].kind = First
                \/ e.lastSeen[u[i].con][First][u[i].freq] >= u[i].bar.end
                \/ \E j \in DOMAIN u : 0 < j /\ j < i /\ Same(u[i], u[j]) /\ u[j].kind = First
  <2>1. CASE i \in 1 .. l
    <3>1. u[i] = q[i] /\ i \in DOMAIN q /\ 0 < i
      BY <1>2, <2>1
    <3>2. /\ u[i].bar.end > T /\ Within(e, u[i].bar.end)
          /\ \/ u[i].kind = First
             \/ e.lastSeen[u[i].con][First][u[i].freq] >= u[i].bar.end
             \/ \E j \in DOMAIN q : 0 < j /\ j < i /\ Same(u[i], q[j]) /\ q[j].kind = First
      BY <3>1 DEF Queue
    <3>3. \A j \in DOMAIN q : j \in DOMAIN u /\ u[j] = q[j]
      BY <1>2
    <3> QED BY <3>2, <3>3
  <2>2. CASE \E m \in 1 .. Len(n) : i = l + m
    <3>1. PICK m \in 1 .. Len(n) : i = l + m
      BY <2>2
    <3>2. u[i] = n[m] /\ m \in DOMAIN n
      BY <1>2, <3>1
    <3>3. u[i].bar.end > T /\ Within(e, u[i].bar.end)
      BY <1>1, <3>2 DEF t
    <3>4. CASE \E j \in DOMAIN n : j < m /\ n[j].kind = First /\ n[j].freq = n[m].freq
      <4>1. PICK j \in DOMAIN n : j < m /\ n[j].kind = First /\ n[j].freq = n[m].freq
        BY <3>4
      <4>2. u[l + j] = n[j] /\ l + j \in DOMAIN u /\ 0 < l + j /\ l + j < i
        BY <1>2, <3>1, <4>1
      <4>3. Same(u[i], u[l + j])
        BY <1>1, <3>2, <4>1, <4>2 DEF Same
      <4> QED BY <3>3, <4>1, <4>2, <4>3
    <3> QED BY <3>2, <3>3, <3>4 DEF Adds
  <2> QED BY <1>2, <2>1, <2>2
<1>6. Queue(e, u, 0, T)
  BY <1>4, <1>5 DEF Queue
<1> QED BY <1>6 DEF u

LEMMA DeskIngested == ASSUME Base, DeskAll, IngestBar PROVE DeskAll'
<1> DEFINE n == EventsOf(cascades, Con, Bar)
           up == Risen(cascades[Con][First], Bar)
           T == since.start
           t == Bar.end
<1>1. Ingests
  BY IngestIs DEF Base
<1>2. /\ Con \in Instruments /\ Bar \in Candle /\ t \in Nat /\ events' = events \o n
      /\ UNCHANGED <<engine, since, loop>> /\ proc = "live" /\ proc' = proc
      /\ bars' = Tail(bars) /\ bars # << >>
  BY <1>1 DEF Ingests, Candle
<1>3. /\ cascades \in CascadeMap /\ SameKinds(cascades) /\ events \in Seq(EventSet) /\ engine \in Engine
      /\ emitted \in [Instruments -> [Freqs -> Seq(Candle)]] /\ bars \in Seq(BarSet)
  BY DEF Base, TypeInv, KindsInv
<1>4. /\ loop.last \in Nat /\ Queued(bars, loop.last) /\ t <= loop.last /\ t > T /\ 1 \in DOMAIN bars
  BY <1>1, HeadFollows
<1>5. Adds(n, Con, cascades, Bar)
  BY <1>2, <1>3, AddsIs
<1>6. /\ n \in Seq(EventSet) /\ \A i \in DOMAIN n : n[i].con = Con /\ n[i].bar.end = t
  BY <1>5 DEF Adds
<1>7. up \in [Freqs -> CandleOrNone] /\ \A f \in Freqs : up[f] # None => up[f].end = t
  <2>1. cascades[Con][First] \in Cascade
    BY <1>2, <1>3, KindFacts DEF CascadeMap
  <2> QED BY <1>2, <2>1, RisenIs, Risers
<1>8. \A c \in Instruments, f \in Freqs :
        emitted'[c][f] = IF c = Con /\ up[f] # None THEN Append(emitted[c][f], up[f]) ELSE emitted[c][f]
  <2>1. \A c \in Instruments : emitted'[c] = IF c = Con THEN Raised(emitted[c], up) ELSE emitted[c]
    BY <1>1 DEF Ingests
  <2> QED BY <2>1 DEF Raised
<1>9. /\ Within(engine, t) /\ \A i \in DOMAIN events : events[i].bar.end <= t
      /\ Queue(engine, events, 0, T) /\ Covered(engine, events, 0, T, emitted)
      /\ Within(engine, loop.last) /\ \A i \in DOMAIN events : events[i].bar.end <= loop.last
      /\ \A j \in DOMAIN bars : /\ Within(engine, bars[j].bar.end)
                                /\ \A i \in DOMAIN events : events[i].bar.end <= bars[j].bar.end
  BY <1>2, <1>4 DEF DeskAll, DeskInv, Bar
<1> HIDE DEF n, up, T
<1>10. \A c \in Instruments, f \in Freqs : \A j \in DOMAIN emitted'[c][f] :
         \/ j \in DOMAIN emitted[c][f] /\ emitted'[c][f][j] = emitted[c][f][j]
         \/ c = Con /\ up[f] # None /\ emitted'[c][f][j].end = t
  <2> SUFFICES ASSUME NEW c \in Instruments, NEW f \in Freqs, NEW j \in DOMAIN emitted'[c][f]
               PROVE  \/ j \in DOMAIN emitted[c][f] /\ emitted'[c][f][j] = emitted[c][f][j]
                      \/ c = Con /\ up[f] # None /\ emitted'[c][f][j].end = t
    OBVIOUS
  <2>1. CASE c = Con /\ up[f] # None
    <3> DEFINE s == emitted[c][f]
               x == up[f]
    <3>1. s \in Seq(Candle) /\ x \in Candle /\ emitted'[c][f] = Append(s, x) /\ x.end = t
      BY <1>3, <1>7, <1>8, <2>1 DEF CandleOrNone
    <3> HIDE DEF s, x
    <3>2. \A i \in DOMAIN Append(s, x) : (i \in DOMAIN s /\ Append(s, x)[i] = s[i]) \/ Append(s, x)[i] = x
      <4>1. s \in Seq(Candle) /\ x \in Candle
        BY <3>1
      <4> QED BY <4>1
    <3> QED BY <2>1, <3>1, <3>2 DEF s
  <2>2. CASE ~ (c = Con /\ up[f] # None)
    BY <1>8, <2>2
  <2> QED BY <2>1, <2>2
<1>11. Queue(engine, events', 0, T)
  BY <1>2, <1>3, <1>4, <1>5, <1>9, QueueGrows
<1>12. Joins(events', events, n)
  BY <1>2, <1>3, <1>6, Joined
<1>13. \A i \in DOMAIN events' : 0 < i
  <2>1. events' \in Seq(EventSet)
    BY <1>2, <1>3, <1>6
  <2> QED BY <2>1
<1>14. Covered(engine, events', 0, T, emitted')
  <2> SUFFICES ASSUME NEW c \in Instruments, NEW f \in Freqs, NEW j \in DOMAIN emitted'[c][f]
               PROVE  /\ emitted'[c][f][j].end > T
                      /\ \/ emitted'[c][f][j].end <= engine.lastSeen[c][First][f]
                         \/ \E i \in DOMAIN events' :
                              /\ 0 < i /\ events'[i].con = c /\ events'[i].kind = First /\ events'[i].freq = f
                              /\ events'[i].bar.end = emitted'[c][f][j].end
    BY DEF Covered
  <2>1. CASE j \in DOMAIN emitted[c][f] /\ emitted'[c][f][j] = emitted[c][f][j]
    <3>1. /\ emitted'[c][f][j].end > T
          /\ \/ emitted'[c][f][j].end <= engine.lastSeen[c][First][f]
             \/ \E i \in DOMAIN events :
                  /\ events[i].con = c /\ events[i].kind = First /\ events[i].freq = f
                  /\ events[i].bar.end = emitted'[c][f][j].end
      BY <1>9, <2>1 DEF Covered
    <3>2. \A i \in DOMAIN events : \E m \in DOMAIN events' : events'[m] = events[i] /\ 0 < m
      BY <1>12, <1>13 DEF Joins
    <3> QED BY <3>1, <3>2
  <2>2. CASE c = Con /\ up[f] # None /\ emitted'[c][f][j].end = t
    <3>1. PICK i \in DOMAIN n : n[i].kind = First /\ n[i].freq = f
      BY <1>5, <2>2 DEF Adds, up
    <3>2. PICK m \in DOMAIN events' : events'[m] = n[i] /\ 0 < m
      BY <1>12, <1>13 DEF Joins
    <3> QED BY <1>4, <1>6, <2>2, <3>1, <3>2
  <2> QED BY <1>10, <2>1, <2>2
<1>15. \A i \in DOMAIN events' : (\E m \in DOMAIN events : events'[i] = events[m]) \/ events'[i].bar.end = t
  BY <1>6, <1>12 DEF Joins
<1>16. \A i \in DOMAIN events' : events'[i].bar.end <= loop.last
  BY <1>4, <1>9, <1>15
<1>17. \A j \in DOMAIN bars' : /\ Within(engine, bars'[j].bar.end)
                               /\ \A i \in DOMAIN events' : events'[i].bar.end <= bars'[j].bar.end
  <2> SUFFICES ASSUME NEW j \in DOMAIN bars'
               PROVE  /\ Within(engine, bars'[j].bar.end)
                      /\ \A i \in DOMAIN events' : events'[i].bar.end <= bars'[j].bar.end
    OBVIOUS
  <2>1. j \in Nat /\ j + 1 \in DOMAIN bars /\ bars'[j] = bars[j + 1] /\ 1 < j + 1
    <3>1. \A i \in DOMAIN Tail(bars) : /\ Tail(bars)[i] = bars[i + 1] /\ i + 1 \in DOMAIN bars /\ i \in Nat /\ i >= 1
      <4>1. DOMAIN Tail(bars) = 1 .. Len(bars) - 1 /\ Len(bars) \in Nat
            /\ \A i \in DOMAIN Tail(bars) : Tail(bars)[i] = bars[i + 1] /\ i + 1 \in DOMAIN bars
        BY <1>2, <1>3, TailIs
      <4> QED BY <4>1
    <3> QED BY <1>2, <3>1
  <2>2. t <= bars[j + 1].bar.end
    <3>1. Before(bars[1], bars[j + 1])
      BY <1>4, <2>1 DEF Queued
    <3>2. bars[1].bar.end \in Nat /\ bars[j + 1].bar.end \in Nat
      BY <1>4, <2>1, QueuedFacts
    <3> QED BY <3>1, <3>2 DEF Before, Bar
  <2> QED BY <1>9, <1>15, <2>1, <2>2
<1>18. Following(engine, T, emitted')
  <2>1. Following(engine, T, emitted)
    BY DEF DeskAll, FollowInv, T
  <2>2. \A f \in Freqs : engine.states[f].derivedAt \in Int /\ engine.states[f].derivedAt <= t
    BY <1>3, <1>9 DEF Engine, State, Time, Within
  <2>3. ASSUME NEW f \in Freqs, NEW c \in Instruments, NEW j \in DOMAIN emitted'[c][f],
               emitted'[c][f][j].end < engine.states[f].derivedAt
        PROVE  engine.derived[f][c] >= emitted'[c][f][j].end
    <3>1. CASE j \in DOMAIN emitted[c][f] /\ emitted'[c][f][j] = emitted[c][f][j]
      BY <2>1, <2>3, <3>1 DEF Following
    <3>2. CASE emitted'[c][f][j].end = t
      BY <1>2, <2>2, <2>3, <3>2
    <3> QED BY <1>10, <3>1, <3>2
  <2> QED BY <2>1, <2>3 DEF Following
<1>19. (RingsInv /\ FollowInv)'
  BY <1>2, <1>18 DEF DeskAll, RingsInv, FollowInv, T
<1>20. DeskInv'
  BY <1>2, <1>9, <1>11, <1>14, <1>16, <1>17 DEF DeskInv, T
<1> QED BY <1>19, <1>20 DEF DeskAll

LEMMA DeskStepped == Base /\ Base' /\ DeskAll /\ [Next]_vars => DeskAll'
<1> SUFFICES ASSUME Base, Base', DeskAll, [Next]_vars PROVE DeskAll'
  OBVIOUS
<1>1. CASE TimePasses \/ SaveBanks \/ SaveManager \/ UNCHANGED vars
  <2>1. UNCHANGED <<engine, since, emitted, events, bars, loop, proc>>
    BY <1>1 DEF TimePasses, SaveBanks, SaveManager, vars, hub, history
  <2> QED BY <2>1, DeskKept
<1>2. CASE StartTick
  BY <1>2, DeskStarted
<1>3. CASE IngestBar
  BY <1>3, DeskIngested
<1>4. CASE ProcessEvents
  BY <1>4, DeskProcessed
<1>5. CASE FinishTick
  BY <1>5, DeskFinished
<1>6. CASE Crash
  <2>1. /\ now' = now /\ engine' = FreshEngine(NoBanks) /\ since'.start = now /\ loop' = FreshLoop
        /\ emitted' = NoHistory([f \in Freqs |-> << >>]) /\ events' = << >> /\ bars' = << >>
    BY <1>6 DEF Crash
  <2>2. (\A f \in Freqs : engine'.cross[f] = {}) /\ loop'.last = -1
    BY <2>1 DEF FreshEngine, NothingMissed, FreshLoop
  <2> QED BY <2>1, <2>2, DeskRestarted
<1>7. CASE Recover
  <2>1. Recovers
    BY <1>7, RecoverIs
  <2>2. /\ now' = now /\ since' = [since EXCEPT !.start = now] /\ UNCHANGED <<loop, emitted, events, bars>>
        /\ engine' = [Filled EXCEPT !.processed = FALSE, !.cross = NothingMissed] /\ proc = "down"
    BY <2>1 DEF Recovers
  <2>3. Filled \in Engine
    BY RecoveredIs, MarketDataAssumption DEF Base, TypeInv, TimeInv, FileSet
  <2>4. engine'.cross = NothingMissed
    BY <2>2, <2>3, IdleIs
  <2>5. \A f \in Freqs : engine'.cross[f] = {}
    BY <2>4 DEF NothingMissed
  <2>6. /\ since'.start = now /\ loop = FreshLoop /\ emitted = NoHistory([f \in Freqs |-> << >>])
        /\ events = << >> /\ bars = << >>
    BY <2>2 DEF Base, TypeInv, PlaceInv, FreshLoop
  <2>7. loop'.last = -1
    BY <2>2, <2>6 DEF FreshLoop
  <2> QED BY <2>2, <2>5, <2>6, <2>7, DeskRestarted
<1>8. CASE StartLoop
  <2>1. /\ UNCHANGED <<now, loop, events, bars, engine, emitted>> /\ proc = "recovered"
        /\ since' = [since EXCEPT !.start = now]
    BY <1>8 DEF StartLoop, hub
  <2>2. /\ since'.start = now /\ loop = FreshLoop /\ emitted = NoHistory([f \in Freqs |-> << >>])
        /\ events = << >> /\ bars = << >>
    BY <2>1 DEF Base, TypeInv, PlaceInv, FreshLoop
  <2>3. \A f \in Freqs : engine'.cross[f] = {}
    BY <2>1 DEF DeskAll, RingsInv, Rings
  <2>4. loop'.last = -1
    BY <2>1, <2>2 DEF FreshLoop
  <2> QED BY <2>1, <2>2, <2>3, <2>4, DeskRestarted
<1>9. CASE NextDay
  <2>1. /\ now' = now /\ engine'.cross = NothingMissed /\ since'.start = now /\ loop' = FreshLoop
        /\ emitted' = NoHistory([f \in Freqs |-> << >>]) /\ events' = << >> /\ bars' = << >>
    BY <1>9 DEF NextDay, FreshEngine
  <2>2. (\A f \in Freqs : engine'.cross[f] = {}) /\ loop'.last = -1
    BY <2>1 DEF NothingMissed, FreshLoop
  <2> QED BY <2>1, <2>2, DeskRestarted
<1> QED BY <1>1, <1>2, <1>3, <1>4, <1>5, <1>6, <1>7, <1>8, <1>9 DEF Next

\* Between two events: the rings are right in what is later than the start, what is to come of
\* the first kind has not been seen, and what has been seen is in the features or pending.
THEOREM DeskHolds == Spec => []DeskAll
<1>1. Base /\ DeskAll /\ Base' /\ [Next]_vars => DeskAll'
  BY DeskStepped
<1> QED BY <1>1, DeskInit, BaseHolds, PTL DEF Spec


-----------------------------------------------------------------------------
(***************************************************************************)
(* The banks.                                                              *)
(***************************************************************************)
LEMMA SlotsOf ==
  ASSUME NEW b \in Bank, NEW j \in 1 .. Size(b)
  PROVE  /\ Used(b, Slot(b, j))
         /\ j > 1 => /\ Slot(b, j) # Oldest(b) /\ j - 1 \in 1 .. Size(b)
                     /\ (Slot(b, j) - 1) % Lookback = Slot(b, j - 1)
<1>1. /\ b.head \in 0 .. Lookback - 1 /\ b.full \in BOOLEAN /\ Lookback \in Nat /\ Lookback > 0
  BY LookbackFacts DEF Bank
<1>2. CASE b.full
  <2> DEFINE a == b.head + j - 1
  <2>1. Size(b) = Lookback /\ Oldest(b) = b.head /\ j \in 1 .. Lookback
    BY <1>2 DEF Size, Oldest
  <2>2. Slot(b, j) = a % Lookback /\ (j > 1 => Slot(b, j - 1) = (a - 1) % Lookback)
    <3>1. b.head + (j - 1) - 1 = a - 1
      BY <1>1, <2>1
    <3> QED BY <1>2, <3>1 DEF Slot
  <2> SUFFICES ASSUME j > 1
               PROVE  Slot(b, j) # Oldest(b) /\ (Slot(b, j) - 1) % Lookback = Slot(b, j - 1)
    BY <1>1, <1>2, <2>1 DEF Used
  <2>3. /\ a \in Nat /\ a < Lookback + Lookback /\ a - 1 \in Nat /\ a - 1 < Lookback + Lookback
        /\ a > b.head /\ a < b.head + Lookback
    BY <1>1, <2>1
  <2> HIDE DEF a
  <2>4. /\ a % Lookback = IF a < Lookback THEN a ELSE a - Lookback
        /\ (a - 1) % Lookback = IF a - 1 < Lookback THEN a - 1 ELSE (a - 1) - Lookback
    BY <2>3, ModFacts
  <2> DEFINE r == a % Lookback
  <2>5. r \in 0 .. Lookback - 1 /\ r # b.head
    BY <1>1, <2>3, <2>4
  <2> HIDE DEF r
  <2>6. (r - 1) % Lookback = IF r = 0 THEN Lookback - 1 ELSE r - 1
    BY <2>5, LookbackFacts
  <2>7. (r - 1) % Lookback = (a - 1) % Lookback
    BY <1>1, <2>3, <2>4, <2>6 DEF r
  <2> QED BY <2>1, <2>2, <2>5, <2>7 DEF r
<1>3. CASE ~ b.full
  <2>1. Size(b) = b.head /\ Oldest(b) = 0 /\ j \in 1 .. b.head /\ Slot(b, j) = j - 1 /\ Slot(b, j - 1) = j - 2
    BY <1>1, <1>3 DEF Size, Oldest, Slot
  <2>2. Used(b, j - 1)
    BY <1>1, <1>3, <2>1 DEF Used
  <2>3. j > 1 => (j - 1) - 1 = j - 2 /\ j - 1 \in 0 .. Lookback - 1 /\ j - 1 # 0
    BY <1>1, <2>1
  <2>4. j > 1 => ((j - 1) - 1) % Lookback = (j - 1) - 1
    BY <2>3, LookbackFacts
  <2> QED BY <1>1, <2>1, <2>2, <2>3, <2>4
<1> QED BY <1>2, <1>3

LEMMA DeskImpliesBanks == Base /\ DeskAll => BanksAreTrue
<1> SUFFICES ASSUME Base, DeskAll, NEW f \in DOMAIN engine.banks
             PROVE  LET rows == View(engine.banks[f])
                        cells(j) == rows[j].cells
                    IN /\ \A j \in DOMAIN rows, k \in KindSet, c \in Instruments :
                            cells(j)[k][c] # None => cells(j)[k][c].end = rows[j].end
                       /\ \A j \in DOMAIN rows : rows[j].end > since.start =>
                            /\ j > 1 => rows[j - 1].end < rows[j].end
                            /\ rows[j].filled[First] = Cardinality({c \in Instruments : cells(j)[First][c] # None})
                       /\ engine.cross[f] = {}
  BY DEF BanksAreTrue
<1> DEFINE b == engine.banks[f]
           rows == View(b)
           T == since.start
<1>1. engine.banks # NoBanks /\ engine.banks \in BankFile
  BY DEF NoBanks, Base, TypeInv
<1>2. engine.banks \in [Freqs -> Bank] /\ \A g \in Freqs : BankIsTrue(engine.banks[g])
  BY <1>1 DEF BankFile
<1>3. f \in Freqs /\ b \in Bank /\ BankIsTrue(b)
  BY <1>2
<1>4. RingIsTrue(b, T, SeenOf(engine, f)) /\ engine.cross[f] = {}
  BY <1>1, <1>3 DEF DeskAll, RingsInv, Rings
<1> HIDE DEF b, T
<1>5. /\ DOMAIN rows = 1 .. Size(b) /\ Size(b) \in Nat
      /\ \A j \in 1 .. Size(b) : Slot(b, j) \in 0 .. Lookback - 1 /\ rows[j] = b.rows[Slot(b, j)]
  BY <1>3, ViewIs
<1> HIDE DEF rows
<1>6. ASSUME NEW j \in DOMAIN rows, NEW k \in KindSet, NEW c \in Instruments, rows[j].cells[k][c] # None
      PROVE  rows[j].cells[k][c].end = rows[j].end
  BY <1>3, <1>5, <1>6 DEF BankIsTrue
<1>7. ASSUME NEW j \in DOMAIN rows, rows[j].end > T
      PROVE  /\ j > 1 => rows[j - 1].end < rows[j].end
             /\ rows[j].filled[First] = Cardinality({c \in Instruments : rows[j].cells[First][c] # None})
  <2> DEFINE r == Slot(b, j)
  <2>1. j \in 1 .. Size(b) /\ r \in 0 .. Lookback - 1 /\ rows[j] = b.rows[r]
    BY <1>5
  <2>2. Counted(rows[j], SeenOf(engine, f))
    BY <1>4, <1>7, <2>1 DEF RingIsTrue
  <2>3. /\ Used(b, r)
        /\ j > 1 => r # Oldest(b) /\ j - 1 \in 1 .. Size(b) /\ (r - 1) % Lookback = Slot(b, j - 1)
    BY <1>3, <2>1, SlotsOf
  <2> HIDE DEF r
  <2>4. j > 1 => b.rows[(r - 1) % Lookback].end < b.rows[r].end
    BY <1>4, <1>7, <2>1, <2>3 DEF RingIsTrue
  <2>5. j > 1 => rows[j - 1] = b.rows[(r - 1) % Lookback]
    BY <1>5, <2>3
  <2> QED BY <2>1, <2>2, <2>4, <2>5 DEF Counted
<1> QED BY <1>4, <1>6, <1>7 DEF rows, b, T

\* The ring of MarketDataBank, for any lookback, kinds and instruments: a cell holds the candle
\* of its row or nothing; of the rows written since runtime_loop started the times grow and the
\* counter of the first kind counts the cells, though recoveries wrote the others.
THEOREM BanksAreAlwaysTrue == Spec => []BanksAreTrue
<1>1. Base /\ DeskAll => BanksAreTrue
  BY DeskImpliesBanks
<1> QED BY <1>1, BaseHolds, DeskHolds, PTL


-----------------------------------------------------------------------------
(***************************************************************************)
(* The derived features.                                                   *)
(***************************************************************************)
LEMMA Multiples == \A P, a, b \in Nat : a < b => a * P \in Nat /\ b * P \in Nat /\ a * P + P <= b * P
<1> SUFFICES ASSUME NEW P \in Nat, NEW a \in Nat, NEW b \in Nat, a < b
             PROVE  a * P \in Nat /\ b * P \in Nat /\ a * P + P <= b * P
  OBVIOUS
<1> DEFINE d == b - a - 1
<1>1. d \in Nat /\ b = a + 1 + d
  OBVIOUS
<1> HIDE DEF d
<1>2. \A u, v \in Nat : u * v \in Nat
  OBVIOUS
<1>3. (a + 1 + d) * P = a * P + P + d * P
  BY <1>1
<1>4. a * P \in Nat /\ d * P \in Nat /\ b * P \in Nat
  BY <1>1, <1>2
<1>5. b * P = a * P + P + d * P
  BY <1>1, <1>3
<1> QED BY <1>4, <1>5

\* Two multiples of a period that are less than it behind the same time are one.
LEMMA SameMultiple ==
  ASSUME NEW P \in Nat, NEW s \in Nat, NEW t \in Nat, NEW a \in Nat, NEW b \in Nat,
         s + a * P <= t, t - (s + a * P) < P, s + b * P <= t, t - (s + b * P) < P
  PROVE  a = b
<1> DEFINE u == a * P
           v == b * P
<1>1. u \in Nat /\ v \in Nat /\ (a < b => u + P <= v) /\ (b < a => v + P <= u)
  <2>1. \A m, n \in Nat : m * n \in Nat
    OBVIOUS
  <2> QED BY <2>1, Multiples
<1>2. s + u <= t /\ t - (s + u) < P /\ s + v <= t /\ t - (s + v) < P
  OBVIOUS
<1> HIDE DEF u, v
<1> QED BY <1>1, <1>2

\* The first candle of a process that did not recover begins with its bars.
StartsInv ==
  \A c \in Instruments, f \in Freqs :
    ~ since.recovered /\ emitted[c][f] # << >> => emitted[c][f][1].start = published[c][1].start

LEMMA StartsKept ==
  ASSUME StartsInv, published' = published, emitted' = emitted, since'.recovered = since.recovered
  PROVE  StartsInv'
BY DEF StartsInv

LEMMA StartsStep == Base /\ Base' /\ LanesInv /\ StartsInv /\ [Next]_vars => StartsInv'
<1> SUFFICES ASSUME Base, Base', LanesInv, StartsInv, [Next]_vars PROVE StartsInv'
  OBVIOUS
<1>1. CASE TimePasses \/ StartTick \/ ProcessEvents \/ FinishTick \/ SaveBanks \/ SaveManager \/ UNCHANGED vars
  <2>1. UNCHANGED <<published, emitted, since>>
    BY <1>1 DEF TimePasses, StartTick, ProcessEvents, FinishTick, SaveBanks, SaveManager, vars, history
  <2> QED BY <2>1, StartsKept
<1>2. CASE IngestBar
  <2>1. Ingests
    BY <1>2, IngestIs DEF Base
  <2>2. Follows(published[Con], Bar)
    BY <2>1, HeadFollows
  <2> SUFFICES ASSUME NEW c \in Instruments, NEW f \in Freqs, ~ since'.recovered, emitted'[c][f] # << >>
               PROVE  emitted'[c][f][1].start = published'[c][1].start
    BY DEF StartsInv
  <2>3. ~ since.recovered
    BY <2>1 DEF Ingests
  <2>4. CASE c # Con
    <3>1. published'[c] = published[c] /\ emitted'[c] = emitted[c]
      BY <2>1, <2>4 DEF Ingests
    <3> QED BY <2>3, <3>1 DEF StartsInv
  <2>5. CASE c = Con
    <3> DEFINE p == published[c]
               x == cascades[c][First]
               E == emitted[c]
               rec == since.recovered
               s == IF p = << >> THEN Bar.start ELSE p[1].start
               up == Risen(x, Bar)
    <3>1. p \in Seq(Candle) /\ Bar \in Candle /\ Follows(p, Bar) /\ Bar.start \in Nat
      BY <2>1, <2>2, <2>5 DEF Base, TypeInv, Ingests, Candle
    <3>2. s \in Nat
      <4>1. p # << >> => p[1] \in Candle
        BY <3>1
      <4> QED BY <3>1, <4>1 DEF Candle
    <3>3. Rising(x, p, E, rec, s)
      BY <3>2 DEF LanesInv
    <3>4. published'[c] = Append(p, Bar) /\ emitted'[c] = Raised(E, up)
      BY <2>1, <2>5 DEF Ingests
    <3>5. p = << >> => s = Bar.start
      OBVIOUS
    <3>6. p # << >> => s = p[1].start
      OBVIOUS
    <3> HIDE DEF x, E, rec, s
    <3>7. Append(p, Bar)[1].start = s
      <4>1. CASE p = << >>
        <5>1. Append(p, Bar)[1] = Bar
          BY <4>1
        <5> QED BY <3>5, <4>1, <5>1
      <4>2. CASE p # << >>
        <5> HIDE DEF p
        <5>1. Append(p, Bar)[1] = p[1]
          BY <3>1, <4>2, AppendProperties
        <5> QED BY <3>6, <4>2, <5>1
      <4> QED BY <4>1, <4>2
    <3>8. E[f] # << >> => E[f][1].start = s
      <4>1. E[f] # << >> => p # << >>
        BY <3>3 DEF Rising
      <4> QED BY <2>3, <3>6, <4>1 DEF StartsInv, E
    <3>9. emitted'[c][f] = IF up[f] = None THEN E[f] ELSE Append(E[f], up[f])
      BY <3>4 DEF Raised
    <3>10. E[f] \in Seq(Candle)
      BY <3>3 DEF Rising
    <3> HIDE DEF p, up
    <3>11. CASE up[f] = None
      BY <3>4, <3>7, <3>8, <3>9, <3>11
    <3>12. CASE up[f] # None
      <4> DEFINE v == E[f]
                 w == up[f]
      <4>1. w \in Candle /\ w.start = Done(E, s, f)
        <5>1. Clean(E, rec, f)
          BY <2>3 DEF Clean, rec
        <5> QED BY <3>1, <3>3, <3>5, <3>12, <5>1, RiseIsTrue DEF up
      <4>2. CASE v = << >>
        <5>1. w.start = s
          BY <4>1, <4>2 DEF Done
        <5>2. Append(<< >>, w)[1] = w
          OBVIOUS
        <5> QED BY <3>4, <3>7, <3>9, <3>12, <4>2, <5>1, <5>2
      <4>3. CASE v # << >>
        <5>1. v \in Seq(Candle) /\ w \in Candle /\ v # << >>
          BY <3>10, <4>1, <4>3
        <5>2. emitted'[c][f] = Append(v, w) /\ v[1].start = s
          BY <3>8, <3>9, <3>12, <4>3
        <5> HIDE DEF v, w
        <5>3. Append(v, w)[1] = v[1]
          BY <5>1, AppendProperties
        <5> QED BY <3>4, <3>7, <5>2, <5>3
      <4> QED BY <4>2, <4>3
    <3> QED BY <3>11, <3>12
  <2> QED BY <2>4, <2>5
<1>3. CASE Crash \/ NextDay \/ Recover \/ StartLoop
  <2>1. \A c \in Instruments, f \in Freqs : emitted'[c][f] = << >>
    <3>1. CASE Crash \/ NextDay
      BY <3>1 DEF Crash, NextDay, NoHistory
    <3>2. CASE Recover \/ StartLoop
      <4>1. proc \in {"down", "recovered"} /\ emitted' = emitted
        BY <3>2 DEF Recover, StartLoop
      <4>2. emitted = NoHistory([f \in Freqs |-> << >>])
        BY <4>1 DEF Base, PlaceInv
      <4> QED BY <4>1, <4>2 DEF NoHistory
    <3> QED BY <1>3, <3>1, <3>2
  <2> QED BY <2>1 DEF StartsInv
<1> QED BY <1>1, <1>2, <1>3 DEF Next

\* The candles of a level follow each other from the first bar on.
LEMMA EndsAre ==
  ASSUME NEW x, NEW p, NEW E, NEW rec, NEW s, Rising(x, p, E, rec, s), NEW f \in Freqs,
         f = 0 \/ (~ rec /\ (E[f] # << >> => E[f][1].start = s))
  PROVE  \A j \in DOMAIN E[f] : E[f][j].end = s + j * Period(f)
<1> DEFINE P == Period(f)
           C == E[f]
<1>1. /\ C \in Seq(Candle) /\ Len(C) \in Nat /\ DOMAIN C = 1 .. Len(C) /\ s \in Nat /\ P \in Nat
      /\ \A j \in DOMAIN C : C[j].start \in Nat /\ C[j].end \in Nat
  <2>1. s \in Nat
    BY DEF Rising
  <2> QED BY <2>1, DoneType, PeriodFacts
<1>2. CASE f = 0
  <2>1. C = p /\ Steady(p) /\ P = 1
    BY <1>2, PeriodFacts DEF Rising
  <2>2. p # << >> => s = p[1].start
    BY DEF Rising
  <2> HIDE DEF C
  <2>3. ASSUME NEW j \in DOMAIN C PROVE C[j].end = s + j
    <3>1. p # << >>
      BY <2>1, <2>3
    <3>2. \A i \in DOMAIN p : p[i].end = p[i].start + 1 /\ p[i].start = p[1].start + (i - 1)
      BY <2>1, SteadyFacts
    <3>3. C[j].end = C[j].start + 1 /\ C[j].start = s + (j - 1) /\ j \in Nat
      BY <1>1, <2>1, <2>2, <2>3, <3>1, <3>2
    <3> QED BY <1>1, <3>3
  <2>4. \A j \in DOMAIN C : j * P = j
    BY <1>1, <2>1
  <2> QED BY <2>3, <2>4 DEF C
<1>3. CASE f # 0
  <2>1. ~ rec /\ (C # << >> => C[1].start = s)
    BY <1>3
  <2>2. \A j \in DOMAIN C : C[j].end - C[j].start = P /\ (j > 1 => C[j].start = C[j - 1].end)
    BY <2>1 DEF Rising, TrueCandles
  <2> DEFINE D == {j \in Nat : j \in DOMAIN C => C[j].end = s + j * P}
  <2> HIDE DEF C, P
  <2>3. 0 \in D
    BY <1>1
  <2>4. ASSUME NEW j \in Nat, j \in D PROVE j + 1 \in D
    <3> DEFINE k == j + 1
               u == j * P
               v == k * P
    <3> SUFFICES ASSUME k \in DOMAIN C PROVE C[k].end = s + v
      OBVIOUS
    <3>1. u \in Nat /\ v = u + P /\ (j = 0 => u = 0)
      <4>1. \A n \in Nat : (n + 1) * P = n * P + P /\ n * P \in Nat
        BY <1>1
      <4> QED BY <1>1, <4>1
    <3>2. k \in DOMAIN C /\ C[k].end - C[k].start = P /\ (k > 1 => C[k].start = C[k - 1].end)
      BY <2>2
    <3>3. k > 1 => k - 1 = j /\ j \in DOMAIN C /\ C[j].end = s + u
      BY <1>1, <2>4
    <3>4. ~ (k > 1) => j = 0 /\ k = 1 /\ C # << >>
      BY <1>1
    <3> HIDE DEF k, u, v
    <3>5. C[k].start = s + u
      <4>1. CASE k > 1
        BY <3>2, <3>3, <4>1
      <4>2. CASE ~ (k > 1)
        BY <1>1, <2>1, <3>1, <3>4, <4>2
      <4> QED BY <4>1, <4>2
    <3>6. C[k].start \in Nat /\ C[k].end \in Nat
      BY <1>1, <3>2
    <3> DEFINE z == C[k].end
               y == C[k].start
    <3>7. z \in Nat /\ y \in Nat /\ s \in Nat /\ P \in Nat /\ u \in Nat
      BY <1>1, <3>1, <3>6
    <3>8. z - y = P /\ y = s + u /\ v = u + P
      BY <3>1, <3>2, <3>5
    <3> SUFFICES z = s + v
      OBVIOUS
    <3> HIDE DEF z, y
    <3> QED BY <3>7, <3>8
  <2> HIDE DEF D
  <2>5. Nat \subseteq D
    BY <2>3, <2>4, NaturalInduction
  <2>6. \A j \in DOMAIN C : j \in Nat
    BY <1>1
  <2>7. \A j \in DOMAIN C : C[j].end = s + j * P
    BY <2>5, <2>6 DEF D
  <2> QED BY <2>7 DEF C, P
<1> QED BY <1>2, <1>3

\* Between the bars of two intervals every instrument has as many as the others.
LEMMA InStep ==
  ASSUME Base, LanesInv, bars = << >>, NEW c \in Instruments, published[c] # << >>
  PROVE  /\ loop.last # -1 /\ published[c][1].start \in Nat /\ published[c][1].start < loop.last
         /\ \A d \in Instruments : /\ published[d] # << >>
                                   /\ published[d][1].start = published[c][1].start
                                   /\ published[d][Len(published[d])].end = loop.last
<1>1. /\ published \in [Instruments -> Seq(Candle)]
      /\ loop.last # -1 /\ loop.last \in Nat
      /\ \A d \in Instruments : Reach(bars, loop.last, d) = loop.last
  BY DEF Base, TypeInv, FrontInv, Reach, Queued
<1>2. /\ \A d \in Instruments : published[d] # << >> => published[d][Len(published[d])].end = loop.last
      /\ \A d \in Instruments : Origin(d) = Origin(c)
  BY <1>1 DEF Base, FrontInv
<1> DEFINE p == published[c]
<1>3. p \in Seq(Candle) /\ p # << >> /\ p[Len(p)].end = loop.last
  BY <1>1, <1>2
<1>4. Steady(p)
  <2>1. p[1].start \in Nat
    <3>1. p[1] \in Candle
      BY <1>3
    <3> QED BY <3>1 DEF Candle
  <2> QED BY <2>1 DEF LanesInv, Rising
<1>5. Origin(c) = p[1].start
  BY <1>3 DEF Origin
<1> HIDE DEF p
<1>6. p[1].start \in Nat /\ p[1].start < loop.last
  <2>1. Len(p) \in Nat /\ Len(p) >= 1 /\ 1 \in DOMAIN p /\ Len(p) \in DOMAIN p /\ p[1] \in Candle
    BY <1>3
  <2>2. \A i \in DOMAIN p : p[i].end = p[i].start + 1 /\ p[i].start = p[1].start + (i - 1)
    BY <1>4, SteadyFacts
  <2> DEFINE s == p[1].start
             n == Len(p)
             a == p[n].start
             z == p[n].end
  <2>3. s \in Nat /\ n \in Nat /\ n >= 1 /\ z = a + 1 /\ a = s + (n - 1) /\ z = loop.last
    BY <1>3, <2>1, <2>2 DEF Candle
  <2> HIDE DEF s, n, a, z
  <2>4. s < loop.last
    BY <2>3
  <2> QED BY <2>3, <2>4 DEF s
<1>7. ASSUME NEW d \in Instruments
      PROVE  published[d] # << >> /\ published[d][1].start = p[1].start
  <2>1. published[d] = << >> => Origin(d) = loop.last
    BY <1>1 DEF Origin
  <2>2. Origin(d) = p[1].start
    BY <1>2, <1>5
  <2>3. published[d] # << >>
    BY <1>1, <1>6, <2>1, <2>2
  <2> QED BY <2>2, <2>3 DEF Origin
<1> QED BY <1>1, <1>2, <1>6, <1>7 DEF p

\* The candles of a frequency that an instrument has when its bars end at t.
LEMMA DoneIs ==
  ASSUME NEW x, NEW p, NEW E, NEW rec, NEW s, Rising(x, p, E, rec, s), p # << >>, NEW f \in Freqs,
         f = 0 \/ (~ rec /\ (E[f] # << >> => E[f][1].start = s))
  PROVE  /\ Len(E[f]) \in Nat /\ DOMAIN E[f] = 1 .. Len(E[f])
         /\ s + Len(E[f]) * Period(f) <= p[Len(p)].end
         /\ p[Len(p)].end - (s + Len(E[f]) * Period(f)) < Period(f)
         /\ \A j \in DOMAIN E[f] : E[f][j].end = s + j * Period(f)
<1> DEFINE n == Len(E[f])
           P == Period(f)
           D == Done(E, s, f)
<1>1. Clean(E, rec, f)
  <2>1. E[0] = p
    BY DEF Rising
  <2> QED BY <2>1 DEF Clean
<1>2. p[Len(p)].end - D < P
  BY <1>1, NotLate
<1>3. n \in Nat /\ DOMAIN E[f] = 1 .. n
  BY DEF Rising
<1>4. \A j \in DOMAIN E[f] : E[f][j].end = s + j * P
  BY EndsAre
<1>5. D = s + n * P
  <2>1. CASE E[f] = << >>
    <3>1. n = 0 /\ D = s /\ P \in Nat /\ s \in Nat
      BY <2>1, PeriodFacts DEF Done, Rising
    <3> HIDE DEF n, D, P
    <3>2. 0 * P = 0
      BY <3>1
    <3> QED BY <3>1, <3>2
  <2>2. CASE E[f] # << >>
    <3>1. E[f] \in Seq(Candle)
      BY DEF Rising
    <3>2. n \in DOMAIN E[f] /\ D = E[f][n].end
      BY <2>2, <3>1 DEF Done
    <3> QED BY <1>4, <3>2
  <2> QED BY <2>1, <2>2
<1>6. D <= p[Len(p)].end
  <2>1. CASE E[f] = << >>
    <3>1. p \in Seq(Candle) /\ s \in Nat /\ s = p[1].start /\ D = s /\ Steady(p)
      <4>1. D = s
        BY <2>1 DEF Done
      <4> QED BY <4>1 DEF Rising, Steady
    <3>2. Len(p) \in Nat /\ Len(p) >= 1 /\ Len(p) \in DOMAIN p
      BY <3>1
    <3>3. \A i \in DOMAIN p : p[i].end = p[i].start + 1 /\ p[i].start = p[1].start + (i - 1)
      BY <3>1, SteadyFacts
    <3> DEFINE k == Len(p)
               a == p[k].start
               z == p[k].end
    <3>4. z = a + 1 /\ a = s + (k - 1) /\ k \in Nat /\ k >= 1 /\ s \in Nat /\ D = s
      BY <3>1, <3>2, <3>3
    <3> HIDE DEF k, a, z, D
    <3>5. D <= z
      BY <3>4
    <3> QED BY <3>5 DEF z, k
  <2>2. CASE E[f] # << >>
    <3>1. E[f] \in Seq(Candle) /\ TrueCandles(p, E, rec, f)
      BY DEF Rising
    <3>2. n \in DOMAIN E[f] /\ D = E[f][n].end
      BY <2>2, <3>1 DEF Done
    <3> QED BY <3>1, <3>2 DEF TrueCandles
  <2> QED BY <2>1, <2>2
<1> QED BY <1>2, <1>3, <1>4, <1>5, <1>6

LEMMA DerivedImplied == Base /\ LanesInv /\ StartsInv /\ DeskAll => DerivedFollows
<1> SUFFICES ASSUME Base, LanesInv, StartsInv, DeskAll, proc = "live", loop.at = "tick",
                    NEW c \in Instruments, NEW f \in Freqs, f = 0 \/ ~ since.recovered,
                    NEW j \in 1 .. Len(emitted[c][f]) - 1
             PROVE  engine.derived[f][c] >= emitted[c][f][j].end
  BY DEF DerivedFollows
<1> DEFINE n == Len(emitted[c][f])
           P == Period(f)
           s == published[c][1].start
           m == s + n * P
           L == loop.last
           T == since.start
           state == engine.states[f]
<1>1. bars = << >> /\ events = << >>
  BY DEF Base, PlaceInv
<1>2. \A d \in Instruments : emitted[d] \in [Freqs -> Seq(Candle)]
  BY DEF Base, TypeInv
<1>3. published[c] # << >>
  <2>1. \E t \in Nat : Rising(cascades[c][First], published[c], emitted[c], since.recovered, t)
    <3> DEFINE t == IF published[c] = << >> THEN 0 ELSE published[c][1].start
    <3>1. published[c] \in Seq(Candle)
      BY DEF Base, TypeInv
    <3>2. published[c] # << >> => published[c][1] \in Candle
      BY <3>1
    <3>3. t \in Nat
      BY <3>2 DEF Candle
    <3> QED BY <3>3 DEF LanesInv
  <2>2. published[c] = << >> => emitted[c][f] = << >>
    BY <2>1 DEF Rising
  <2>3. emitted[c][f] # << >>
    BY <1>2
  <2> QED BY <2>2, <2>3
<1>4. s \in Nat
      /\ \A d \in Instruments : /\ published[d] # << >> /\ published[d][1].start = s
                                /\ published[d][Len(published[d])].end = L
  BY <1>1, <1>3, InStep
<1> HIDE DEF s
<1>5. \A d \in Instruments : Rising(cascades[d][First], published[d], emitted[d], since.recovered, s)
  BY <1>4 DEF LanesInv
<1>6. \A d \in Instruments : f = 0 \/ (~ since.recovered /\ (emitted[d][f] # << >> => emitted[d][f][1].start = s))
  BY <1>4 DEF StartsInv
<1>7. ASSUME NEW d \in Instruments
      PROVE  /\ Len(emitted[d][f]) \in Nat /\ DOMAIN emitted[d][f] = 1 .. Len(emitted[d][f])
             /\ s + Len(emitted[d][f]) * P <= L /\ L - (s + Len(emitted[d][f]) * P) < P
             /\ \A i \in DOMAIN emitted[d][f] : emitted[d][f][i].end = s + i * P
  <2> DEFINE x == cascades[d][First]
             p == published[d]
             E == emitted[d]
             rec == since.recovered
  <2>1. Rising(x, p, E, rec, s) /\ p # << >> /\ p[Len(p)].end = L
        /\ (f = 0 \/ (~ rec /\ (E[f] # << >> => E[f][1].start = s)))
    BY <1>4, <1>5, <1>6
  <2> HIDE DEF x, p, E, rec, P
  <2>2. /\ Len(E[f]) \in Nat /\ DOMAIN E[f] = 1 .. Len(E[f])
        /\ s + Len(E[f]) * Period(f) <= p[Len(p)].end
        /\ p[Len(p)].end - (s + Len(E[f]) * Period(f)) < Period(f)
        /\ \A i \in DOMAIN E[f] : E[f][i].end = s + i * Period(f)
    BY <2>1, DoneIs
  <2> QED BY <2>1, <2>2 DEF E, P
<1>8. P \in Nat /\ P > 0 /\ L \in Nat /\ n \in Nat /\ j \in Nat /\ j < n /\ n \in 1 .. n /\ j \in 1 .. n
  <2>1. P \in Nat \ {0}
    BY PeriodFacts
  <2>2. L \in Nat
    BY <1>1, <1>3, InStep DEF Base, TypeInv, LoopSet, Time
  <2> QED BY <1>7, <2>1, <2>2
<1>9. \A d \in Instruments : Len(emitted[d][f]) = n
  <2> SUFFICES ASSUME NEW d \in Instruments PROVE Len(emitted[d][f]) = n
    OBVIOUS
  <2> DEFINE k == Len(emitted[d][f])
  <2>1. k \in Nat /\ s + k * P <= L /\ L - (s + k * P) < P /\ s + n * P <= L /\ L - (s + n * P) < P
    BY <1>7
  <2> HIDE DEF k, n, P, L
  <2>2. k = n
    BY <1>4, <1>8, <2>1, SameMultiple
  <2> QED BY <2>2 DEF k
<1>10. /\ \A d \in Instruments : n \in DOMAIN emitted[d][f] /\ emitted[d][f][n].end = m
       /\ j \in DOMAIN emitted[c][f] /\ emitted[c][f][j].end = s + j * P
  BY <1>7, <1>8, <1>9
<1>11. m \in Nat /\ s + j * P \in Nat /\ s + j * P < m
  <2> DEFINE u == j * P
             v == n * P
  <2> HIDE DEF n, P
  <2>1. u \in Nat /\ v \in Nat /\ u + P <= v
    BY <1>8, Multiples
  <2> HIDE DEF u, v
  <2>2. s + v \in Nat /\ s + u \in Nat /\ s + u < s + v
    BY <1>4, <1>8, <2>1
  <2> QED BY <2>2 DEF u, v
<1> HIDE DEF n, P, m, L
<1>12. ASSUME NEW d \in Instruments
       PROVE  /\ d \in state.seen \/ state.derivedAt >= m
              /\ state.pending => state.derivedAt >= m
  <2> DEFINE t == engine.lastSeen[d][First][f]
  <2>1. m > T /\ m <= t
    <3>1. Covered(engine, events, 0, T, emitted)
      BY DEF DeskAll, DeskInv
    <3>2. n \in DOMAIN emitted[d][f] /\ emitted[d][f][n].end = m
      BY <1>10
    <3> QED BY <1>1, <3>1, <3>2 DEF Covered
  <2>2. t \in Int /\ T \in Nat /\ state.derivedAt \in Int
    <3>1. First \in KindSet
      BY KindFacts
    <3>2. engine \in Engine /\ since.start \in Nat
      BY DEF Base, TypeInv
    <3> QED BY <3>1, <3>2 DEF Engine, State, Time
  <2>3. t > T => (d \in state.seen \/ state.derivedAt >= t) /\ (state.pending => state.derivedAt >= t)
    BY DEF DeskAll, FollowInv, Following
  <2> HIDE DEF t, T, state
  <2> QED BY <1>11, <2>1, <2>2, <2>3
<1>13. state.derivedAt >= m
  <2>1. state.seen \in SUBSET Instruments
    BY DEF Base, TypeInv, Engine, State
  <2>2. Instruments # {} /\ state.seen = Instruments => state.pending
    BY DEF DeskAll, FollowInv, Settled
  <2> HIDE DEF state
  <2>3. state.seen = Instruments \/ state.derivedAt >= m
    BY <1>12, <2>1
  <2> QED BY <1>12, <2>2, <2>3
<1>14. state.derivedAt \in Int
  BY DEF Base, TypeInv, Engine, State, Time
<1>15. emitted[c][f][j].end < state.derivedAt => engine.derived[f][c] >= emitted[c][f][j].end
  BY <1>10 DEF DeskAll, FollowInv, Following
<1> QED BY <1>10, <1>11, <1>13, <1>14, <1>15

LEMMA StartsInit == Init => StartsInv
BY DEF Init, StartsInv, NoHistory

\* The features of a frequency, for any number of instruments, kinds and levels, have used
\* every candle but the last whenever process_candle_events has emptied its queue: a set of
\* seen instruments that is full sets the pending flag, and the flag is answered by the next
\* candle of whatever frequency.
THEOREM DerivedAlwaysFollows == Spec => []DerivedFollows
<1>1. Base /\ LanesInv /\ StartsInv /\ Base' /\ [Next]_vars => StartsInv'
  BY StartsStep
<1>2. Base /\ LanesInv /\ StartsInv /\ DeskAll => DerivedFollows
  BY DerivedImplied
<1> QED BY <1>1, <1>2, StartsInit, BaseHolds, LanesHold, DeskHolds, PTL DEF Spec



-----------------------------------------------------------------------------
(***************************************************************************)
(* Neither a feature nor a prediction raises.                              *)
(***************************************************************************)
LEMMA ServedPlan ==
  ASSUME NEW e, HasFeatures(e) = Instruments, PlanIsServed
  PROVE  ~ Raises(Present(e, Instruments))
<1> SUFFICES ASSUME NEW j \in DOMAIN PredictionPlan
             PROVE  LET con == PredictionPlan[j].con
                    IN /\ con \in Range(Universe)
                       /\ {con} \X PredictionPlan[j].model.freqs \subseteq Present(e, Instruments)
  BY DEF Raises
<1> DEFINE con == PredictionPlan[j].con
           freqs == PredictionPlan[j].model.freqs
<1>1. con \in Range(Universe) /\ freqs \subseteq {0}
  BY DEF PlanIsServed
<1>2. con \in Instruments /\ 0 \in Freqs
  BY <1>1, MarketDataAssumption, LevelFacts
<1>3. e.lastSeen[con][First][0] # -1
  BY <1>2 DEF HasFeatures
<1> HIDE DEF con, freqs
<1>4. ASSUME NEW x \in {con} \X freqs PROVE x \in Present(e, Instruments)
  <2>1. x \in Instruments \X Freqs /\ x[1] = con /\ x[2] = 0
    BY <1>1, <1>2
  <2> QED BY <2>1, <1>3 DEF Present
<1> QED BY <1>1, <1>4 DEF con, freqs

LEMMA AllHaveFeatures ==
  ASSUME Base, LanesInv, DeskAll, ReadyInv, proc = "live", bars = << >>, events = << >>, engine.processed
  PROVE  HasFeatures(engine) = Instruments
<1>1. PICK c \in Instruments : published[c] # << >>
  BY DEF ReadyInv
<1>2. ASSUME NEW d \in Instruments PROVE engine.lastSeen[d][First][0] # -1
  <2>1. published[d] # << >> /\ published[c][1].start \in Nat /\ published[d][1].start = published[c][1].start
    BY <1>1, InStep
  <2>2. emitted[d][0] = published[d]
    BY <2>1 DEF LanesInv, Rising
  <2>3. published[d] \in Seq(Candle) /\ 0 \in Freqs /\ First \in KindSet
    BY LevelFacts, KindFacts DEF Base, TypeInv
  <2>4. 1 \in DOMAIN emitted[d][0] /\ emitted[d][0][1] \in Candle
    BY <2>1, <2>2, <2>3
  <2>5. emitted[d][0][1].end <= engine.lastSeen[d][First][0]
    <3>1. Covered(engine, events, 0, since.start, emitted)
      BY DEF DeskAll, DeskInv
    <3> QED BY <2>3, <2>4, <3>1 DEF Covered
  <2>6. engine.lastSeen[d][First][0] \in Int
    <3>1. engine \in Engine
      BY DEF Base, TypeInv
    <3> QED BY <2>3, <3>1 DEF Engine, Time
  <2> QED BY <2>4, <2>5, <2>6 DEF Candle
<1> QED BY <1>2 DEF HasFeatures

LEMMA ReadyInit == Init => ReadyInv
<1> SUFFICES ASSUME Init PROVE ReadyInv
  OBVIOUS
<1> DEFINE banks == [f \in Freqs |-> EmptyBank]
<1>1. proc = "live" /\ events = << >> /\ snapshots = << >> /\ engine = FreshEngine(banks)
  BY DEF Init
<1>2. banks # NoBanks
  BY NoBanksIsNone, FreshFacts
<1> HIDE DEF banks
<1>3. engine.banks = banks /\ engine.processed = FALSE
  BY <1>1 DEF FreshEngine
<1> QED BY <1>1, <1>2, <1>3 DEF ReadyInv

LEMMA ReadyStep == Base /\ LanesInv /\ DeskAll /\ ReadyInv /\ [Next]_vars => ReadyInv'
<1> SUFFICES ASSUME Base, LanesInv, DeskAll, ReadyInv, [Next]_vars PROVE ReadyInv'
  OBVIOUS
<1>1. CASE TimePasses \/ StartTick \/ SaveBanks \/ SaveManager \/ UNCHANGED vars
  <2>1. UNCHANGED <<engine, events, published, since, proc, snapshots>>
    BY <1>1 DEF TimePasses, StartTick, SaveBanks, SaveManager, vars, hub, history, disk
  <2> QED BY <2>1 DEF ReadyInv
<1>2. CASE IngestBar
  <2>1. Ingests
    BY <1>2, IngestIs DEF Base
  <2>2. UNCHANGED <<engine, since, proc, snapshots>> /\ Con \in Instruments /\ Bar \in Candle
    BY <2>1 DEF Ingests
  <2>3. published'[Con] # << >>
    <3>1. published'[Con] = Append(published[Con], Bar) /\ published[Con] \in Seq(Candle)
      BY <2>1, <2>2 DEF Ingests, Base, TypeInv
    <3> DEFINE p == published[Con]
               b == Bar
    <3>2. p \in Seq(Candle) /\ b \in Candle /\ published'[Con] = Append(p, b)
      BY <2>2, <3>1
    <3> HIDE DEF p, b
    <3>3. Append(p, b) # << >>
      BY <3>2, AppendProperties
    <3> QED BY <3>2, <3>3
  <2> QED BY <2>2, <2>3 DEF ReadyInv
<1>3. CASE ProcessEvents
  <2>1. Processes
    BY <1>3, ProcessIs DEF Base
  <2>2. UNCHANGED <<since, published, snapshots>> /\ events # << >>
    BY <2>1 DEF Processes
  <2>3. ~ since.recovered => proc' = "live" /\ engine'.banks # NoBanks
    <3> SUFFICES ASSUME ~ since.recovered PROVE proc' = "live" /\ engine'.banks # NoBanks
      OBVIOUS
    <3> DEFINE a == SubSeq(events, 1, Turn)
    <3>1. engine.banks # NoBanks
      BY DEF ReadyInv
    <3>2. a \in Seq(EventSet) /\ proc' = "live" /\ engine \in TrueEngine /\ engine' = ProcessAll(engine, a, FALSE)
      BY <2>1, <3>1 DEF Processes
    <3> HIDE DEF a
    <3>3. engine' \in TrueEngine
      BY <3>2, ProcessAllIs
    <3> QED BY <3>2, <3>3 DEF TrueEngine, TrueBanks
  <2> QED BY <2>2, <2>3 DEF ReadyInv
<1>4. CASE FinishTick
  <2> DEFINE has == HasFeatures(engine)
             ready == IF engine.processed THEN Append(snapshots, has) ELSE snapshots
             raises == ready # << >> /\ Raises(Present(engine, Head(ready)))
  <2>1. /\ proc = "live" /\ bars = << >> /\ events = << >> /\ events' = events
        /\ engine' = [engine EXCEPT !.processed = FALSE]
        /\ snapshots' = IF ready = << >> THEN << >> ELSE Tail(ready)
        /\ raises \/ proc' = proc
        /\ UNCHANGED <<since, published>>
    BY <1>4 DEF FinishTick, hub
  <2>2. engine.processed => has = Instruments
    BY <2>1, AllHaveFeatures
  <2>3. engine \in Engine
    BY DEF Base, TypeInv
  <2>4. engine'.banks = engine.banks /\ engine'.processed = FALSE
    BY <2>1, <2>3, IdleIs DEF IsIdle
  <2>5. ~ since.recovered => /\ snapshots' = << >>
                             /\ PlanIsServed => ~ raises
    <3> SUFFICES ASSUME ~ since.recovered
                 PROVE  snapshots' = << >> /\ (PlanIsServed => ~ raises)
      OBVIOUS
    <3>1. snapshots = << >>
      BY DEF ReadyInv
    <3>2. CASE ~ engine.processed
      BY <2>1, <3>1, <3>2
    <3>3. CASE engine.processed
      <4>1. ready = <<Instruments>>
        <5>1. ready = Append(<< >>, Instruments)
          BY <2>2, <3>1, <3>3
        <5> HIDE DEF ready
        <5> QED BY <5>1
      <4> HIDE DEF ready
      <4>2. ready # << >> /\ Head(ready) = Instruments /\ Tail(ready) = << >>
        BY <4>1
      <4>3. PlanIsServed => ~ Raises(Present(engine, Instruments))
        BY <2>2, <3>3, ServedPlan
      <4> QED BY <2>1, <4>2, <4>3
    <3> QED BY <3>2, <3>3
  <2> HIDE DEF raises, ready, has
  <2> QED BY <2>1, <2>4, <2>5 DEF ReadyInv
<1>5. CASE Crash
  <2>1. events' = << >> /\ engine' = FreshEngine(NoBanks) /\ since'.recovered = TRUE
    BY <1>5 DEF Crash
  <2>2. engine'.processed = FALSE
    BY <2>1 DEF FreshEngine
  <2> QED BY <2>1, <2>2 DEF ReadyInv
<1>6. CASE Recover
  <2>1. Recovers
    BY <1>6, RecoverIs
  <2>2. /\ proc = "down" /\ since' = [since EXCEPT !.start = now] /\ UNCHANGED <<events, published>>
        /\ engine' = [Filled EXCEPT !.processed = FALSE, !.cross = NothingMissed]
    BY <2>1 DEF Recovers
  <2>3. Filled \in Engine
    BY RecoveredIs, MarketDataAssumption DEF Base, TypeInv, TimeInv, FileSet
  <2>4. engine'.processed = FALSE
    BY <2>2, <2>3, IdleIs
  <2>5. events = << >> /\ since'.recovered = TRUE
    BY <2>2 DEF Base, TypeInv, PlaceInv, FreshLoop
  <2> QED BY <2>2, <2>4, <2>5 DEF ReadyInv
<1>7. CASE StartLoop
  <2>1. /\ UNCHANGED <<events, engine, published>> /\ proc = "recovered"
        /\ since' = [since EXCEPT !.start = now]
    BY <1>7 DEF StartLoop, hub
  <2>2. since'.recovered = TRUE
    BY <2>1 DEF Base, TypeInv, PlaceInv
  <2> QED BY <2>1, <2>2 DEF ReadyInv
<1>8. CASE NextDay
  <2> DEFINE banks == [f \in Freqs |-> EmptyBank]
  <2>1. proc' = "live" /\ events' = << >> /\ snapshots' = << >> /\ engine' = FreshEngine(banks)
    BY <1>8 DEF NextDay
  <2>2. banks # NoBanks
    BY NoBanksIsNone, FreshFacts
  <2> HIDE DEF banks
  <2>3. engine'.banks = banks /\ engine'.processed = FALSE
    BY <2>1 DEF FreshEngine
  <2> QED BY <2>1, <2>2, <2>3 DEF ReadyInv
<1> QED BY <1>1, <1>2, <1>3, <1>4, <1>5, <1>6, <1>7, <1>8 DEF Next

\* In a process that did not begin with a recovery no feature raises, whatever the models and
\* the portfolios, and no prediction of a plan within the universe and the frequency 0: one
\* bar of every instrument has come, traded or not, before the first snapshot of the features
\* is taken, and the banks are there from the start.
THEOREM NeverRaises == Spec => []RaisesOnlyRecovered
<1>1. Base /\ LanesInv /\ DeskAll /\ ReadyInv /\ [Next]_vars => ReadyInv'
  BY ReadyStep
<1>2. ReadyInv => RaisesOnlyRecovered
  BY DEF ReadyInv, RaisesOnlyRecovered
<1> QED BY <1>1, <1>2, ReadyInit, BaseHolds, LanesHold, DeskHolds, PTL DEF Spec
=============================================================================
