------------------------- MODULE MCMaterialize_proofs -------------------------
(***************************************************************************)
(* Proofs about the functions of a session log on every log a run of       *)
(* MCMaterialize can grow, whatever its length.                            *)
(***************************************************************************)
EXTENDS MCMaterialize, SessionItems_proofs, FiniteSetTheorems

LEMMA NextTurn ==
    ASSUME NEW s \in Seq(Item)
    PROVE  next_turn(s) \in Nat /\ (s # << >> => s[Len(s)].turn \in Nat)
<1>1. CASE s = << >>
  BY <1>1 DEF next_turn
<1>2. CASE s # << >>
  <2>1. s[Len(s)] \in Item
    BY <1>2
  <2> QED
    BY <1>2, <2>1 DEF next_turn, Item
<1> QED
  BY <1>1, <1>2

LogType == log \in Seq(Item)

LEMMA AlphabetType ==
    ASSUME LogType
    PROVE  Alphabet \subseteq Item
<1> DEFINE turn == IF log = << >> THEN 0 ELSE log[Len(log)].turn
<1>1. turn \in Nat /\ next_turn(log) \in Nat
  BY NextTurn DEF LogType
<1> HIDE DEF turn
<1>2. PlainItem("user", next_turn(log)) \in Item
  BY <1>1 DEF PlainItem, Item, Kinds
<1>3. \A kind \in {"assistant", "checkpoint", "compaction"} : PlainItem(kind, turn) \in Item
  BY <1>1 DEF PlainItem, Item, Kinds
<1>4. \A call \in Call : CallItem(turn, call) \in Item
  BY <1>1 DEF CallItem, Item, Kinds, Call
<1>5. \A call \in Call : ResultItem(turn, call, "succeeded") \in Item
  BY <1>1 DEF ResultItem, Item, Kinds, Call, Statuses
<1> QED
  BY <1>2, <1>3, <1>4, <1>5 DEF Alphabet, turn

LEMMA LogTypes == Spec => []LogType
<1>1. ASSUME Init PROVE LogType
  BY <1>1 DEF Init, LogType
<1>2. ASSUME LogType, [Next]_log PROVE LogType'
  <2>1. CASE Grow
    <3>1. PICK item \in Alphabet : log' = Append(log, item)
      BY <2>1 DEF Grow
    <3> QED
      BY <1>2, <3>1, AlphabetType DEF LogType
  <2>2. CASE log' = log
    BY <1>2, <2>2 DEF LogType
  <2> QED
    BY <1>2, <2>1, <2>2 DEF Next, Full
<1> QED
  BY <1>1, <1>2, PTL DEF Spec

(* The phase machine accepts exactly the logs whose rounds are well formed  *)
(* and closed, and its pending map holds exactly the calls left open        *)
(* (context/materialize.rs), for logs of every length.                      *)
THEOREM MachineDecidesWellFormed == Spec => []AgreesWithDefinition
<1>1. LogType => AgreesWithDefinition
  BY MaterializeAgrees DEF LogType, AgreesWithDefinition
<1> QED
  BY <1>1, LogTypes, PTL

-----------------------------------------------------------------------------
(* Sequences, their parts and their concatenations.                         *)

(* A function on an initial segment is a sequence.                          *)
LEMMA Sequence ==
    ASSUME NEW X, NEW d \in Nat, NEW f, \A n \in 1 .. d : f[n] \in X,
           f = [n \in 1 .. d |-> f[n]]
    PROVE  f \in Seq(X) /\ Len(f) = d
OBVIOUS

(* The elements of a sequence.                                              *)
LEMMA ElementOf ==
    ASSUME NEW X, NEW s \in Seq(X), NEW i \in 1 .. Len(s)
    PROVE  s[i] \in X
OBVIOUS

(* Sequences with the same elements are equal.                              *)
LEMMA Same ==
    ASSUME NEW X, NEW s \in Seq(X), NEW t \in Seq(X), Len(s) = Len(t),
           \A i \in 1 .. Len(t) : s[i] = t[i]
    PROVE  s = t
OBVIOUS

(* A sequence of at most one element, from an index it has.                 *)
LEMMA Single ==
    ASSUME NEW X, NEW v \in Seq(X), NEW k \in 1 .. Len(v), Len(v) <= 1
    PROVE  Len(v) = 1 /\ k = 1 /\ v = <<v[1]>> /\ v[1] \in X
<1>1. Len(v) = 1 /\ k = 1
  OBVIOUS
<1>2. v[1] \in X
  BY <1>1
<1> QED
  BY <1>1, <1>2

(* The facts about concatenation that the provers know, stated once: the    *)
(* leaves below cite them by name, for sequences of any elements.           *)
LEMMA ConcatType ==
    ASSUME NEW X, NEW s \in Seq(X), NEW t \in Seq(X)
    PROVE  s \o t \in Seq(X) /\ Len(s \o t) = Len(s) + Len(t)
OBVIOUS

LEMMA ConcatEmpty ==
    ASSUME NEW X, NEW s \in Seq(X)
    PROVE  s \o << >> = s /\ << >> \o s = s
OBVIOUS

LEMMA ConcatAppend ==
    ASSUME NEW X, NEW s \in Seq(X), NEW t \in Seq(X), NEW e \in X
    PROVE  s \o Append(t, e) = Append(s \o t, e)
OBVIOUS

LEMMA ConcatOne ==
    ASSUME NEW X, NEW s \in Seq(X), NEW e \in X
    PROVE  s \o <<e>> = Append(s, e)
OBVIOUS

LEMMA ConcatAssoc ==
    ASSUME NEW X, NEW s \in Seq(X), NEW t \in Seq(X), NEW u \in Seq(X)
    PROVE  s \o (t \o u) = (s \o t) \o u
OBVIOUS

(* The length of a concatenation and where its elements come from.          *)
LEMMA ConcatIndex ==
    ASSUME NEW X, NEW s \in Seq(X), NEW t \in Seq(X)
    PROVE  /\ s \o t \in Seq(X) /\ Len(s \o t) = Len(s) + Len(t)
           /\ Len(s) \in Nat /\ Len(t) \in Nat /\ (s # << >> => Len(s) > 0)
           /\ \A i \in 1 .. Len(s) : (s \o t)[i] = s[i]
           /\ \A i \in Len(s) + 1 .. Len(s \o t) : (s \o t)[i] = t[i - Len(s)]
OBVIOUS

(* The elements of a sequence, one by one.                                  *)
LEMMA ToSetAppend ==
    ASSUME NEW X, NEW s \in Seq(X), NEW e \in X
    PROVE  ToSet(Append(s, e)) = ToSet(s) \union {e} /\ ToSet(<< >>) = {}
<1> DEFINE t == Append(s, e)
<1>1. t \in Seq(X) /\ Len(t) = Len(s) + 1 /\ t[Len(s) + 1] = e /\ Len(s) \in Nat
      /\ \A i \in 1 .. Len(s) : t[i] = s[i]
  BY Appended
<1>2. ToSet(t) = {t[i] : i \in 1 .. Len(t)} /\ ToSet(s) = {s[i] : i \in 1 .. Len(s)}
  BY <1>1 DEF ToSet
<1>3. ToSet(<< >>) = {}
  BY DEF ToSet
<1> HIDE DEF t
<1>4. ToSet(t) = ToSet(s) \union {e}
  BY <1>1, <1>2
<1> QED
  BY <1>3, <1>4 DEF t

(* The first parts of a sequence, over which the inductions go.            *)
Upto(s, n) == SubSeq(s, 1, n)

(* The next first part has the next element at its end.                     *)
LEMMA UptoNext ==
    ASSUME NEW X, NEW s \in Seq(X), NEW n \in Nat, n < Len(s)
    PROVE  /\ Upto(s, n) \in Seq(X) /\ Len(Upto(s, n)) = n
           /\ s[n+1] \in X
           /\ Upto(s, n + 1) = Append(Upto(s, n), s[n+1])
<1>1. SubSeq(s, 1, n) \in Seq(X) /\ Len(SubSeq(s, 1, n)) = n
  OBVIOUS
<1>2. s[n+1] \in X
  OBVIOUS
<1>3. SubSeq(s, 1, n + 1) = Append(SubSeq(s, 1, n), s[n+1])
  OBVIOUS
<1> QED
  BY <1>1, <1>2, <1>3 DEF Upto

(* The first and the last of the first parts.                               *)
LEMMA UptoEnds ==
    ASSUME NEW X, NEW s \in Seq(X)
    PROVE  Upto(s, 0) = << >> /\ Upto(s, Len(s)) = s /\ Len(s) \in Nat
<1>1. SubSeq(s, 1, 0) = << >>
  OBVIOUS
<1>2. SubSeq(s, 1, Len(s)) = s
  OBVIOUS
<1> QED
  BY <1>1, <1>2 DEF Upto

(* The elements of a first part.                                            *)
LEMMA UptoType ==
    ASSUME NEW X, NEW s \in Seq(X), NEW n \in 0 .. Len(s)
    PROVE  /\ Upto(s, n) \in Seq(X) /\ Len(Upto(s, n)) = n
           /\ \A k \in 1 .. n : Upto(s, n)[k] = s[k]
<1>1. Len(s) \in Nat /\ n \in Nat /\ n <= Len(s)
  OBVIOUS
<1>2. Upto(s, n) \in Seq(X) /\ Len(Upto(s, n)) = n
  BY <1>1 DEF Upto
<1>3. ASSUME NEW k \in 1 .. n PROVE Upto(s, n)[k] = s[k]
  BY <1>1 DEF Upto
<1> QED
  BY <1>2, <1>3

(* The part of a sequence after a position.                                 *)
From(s, n) == SubSeq(s, n + 1, Len(s))

(* The elements of a last part.                                             *)
LEMMA FromType ==
    ASSUME NEW X, NEW s \in Seq(X), NEW n \in 0 .. Len(s)
    PROVE  /\ From(s, n) \in Seq(X) /\ Len(From(s, n)) = Len(s) - n
           /\ \A k \in 1 .. Len(s) - n : From(s, n)[k] = s[n+k]
<1>1. n + 1 \in Nat /\ Len(s) \in Nat /\ n + 1 >= 1 /\ n + 1 <= Len(s) + 1 /\ n \in Nat
  OBVIOUS
<1>2. From(s, n) \in Seq(X) /\ Len(From(s, n)) = Len(s) - n
  BY <1>1 DEF From
<1>3. ASSUME NEW k \in 1 .. Len(s) - n PROVE From(s, n)[k] = s[n+k]
  BY <1>1 DEF From
<1> QED
  BY <1>2, <1>3

(* A sequence cut at a position.                                           *)
LEMMA SplitAt ==
    ASSUME NEW X, NEW s \in Seq(X), NEW n \in 0 .. Len(s)
    PROVE  s = Upto(s, n) \o From(s, n)
<1> DEFINE a == Upto(s, n)
           b == From(s, n)
           t == a \o b
<1>1. a \in Seq(X) /\ Len(a) = n /\ \A k \in 1 .. n : a[k] = s[k]
  BY UptoType
<1>2. b \in Seq(X) /\ Len(b) = Len(s) - n /\ \A k \in 1 .. Len(s) - n : b[k] = s[n+k]
  BY FromType
<1>3. n \in Nat /\ Len(s) \in Nat
  OBVIOUS
<1> HIDE DEF a, b
<1>4. /\ t \in Seq(X) /\ Len(t) = Len(a) + Len(b)
      /\ \A i \in 1 .. Len(a) : t[i] = a[i]
      /\ \A i \in Len(a) + 1 .. Len(t) : t[i] = b[i - Len(a)]
  BY <1>1, <1>2, ConcatIndex
<1> HIDE DEF t
<1>5. Len(t) = Len(s)
  BY <1>1, <1>2, <1>3, <1>4
<1>6. ASSUME NEW i \in 1 .. Len(s) PROVE t[i] = s[i]
  <2>1. CASE i <= n
    BY <1>1, <1>3, <1>4, <2>1
  <2>2. CASE i > n
    <3>1. i - n \in 1 .. Len(s) - n /\ n + (i - n) = i /\ i \in Len(a) + 1 .. Len(t)
      BY <1>1, <1>3, <1>5, <2>2
    <3>2. t[i] = b[i - n] /\ b[i - n] = s[n + (i - n)]
      BY <1>1, <1>2, <1>4, <3>1
    <3> QED
      BY <3>1, <3>2
  <2> QED
    BY <1>3, <2>1, <2>2
<1>7. t = s
  BY <1>4, <1>5, <1>6, Same
<1> QED
  BY <1>7 DEF t, a, b

(* A last part begins with the element at its position.                     *)
LEMMA FromNext ==
    ASSUME NEW X, NEW s \in Seq(X), NEW n \in 0 .. Len(s), n < Len(s)
    PROVE  From(s, n) = <<s[n+1]>> \o From(s, n + 1)
<1> DEFINE a == <<s[n+1]>>
           b == From(s, n + 1)
           c == From(s, n)
           t == a \o b
<1>1. n \in Nat /\ Len(s) \in Nat /\ n + 1 \in 0 .. Len(s)
  OBVIOUS
<1>2. a \in Seq(X) /\ Len(a) = 1 /\ a[1] = s[n+1]
  <2>1. s[n+1] \in X
    OBVIOUS
  <2> QED
    BY <2>1
<1>3. /\ b \in Seq(X) /\ Len(b) = Len(s) - (n + 1)
      /\ \A k \in 1 .. Len(s) - (n + 1) : b[k] = s[(n+1)+k]
  BY <1>1, FromType
<1>4. c \in Seq(X) /\ Len(c) = Len(s) - n /\ \A k \in 1 .. Len(s) - n : c[k] = s[n+k]
  BY FromType
<1> HIDE DEF a, b, c
<1>5. /\ t \in Seq(X) /\ Len(t) = Len(a) + Len(b)
      /\ \A i \in 1 .. Len(a) : t[i] = a[i]
      /\ \A i \in Len(a) + 1 .. Len(t) : t[i] = b[i - Len(a)]
  <2>1. a \in Seq(X) /\ b \in Seq(X)
    BY <1>2, <1>3
  <2> QED
    BY <2>1, ConcatIndex
<1> HIDE DEF t
<1>6. Len(t) = Len(c)
  BY <1>1, <1>2, <1>3, <1>4, <1>5
<1>7. ASSUME NEW i \in 1 .. Len(c) PROVE t[i] = c[i]
  <2>1. CASE i = 1
    BY <1>1, <1>2, <1>4, <1>5, <2>1
  <2>2. CASE i # 1
    <3>1. i - 1 \in 1 .. Len(s) - (n + 1) /\ (n + 1) + (i - 1) = n + i
          /\ i \in Len(a) + 1 .. Len(t) /\ i \in 1 .. Len(s) - n
      BY <1>1, <1>2, <1>4, <1>6, <2>2
    <3>2. t[i] = b[i - 1] /\ b[i - 1] = s[(n + 1) + (i - 1)] /\ c[i] = s[n + i]
      BY <1>2, <1>3, <1>4, <1>5, <3>1
    <3> QED
      BY <3>1, <3>2
  <2> QED
    BY <2>1, <2>2
<1>8. t = c
  BY <1>4, <1>5, <1>6, <1>7, Same
<1> QED
  BY <1>8 DEF t, a, b, c

(* What is left of a concatenation after its first part.                    *)
LEMMA AfterFirst ==
    ASSUME NEW X, NEW s \in Seq(X), NEW t \in Seq(X)
    PROVE  From(s \o t, Len(s)) = t
<1>1. /\ s \o t \in Seq(X) /\ Len(s \o t) = Len(s) + Len(t)
      /\ \A i \in Len(s) + 1 .. Len(s \o t) : (s \o t)[i] = t[i - Len(s)]
  BY ConcatIndex
<1> DEFINE w == s \o t
           n == Len(s)
<1>2. /\ w \in Seq(X) /\ Len(w) = n + Len(t) /\ n \in Nat /\ Len(t) \in Nat
      /\ \A i \in n + 1 .. Len(w) : w[i] = t[i - n]
  BY <1>1
<1> HIDE DEF w, n
<1>3. /\ From(w, n) \in Seq(X) /\ Len(From(w, n)) = Len(w) - n
      /\ \A k \in 1 .. Len(w) - n : From(w, n)[k] = w[n+k]
  <2>1. w \in Seq(X) /\ n \in 0 .. Len(w)
    BY <1>2
  <2> QED
    BY <2>1, FromType
<1>4. ASSUME NEW k \in 1 .. Len(t) PROVE From(w, n)[k] = t[k]
  <2>1. n + k \in n + 1 .. Len(w) /\ (n + k) - n = k /\ k \in 1 .. Len(w) - n
    BY <1>2
  <2>2. w[n+k] = t[(n + k) - n]
    BY <1>2, <2>1
  <2> QED
    BY <1>3, <2>1, <2>2
<1>5. From(w, n) = t
  BY <1>2, <1>3, <1>4, Same
<1> QED
  BY <1>5 DEF w, n

(* f holds the concatenations of the first sequences.                       *)
Flattens(f, seqs, V) ==
    /\ f \in [1 .. Len(seqs) -> V] /\ f[1] = seqs[1]
    /\ \A i \in 1 .. Len(seqs) - 1 : f[i+1] = f[i] \o seqs[i+1]

(* The recursive function of FlattenSeq exists.                             *)
LEMMA Flattened ==
    ASSUME NEW X, NEW seqs \in Seq(Seq(X)), Len(seqs) > 0
    PROVE  \E f : Flattens(f, seqs, Seq(X)) /\ FlattenSeq(seqs) = f[Len(seqs)]
<1> DEFINE d == Len(seqs)
           flatten[i \in 1 .. Len(seqs)] == IF i = 1 THEN seqs[i] ELSE flatten[i-1] \o seqs[i]
           step == [p \in Seq(X) \X (1 .. d - 1) |-> p[1] \o seqs[p[2]+1]]
<1>1. FlattenSeq(seqs) = flatten[Len(seqs)]
  <2>1. Len(seqs) # 0
    OBVIOUS
  <2> QED
    BY <2>1 DEF FlattenSeq
<1>2. d \in Nat /\ d > 0 /\ \A i \in 1 .. d : seqs[i] \in Seq(X)
  OBVIOUS
<1>3. \A v \in Seq(X), n \in 1 .. d - 1 :
        step[<<v, n>>] = v \o seqs[n+1] /\ step[<<v, n>>] \in Seq(X)
  <2>1. ASSUME NEW v \in Seq(X), NEW n \in 1 .. d - 1 PROVE v \o seqs[n+1] \in Seq(X)
    <3>1. seqs[n+1] \in Seq(X)
      <4>1. n + 1 \in 1 .. d
        BY <1>2
      <4> QED
        BY <1>2, <4>1
    <3> QED
      BY <3>1, ConcatType
  <2> QED
    BY <2>1
<1> HIDE DEF d
<1>4. PICK f : Iterates(f, Seq(X), seqs[1], step, d - 1)
  <2> HIDE DEF step
  <2>1. Stays(Seq(X), step, d - 1)
    BY <1>3 DEF Stays
  <2>2. d - 1 \in Nat /\ 1 \in 1 .. d
    BY <1>2
  <2>3. seqs[1] \in Seq(X)
    BY <1>2, <2>2
  <2> QED
    BY <2>1, <2>2, <2>3, Recursion
<1>5. /\ f \in [0 .. d - 1 -> Seq(X)] /\ f[0] = seqs[1]
      /\ \A n \in 1 .. d - 1 : f[n] = f[n-1] \o seqs[n+1]
  <2> HIDE DEF step
  <2>1. \A n \in 1 .. d - 1 : n - 1 \in 0 .. d - 1
    BY <1>2
  <2> QED
    BY <1>3, <1>4, <2>1 DEF Iterates
<1> DEFINE g == [i \in 1 .. d |-> f[i-1]]
<1>6. /\ 1 \in 1 .. d /\ g[1] = seqs[1]
      /\ \A i \in 1 .. d : i # 1 => g[i] = g[i-1] \o seqs[i]
  <2>1. 1 \in 1 .. d /\ 1 - 1 = 0
    BY <1>2
  <2>2. ASSUME NEW i \in 1 .. d, i # 1 PROVE g[i] = g[i-1] \o seqs[i]
    <3>1. i - 1 \in 1 .. d /\ i - 1 \in 1 .. d - 1 /\ (i - 1) + 1 = i
      BY <1>2, <2>2
    <3>2. f[i-1] = f[(i-1)-1] \o seqs[(i-1)+1]
      BY <1>5, <3>1
    <3> QED
      BY <3>1, <3>2
  <2> QED
    BY <1>5, <2>1, <2>2
<1> HIDE DEF g
<1>7. g = [i \in 1 .. d |-> IF i = 1 THEN seqs[i] ELSE g[i-1] \o seqs[i]]
  <2>1. g = [i \in 1 .. d |-> g[i]]
    BY DEF g
  <2> QED
    BY <1>6, <2>1
<1>8. flatten = [i \in 1 .. d |-> IF i = 1 THEN seqs[i] ELSE flatten[i-1] \o seqs[i]]
  BY <1>7 DEF d
<1> HIDE DEF flatten
<1>9. flatten[1] = seqs[1] /\ \A i \in 1 .. d - 1 : flatten[i+1] = flatten[i] \o seqs[i+1]
  <2>1. flatten[1] = seqs[1]
    <3>1. 1 \in 1 .. d
      BY <1>6
    <3> QED
      BY <1>8, <3>1
  <2>2. ASSUME NEW i \in 1 .. d - 1 PROVE flatten[i+1] = flatten[i] \o seqs[i+1]
    <3>1. i + 1 \in 1 .. d /\ i + 1 # 1 /\ (i + 1) - 1 = i
      BY <1>2
    <3>2. flatten[i+1] = flatten[(i+1)-1] \o seqs[i+1]
      BY <1>8, <3>1
    <3> QED
      BY <3>1, <3>2
  <2> QED
    BY <2>1, <2>2
<1> DEFINE S == {n \in Nat : n + 1 <= d => flatten[n+1] \in Seq(X)}
<1>10. 0 \in S
  <2>1. seqs[1] \in Seq(X)
    BY <1>2, <1>6
  <2> QED
    BY <1>9, <2>1
<1>11. ASSUME NEW n \in Nat, n \in S PROVE n + 1 \in S
  <2>1. SUFFICES ASSUME (n + 1) + 1 <= d PROVE flatten[(n+1)+1] \in Seq(X)
    OBVIOUS
  <2>2. n + 1 \in 1 .. d - 1 /\ (n + 1) + 1 \in 1 .. d /\ flatten[n+1] \in Seq(X)
    BY <1>2, <1>11, <2>1
  <2>3. flatten[(n+1)+1] = flatten[n+1] \o seqs[(n+1)+1] /\ seqs[(n+1)+1] \in Seq(X)
    BY <1>2, <1>9, <2>2
  <2> QED
    BY <2>2, <2>3, ConcatType
<1> HIDE DEF S
<1>12. \A n \in Nat : n \in S
  BY <1>10, <1>11, Induction
<1>13. \A i \in 1 .. d : flatten[i] \in Seq(X)
  <2>1. ASSUME NEW i \in 1 .. d PROVE flatten[i] \in Seq(X)
    <3>1. i - 1 \in S /\ i - 1 \in Nat /\ (i - 1) + 1 = i /\ i <= d
      BY <1>2, <1>12
    <3>2. (i - 1) + 1 <= d => flatten[(i-1)+1] \in Seq(X)
      BY <3>1 DEF S
    <3> QED
      BY <3>1, <3>2
  <2> QED
    BY <2>1
<1>14. flatten = [i \in 1 .. d |-> flatten[i]]
  BY <1>8
<1>15. flatten \in [1 .. d -> Seq(X)]
  BY <1>13, <1>14
<1> QED
  BY <1>1, <1>9, <1>15 DEF d, Flattens

LEMMA FlatEmpty == FlattenSeq(<< >>) = << >>
<1>1. Len(<< >>) = 0
  OBVIOUS
<1> QED
  BY <1>1 DEF FlattenSeq

(* A sequence more at the end is concatenated at the end.                   *)
LEMMA FlatAppend ==
    ASSUME NEW X, NEW seqs \in Seq(Seq(X)), NEW s \in Seq(X)
    PROVE  /\ FlattenSeq(seqs) \in Seq(X)
           /\ FlattenSeq(Append(seqs, s)) = FlattenSeq(seqs) \o s
<1> DEFINE longer == Append(seqs, s)
           d == Len(seqs)
<1>1. /\ longer \in Seq(Seq(X)) /\ Len(longer) = Len(seqs) + 1 /\ Len(seqs) \in Nat
      /\ \A i \in 1 .. Len(seqs) : longer[i] = seqs[i]
      /\ longer[Len(seqs) + 1] = s
  BY Appended
<1> HIDE DEF longer
<1>2. PICK g : Flattens(g, longer, Seq(X)) /\ FlattenSeq(longer) = g[Len(longer)]
  <2>1. Len(longer) > 0
    BY <1>1
  <2> QED
    BY <1>1, <2>1, Flattened
<1>3. CASE d = 0
  <2>1. seqs = << >>
    BY <1>3
  <2>2. FlattenSeq(seqs) = << >> /\ << >> \in Seq(X)
    BY <2>1, FlatEmpty
  <2>3. g[1] = s
    BY <1>1, <1>2, <1>3 DEF Flattens
  <2>4. << >> \o s = s
    BY ConcatEmpty
  <2> QED
    BY <1>1, <1>2, <1>3, <2>2, <2>3, <2>4 DEF longer
<1>4. CASE d > 0
  <2>1. PICK f : Flattens(f, seqs, Seq(X)) /\ FlattenSeq(seqs) = f[d]
    BY <1>4, Flattened
  <2> DEFINE S == {n \in Nat : n + 1 <= d => f[n+1] = g[n+1]}
  <2>2. 0 \in S
    <3>1. 1 \in 1 .. d
      BY <1>1, <1>4
    <3> QED
      BY <1>1, <1>2, <2>1, <3>1 DEF Flattens
  <2>3. ASSUME NEW n \in Nat, n \in S PROVE n + 1 \in S
    <3>1. SUFFICES ASSUME (n + 1) + 1 <= d PROVE f[(n+1)+1] = g[(n+1)+1]
      OBVIOUS
    <3>2. n + 1 \in 1 .. Len(seqs) - 1 /\ n + 1 \in 1 .. Len(longer) - 1
          /\ (n + 1) + 1 \in 1 .. Len(seqs) /\ f[n+1] = g[n+1]
      BY <1>1, <2>3, <3>1
    <3>3. f[(n+1)+1] = f[n+1] \o seqs[(n+1)+1]
      BY <2>1, <3>2 DEF Flattens
    <3>4. g[(n+1)+1] = g[n+1] \o longer[(n+1)+1]
      BY <1>2, <3>2 DEF Flattens
    <3> QED
      BY <1>1, <3>2, <3>3, <3>4
  <2> HIDE DEF S
  <2>4. \A n \in Nat : n \in S
    BY <2>2, <2>3, Induction
  <2>5. f[d] = g[d]
    <3>1. d - 1 \in S /\ d - 1 \in Nat /\ (d - 1) + 1 = d
      BY <1>1, <1>4, <2>4
    <3>2. (d - 1) + 1 <= d => f[(d-1)+1] = g[(d-1)+1]
      BY <3>1 DEF S
    <3> QED
      BY <3>1, <3>2
  <2>6. g[d+1] = g[d] \o s
    <3>1. d \in 1 .. Len(longer) - 1
      BY <1>1, <1>4
    <3> QED
      BY <1>1, <1>2, <3>1 DEF Flattens
  <2>7. f[d] \in Seq(X)
    <3>1. d \in 1 .. Len(seqs)
      BY <1>1, <1>4
    <3> QED
      BY <2>1, <3>1 DEF Flattens
  <2> HIDE DEF d
  <2>8. FlattenSeq(longer) = FlattenSeq(seqs) \o s
    BY <1>1, <1>2, <2>1, <2>5, <2>6 DEF d
  <2> QED
    BY <2>1, <2>7, <2>8 DEF longer
<1> QED
  BY <1>1, <1>3, <1>4

(* The elements of the concatenation of many sequences.                     *)
LEMMA FlatType ==
    ASSUME NEW X, NEW seqs \in Seq(Seq(X))
    PROVE  FlattenSeq(seqs) \in Seq(X)
<1>1. << >> \in Seq(X)
  OBVIOUS
<1> QED
  BY <1>1, FlatAppend

(* The concatenation of two lists of sequences.                             *)
LEMMA FlatConcat ==
    ASSUME NEW X, NEW s \in Seq(Seq(X)), NEW t \in Seq(Seq(X))
    PROVE  FlattenSeq(s \o t) = FlattenSeq(s) \o FlattenSeq(t)
<1> DEFINE S == {n \in Nat : n <= Len(t) =>
                   FlattenSeq(s \o Upto(t, n)) = FlattenSeq(s) \o FlattenSeq(Upto(t, n))}
<1>0. FlattenSeq(s) \in Seq(X)
  BY FlatType
<1>1. 0 \in S
  <2>1. Upto(t, 0) = << >> /\ s \o << >> = s /\ FlattenSeq(s) \o << >> = FlattenSeq(s)
    BY <1>0, UptoEnds, ConcatEmpty
  <2> QED
    BY <2>1, FlatEmpty
<1>2. ASSUME NEW n \in Nat, n \in S PROVE n + 1 \in S
  <2>1. SUFFICES ASSUME n + 1 <= Len(t)
                 PROVE  FlattenSeq(s \o Upto(t, n + 1))
                          = FlattenSeq(s) \o FlattenSeq(Upto(t, n + 1))
    OBVIOUS
  <2> DEFINE e == t[n+1]
             p == Upto(t, n)
             z == s \o p
  <2>2. p \in Seq(Seq(X)) /\ e \in Seq(X) /\ Upto(t, n+1) = Append(p, e)
    BY <2>1, UptoNext
  <2>3. FlattenSeq(z) = FlattenSeq(s) \o FlattenSeq(p)
    BY <1>2, <2>1
  <2> HIDE DEF e, p, S
  <2>4. z \in Seq(Seq(X)) /\ s \o Append(p, e) = Append(z, e)
    BY <2>2, ConcatType, ConcatAppend
  <2> HIDE DEF z
  <2>5. FlattenSeq(Append(z, e)) = FlattenSeq(z) \o e
    BY <2>2, <2>4, FlatAppend
  <2>6. FlattenSeq(Append(p, e)) = FlattenSeq(p) \o e /\ FlattenSeq(p) \in Seq(X)
    BY <2>2, FlatAppend
  <2>7. FlattenSeq(s) \o (FlattenSeq(p) \o e) = (FlattenSeq(s) \o FlattenSeq(p)) \o e
    <3>1. /\ FlattenSeq(s) \in Seq(X) /\ FlattenSeq(p) \in Seq(X) /\ e \in Seq(X)
      BY <1>0, <2>2, <2>6
    <3> DEFINE a == FlattenSeq(s)
               b == FlattenSeq(p)
    <3> HIDE DEF a, b
    <3>2. a \in Seq(X) /\ b \in Seq(X) /\ e \in Seq(X)
      BY <3>1 DEF a, b
    <3>3. a \o (b \o e) = (a \o b) \o e
      BY <3>2, ConcatAssoc
    <3> QED
      BY <3>3 DEF a, b
  <2> QED
    BY <2>2, <2>3, <2>4, <2>5, <2>6, <2>7 DEF z
<1> HIDE DEF S
<1>3. \A n \in Nat : n \in S
  BY <1>1, <1>2, Induction
<1>4. Len(t) \in S /\ Len(t) \in Nat
  BY <1>3
<1>5. FlattenSeq(s \o Upto(t, Len(t))) = FlattenSeq(s) \o FlattenSeq(Upto(t, Len(t)))
  BY <1>4 DEF S
<1> QED
  BY <1>5, UptoEnds

(* The concatenation of a single sequence is the sequence.                  *)
LEMMA FlatOne ==
    ASSUME NEW X, NEW s \in Seq(X)
    PROVE  FlattenSeq(<<s>>) = s
<1>1. << >> \in Seq(Seq(X)) /\ Append(<< >>, s) = <<s>>
  OBVIOUS
<1>2. FlattenSeq(Append(<< >>, s)) = FlattenSeq(<< >>) \o s
  BY <1>1, FlatAppend
<1>3. << >> \o s = s
  BY ConcatEmpty
<1> QED
  BY <1>1, <1>2, <1>3, FlatEmpty

(* Each element of a flattened sequence comes from one of its parts.       *)
LEMMA Located ==
    ASSUME NEW X, NEW seqs \in Seq(Seq(X)), NEW n \in 1 .. Len(FlattenSeq(seqs))
    PROVE  \E i \in 1 .. Len(seqs) : \E k \in 1 .. Len(seqs[i]) :
             /\ n = Len(FlattenSeq(Upto(seqs, i - 1))) + k
             /\ FlattenSeq(seqs)[n] = seqs[i][k]
<1> DEFINE F(c) == FlattenSeq(Upto(seqs, c))
           At(c, j) == \E i \in 1 .. c : \E k \in 1 .. Len(seqs[i]) :
                         j = Len(F(i - 1)) + k /\ F(c)[j] = seqs[i][k]
           S == {c \in Nat : c <= Len(seqs) => \A j \in 1 .. Len(F(c)) : At(c, j)}
<1> HIDE DEF F, At
<1>1. 0 \in S
  <2>1. F(0) = << >> /\ Len(<< >>) = 0
    BY UptoEnds, FlatEmpty DEF F
  <2> QED
    BY <2>1
<1>2. ASSUME NEW c \in Nat, c \in S PROVE c + 1 \in S
  <2>1. SUFFICES ASSUME c + 1 <= Len(seqs), NEW j \in 1 .. Len(F(c+1)) PROVE At(c + 1, j)
    OBVIOUS
  <2> DEFINE e == seqs[c+1]
             a == F(c)
             b == F(c + 1)
  <2>2. \A l \in 1 .. Len(a) : At(c, l)
    BY <1>2, <2>1
  <2> HIDE DEF S, a, b
  <2>3. e \in Seq(X) /\ a \in Seq(X) /\ b = a \o e
    <3> DEFINE p == Upto(seqs, c)
    <3>1. c < Len(seqs)
      BY <2>1
    <3>2. p \in Seq(Seq(X)) /\ e \in Seq(X) /\ Upto(seqs, c+1) = Append(p, e)
      BY <3>1, UptoNext
    <3> HIDE DEF p, e
    <3>3. FlattenSeq(Append(p, e)) = FlattenSeq(p) \o e /\ FlattenSeq(p) \in Seq(X)
      BY <3>2, FlatAppend
    <3> QED
      BY <3>2, <3>3 DEF p, a, b, F
  <2> HIDE DEF a, b, e
  <2>4. /\ Len(b) = Len(a) + Len(e) /\ Len(a) \in Nat /\ Len(e) \in Nat
        /\ \A i \in 1 .. Len(a) : b[i] = a[i]
        /\ \A i \in Len(a) + 1 .. Len(b) : b[i] = e[i - Len(a)]
    BY <2>3, ConcatIndex
  <2>5. j \in 1 .. Len(b)
    BY DEF b
  <2>6. CASE j <= Len(a)
    <3>1. j \in 1 .. Len(a)
      BY <2>4, <2>5, <2>6
    <3>2. PICK i \in 1 .. c : \E k \in 1 .. Len(seqs[i]) :
                                j = Len(F(i - 1)) + k /\ F(c)[j] = seqs[i][k]
      BY <2>2, <3>1 DEF At
    <3>3. b[j] = a[j] /\ i \in 1 .. c + 1
      BY <2>4, <3>1
    <3> QED
      BY <3>2, <3>3 DEF a, b, At
  <2>7. CASE j > Len(a)
    <3>1. j - Len(a) \in 1 .. Len(e) /\ j \in Len(a) + 1 .. Len(b)
      BY <2>4, <2>5, <2>7
    <3>2. b[j] = e[j - Len(a)] /\ j = Len(a) + (j - Len(a)) /\ (c + 1) - 1 = c
      BY <2>4, <2>5, <3>1
    <3>3. c + 1 \in 1 .. c + 1
      OBVIOUS
    <3> QED
      BY <3>1, <3>2, <3>3 DEF a, b, e, At
  <2> QED
    BY <2>4, <2>5, <2>6, <2>7
<1> HIDE DEF S
<1>3. \A c \in Nat : c \in S
  BY <1>1, <1>2, Induction
<1>4. Len(seqs) \in Nat /\ F(Len(seqs)) = FlattenSeq(seqs)
  BY UptoEnds DEF F
<1>5. At(Len(seqs), n)
  BY <1>3, <1>4 DEF S
<1> QED
  BY <1>4, <1>5 DEF At, F

(* What a function makes of each element.                                  *)
Each(h, s) == [i \in 1 .. Len(s) |-> h[s[i]]]

(* h maps X into Y. Named, since a leaf that sees the set of functions at   *)
(* sequences of sequences is lost in it.                                    *)
Maps(h, X, Y) == h \in [X -> Y]

(* Element by element, of one more element and of a concatenation.          *)
LEMMA EachAppend ==
    ASSUME NEW X, NEW Y, NEW h, Maps(h, X, Y), NEW s \in Seq(X), NEW e \in X
    PROVE  /\ Each(h, s) \in Seq(Y) /\ Len(Each(h, s)) = Len(s)
           /\ Each(h, Append(s, e)) = Append(Each(h, s), h[e])
<1> DEFINE t == Append(s, e)
           a == Each(h, s)
<1>1. /\ t \in Seq(X) /\ Len(t) = Len(s) + 1 /\ t[Len(s) + 1] = e
      /\ \A i \in 1 .. Len(s) : t[i] = s[i]
  BY Appended
<1>2. a \in Seq(Y) /\ Len(a) = Len(s) /\ \A i \in 1 .. Len(s) : a[i] = h[s[i]]
  BY DEF Each, Maps
<1>3. h[e] \in Y /\ Len(s) \in Nat
  BY DEF Maps
<1> HIDE DEF t, a
<1>4. /\ Append(a, h[e]) \in Seq(Y) /\ Len(Append(a, h[e])) = Len(a) + 1
      /\ \A i \in 1 .. Len(a) : Append(a, h[e])[i] = a[i]
      /\ Append(a, h[e])[Len(a) + 1] = h[e]
  BY <1>2, <1>3, Appended
<1>5. \A i \in 1 .. Len(t) : Append(a, h[e])[i] = h[t[i]]
  BY <1>1, <1>2, <1>3, <1>4
<1>6. Append(a, h[e]) = [i \in 1 .. Len(t) |-> h[t[i]]]
  BY <1>1, <1>2, <1>3, <1>4, <1>5
<1> QED
  BY <1>2, <1>6 DEF Each, t, a

LEMMA EachEmpty ==
    ASSUME NEW h
    PROVE  Each(h, << >>) = << >>
  BY DEF Each, Maps

LEMMA EachConcat ==
    ASSUME NEW X, NEW Y, NEW h, Maps(h, X, Y), NEW s \in Seq(X), NEW t \in Seq(X)
    PROVE  Each(h, s \o t) = Each(h, s) \o Each(h, t)
<1> DEFINE a == Each(h, s)
           b == Each(h, t)
           st == s \o t
           ab == a \o b
<1>1. a \in Seq(Y) /\ Len(a) = Len(s) /\ \A i \in 1 .. Len(s) : a[i] = h[s[i]]
  BY DEF Each, Maps
<1>2. b \in Seq(Y) /\ Len(b) = Len(t) /\ \A i \in 1 .. Len(t) : b[i] = h[t[i]]
  BY DEF Each, Maps
<1> HIDE DEF a, b
<1>3. /\ st \in Seq(X) /\ Len(st) = Len(s) + Len(t)
      /\ \A i \in 1 .. Len(s) : st[i] = s[i]
      /\ \A i \in Len(s) + 1 .. Len(st) : st[i] = t[i - Len(s)]
  BY ConcatIndex
<1>4. /\ ab \in Seq(Y) /\ Len(ab) = Len(a) + Len(b)
      /\ \A i \in 1 .. Len(a) : ab[i] = a[i]
      /\ \A i \in Len(a) + 1 .. Len(ab) : ab[i] = b[i - Len(a)]
  <2>1. a \in Seq(Y) /\ b \in Seq(Y)
    BY <1>1, <1>2
  <2> QED
    BY <2>1, ConcatIndex
<1>5. Len(s) \in Nat /\ Len(t) \in Nat
  OBVIOUS
<1> HIDE DEF st, ab
<1>6. ASSUME NEW i \in 1 .. Len(st) PROVE ab[i] = h[st[i]]
  <2>1. CASE i <= Len(s)
    BY <2>1, <1>1, <1>3, <1>4, <1>5
  <2>2. CASE i > Len(s)
    <3>1. i - Len(s) \in 1 .. Len(t) /\ i \in Len(s) + 1 .. Len(st)
      BY <2>2, <1>3, <1>5
    <3>2. st[i] = t[i - Len(s)] /\ ab[i] = b[i - Len(s)]
      BY <3>1, <1>1, <1>2, <1>3, <1>4
    <3>3. b[i - Len(s)] = h[t[i - Len(s)]]
      BY <3>1, <1>2
    <3> QED
      BY <3>2, <3>3
  <2> QED
    BY <2>1, <2>2, <1>3, <1>5
<1>7. Len(ab) = Len(st)
  BY <1>1, <1>2, <1>3, <1>4
<1>8. ab = [i \in 1 .. Len(st) |-> h[st[i]]]
  BY <1>4, <1>6, <1>7
<1> QED
  BY <1>8 DEF Each, st, ab, a, b

(* A reading of sequences that reads a concatenation part by part.         *)
Reads(h, X, Y) ==
    /\ h \in [Seq(X) -> Seq(Y)] /\ h[<< >>] = << >>
    /\ \A s, t \in Seq(X) : h[s \o t] = h[s] \o h[t]

(* A reading reads the concatenation of many sequences part by part.        *)
LEMMA ReadsFlat ==
    ASSUME NEW X, NEW Y, NEW h, Reads(h, X, Y), NEW seqs \in Seq(Seq(X))
    PROVE  /\ h[FlattenSeq(seqs)] = FlattenSeq(Each(h, seqs))
           /\ Each(h, seqs) \in Seq(Seq(Y)) /\ Len(Each(h, seqs)) = Len(seqs)
<1> DEFINE S == {n \in Nat : n <= Len(seqs) =>
                   h[FlattenSeq(Upto(seqs, n))] = FlattenSeq(Each(h, Upto(seqs, n)))}
<1>0. h \in [Seq(X) -> Seq(Y)] /\ h[<< >>] = << >>
  BY DEF Reads
<1>1. 0 \in S
  BY <1>0, UptoEnds, FlatEmpty, EachEmpty
<1>2. ASSUME NEW n \in Nat, n \in S PROVE n + 1 \in S
  <2>1. SUFFICES ASSUME n + 1 <= Len(seqs)
                 PROVE  h[FlattenSeq(Upto(seqs, n + 1))] = FlattenSeq(Each(h, Upto(seqs, n + 1)))
    OBVIOUS
  <2> DEFINE e == seqs[n+1]
             p == Upto(seqs, n)
  <2>2. p \in Seq(Seq(X)) /\ e \in Seq(X) /\ Upto(seqs, n+1) = Append(p, e)
    BY <2>1, UptoNext
  <2>3. h[FlattenSeq(p)] = FlattenSeq(Each(h, p))
    BY <1>2, <2>1
  <2> HIDE DEF e, p, S
  <2>4. FlattenSeq(Append(p, e)) = FlattenSeq(p) \o e /\ FlattenSeq(p) \in Seq(X)
    BY <2>2, FlatAppend
  <2>5. h[FlattenSeq(p) \o e] = h[FlattenSeq(p)] \o h[e]
    BY <2>2, <2>4 DEF Reads
  <2>6. Each(h, Append(p, e)) = Append(Each(h, p), h[e]) /\ Each(h, p) \in Seq(Seq(Y))
    <3> DEFINE SX == Seq(X)
               SY == Seq(Y)
    <3>1. Maps(h, SX, SY) /\ p \in Seq(SX) /\ e \in SX
      BY <1>0, <2>2 DEF Maps
    <3> HIDE DEF SX, SY
    <3>2. Each(h, Append(p, e)) = Append(Each(h, p), h[e]) /\ Each(h, p) \in Seq(SY)
      BY <3>1, EachAppend
    <3> QED
      BY <3>2 DEF SY
  <2>7. h[e] \in Seq(Y)
    BY <1>0, <2>2
  <2>8. FlattenSeq(Append(Each(h, p), h[e])) = FlattenSeq(Each(h, p)) \o h[e]
    BY <2>6, <2>7, FlatAppend
  <2> QED
    BY <2>2, <2>3, <2>4, <2>5, <2>6, <2>8
<1> HIDE DEF S
<1>3. \A n \in Nat : n \in S
  BY <1>1, <1>2, Induction
<1>4. Len(seqs) \in S /\ Upto(seqs, Len(seqs)) = seqs
  BY <1>3, UptoEnds
<1>5. h[FlattenSeq(seqs)] = FlattenSeq(Each(h, seqs))
  <2>1. Len(seqs) \in Nat /\ Len(seqs) <= Len(seqs)
    OBVIOUS
  <2> QED
    BY <1>4, <2>1 DEF S
<1>6. Each(h, seqs) \in Seq(Seq(Y)) /\ Len(Each(h, seqs)) = Len(seqs)
  BY <1>0 DEF Each
<1> QED
  BY <1>5, <1>6

(* The concatenation of its single elements is the sequence.                *)
LEMMA FlatSingles ==
    ASSUME NEW X, NEW s \in Seq(X)
    PROVE  FlattenSeq([k \in 1 .. Len(s) |-> <<s[k]>>]) = s
<1> DEFINE h == [x \in X |-> <<x>>]
           Y == Seq(X)
           S == {n \in Nat : n <= Len(s) => FlattenSeq(Each(h, Upto(s, n))) = Upto(s, n)}
<1>1. Maps(h, X, Y) /\ \A x \in X : h[x] = <<x>> /\ <<x>> \in Seq(X)
  BY DEF Maps
<1> HIDE DEF h, Y
<1>2. 0 \in S
  BY UptoEnds, EachEmpty, FlatEmpty
<1>3. ASSUME NEW n \in Nat, n \in S PROVE n + 1 \in S
  <2>1. SUFFICES ASSUME n + 1 <= Len(s)
                 PROVE  FlattenSeq(Each(h, Upto(s, n + 1))) = Upto(s, n + 1)
    OBVIOUS
  <2> DEFINE e == s[n+1]
             p == Upto(s, n)
             a == Each(h, p)
  <2>2. p \in Seq(X) /\ e \in X /\ Upto(s, n+1) = Append(p, e)
    BY <2>1, UptoNext
  <2>3. FlattenSeq(a) = p
    BY <1>3, <2>1
  <2> HIDE DEF e, p, S
  <2>4. Each(h, Append(p, e)) = Append(a, h[e]) /\ a \in Seq(Y)
    BY <1>1, <2>2, EachAppend
  <2>5. h[e] = <<e>> /\ <<e>> \in Seq(X) /\ a \in Seq(Seq(X))
    BY <1>1, <2>2, <2>4 DEF Y
  <2> DEFINE one == <<e>>
  <2> HIDE DEF a, one
  <2>6. FlattenSeq(Append(a, one)) = FlattenSeq(a) \o one
    BY <2>5, FlatAppend DEF one
  <2>7. p \o <<e>> = Append(p, e)
    BY <2>2, ConcatOne
  <2> QED
    BY <2>2, <2>3, <2>4, <2>5, <2>6, <2>7 DEF one
<1> HIDE DEF S
<1>4. \A n \in Nat : n \in S
  BY <1>2, <1>3, Induction
<1>5. Len(s) \in S /\ Upto(s, Len(s)) = s /\ Len(s) \in Nat
  BY <1>4, UptoEnds
<1>6. FlattenSeq(Each(h, s)) = s
  BY <1>5 DEF S
<1>7. \A k \in 1 .. Len(s) : s[k] \in X
  OBVIOUS
<1>8. Each(h, s) = [k \in 1 .. Len(s) |-> <<s[k]>>]
  BY <1>1, <1>7 DEF Each
<1> QED
  BY <1>6, <1>8

(* The concatenation of empty sequences is empty.                           *)
LEMMA FlatNothing ==
    ASSUME NEW d \in Nat
    PROVE  FlattenSeq([n \in 1 .. d |-> << >>]) = << >>
<1> DEFINE seqs == [n \in 1 .. d |-> << >>]
           S == {n \in Nat : n <= d => FlattenSeq(Upto(seqs, n)) = << >>}
<1>1. seqs \in Seq(Seq(Nat)) /\ Len(seqs) = d /\ \A n \in 1 .. d : seqs[n] = << >>
  <2>1. << >> \in Seq(Nat)
    OBVIOUS
  <2> DEFINE Y == Seq(Nat)
  <2>2. << >> \in Y
    BY <2>1
  <2> HIDE DEF Y
  <2>3. seqs \in Seq(Y) /\ Len(seqs) = d
    BY <2>2
  <2> QED
    BY <2>3 DEF Y
<1> HIDE DEF seqs
<1>2. 0 \in S
  BY <1>1, UptoEnds, FlatEmpty
<1>3. ASSUME NEW n \in Nat, n \in S PROVE n + 1 \in S
  <2>1. SUFFICES ASSUME n + 1 <= d PROVE FlattenSeq(Upto(seqs, n + 1)) = << >>
    OBVIOUS
  <2> DEFINE e == seqs[n+1]
             p == Upto(seqs, n)
  <2>2. FlattenSeq(p) = << >> /\ e = << >>
    BY <1>1, <1>3, <2>1
  <2>3. n < Len(seqs)
    BY <1>1, <2>1
  <2> HIDE DEF S
  <2>4. p \in Seq(Seq(Nat)) /\ e \in Seq(Nat) /\ Upto(seqs, n+1) = Append(p, e)
    BY <1>1, <2>3, UptoNext
  <2> HIDE DEF e, p
  <2>5. FlattenSeq(Append(p, e)) = FlattenSeq(p) \o e
    BY <2>4, FlatAppend
  <2>6. << >> \o << >> = << >>
    OBVIOUS
  <2> QED
    BY <2>2, <2>4, <2>5, <2>6
<1> HIDE DEF S
<1>4. \A n \in Nat : n \in S
  BY <1>2, <1>3, Induction
<1>5. d \in S /\ Upto(seqs, d) = seqs
  BY <1>1, <1>4, UptoEnds
<1> QED
  BY <1>5 DEF S, seqs

(* What is kept, as one sequence for each position.                         *)
KeptParts(s, P) == [n \in 1 .. Len(s) |-> IF n \in P THEN <<s[n]>> ELSE << >>]

(* What is kept is their concatenation.                                     *)
LEMMA KeptFlat ==
    ASSUME NEW X, NEW s \in Seq(X), NEW P
    PROVE  Kept(s, P) = FlattenSeq(KeptParts(s, P))
<1> DEFINE seqs == KeptParts(s, P)
<1>1. /\ seqs \in Seq(Seq(X)) /\ Len(seqs) = Len(s)
      /\ \A n \in 1 .. Len(s) : seqs[n] = IF n \in P THEN <<s[n]>> ELSE << >>
  <2>1. \A n \in 1 .. Len(s) : (IF n \in P THEN <<s[n]>> ELSE << >>) \in Seq(X)
    OBVIOUS
  <2>2. Len(s) \in Nat
    OBVIOUS
  <2> DEFINE Y == Seq(X)
  <2> HIDE DEF Y
  <2>3. seqs \in Seq(Y)
    BY <2>1, <2>2 DEF KeptParts, Y
  <2> QED
    BY <2>2, <2>3 DEF KeptParts, Y
<1>2. PICK f : Filters(f, s, P, Seq(X)) /\ Kept(s, P) = f[Len(s)]
  BY KeptFilters
<1> HIDE DEF seqs
<1> DEFINE S == {n \in Nat : n <= Len(s) => f[n] = FlattenSeq(Upto(seqs, n))}
<1>3. 0 \in S
  BY <1>1, <1>2, UptoEnds, FlatEmpty DEF Filters
<1>4. ASSUME NEW n \in Nat, n \in S PROVE n + 1 \in S
  <2>1. SUFFICES ASSUME n + 1 <= Len(s) PROVE f[n+1] = FlattenSeq(Upto(seqs, n + 1))
    OBVIOUS
  <2> DEFINE e == seqs[n+1]
             p == Upto(seqs, n)
  <2>2. f[n] = FlattenSeq(p)
    BY <1>4, <2>1
  <2>3. n + 1 \in 1 .. Len(s) /\ (n + 1) - 1 = n /\ n < Len(seqs) /\ s[n+1] \in X
    BY <1>1, <2>1
  <2>4. f[n+1] = IF n + 1 \in P THEN Append(f[n], s[n+1]) ELSE f[n]
    BY <1>2, <2>3 DEF Filters
  <2>5. e = IF n + 1 \in P THEN <<s[n+1]>> ELSE << >>
    BY <1>1, <2>3
  <2> HIDE DEF S
  <2>6. p \in Seq(Seq(X)) /\ e \in Seq(X) /\ Upto(seqs, n+1) = Append(p, e)
    BY <1>1, <2>3, UptoNext
  <2> HIDE DEF e, p
  <2>7. FlattenSeq(Append(p, e)) = FlattenSeq(p) \o e /\ FlattenSeq(p) \in Seq(X)
    BY <2>6, FlatAppend
  <2> DEFINE a == FlattenSeq(p)
  <2> HIDE DEF a
  <2>8. a \o << >> = a /\ a \o <<s[n+1]>> = Append(a, s[n+1])
    BY <2>3, <2>7, ConcatEmpty, ConcatOne DEF a
  <2> QED
    BY <2>2, <2>4, <2>5, <2>6, <2>7, <2>8 DEF a
<1> HIDE DEF S
<1>5. \A n \in Nat : n \in S
  BY <1>3, <1>4, Induction
<1>6. Len(s) \in S /\ Upto(seqs, Len(s)) = seqs /\ Len(s) \in Nat
  BY <1>1, <1>5, UptoEnds
<1> QED
  BY <1>2, <1>6 DEF S, seqs

-----------------------------------------------------------------------------
(* Pages of a log.                                                         *)

(* One step of the scan of turn_page.                                      *)
Scanned(selected, turn, before_turn, limit) ==
    IF \/ Len(selected) = limit
       \/ before_turn # -1 /\ turn >= before_turn
       \/ selected # << >> /\ selected[Len(selected)] = turn
    THEN selected ELSE Append(selected, turn)

LEMMA Scan ==
    ASSUME NEW items \in Seq(Item), NEW before_turn, NEW limit
    PROVE  \E f : /\ f[0] = << >>
                  /\ \A n \in 1 .. Len(items) :
                       f[n] = Scanned(f[n-1], items[Len(items) + 1 - n].turn, before_turn, limit)
                  /\ selected_turns(items, before_turn, limit) = f[Len(items)]
<1> DEFINE Turn(n) == items[Len(items) + 1 - n].turn
           Step(selected, turn) ==
             IF \/ Len(selected) = limit
                \/ before_turn # -1 /\ turn >= before_turn
                \/ selected # << >> /\ selected[Len(selected)] = turn
             THEN selected ELSE Append(selected, turn)
           scan[n \in 0 .. Len(items)] ==
             IF n = 0 THEN << >> ELSE Step(scan[n-1], items[Len(items) + 1 - n].turn)
           step == [p \in Seq(Nat) \X (1 .. Len(items)) |->
                      Scanned(p[1], Turn(p[2]), before_turn, limit)]
<1>1. selected_turns(items, before_turn, limit) = scan[Len(items)]
  BY DEF selected_turns
<1>2. \A v \in Seq(Nat), n \in 1 .. Len(items) :
        /\ step[<<v, n>>] = Scanned(v, Turn(n), before_turn, limit)
        /\ step[<<v, n>>] \in Seq(Nat)
  <2>1. ASSUME NEW v \in Seq(Nat), NEW n \in 1 .. Len(items)
        PROVE  Scanned(v, Turn(n), before_turn, limit) \in Seq(Nat)
    <3>1. items[Len(items) + 1 - n] \in Item
      OBVIOUS
    <3>2. Turn(n) \in Nat
      BY <3>1 DEF Item
    <3> HIDE DEF Turn
    <3>3. Append(v, Turn(n)) \in Seq(Nat)
      BY <3>2
    <3> QED
      BY <3>3 DEF Scanned
  <2> HIDE DEF Turn
  <2> QED
    BY <2>1
<1>3. PICK f : Iterates(f, Seq(Nat), << >>, step, Len(items))
  <2>1. Stays(Seq(Nat), step, Len(items))
    BY <1>2 DEF Stays
  <2>2. << >> \in Seq(Nat) /\ Len(items) \in Nat
    OBVIOUS
  <2> HIDE DEF step
  <2> QED
    BY <2>1, <2>2, Recursion
<1>4. \A n \in 1 .. Len(items) : f[n] = Scanned(f[n-1], Turn(n), before_turn, limit)
  <2> HIDE DEF step, Turn
  <2>1. \A n \in 1 .. Len(items) : n - 1 \in 0 .. Len(items)
    OBVIOUS
  <2> QED
    BY <1>2, <1>3, <2>1 DEF Iterates
<1>5. f = [n \in 0 .. Len(items) |->
             IF n = 0 THEN << >> ELSE Step(f[n-1], items[Len(items) + 1 - n].turn)]
  <2>1. \A n \in 0 .. Len(items) : n # 0 => n \in 1 .. Len(items)
    OBVIOUS
  <2> QED
    BY <1>3, <1>4, <2>1 DEF Scanned, Iterates
<1>6. scan = [n \in 0 .. Len(items) |->
                IF n = 0 THEN << >> ELSE Step(scan[n-1], items[Len(items) + 1 - n].turn)]
  BY <1>5
<1> HIDE DEF scan, Step
<1>7. /\ scan[0] = << >>
      /\ \A n \in 1 .. Len(items) : scan[n] = Step(scan[n-1], items[Len(items) + 1 - n].turn)
  <2>1. 0 \in 0 .. Len(items) /\ \A n \in 1 .. Len(items) : n \in 0 .. Len(items) /\ n # 0
    OBVIOUS
  <2> QED
    BY <1>6, <2>1
<1> USE DEF Step
<1> QED
  BY <1>1, <1>7 DEF Scanned

(* Turn numbers never decrease along a log.                                *)
Sorted(items) ==
    \A i, j \in 1 .. Len(items) : i <= j => items[i].turn <= items[j].turn

Below(before_turn, turn) == before_turn # -1 => turn < before_turn

LastTurn(selected) == selected[Len(selected)]

(* What the scan has selected of the last n items: the newest Turns, each  *)
(* once and the newest first, and all of them if it has not reached the    *)
(* limit.                                                                  *)
Selects(selected, items, n, before_turn, limit) ==
    /\ selected \in Seq(Nat) /\ Len(selected) <= limit
    /\ \A i, j \in 1 .. Len(selected) : i < j => selected[i] > selected[j]
    /\ \A i \in 1 .. Len(selected) :
         \E k \in Len(items) - n + 1 .. Len(items) :
            Below(before_turn, items[k].turn) /\ items[k].turn = selected[i]
    /\ \A k \in Len(items) - n + 1 .. Len(items) :
         /\ Below(before_turn, items[k].turn)
         /\ Len(selected) < limit \/ items[k].turn >= LastTurn(selected)
         => \E i \in 1 .. Len(selected) : selected[i] = items[k].turn

LEMMA ItemTurns ==
    ASSUME NEW items \in Seq(Item)
    PROVE  Len(items) \in Nat /\ \A k \in 1 .. Len(items) : items[k].turn \in Nat
<1>1. ASSUME NEW k \in 1 .. Len(items) PROVE items[k].turn \in Nat
  <2>1. items[k] \in Item
    OBVIOUS
  <2> QED
    BY <2>1 DEF Item
<1> QED
  BY <1>1

LEMMA ScanStep ==
    ASSUME NEW items \in Seq(Item), Sorted(items), NEW limit \in Nat \ {0},
           NEW before_turn \in Nat \union {-1},
           NEW n \in 1 .. Len(items), NEW selected,
           Selects(selected, items, n - 1, before_turn, limit)
    PROVE  Selects(Scanned(selected, items[Len(items) + 1 - n].turn, before_turn, limit),
                   items, n, before_turn, limit)
<1> DEFINE k0 == Len(items) + 1 - n
           turn == items[k0].turn
           old == Len(items) - (n - 1) + 1 .. Len(items)
           new == Len(items) - n + 1 .. Len(items)
<1>1. /\ Len(items) \in Nat /\ k0 \in 1 .. Len(items) /\ turn \in Nat
      /\ old \subseteq 1 .. Len(items) /\ new = old \union {k0} /\ k0 \notin old
      /\ \A k \in old : items[k].turn \in Nat
  BY ItemTurns
<1>2. \A k \in old : turn <= items[k].turn
  BY <1>1 DEF Sorted
<1>3. /\ selected \in Seq(Nat) /\ Len(selected) <= limit /\ Len(selected) \in Nat
      /\ \A i \in 1 .. Len(selected) : selected[i] \in Nat
      /\ \A i, j \in 1 .. Len(selected) : i < j => selected[i] > selected[j]
      /\ \A i \in 1 .. Len(selected) :
           \E k \in old : Below(before_turn, items[k].turn) /\ items[k].turn = selected[i]
      /\ \A k \in old :
           /\ Below(before_turn, items[k].turn)
           /\ Len(selected) < limit \/ items[k].turn >= LastTurn(selected)
           => \E i \in 1 .. Len(selected) : selected[i] = items[k].turn
  BY DEF Selects
<1>4. Scanned(selected, turn, before_turn, limit) \in {selected, Append(selected, turn)}
  BY DEF Scanned
<1> HIDE DEF turn, old, new, k0
<1>5. \A i \in 1 .. Len(selected) : turn <= selected[i]
  BY <1>1, <1>2, <1>3
<1>6. CASE Len(selected) = limit
  <2>1. Len(selected) \in 1 .. Len(selected) /\ LastTurn(selected) \in Nat
    BY <1>3, <1>6 DEF LastTurn
  <2>2. turn >= LastTurn(selected) => turn = LastTurn(selected)
    BY <1>1, <1>5, <2>1 DEF LastTurn
  <2>3. Scanned(selected, turn, before_turn, limit) = selected
    BY <1>6 DEF Scanned
  <2>4. ASSUME NEW k \in new, Below(before_turn, items[k].turn),
               Len(selected) < limit \/ items[k].turn >= LastTurn(selected)
        PROVE  \E i \in 1 .. Len(selected) : selected[i] = items[k].turn
    <3>1. CASE k = k0
      <4>1. turn = LastTurn(selected)
        BY <1>6, <2>2, <2>4, <3>1 DEF turn
      <4> QED
        BY <2>1, <3>1, <4>1 DEF LastTurn, turn
    <3>2. CASE k \in old
      BY <1>3, <2>4, <3>2
    <3> QED
      BY <1>1, <3>1, <3>2
  <2>5. Selects(selected, items, n, before_turn, limit)
    BY <1>1, <1>3, <2>4 DEF Selects, new
  <2> QED
    BY <2>3, <2>5 DEF turn, k0
<1>7. CASE ~ Below(before_turn, turn)
  <2>1. Scanned(selected, turn, before_turn, limit) = selected
    BY <1>1, <1>7 DEF Scanned, Below
  <2>2. Selects(selected, items, n, before_turn, limit)
    BY <1>1, <1>3, <1>7 DEF Selects, new, turn
  <2> QED
    BY <2>1, <2>2 DEF turn, k0
<1>8. CASE selected # << >> /\ LastTurn(selected) = turn
  <2>1. Len(selected) \in 1 .. Len(selected)
    BY <1>3, <1>8
  <2>2. Scanned(selected, turn, before_turn, limit) = selected
    BY <1>8 DEF Scanned, LastTurn
  <2>3. Selects(selected, items, n, before_turn, limit)
    BY <1>1, <1>3, <1>8, <2>1 DEF Selects, new, turn, LastTurn
  <2> QED
    BY <2>2, <2>3 DEF turn, k0
<1>9. CASE /\ Len(selected) # limit /\ Below(before_turn, turn)
           /\ ~ (selected # << >> /\ LastTurn(selected) = turn)
  <2> DEFINE longer == Append(selected, turn)
  <2>1. Scanned(selected, turn, before_turn, limit) = longer
    BY <1>1, <1>9 DEF Scanned, Below, LastTurn
  <2>2. /\ longer \in Seq(Nat) /\ Len(longer) = Len(selected) + 1
        /\ longer[Len(longer)] = turn
        /\ \A i \in 1 .. Len(selected) : longer[i] = selected[i]
    BY <1>1, <1>3
  <2> HIDE DEF longer
  <2>9. Len(selected) \in Nat
    BY <1>3
  <2>10. Len(longer) = Len(selected) + 1
    BY <2>2
  <2>3. \A i \in 1 .. Len(selected) : selected[i] > turn
    <3>1. ASSUME NEW i \in 1 .. Len(selected) PROVE selected[i] > turn
      <4>1. selected # << >> /\ Len(selected) \in 1 .. Len(selected)
        BY <1>3
      <4>2. selected[Len(selected)] > turn
        <5>1. selected[Len(selected)] # turn
          BY <1>9, <4>1 DEF LastTurn
        <5>2. turn <= selected[Len(selected)] /\ selected[Len(selected)] \in Nat
          BY <1>3, <1>5, <4>1
        <5> QED
          BY <1>1, <5>1, <5>2
      <4>3. i = Len(selected) \/ selected[i] > selected[Len(selected)]
        BY <1>3, <4>1
      <4> QED
        BY <1>1, <1>3, <4>1, <4>2, <4>3
    <3> QED
      BY <3>1
  <2>4. \A i, j \in 1 .. Len(longer) : i < j => longer[i] > longer[j]
    <3>1. ASSUME NEW i \in 1 .. Len(longer), NEW j \in 1 .. Len(longer), i < j
          PROVE  longer[i] > longer[j]
      <4>1. i \in 1 .. Len(selected) /\ longer[i] = selected[i]
        <5>1. i \in 1 .. Len(selected)
          BY <2>9, <2>10, <3>1
        <5> QED
          BY <2>2, <5>1
      <4>2. CASE j = Len(longer)
        BY <2>2, <2>3, <4>1, <4>2
      <4>3. CASE j # Len(longer)
        <5>1. j \in 1 .. Len(selected)
          BY <2>9, <2>10, <4>3
        <5>2. longer[j] = selected[j]
          BY <2>2, <5>1
        <5>3. selected[i] > selected[j]
          BY <1>3, <3>1, <4>1, <5>1
        <5> QED
          BY <4>1, <5>2, <5>3
      <4> QED
        BY <4>2, <4>3
    <3> QED
      BY <3>1
  <2>5. ASSUME NEW i \in 1 .. Len(longer)
        PROVE  \E k \in new : Below(before_turn, items[k].turn) /\ items[k].turn = longer[i]
    <3>1. CASE i = Len(longer)
      <4>1. k0 \in new /\ items[k0].turn = longer[i] /\ Below(before_turn, items[k0].turn)
        BY <1>1, <1>9, <2>2, <3>1 DEF turn
      <4> QED
        BY <4>1
    <3>2. CASE i # Len(longer)
      <4>1. i \in 1 .. Len(selected) /\ longer[i] = selected[i]
        <5>1. i \in 1 .. Len(selected)
          BY <2>9, <2>10, <3>2
        <5> QED
          BY <2>2, <5>1
      <4>2. PICK k \in old : Below(before_turn, items[k].turn) /\ items[k].turn = selected[i]
        BY <1>3, <4>1
      <4> QED
        BY <1>1, <4>1, <4>2
    <3> QED
      BY <3>1, <3>2
  <2>6. ASSUME NEW k \in new, Below(before_turn, items[k].turn)
        PROVE  \E i \in 1 .. Len(longer) : longer[i] = items[k].turn
    <3>1. CASE k = k0
      <4>1. Len(longer) \in 1 .. Len(longer)
        BY <2>9, <2>10
      <4>2. longer[Len(longer)] = items[k].turn
        BY <2>2, <3>1 DEF turn
      <4> QED
        BY <4>1, <4>2
    <3>2. CASE k \in old
      <4>1. Len(selected) < limit
        BY <1>3, <1>9
      <4>2. PICK i \in 1 .. Len(selected) : selected[i] = items[k].turn
        BY <1>3, <2>6, <3>2, <4>1
      <4> QED
        BY <1>3, <2>2, <4>2
    <3> QED
      BY <1>1, <3>1, <3>2
  <2>7. Len(longer) <= limit
    BY <1>3, <1>9, <2>2
  <2>8. Selects(longer, items, n, before_turn, limit)
    BY <2>2, <2>4, <2>5, <2>6, <2>7 DEF Selects, new
  <2> QED
    BY <2>1, <2>8 DEF turn, k0
<1> QED
  BY <1>6, <1>7, <1>8, <1>9

LEMMA SelectedTurns ==
    ASSUME NEW items \in Seq(Item), Sorted(items), NEW limit \in Nat \ {0},
           NEW before_turn \in Nat \union {-1}
    PROVE  Selects(selected_turns(items, before_turn, limit), items, Len(items), before_turn, limit)
<1>1. PICK f : /\ f[0] = << >>
               /\ \A n \in 1 .. Len(items) :
                    f[n] = Scanned(f[n-1], items[Len(items) + 1 - n].turn, before_turn, limit)
               /\ selected_turns(items, before_turn, limit) = f[Len(items)]
  BY Scan
<1> DEFINE S == {n \in Nat : n <= Len(items) => Selects(f[n], items, n, before_turn, limit)}
<1>2. 0 \in S
  <2>1. Len(items) - 0 + 1 .. Len(items) = {} /\ Len(<< >>) = 0 /\ << >> \in Seq(Nat)
    BY ItemTurns
  <2>2. Selects(<< >>, items, 0, before_turn, limit)
    BY <2>1 DEF Selects
  <2> QED
    BY <1>1, <2>2
<1>3. ASSUME NEW n \in Nat, n \in S PROVE n + 1 \in S
  <2>1. SUFFICES ASSUME n + 1 <= Len(items)
                 PROVE  Selects(f[n+1], items, n + 1, before_turn, limit)
    OBVIOUS
  <2>2. n + 1 \in 1 .. Len(items) /\ (n + 1) - 1 = n
    BY <2>1, ItemTurns
  <2>3. Selects(f[n], items, (n + 1) - 1, before_turn, limit)
    BY <1>3, <2>1, <2>2, ItemTurns
  <2>4. Selects(Scanned(f[n], items[Len(items) + 1 - (n + 1)].turn, before_turn, limit),
                items, n + 1, before_turn, limit)
    BY <2>2, <2>3, ScanStep
  <2> QED
    BY <1>1, <2>2, <2>4
<1> HIDE DEF S
<1>4. \A n \in Nat : n \in S
  BY <1>2, <1>3, Induction
<1>5. Len(items) \in S
  BY <1>4, ItemTurns
<1> QED
  BY <1>1, <1>5, ItemTurns DEF S

LEMMA Part ==
    ASSUME NEW items \in Seq(Item), NEW a \in Nat, NEW b \in Nat, b <= Len(items)
    PROVE  /\ b <= a => SubSeq(items, a + 1, b) = << >>
           /\ a <= b => /\ SubSeq(items, a + 1, b) \in Seq(Item)
                        /\ Len(SubSeq(items, a + 1, b)) = b - a
                        /\ \A i \in 1 .. b - a : SubSeq(items, a + 1, b)[i] = items[a + i]
           /\ a < b => SubSeq(items, a + 1, b) = Append(SubSeq(items, a + 1, b - 1), items[b])
<1>1. b <= a => SubSeq(items, a + 1, b) = << >>
  OBVIOUS
<1>2. a <= b => /\ SubSeq(items, a + 1, b) \in Seq(Item)
                /\ Len(SubSeq(items, a + 1, b)) = b - a
                /\ \A i \in 1 .. b - a : SubSeq(items, a + 1, b)[i] = items[a + i]
  OBVIOUS
<1>3. a < b => SubSeq(items, a + 1, b) = Append(SubSeq(items, a + 1, b - 1), items[b])
  OBVIOUS
<1> QED
  BY <1>1, <1>2, <1>3

LEMMA PartTurns ==
    ASSUME NEW items \in Seq(Item), NEW a \in Nat, NEW b \in Nat, a <= b, b <= Len(items)
    PROVE  TurnsOf(SubSeq(items, a + 1, b)) = {items[k].turn : k \in {k \in 1 .. b : k > a}}
<1> DEFINE part == SubSeq(items, a + 1, b)
<1>1. Len(part) = b - a /\ \A i \in 1 .. b - a : part[i] = items[a + i]
  BY Part
<1> HIDE DEF part
<1>2. \A i \in 1 .. b - a : a + i \in {k \in 1 .. b : k > a} /\ part[i].turn = items[a+i].turn
  BY <1>1
<1>3. \A k \in {k \in 1 .. b : k > a} : k - a \in 1 .. b - a /\ a + (k - a) = k
  OBVIOUS
<1>4. \A k \in {k \in 1 .. b : k > a} : part[k-a].turn = items[k].turn
  BY <1>1, <1>3
<1>5. TurnsOf(part) = {items[k].turn : k \in {k \in 1 .. b : k > a}}
  <2>1. TurnsOf(part) = {part[i].turn : i \in 1 .. b - a}
    BY <1>1 DEF TurnsOf
  <2>2. ASSUME NEW i \in 1 .. b - a
        PROVE  part[i].turn \in {items[k].turn : k \in {k \in 1 .. b : k > a}}
    BY <1>2
  <2>3. ASSUME NEW k \in {k \in 1 .. b : k > a}
        PROVE  items[k].turn \in {part[i].turn : i \in 1 .. b - a}
    <3>1. k - a \in 1 .. b - a /\ part[k-a].turn = items[k].turn
      BY <1>3, <1>4
    <3> QED
      BY <3>1
  <2> QED
    BY <2>1, <2>2, <2>3
<1> QED
  BY <1>5 DEF part

(* The items at consecutive positions are a part of the log.               *)
LEMMA KeptRange ==
    ASSUME NEW items \in Seq(Item), NEW a \in Nat, NEW b \in Nat, a <= b, b <= Len(items)
    PROVE  Kept(items, a + 1 .. b) = SubSeq(items, a + 1, b)
<1> DEFINE on_page == a + 1 .. b
<1>1. PICK kept : Filters(kept, items, on_page, Seq(Item)) /\ Kept(items, on_page) = kept[Len(items)]
  BY KeptFilters
<1>2. /\ kept[0] = << >>
      /\ \A n \in 1 .. Len(items) :
           kept[n] = IF n \in on_page THEN Append(kept[n-1], items[n]) ELSE kept[n-1]
  BY <1>1 DEF Filters
<1> HIDE DEF on_page
<1> DEFINE End(n) == IF n <= b THEN n ELSE b
           S == {n \in Nat : n <= Len(items) => kept[n] = SubSeq(items, a + 1, End(n))}
<1>3. 0 \in S
  <2>1. End(0) = 0
    OBVIOUS
  <2>2. SubSeq(items, a + 1, 0) = << >>
    BY Part
  <2> QED
    BY <1>2, <2>1, <2>2
<1>4. ASSUME NEW n \in Nat, n \in S PROVE n + 1 \in S
  <2>1. SUFFICES ASSUME n + 1 <= Len(items)
                 PROVE  kept[n+1] = SubSeq(items, a + 1, End(n+1))
    OBVIOUS
  <2>2. n + 1 \in 1 .. Len(items) /\ (n + 1) - 1 = n /\ kept[n] = SubSeq(items, a + 1, End(n))
    BY <1>4, <2>1
  <2>3. CASE n + 1 \in on_page
    <3>1. End(n) = n /\ End(n+1) = n + 1 /\ a < n + 1
      BY <2>3 DEF on_page
    <3>2. SubSeq(items, a + 1, n + 1) = Append(SubSeq(items, a + 1, (n + 1) - 1), items[n+1])
      BY <2>1, <3>1, Part
    <3> QED
      BY <1>2, <2>2, <2>3, <3>1, <3>2
  <2>4. CASE n + 1 > b
    <3>1. End(n) = b /\ End(n+1) = b /\ n + 1 \notin on_page
      BY <2>4 DEF on_page
    <3> QED
      BY <1>2, <2>2, <3>1
  <2>5. CASE n + 1 <= a
    <3>1. End(n) = n /\ End(n+1) = n + 1 /\ n + 1 \notin on_page
      BY <2>5 DEF on_page
    <3>2. SubSeq(items, a + 1, n) = << >> /\ SubSeq(items, a + 1, n + 1) = << >>
      BY <2>1, <2>5, Part
    <3> QED
      BY <1>2, <2>2, <3>1, <3>2
  <2> QED
    BY <2>3, <2>4, <2>5 DEF on_page
<1> HIDE DEF S
<1>5. \A n \in Nat : n \in S
  BY <1>3, <1>4, Induction
<1>6. Len(items) \in S /\ End(Len(items)) = b
  BY <1>5
<1>7. kept[Len(items)] = SubSeq(items, a + 1, b)
  BY <1>6 DEF S
<1> QED
  BY <1>1, <1>7 DEF on_page

(* What lies below a Turn number is a first part of the log.                *)
LEMMA Cut ==
    ASSUME NEW items \in Seq(Item), Sorted(items), NEW before_turn \in Nat \union {-1}
    PROVE  \E m \in 0 .. Len(items) :
             \A k \in 1 .. Len(items) : Below(before_turn, items[k].turn) <=> k <= m
<1> DEFINE S == {k \in 1 .. Len(items) + 1 :
                   k <= Len(items) => ~ Below(before_turn, items[k].turn)}
<1>1. Len(items) \in Nat /\ S \in SUBSET Nat /\ Len(items) + 1 \in S
  BY ItemTurns
<1>2. PICK n \in S : \A k \in S : n <= k
  BY <1>1, Least
<1>3. n - 1 \in 0 .. Len(items)
  BY <1>1, <1>2
<1>4. ASSUME NEW k \in 1 .. Len(items)
      PROVE  Below(before_turn, items[k].turn) <=> k <= n - 1
  <2>1. CASE k <= n - 1
    <3>1. k \notin S
      BY <1>1, <1>2, <2>1
    <3> QED
      BY <1>1, <2>1, <3>1
  <2>2. CASE ~ (k <= n - 1)
    <3>1. n \in 1 .. Len(items) /\ n <= k /\ ~ Below(before_turn, items[n].turn)
      BY <1>1, <1>2, <2>2
    <3>2. items[n].turn <= items[k].turn /\ items[n].turn \in Nat /\ items[k].turn \in Nat
      BY <3>1, ItemTurns DEF Sorted
    <3>3. ~ Below(before_turn, items[k].turn)
      BY <3>1, <3>2 DEF Below
    <3> QED
      BY <2>2, <3>3
  <2> QED
    BY <2>1, <2>2
<1> QED
  BY <1>3, <1>4

(* Sequences without repetition.                                           *)
LEMMA Distinct ==
    ASSUME NEW s \in Seq(Nat), \A i, j \in 1 .. Len(s) : i < j => s[i] > s[j]
    PROVE  /\ IsFiniteSet({s[i] : i \in 1 .. Len(s)})
           /\ Cardinality({s[i] : i \in 1 .. Len(s)}) = Len(s)
<1> DEFINE R == {s[i] : i \in 1 .. Len(s)}
           f == [i \in 1 .. Len(s) |-> s[i]]
<1>1. Len(s) \in Nat /\ \A i \in 1 .. Len(s) : s[i] \in Nat
  OBVIOUS
<1>2. IsFiniteSet(1 .. Len(s)) /\ Cardinality(1 .. Len(s)) = Len(s)
  <2>1. 1 \in Int /\ Len(s) \in Int
    BY <1>1
  <2>2. /\ IsFiniteSet(1 .. Len(s))
        /\ Cardinality(1 .. Len(s)) = IF 1 > Len(s) THEN 0 ELSE Len(s) - 1 + 1
    BY <2>1, FS_Interval, Zenon
  <2> QED
    BY <1>1, <2>2
<1>3. \A i, j \in 1 .. Len(s) : s[i] = s[j] => i = j
  BY <1>1
<1>4. f \in Bijection(1 .. Len(s), R)
  BY <1>3 DEF Bijection, Injection, Surjection, IsInjective
<1> HIDE DEF R, f
<1>5. IsFiniteSet(R) /\ Cardinality(R) = Cardinality(1 .. Len(s))
  BY <1>2, <1>4, FS_Bijection DEF ExistsBijection
<1> QED
  BY <1>2, <1>5 DEF R

(* A page of the items before position m + 1: those from a + 1 on.          *)
IsPage(page, items, a, m, limit) ==
    /\ page.items = SubSeq(items, a + 1, m)
    /\ page.has_older = (a > 0)
    /\ m > 0 => a < m
    /\ a > 0 => page.oldest_turn = items[a+1].turn /\ items[a].turn < items[a+1].turn
    /\ Cardinality(TurnsOf(page.items)) <= limit
    /\ a > 0 => Cardinality(TurnsOf(page.items)) = limit

Page == [summary : [last_turn : Nat \union {-1}, item_count : Nat], items : Seq(Item),
         oldest_turn : Nat \union {-1}, has_older : BOOLEAN]

LEMMA IsAPage ==
    ASSUME NEW summ \in [last_turn : Nat \union {-1}, item_count : Nat], NEW items \in Seq(Item),
           NEW oldest_turn \in Nat \union {-1}, NEW has_older \in BOOLEAN
    PROVE  [summary |-> summ, items |-> items, oldest_turn |-> oldest_turn,
            has_older |-> has_older] \in Page
BY DEF Page

(* The page below a Turn number is cut out of the log: it ends where the    *)
(* items that are not below it begin.                                      *)
LEMMA PageOf ==
    ASSUME NEW items \in Seq(Item), Sorted(items), NEW limit \in Nat \ {0},
           NEW before_turn \in Nat \union {-1}, NEW m \in 0 .. Len(items),
           \A k \in 1 .. Len(items) : Below(before_turn, items[k].turn) <=> k <= m
    PROVE  /\ load_turn_page(items, before_turn, limit) \in Page
           /\ \E a \in 0 .. m :
                IsPage(load_turn_page(items, before_turn, limit), items, a, m, limit)
<1> DEFINE selected == selected_turns(items, before_turn, limit)
           page == load_turn_page(items, before_turn, limit)
           oldest == LastTurn(selected)
           on_page == {n \in 1 .. Len(items) :
                         /\ items[n].turn >= oldest
                         /\ before_turn # -1 => items[n].turn < before_turn}
           older == \E n \in 1 .. Len(items) : items[n].turn < oldest
<1>1. Len(items) \in Nat /\ m \in Nat /\ \A k \in 1 .. Len(items) : items[k].turn \in Nat
  BY ItemTurns
<1>2. Selects(selected, items, Len(items), before_turn, limit)
  BY SelectedTurns
<1>3. /\ snapshot(items).items = items
      /\ snapshot(items).summary \in [last_turn : Nat \union {-1}, item_count : Nat]
  <2>1. items # << >> => items[Len(items)].turn \in Nat
    BY <1>1
  <2> QED
    BY <1>1, <2>1 DEF snapshot, summary
<1>4. /\ selected = << >> =>
           page = [summary |-> snapshot(items).summary, items |-> << >>, oldest_turn |-> -1,
                   has_older |-> FALSE]
      /\ selected # << >> =>
           page = [summary |-> snapshot(items).summary, items |-> Kept(items, on_page),
                   oldest_turn |-> oldest, has_older |-> older]
  BY <1>3 DEF load_turn_page, turn_page, LastTurn
<1> HIDE DEF selected, page
<1>5. /\ selected \in Seq(Nat) /\ Len(selected) \in Nat /\ Len(selected) <= limit
      /\ \A i \in 1 .. Len(selected) : selected[i] \in Nat
      /\ \A i, j \in 1 .. Len(selected) : i < j => selected[i] > selected[j]
      /\ \A i \in 1 .. Len(selected) : \E k \in 1 .. m : items[k].turn = selected[i]
      /\ \A k \in 1 .. m : Len(selected) < limit \/ items[k].turn >= oldest
            => \E i \in 1 .. Len(selected) : selected[i] = items[k].turn
  <2>1. Len(items) - Len(items) + 1 = 1
    BY <1>1
  <2>2. /\ selected \in Seq(Nat) /\ Len(selected) <= limit
        /\ \A i, j \in 1 .. Len(selected) : i < j => selected[i] > selected[j]
        /\ \A i \in 1 .. Len(selected) :
             \E k \in 1 .. Len(items) :
                Below(before_turn, items[k].turn) /\ items[k].turn = selected[i]
        /\ \A k \in 1 .. Len(items) :
             /\ Below(before_turn, items[k].turn)
             /\ Len(selected) < limit \/ items[k].turn >= oldest
             => \E i \in 1 .. Len(selected) : selected[i] = items[k].turn
    BY <1>2, <2>1 DEF Selects
  <2>3. Len(selected) \in Nat /\ \A i \in 1 .. Len(selected) : selected[i] \in Nat
    BY <2>2
  <2>4. \A k \in 1 .. m : k \in 1 .. Len(items) /\ Below(before_turn, items[k].turn)
    BY <1>1
  <2>5. \A k \in 1 .. Len(items) : Below(before_turn, items[k].turn) => k \in 1 .. m
    BY <1>1
  <2> HIDE DEF oldest
  <2> QED
    BY <2>2, <2>3, <2>4, <2>5
<1>6. CASE selected = << >>
  <2>1. m = 0
    <3>1. SUFFICES ASSUME m # 0 PROVE FALSE
      OBVIOUS
    <3>2. m \in 1 .. m /\ Len(selected) = 0 /\ 0 < limit
      BY <1>1, <1>6, <3>1
    <3>3. PICK i \in 1 .. Len(selected) : selected[i] = items[m].turn
      BY <1>5, <3>2
    <3> QED
      BY <3>2, <3>3
  <2>2. page.items = << >> /\ page.has_older = FALSE
    BY <1>4, <1>6
  <2>3. SubSeq(items, 0 + 1, m) = << >>
    BY <1>1, <2>1, Part
  <2>4. TurnsOf(page.items) = {}
    <3>1. 1 .. Len(page.items) = {}
      BY <2>2
    <3> QED
      BY <3>1 DEF TurnsOf
  <2>5. Cardinality(TurnsOf(page.items)) <= limit
    BY <2>4, FS_EmptySet
  <2>6. IsPage(page, items, 0, m, limit)
    <3>1. page.has_older = (0 > 0)
      <4>1. (0 > 0) = FALSE
        OBVIOUS
      <4> QED
        BY <2>2, <4>1, Zenon
    <3>2. page.items = SubSeq(items, 0 + 1, m)
      BY <2>2, <2>3
    <3> HIDE DEF page
    <3> QED
      BY <2>1, <2>5, <3>1, <3>2 DEF IsPage
  <2>7. page \in Page
    <3>1. << >> \in Seq(Item) /\ -1 \in Nat \union {-1} /\ FALSE \in BOOLEAN
      OBVIOUS
    <3>2. page = [summary |-> snapshot(items).summary, items |-> << >>, oldest_turn |-> -1,
                  has_older |-> FALSE]
      BY <1>4, <1>6
    <3> QED
      BY <1>3, <3>1, <3>2, IsAPage
  <2>8. 0 \in 0 .. m
    BY <1>1
  <2> QED
    BY <2>6, <2>7, <2>8 DEF page
<1>7. CASE selected # << >>
  <2>1. Len(selected) \in 1 .. Len(selected) /\ oldest \in Nat
        /\ oldest = selected[Len(selected)]
    BY <1>5, <1>7 DEF LastTurn
  <2>2. PICK k0 \in 1 .. m : items[k0].turn = oldest
    BY <1>5, <2>1
  <2>19. ASSUME NEW i \in 1 .. Len(selected) PROVE selected[i] \in Nat /\ selected[i] >= oldest
    <3>1. i = Len(selected) \/ i < Len(selected)
      BY <1>5
    <3>2. i < Len(selected) => selected[i] > selected[Len(selected)]
      BY <1>5, <2>1
    <3>3. selected[i] \in Nat
      BY <1>5
    <3> QED
      BY <2>1, <3>1, <3>2, <3>3
  <2>3. PICK a \in 0 .. Len(items) : \A k \in 1 .. Len(items) :
                                       Below(oldest, items[k].turn) <=> k <= a
    BY <2>1, Cut
  <2> HIDE DEF oldest
  <2>4. a \in Nat /\ \A k \in 1 .. Len(items) : items[k].turn < oldest <=> k <= a
    <3>1. oldest # -1
      BY <2>1
    <3> QED
      BY <1>1, <2>3, <3>1 DEF Below
  <2>5. a < k0 /\ a < m /\ k0 \in 1 .. Len(items)
    <3>1. k0 \in 1 .. Len(items) /\ ~ (k0 <= a)
      BY <1>1, <2>1, <2>2, <2>4
    <3> QED
      BY <1>1, <2>4, <3>1
  <2>6. on_page = a + 1 .. m
    <3>1. \A k \in 1 .. Len(items) : k \in on_page <=> a < k /\ k <= m
      BY <1>1, <2>1, <2>4 DEF Below
    <3>2. \A k \in a + 1 .. m : k \in 1 .. Len(items)
      BY <1>1, <2>4
    <3> QED
      BY <1>1, <2>4, <3>1, <3>2
  <2>7. /\ page.items = SubSeq(items, a + 1, m)
        /\ Kept(items, on_page) = SubSeq(items, a + 1, m)
    <3>1. Kept(items, a + 1 .. m) = SubSeq(items, a + 1, m)
      BY <1>1, <2>4, <2>5, KeptRange
    <3> HIDE DEF on_page
    <3> QED
      BY <1>4, <1>7, <2>6, <3>1
  <2>8. page.oldest_turn = oldest /\ page.has_older = (a > 0) /\ page.has_older \in BOOLEAN
    <3>1. (\E n \in 1 .. Len(items) : items[n].turn < oldest) <=> a > 0
      <4>1. a > 0 => 1 \in 1 .. Len(items) /\ 1 <= a
        BY <1>1, <2>4, <2>5
      <4> QED
        BY <2>4, <4>1
    <3>2. older <=> a > 0
      BY <3>1
    <3>3. older \in BOOLEAN
      OBVIOUS
    <3> HIDE DEF on_page, older
    <3>4. page.has_older = older /\ page.oldest_turn = oldest
      BY <1>4, <1>7
    <3>5. older = (a > 0)
      BY <3>2, <3>3
    <3> QED
      BY <3>3, <3>4, <3>5, Zenon
  <2>9. items[a+1].turn = oldest
    <3>1. a + 1 \in 1 .. Len(items) /\ a + 1 <= k0 /\ ~ (a + 1 <= a)
      BY <1>1, <2>4, <2>5
    <3>2. ~ (items[a+1].turn < oldest) /\ items[a+1].turn <= items[k0].turn
      BY <2>4, <2>5, <3>1 DEF Sorted
    <3> QED
      BY <1>1, <2>1, <2>2, <3>1, <3>2
  <2>10. a > 0 => items[a].turn < items[a+1].turn
    <3>1. a > 0 => a \in 1 .. Len(items) /\ a <= a
      BY <1>1, <2>4, <2>5
    <3> QED
      BY <2>4, <2>9, <3>1
  <2>11. \A k \in 1 .. m : k > a => \E i \in 1 .. Len(selected) : selected[i] = items[k].turn
    <3>1. \A k \in 1 .. m : k > a => items[k].turn >= oldest
      BY <1>1, <2>1, <2>4
    <3> QED
      BY <1>5, <3>1
  <2>12. \A i \in 1 .. Len(selected) : \E k \in 1 .. m : k > a /\ items[k].turn = selected[i]
    <3>1. ASSUME NEW i \in 1 .. Len(selected)
          PROVE  \E k \in 1 .. m : k > a /\ items[k].turn = selected[i]
      <4>1. PICK k \in 1 .. m : items[k].turn = selected[i]
        BY <1>5
      <4>2. selected[i] \in Nat /\ selected[i] >= oldest
        BY <2>19
      <4>3. k \in 1 .. Len(items) /\ k \in Nat
        BY <1>1
      <4>4. ~ (items[k].turn < oldest)
        BY <2>1, <4>1, <4>2
      <4>5. k > a
        BY <2>4, <4>3, <4>4
      <4> QED
        BY <4>1, <4>5
    <3> QED
      BY <3>1
  <2>13. TurnsOf(page.items) = {selected[i] : i \in 1 .. Len(selected)}
    <3>1. a <= m /\ m <= Len(items)
      BY <1>1, <2>4, <2>5
    <3>2. TurnsOf(SubSeq(items, a + 1, m)) = {items[k].turn : k \in {k \in 1 .. m : k > a}}
      BY <1>1, <2>4, <3>1, PartTurns
    <3>3. {items[k].turn : k \in {k \in 1 .. m : k > a}}
            = {selected[i] : i \in 1 .. Len(selected)}
      <4>1. ASSUME NEW k \in {k \in 1 .. m : k > a}
            PROVE  items[k].turn \in {selected[i] : i \in 1 .. Len(selected)}
        <5>1. PICK i \in 1 .. Len(selected) : selected[i] = items[k].turn
          BY <2>11
        <5> QED
          BY <5>1
      <4>2. ASSUME NEW i \in 1 .. Len(selected)
            PROVE  selected[i] \in {items[k].turn : k \in {k \in 1 .. m : k > a}}
        <5>1. PICK k \in 1 .. m : k > a /\ items[k].turn = selected[i]
          BY <2>12
        <5> QED
          BY <5>1
      <4> QED
        BY <4>1, <4>2
    <3> QED
      BY <2>7, <3>2, <3>3
  <2>14. Cardinality(TurnsOf(page.items)) = Len(selected)
    BY <1>5, <2>13, Distinct
  <2>15. a > 0 => Len(selected) = limit
    <3>1. SUFFICES ASSUME a > 0, Len(selected) # limit PROVE FALSE
      OBVIOUS
    <3>2. a \in 1 .. m /\ a \in 1 .. Len(items) /\ Len(selected) < limit
      BY <1>1, <1>5, <2>4, <2>5, <3>1
    <3>3. PICK i \in 1 .. Len(selected) : selected[i] = items[a].turn
      BY <1>5, <3>2
    <3>5. selected[i] \in Nat /\ selected[i] >= oldest
      BY <2>19
    <3>6. items[a].turn < oldest
      BY <2>4, <3>2
    <3> QED
      BY <2>1, <3>3, <3>5, <3>6
  <2>16. IsPage(page, items, a, m, limit)
    BY <1>5, <2>5, <2>7, <2>8, <2>9, <2>10, <2>14, <2>15 DEF IsPage
  <2>17. page \in Page
    <3>1. SubSeq(items, a + 1, m) \in Seq(Item)
      BY <1>1, <2>4, <2>5, Part
    <3>2. page = [summary |-> snapshot(items).summary, items |-> Kept(items, on_page),
                  oldest_turn |-> oldest, has_older |-> older]
      BY <1>4, <1>7
    <3>3. Kept(items, on_page) \in Seq(Item)
      BY <2>7, <3>1
    <3>4. older \in BOOLEAN /\ oldest \in Nat \union {-1}
      BY <2>1
    <3> HIDE DEF page, on_page, older
    <3>5. [summary |-> snapshot(items).summary, items |-> Kept(items, on_page),
           oldest_turn |-> oldest, has_older |-> older] \in Page
      BY <1>3, <3>3, <3>4, IsAPage
    <3> QED
      BY <3>2, <3>5
  <2>18. a \in 0 .. m
    BY <1>1, <2>4, <2>5
  <2> QED
    BY <2>16, <2>17, <2>18 DEF page
<1> QED
  BY <1>6, <1>7

-----------------------------------------------------------------------------
(* The pages of a reader, and where they are cut.                          *)

NextPage(page, items, limit) ==
    IF page.has_older THEN load_turn_page(items, page.oldest_turn, limit)
    ELSE [page EXCEPT !.items = << >>]

TurnsTo(items, k) == {items[i].turn : i \in 1 .. k}

LEMMA TurnsToFinite ==
    ASSUME NEW items, NEW k \in Nat
    PROVE  IsFiniteSet(TurnsTo(items, k)) /\ Cardinality(TurnsTo(items, k)) \in Nat
<1> DEFINE f == [i \in 1 .. k |-> items[i].turn]
<1>1. IsFiniteSet(1 .. k)
  <2>1. 1 \in Int /\ k \in Int
    OBVIOUS
  <2> QED
    BY <2>1, FS_Interval
<1>2. f \in Surjection(1 .. k, TurnsTo(items, k))
  BY DEF Surjection, TurnsTo
<1> HIDE DEF f
<1>3. IsFiniteSet(TurnsTo(items, k))
  BY <1>1, <1>2, FS_Surjection DEF ExistsSurjection
<1> QED
  BY <1>3, FS_CardinalityType

LEMMA PageType ==
    ASSUME NEW items \in Seq(Item), Sorted(items), NEW limit \in Nat \ {0},
           NEW before_turn \in Nat \union {-1}
    PROVE  load_turn_page(items, before_turn, limit) \in Page
<1>1. PICK m \in 0 .. Len(items) :
        \A k \in 1 .. Len(items) : Below(before_turn, items[k].turn) <=> k <= m
  BY Cut
<1> QED
  BY <1>1, PageOf

LEMMA NextPageType ==
    ASSUME NEW items \in Seq(Item), Sorted(items), NEW limit \in Nat \ {0}, NEW page \in Page
    PROVE  NextPage(page, items, limit) \in Page
<1>1. page.oldest_turn \in Nat \union {-1}
  BY DEF Page
<1>2. [page EXCEPT !.items = << >>] \in Page
  <2>1. << >> \in Seq(Item)
    OBVIOUS
  <2> QED
    BY <2>1 DEF Page
<1> QED
  BY <1>1, <1>2, PageType DEF NextPage

(* The recursive function of Pages exists.                                  *)
LEMMA PagesUnfold ==
    ASSUME NEW early \in Seq(Item), Sorted(early), NEW items \in Seq(Item), Sorted(items),
           NEW limit \in Nat \ {0}, NEW N \in Nat \ {0},
           N = Cardinality(TurnsOf(items)) + 1
    PROVE  /\ Pages(early, items, limit) \in [1 .. N -> Page]
           /\ Pages(early, items, limit)[1] = load_turn_page(early, -1, limit)
           /\ \A n \in 1 .. N - 1 :
                Pages(early, items, limit)[n+1]
                  = NextPage(Pages(early, items, limit)[n], items, limit)
<1> DEFINE page[n \in 1 .. N] ==
             IF n = 1 THEN load_turn_page(early, -1, limit)
             ELSE NextPage(page[n-1], items, limit)
           step == [p \in Page \X (1 .. N - 1) |-> NextPage(p[1], items, limit)]
           first == load_turn_page(early, -1, limit)
<1>1. Pages(early, items, limit) = page
  BY DEF Pages, NextPage
<1>2. first \in Page
  BY PageType
<1>3. \A v \in Page, n \in 1 .. N - 1 :
        step[<<v, n>>] = NextPage(v, items, limit) /\ step[<<v, n>>] \in Page
  <2>1. ASSUME NEW v \in Page PROVE NextPage(v, items, limit) \in Page
    BY NextPageType
  <2> QED
    BY <2>1
<1> HIDE DEF first
<1>4. PICK f : Iterates(f, Page, first, step, N - 1)
  <2> HIDE DEF step
  <2>1. Stays(Page, step, N - 1)
    BY <1>3 DEF Stays
  <2>2. N - 1 \in Nat
    OBVIOUS
  <2> QED
    BY <1>2, <2>1, <2>2, Recursion
<1> DEFINE g == [n \in 1 .. N |-> f[n-1]]
<1>5. /\ f \in [0 .. N - 1 -> Page] /\ f[0] = first
      /\ \A n \in 1 .. N - 1 : f[n] = NextPage(f[n-1], items, limit)
  <2> HIDE DEF step
  <2>1. \A n \in 1 .. N - 1 : n - 1 \in 0 .. N - 1
    OBVIOUS
  <2> QED
    BY <1>3, <1>4, <2>1 DEF Iterates
<1>6. g \in [1 .. N -> Page] /\ g[1] = first
  <2>1. \A n \in 1 .. N : n - 1 \in 0 .. N - 1
    OBVIOUS
  <2>2. 1 \in 1 .. N /\ 1 - 1 = 0
    OBVIOUS
  <2> QED
    BY <1>5, <2>1, <2>2
<1>7. \A n \in 1 .. N : n # 1 => g[n] = NextPage(g[n-1], items, limit)
  <2>1. ASSUME NEW n \in 1 .. N, n # 1 PROVE g[n] = NextPage(g[n-1], items, limit)
    <3>1. n - 1 \in 1 .. N /\ n - 1 \in 1 .. N - 1
      BY <2>1
    <3> QED
      BY <1>5, <3>1
  <2> QED
    BY <2>1
<1> HIDE DEF g
<1>8. g = [n \in 1 .. N |-> IF n = 1 THEN first ELSE NextPage(g[n-1], items, limit)]
  BY <1>6, <1>7
<1>9. page = [n \in 1 .. N |-> IF n = 1 THEN first ELSE NextPage(page[n-1], items, limit)]
  BY <1>8 DEF first
<1> HIDE DEF page
<1> DEFINE Sound == {n \in Nat : n + 1 <= N => page[n+1] \in Page}
<1>10. 1 \in 1 .. N /\ page[1] = first
  BY <1>9
<1>11. ASSUME NEW n \in 1 .. N - 1 PROVE page[n+1] = NextPage(page[n], items, limit)
  <2>1. n + 1 \in 1 .. N /\ n + 1 # 1 /\ (n + 1) - 1 = n
    OBVIOUS
  <2> QED
    BY <1>9, <2>1
<1>12. 0 \in Sound
  BY <1>2, <1>10
<1>13. ASSUME NEW n \in Nat, n \in Sound PROVE n + 1 \in Sound
  <2>1. SUFFICES ASSUME (n + 1) + 1 <= N PROVE page[(n+1)+1] \in Page
    OBVIOUS
  <2>2. n + 1 \in 1 .. N - 1 /\ page[n+1] \in Page
    BY <1>13, <2>1
  <2>3. page[(n+1)+1] = NextPage(page[n+1], items, limit)
    BY <1>11, <2>2
  <2> QED
    BY <2>2, <2>3, NextPageType
<1> HIDE DEF Sound
<1>14. \A n \in Nat : n \in Sound
  BY <1>12, <1>13, Induction
<1>15. \A n \in 1 .. N : page[n] \in Page
  <2>1. ASSUME NEW n \in 1 .. N PROVE page[n] \in Page
    <3>1. n - 1 \in Nat /\ n - 1 \in Sound /\ (n - 1) + 1 = n
      BY <1>14
    <3> QED
      BY <3>1 DEF Sound
  <2> QED
    BY <2>1
<1>16. page \in [1 .. N -> Page]
  BY <1>9, <1>15
<1> QED
  BY <1>1, <1>10, <1>11, <1>16 DEF first

(* The page that follows one that starts at a + 1 ends at a.                *)
LEMMA PageBefore ==
    ASSUME NEW items \in Seq(Item), Sorted(items), NEW limit \in Nat \ {0}, NEW page \in Page,
           NEW m \in 0 .. Len(items), NEW a \in 0 .. m, IsPage(page, items, a, m, limit)
    PROVE  \E b \in 0 .. a : IsPage(NextPage(page, items, limit), items, b, a, limit)
<1>1. Len(items) \in Nat /\ m \in Nat /\ a \in Nat /\ a <= m /\ m <= Len(items)
      /\ \A k \in 1 .. Len(items) : items[k].turn \in Nat
  BY ItemTurns
<1>2. CASE a = 0
  <2> DEFINE empty == [page EXCEPT !.items = << >>]
  <2>1. page.has_older = FALSE
    <3>1. (a > 0) = FALSE
      BY <1>2
    <3> QED
      BY <3>1, Zenon DEF IsPage
  <2>2. empty.items = << >> /\ empty.has_older = FALSE
    BY <2>1 DEF Page
  <2>3. NextPage(page, items, limit) = empty
    BY <2>1 DEF NextPage
  <2> HIDE DEF empty
  <2>4. TurnsOf(empty.items) = {}
    <3>1. 1 .. Len(empty.items) = {}
      BY <2>2
    <3> QED
      BY <3>1 DEF TurnsOf
  <2>5. Cardinality(TurnsOf(empty.items)) <= limit
    BY <2>4, FS_EmptySet
  <2>6. empty.items = SubSeq(items, 0 + 1, 0)
    BY <1>1, <2>2, Part
  <2>7. empty.has_older = (0 > 0)
    <3>1. (0 > 0) = FALSE
      OBVIOUS
    <3> QED
      BY <2>2, <3>1, Zenon
  <2>8. IsPage(empty, items, 0, 0, limit)
    BY <2>5, <2>6, <2>7 DEF IsPage
  <2> QED
    BY <1>2, <2>3, <2>8
<1>3. CASE a > 0
  <2>1. page.has_older = TRUE
    <3>1. (a > 0) = TRUE
      BY <1>1, <1>3
    <3> QED
      BY <3>1, Zenon DEF IsPage
  <2>2. /\ a < m /\ a \in 1 .. Len(items) /\ a + 1 \in 1 .. Len(items)
        /\ page.oldest_turn = items[a+1].turn /\ items[a].turn < items[a+1].turn
    BY <1>1, <1>3 DEF IsPage
  <2>3. ASSUME NEW k \in 1 .. Len(items)
        PROVE  Below(page.oldest_turn, items[k].turn) <=> k <= a
    <3>1. k <= a => items[k].turn <= items[a].turn
      BY <2>2 DEF Sorted
    <3>2. a < k => items[a+1].turn <= items[k].turn
      BY <1>1, <2>2 DEF Sorted
    <3>3. items[a].turn \in Nat /\ items[a+1].turn \in Nat /\ items[k].turn \in Nat
      BY <1>1, <2>2
    <3>4. Below(page.oldest_turn, items[k].turn) <=> items[k].turn < items[a+1].turn
      BY <2>2, <3>3 DEF Below
    <3>5. k \in Nat
      OBVIOUS
    <3> QED
      BY <1>1, <2>2, <3>1, <3>2, <3>3, <3>4, <3>5
  <2>4. page.oldest_turn \in Nat \union {-1} /\ a \in 0 .. Len(items)
    BY <1>1, <2>2
  <2>5. \E b \in 0 .. a :
          IsPage(load_turn_page(items, page.oldest_turn, limit), items, b, a, limit)
    BY <2>3, <2>4, PageOf
  <2>6. NextPage(page, items, limit) = load_turn_page(items, page.oldest_turn, limit)
    BY <2>1 DEF NextPage
  <2> QED
    BY <2>5, <2>6
<1> QED
  BY <1>1, <1>2, <1>3

(* The items of the first page are those of the log as it was.              *)
LEMMA EarlyPage ==
    ASSUME NEW items \in Seq(Item), NEW L \in 0 .. Len(items), NEW a \in 0 .. L,
           NEW limit, NEW page, IsPage(page, SubSeq(items, 1, L), a, L, limit)
    PROVE  IsPage(page, items, a, L, limit)
<1> DEFINE early == SubSeq(items, 1, L)
<1>1. Len(items) \in Nat /\ L \in Nat /\ a \in Nat /\ L <= Len(items) /\ a <= L
  BY ItemTurns
<1>2. /\ early \in Seq(Item) /\ Len(early) = L /\ \A i \in 1 .. L : early[i] = items[i]
  <2>1. /\ SubSeq(items, 0 + 1, L) \in Seq(Item) /\ Len(SubSeq(items, 0 + 1, L)) = L - 0
        /\ \A i \in 1 .. L - 0 : SubSeq(items, 0 + 1, L)[i] = items[0 + i]
    BY <1>1, Part
  <2> QED
    BY <1>1, <2>1
<1>3. SubSeq(early, a + 1, L) = SubSeq(items, a + 1, L)
  <2> HIDE DEF early
  <2>1. /\ Len(SubSeq(early, a + 1, L)) = L - a
        /\ \A i \in 1 .. L - a : SubSeq(early, a + 1, L)[i] = early[a + i]
        /\ SubSeq(early, a + 1, L) \in Seq(Item)
    BY <1>1, <1>2, Part
  <2>2. /\ Len(SubSeq(items, a + 1, L)) = L - a
        /\ \A i \in 1 .. L - a : SubSeq(items, a + 1, L)[i] = items[a + i]
        /\ SubSeq(items, a + 1, L) \in Seq(Item)
    BY <1>1, Part
  <2>3. \A i \in 1 .. L - a : a + i \in 1 .. L
    BY <1>1
  <2>4. \A i \in 1 .. L - a : SubSeq(early, a + 1, L)[i] = SubSeq(items, a + 1, L)[i]
    BY <1>2, <2>1, <2>2, <2>3
  <2> QED
    BY <2>1, <2>2, <2>4, Same
<1>4. a > 0 => a < L /\ early[a] = items[a] /\ early[a+1] = items[a+1]
  <2>1. a > 0 => a < L
    BY <1>1 DEF IsPage
  <2>2. a > 0 => a \in 1 .. L /\ a + 1 \in 1 .. L
    BY <1>1, <2>1
  <2> HIDE DEF early
  <2> QED
    BY <1>2, <2>1, <2>2
<1>5. IsPage(page, early, a, L, limit)
  OBVIOUS
<1> HIDE DEF early
<1> QED
  BY <1>3, <1>4, <1>5 DEF IsPage

(* Where the pages are cut: page n holds the items from cut[n] + 1 to       *)
(* cut[n-1].                                                               *)
Cuts(cut, page, items, L, N, limit) ==
    /\ cut \in [0 .. N -> Nat] /\ cut[0] = L
    /\ \A n \in 1 .. N : /\ cut[n] <= cut[n-1] /\ cut[n-1] <= L
                         /\ IsPage(page[n], items, cut[n], cut[n-1], limit)

LEMMA PagesAreCut ==
    ASSUME NEW items \in Seq(Item), Sorted(items), NEW limit \in Nat \ {0},
           NEW L \in 0 .. Len(items), NEW N \in Nat \ {0},
           NEW page \in [1 .. N -> Page],
           \E a \in 0 .. L : IsPage(page[1], items, a, L, limit),
           \A n \in 1 .. N - 1 : page[n+1] = NextPage(page[n], items, limit)
    PROVE  \E cut : Cuts(cut, page, items, L, N, limit)
<1> DEFINE Fits(n, a, b) == b \in 0 .. a /\ IsPage(page[n], items, b, a, limit)
           step == [p \in Nat \X (1 .. N) |->
                      IF \E b \in Nat : Fits(p[2], p[1], b)
                      THEN CHOOSE b \in Nat : Fits(p[2], p[1], b) ELSE 0]
<1>1. Len(items) \in Nat /\ L \in Nat /\ L <= Len(items)
  BY ItemTurns
<1>2. \A a \in Nat, n \in 1 .. N :
        /\ step[<<a, n>>] \in Nat
        /\ (\E b \in Nat : Fits(n, a, b)) => Fits(n, a, step[<<a, n>>])
  <2>1. ASSUME NEW a \in Nat, NEW n \in 1 .. N
        PROVE  /\ step[<<a, n>>] \in Nat
               /\ (\E b \in Nat : Fits(n, a, b)) => Fits(n, a, step[<<a, n>>])
    <3>1. step[<<a, n>>] = IF \E b \in Nat : Fits(n, a, b)
                           THEN CHOOSE b \in Nat : Fits(n, a, b) ELSE 0
      <4> HIDE DEF Fits
      <4> QED
        OBVIOUS
    <3> HIDE DEF step, Fits
    <3> QED
      BY <3>1
  <2> QED
    BY <2>1
<1> HIDE DEF step
<1>3. PICK cut : Iterates(cut, Nat, L, step, N)
  <2>1. Stays(Nat, step, N)
    BY <1>2 DEF Stays
  <2> QED
    BY <1>1, <2>1, Recursion
<1>4. /\ cut \in [0 .. N -> Nat] /\ cut[0] = L
      /\ \A n \in 1 .. N : cut[n] = step[<<cut[n-1], n>>]
  BY <1>3 DEF Iterates
<1> DEFINE Good(n) == /\ cut[n-1] <= L /\ Fits(n, cut[n-1], cut[n])
           S == {n \in Nat : n + 1 <= N => Good(n + 1)}
<1>5. 0 \in S
  <2>1. 1 \in 1 .. N /\ 1 - 1 = 0 /\ 0 + 1 = 1
    OBVIOUS
  <2>2. \E b \in Nat : Fits(1, L, b)
    BY <1>1
  <2>3. Fits(1, cut[0], cut[1])
    BY <1>1, <1>2, <1>4, <2>1, <2>2
  <2>4. Good(1)
    BY <1>1, <1>4, <2>1, <2>3
  <2> QED
    BY <2>1, <2>4
<1>6. ASSUME NEW n \in Nat, n \in S PROVE n + 1 \in S
  <2>1. SUFFICES ASSUME (n + 1) + 1 <= N PROVE Good((n + 1) + 1)
    OBVIOUS
  <2>2. n + 1 \in 1 .. N /\ n + 1 \in 1 .. N - 1 /\ (n + 1) + 1 \in 1 .. N /\ n \in 0 .. N
        /\ (n + 1) - 1 = n /\ ((n + 1) + 1) - 1 = n + 1
    BY <2>1
  <2>3. cut[n] <= L /\ Fits(n + 1, cut[n], cut[n+1])
    BY <1>6, <2>1, <2>2
  <2>4. cut[n] \in 0 .. Len(items) /\ cut[n+1] \in 0 .. cut[n] /\ cut[n+1] \in Nat /\ cut[n+1] <= L
    <3>1. cut[n] \in Nat /\ cut[n+1] \in 0 .. cut[n]
      BY <1>4, <2>2, <2>3
    <3> QED
      BY <1>1, <2>3, <3>1
  <2>5. page[n+1] \in Page
    BY <2>2
  <2>6. \E b \in 0 .. cut[n+1] :
          IsPage(NextPage(page[n+1], items, limit), items, b, cut[n+1], limit)
    BY <2>3, <2>4, <2>5, PageBefore
  <2>7. page[(n+1)+1] = NextPage(page[n+1], items, limit)
    BY <2>2
  <2>8. \E b \in Nat : Fits((n + 1) + 1, cut[n+1], b)
    BY <2>4, <2>6, <2>7
  <2>9. Fits((n + 1) + 1, cut[n+1], cut[(n+1)+1])
    <3> HIDE DEF Fits
    <3> QED
      BY <1>2, <1>4, <2>2, <2>4, <2>8
  <2> QED
    BY <2>2, <2>4, <2>9
<1> HIDE DEF S
<1>7. \A n \in Nat : n \in S
  BY <1>5, <1>6, Induction
<1>8. ASSUME NEW n \in 1 .. N PROVE Good(n)
  <2>1. n - 1 \in Nat /\ (n - 1) + 1 = n /\ n <= N /\ n - 1 \in S
    BY <1>7
  <2>2. n - 1 + 1 <= N => Good(n - 1 + 1)
    BY <2>1 DEF S
  <2> HIDE DEF Good
  <2> QED
    BY <2>1, <2>2
<1>9. ASSUME NEW n \in 1 .. N
      PROVE  /\ cut[n] <= cut[n-1] /\ cut[n-1] <= L
             /\ IsPage(page[n], items, cut[n], cut[n-1], limit)
  <2>1. cut[n-1] \in Nat
    <3>1. n - 1 \in 0 .. N
      OBVIOUS
    <3> QED
      BY <1>4, <3>1
  <2> QED
    BY <1>8, <2>1
<1> QED
  BY <1>4, <1>9 DEF Cuts

(* Every page but the last takes a Turn off, so one page per Turn is enough. *)
LEMMA LastCut ==
    ASSUME NEW items \in Seq(Item), Sorted(items), NEW limit, NEW page, NEW cut,
           NEW L \in 0 .. Len(items), NEW N \in Nat \ {0},
           N = Cardinality(TurnsOf(items)) + 1,
           Cuts(cut, page, items, L, N, limit)
    PROVE  cut[N] = 0
<1> DEFINE C(k) == Cardinality(TurnsTo(items, k))
           S == {n \in Nat : n <= N /\ cut[n] > 0 => C(cut[n]) + n <= C(L)}
<1>1. /\ Len(items) \in Nat /\ L \in Nat /\ L <= Len(items)
      /\ \A k \in 1 .. Len(items) : items[k].turn \in Nat
  BY ItemTurns
<1>2. \A k \in Nat : C(k) \in Nat /\ IsFiniteSet(TurnsTo(items, k))
  BY TurnsToFinite
<1>3. \A n \in 0 .. N : cut[n] \in Nat
  BY DEF Cuts
<1>4. 0 \in S
  BY <1>1, <1>2 DEF Cuts
<1>5. ASSUME NEW n \in Nat, n \in S PROVE n + 1 \in S
  <2>1. SUFFICES ASSUME n + 1 <= N, cut[n+1] > 0 PROVE C(cut[n+1]) + (n + 1) <= C(L)
    OBVIOUS
  <2> DEFINE a == cut[n]
             b == cut[n+1]
  <2>2. n + 1 \in 1 .. N /\ n \in 0 .. N /\ n + 1 \in 0 .. N /\ (n + 1) - 1 = n /\ n <= N
    BY <2>1
  <2>3. a \in Nat /\ b \in Nat /\ b <= a /\ a <= L /\ IsPage(page[n+1], items, b, a, limit)
    BY <1>3, <2>2 DEF Cuts
  <2>4. b > 0 /\ C(a) + n <= C(L)
    BY <1>5, <2>1, <2>2, <2>3
  <2> HIDE DEF a, b, C, S
  <2>5. b < a /\ items[b].turn < items[b+1].turn
    BY <2>3, <2>4 DEF IsPage
  <2>6. /\ b \in 1 .. Len(items) /\ b + 1 \in 1 .. Len(items) /\ b + 1 \in 1 .. a
        /\ \A i \in 1 .. b : i \in 1 .. a /\ i \in 1 .. Len(items) /\ i <= b
    BY <1>1, <2>3, <2>4, <2>5
  <2>7. TurnsTo(items, b) \in SUBSET TurnsTo(items, a)
    BY <2>6 DEF TurnsTo
  <2>8. items[b+1].turn \in TurnsTo(items, a)
    BY <2>6 DEF TurnsTo
  <2>9. items[b+1].turn \notin TurnsTo(items, b)
    <3>1. ASSUME NEW i \in 1 .. b PROVE items[i].turn # items[b+1].turn
      <4>1. items[i].turn <= items[b].turn
        BY <2>6 DEF Sorted
      <4>2. items[i].turn \in Nat /\ items[b].turn \in Nat /\ items[b+1].turn \in Nat
        BY <1>1, <2>6
      <4> QED
        BY <2>5, <4>1, <4>2
    <3> QED
      BY <3>1 DEF TurnsTo
  <2>10. IsFiniteSet(TurnsTo(items, a)) /\ C(a) \in Nat /\ C(b) \in Nat /\ C(L) \in Nat
    BY <1>1, <1>2, <2>3
  <2>11. C(b) <= C(a) /\ C(a) # C(b)
    <3>1. C(b) <= C(a) /\ (C(a) = C(b) => TurnsTo(items, a) = TurnsTo(items, b))
      BY <2>7, <2>10, FS_Subset DEF C
    <3> QED
      BY <2>8, <2>9, <3>1
  <2>12. C(b) + (n + 1) <= C(L)
    BY <2>4, <2>10, <2>11
  <2> QED
    BY <2>12 DEF b
<1> HIDE DEF S
<1>6. \A n \in Nat : n \in S
  BY <1>4, <1>5, Induction
<1>7. C(L) <= N - 1
  <2>1. TurnsTo(items, Len(items)) = TurnsOf(items)
    BY DEF TurnsTo, TurnsOf
  <2>2. TurnsTo(items, L) \in SUBSET TurnsOf(items)
    <3>1. \A i \in 1 .. L : i \in 1 .. Len(items)
      BY <1>1
    <3> QED
      BY <3>1 DEF TurnsTo, TurnsOf
  <2>3. IsFiniteSet(TurnsOf(items)) /\ Cardinality(TurnsOf(items)) \in Nat
    BY <1>1, <1>2, <2>1
  <2>4. C(L) <= Cardinality(TurnsOf(items))
    BY <2>2, <2>3, FS_Subset
  <2> QED
    BY <2>3, <2>4
<1>8. N \in S /\ cut[N] \in Nat /\ C(L) \in Nat /\ C(cut[N]) \in Nat
  <2>1. N \in 0 .. N
    OBVIOUS
  <2> QED
    BY <1>1, <1>2, <1>3, <1>6, <2>1
<1>9. cut[N] > 0 => C(cut[N]) + N <= C(L)
  BY <1>8 DEF S
<1> HIDE DEF C
<1> QED
  BY <1>7, <1>8, <1>9

LEMMA CutsFall ==
    ASSUME NEW items, NEW L \in Nat, NEW N \in Nat \ {0}, NEW limit, NEW page, NEW cut,
           Cuts(cut, page, items, L, N, limit), NEW k \in 0 .. N
    PROVE  \A n \in k .. N : cut[n] <= cut[k]
<1> DEFINE S == {d \in Nat : k + d <= N => cut[k+d] <= cut[k]}
<1>1. \A n \in 0 .. N : cut[n] \in Nat
  BY DEF Cuts
<1>2. 0 \in S
  BY <1>1
<1>3. ASSUME NEW d \in Nat, d \in S PROVE d + 1 \in S
  <2>1. SUFFICES ASSUME k + (d + 1) <= N PROVE cut[k+(d+1)] <= cut[k]
    OBVIOUS
  <2>2. k + d <= N /\ k + d \in 0 .. N /\ k + (d + 1) \in 1 .. N /\ k + (d + 1) \in 0 .. N
        /\ (k + (d + 1)) - 1 = k + d
    BY <2>1
  <2>3. cut[k+(d+1)] <= cut[k+d]
    BY <2>2 DEF Cuts
  <2>4. cut[k+d] <= cut[k]
    BY <1>3, <2>2
  <2>5. cut[k+(d+1)] \in Nat /\ cut[k+d] \in Nat /\ cut[k] \in Nat
    BY <1>1, <2>2
  <2> QED
    BY <2>3, <2>4, <2>5
<1> HIDE DEF S
<1>4. \A d \in Nat : d \in S
  BY <1>2, <1>3, Induction
<1>5. ASSUME NEW n \in k .. N PROVE cut[n] <= cut[k]
  <2>1. n - k \in Nat /\ n - k \in S /\ k + (n - k) = n /\ n <= N
    BY <1>4
  <2>2. k + (n - k) <= N => cut[k+(n-k)] <= cut[k]
    BY <2>1 DEF S
  <2> QED
    BY <2>1, <2>2
<1> QED
  BY <1>5

(* No Turn is on two pages.                                                 *)
LEMMA PagesApart ==
    ASSUME NEW items \in Seq(Item), Sorted(items), NEW limit, NEW page, NEW cut,
           NEW L \in 0 .. Len(items), NEW N \in Nat \ {0},
           Cuts(cut, page, items, L, N, limit), NEW n \in 1 .. N, NEW k \in 1 .. n - 1
    PROVE  TurnsOf(page[n].items) \intersect TurnsOf(page[k].items) = {}
<1>1. /\ Len(items) \in Nat /\ L \in Nat /\ L <= Len(items)
      /\ \A i \in 1 .. Len(items) : items[i].turn \in Nat
  BY ItemTurns
<1>2. n \in 0 .. N /\ n - 1 \in 0 .. N /\ k \in 0 .. N /\ k - 1 \in 0 .. N /\ k \in 1 .. N
      /\ n - 1 \in k .. N
  OBVIOUS
<1> DEFINE a == cut[n]
           b == cut[n-1]
           c == cut[k]
           d == cut[k-1]
<1>3. a \in Nat /\ b \in Nat /\ c \in Nat /\ d \in Nat
  BY <1>2 DEF Cuts
<1>4. /\ a <= b /\ b <= L /\ IsPage(page[n], items, a, b, limit)
      /\ c <= d /\ d <= L /\ IsPage(page[k], items, c, d, limit)
  BY <1>2 DEF Cuts
<1>5. b <= c
  BY <1>1, <1>2, CutsFall
<1> HIDE DEF a, b, c, d
<1>6. b <= Len(items) /\ d <= Len(items)
  BY <1>1, <1>3, <1>4
<1>7. TurnsOf(page[n].items) = {items[i].turn : i \in {i \in 1 .. b : i > a}}
  <2>1. page[n].items = SubSeq(items, a + 1, b)
    BY <1>4 DEF IsPage
  <2>2. TurnsOf(SubSeq(items, a + 1, b)) = {items[i].turn : i \in {i \in 1 .. b : i > a}}
    BY <1>3, <1>4, <1>6, PartTurns
  <2> QED
    BY <2>1, <2>2
<1>8. TurnsOf(page[k].items) = {items[i].turn : i \in {i \in 1 .. d : i > c}}
  <2>1. page[k].items = SubSeq(items, c + 1, d)
    BY <1>4 DEF IsPage
  <2>2. TurnsOf(SubSeq(items, c + 1, d)) = {items[i].turn : i \in {i \in 1 .. d : i > c}}
    BY <1>3, <1>4, <1>6, PartTurns
  <2> QED
    BY <2>1, <2>2
<1>9. ASSUME NEW i \in {i \in 1 .. b : i > a}, NEW j \in {j \in 1 .. d : j > c}
      PROVE  items[i].turn # items[j].turn
  <2>1. i \in 1 .. b /\ i \in 1 .. Len(items) /\ j \in 1 .. Len(items)
        /\ i <= c /\ c > 0 /\ c + 1 <= j /\ c \in 1 .. Len(items) /\ c + 1 \in 1 .. Len(items)
    BY <1>1, <1>3, <1>5, <1>6
  <2>2. items[c].turn < items[c+1].turn
    BY <1>4, <2>1 DEF IsPage
  <2>3. items[i].turn <= items[c].turn /\ items[c+1].turn <= items[j].turn
    BY <2>1 DEF Sorted
  <2>4. /\ items[i].turn \in Nat /\ items[j].turn \in Nat
        /\ items[c].turn \in Nat /\ items[c+1].turn \in Nat
    BY <1>1, <2>1
  <2> QED
    BY <2>2, <2>3, <2>4
<1> QED
  BY <1>7, <1>8, <1>9

ReadsAs(page, items, L) == Read(page) = SubSeq(items, 1, L)

ArePages(page, N) == page \in [1 .. N -> Page]

(* Read from the last page to the first, the pages are the log.             *)
LEMMA PagesRead ==
    ASSUME NEW items \in Seq(Item), NEW limit, NEW cut,
           NEW L \in 0 .. Len(items), NEW N \in Nat \ {0}, NEW page, ArePages(page, N),
           Cuts(cut, page, items, L, N, limit), cut[N] = 0
    PROVE  ReadsAs(page, items, L)
<1> DEFINE parts == [n \in DOMAIN page |-> page[n].items]
           seqs == Reverse(parts)
<1>1. Len(items) \in Nat /\ L \in Nat /\ L <= Len(items)
  BY ItemTurns
<1>2. /\ \A n \in 0 .. N : cut[n] \in Nat
      /\ cut[0] = L
      /\ \A n \in 1 .. N : /\ cut[n] <= cut[n-1] /\ cut[n-1] <= L
                           /\ page[n].items = SubSeq(items, cut[n] + 1, cut[n-1])
  BY DEF Cuts, IsPage
<1>3. /\ parts \in [1 .. N -> Seq(Item)]
      /\ \A n \in 1 .. N : parts[n] = SubSeq(items, cut[n] + 1, cut[n-1])
  <2>1. \A n \in 1 .. N : page[n].items \in Seq(Item)
    BY DEF Page, ArePages
  <2>2. DOMAIN page = 1 .. N
    BY DEF ArePages
  <2> QED
    BY <1>2, <2>1, <2>2
<1> HIDE DEF parts
<1>4. parts \in Seq(Seq(Item)) /\ Len(parts) = N
  BY <1>3
<1>5. /\ seqs \in Seq(Seq(Item)) /\ Len(seqs) = N
      /\ \A i \in 1 .. N : seqs[i] = parts[(N - i) + 1]
  <2>1. seqs = [i \in 1 .. N |-> parts[(N - i) + 1]]
    BY <1>4 DEF Reverse
  <2>2. \A i \in 1 .. N : (N - i) + 1 \in 1 .. N
    OBVIOUS
  <2>3. seqs \in [1 .. N -> Seq(Item)]
    BY <1>3, <2>1, <2>2
  <2> HIDE DEF seqs
  <2> QED
    BY <2>1, <2>3
<1>6. Read(page) = FlattenSeq(seqs)
  BY DEF Read, parts
<1> HIDE DEF seqs
<1>7. PICK f : /\ f[1] = seqs[1]
               /\ \A i \in 1 .. N - 1 : f[i+1] = f[i] \o seqs[i+1]
               /\ FlattenSeq(seqs) = f[N]
  <2>1. seqs \in Seq(Seq(Item)) /\ Len(seqs) > 0
    BY <1>5
  <2>2. PICK f : Flattens(f, seqs, Seq(Item)) /\ FlattenSeq(seqs) = f[Len(seqs)]
    BY <2>1, Flattened
  <2>3. Len(seqs) = N
    BY <1>5
  <2> QED
    BY <2>2, <2>3 DEF Flattens
<1> DEFINE S == {i \in Nat : i + 1 <= N => f[i+1] = SubSeq(items, 1, cut[N-(i+1)])}
<1>8. 0 \in S
  <2>1. 1 \in 1 .. N /\ (N - 1) + 1 = N /\ N \in 1 .. N /\ 0 + 1 = 1
    OBVIOUS
  <2>2. seqs[1] = SubSeq(items, 0 + 1, cut[N-1])
    <3>1. seqs[1] = parts[(N - 1) + 1]
      BY <1>5, <2>1
    <3>2. parts[N] = SubSeq(items, cut[N] + 1, cut[N-1])
      BY <1>3, <2>1
    <3> QED
      BY <2>1, <3>1, <3>2
  <2> QED
    BY <1>7, <2>1, <2>2
<1>9. ASSUME NEW i \in Nat, i \in S PROVE i + 1 \in S
  <2>1. SUFFICES ASSUME (i + 1) + 1 <= N
                 PROVE  f[(i+1)+1] = SubSeq(items, 1, cut[N-((i+1)+1)])
    OBVIOUS
  <2> DEFINE n == (N - ((i + 1) + 1)) + 1
             a == cut[n]
             b == cut[n-1]
  <2>2. /\ i + 1 \in 1 .. N - 1 /\ (i + 1) + 1 \in 1 .. N /\ n \in 1 .. N
        /\ n \in 0 .. N /\ n - 1 \in 0 .. N
        /\ N - (i + 1) = n /\ N - ((i + 1) + 1) = n - 1
    BY <2>1
  <2>3. f[i+1] = SubSeq(items, 1, a)
    BY <1>9, <2>1, <2>2
  <2>4. seqs[(i+1)+1] = SubSeq(items, a + 1, b)
    <3>1. seqs[(i+1)+1] = parts[n]
      BY <1>5, <2>2
    <3> QED
      BY <1>3, <2>2, <3>1
  <2>5. f[(i+1)+1] = f[i+1] \o seqs[(i+1)+1]
    BY <1>7, <2>2
  <2>6. a \in Nat /\ b \in Nat /\ a <= b /\ b <= Len(items)
    <3>1. a \in Nat /\ b \in Nat /\ a <= b /\ b <= L
      BY <1>2, <2>2
    <3> QED
      BY <1>1, <3>1
  <2>7. b = cut[N-((i+1)+1)]
    BY <2>2
  <2> HIDE DEF a, b, n
  <2>8. SubSeq(items, 1, a) \o SubSeq(items, a + 1, b) = SubSeq(items, 1, b)
    BY <2>6
  <2> QED
    BY <2>3, <2>4, <2>5, <2>7, <2>8
<1> HIDE DEF S
<1>10. \A i \in Nat : i \in S
  BY <1>8, <1>9, Induction
<1>11. f[N] = SubSeq(items, 1, L)
  <2>1. N - 1 \in S /\ N - 1 \in Nat /\ (N - 1) + 1 = N /\ N - N = 0
    BY <1>10
  <2>2. (N - 1) + 1 <= N => f[(N-1)+1] = SubSeq(items, 1, cut[N-((N-1)+1)])
    BY <2>1 DEF S
  <2> QED
    BY <1>2, <2>1, <2>2
<1> QED
  BY <1>6, <1>7, <1>11 DEF ReadsAs

LogSorted == LogType /\ Sorted(log)

(* The pages of any log whose Turn numbers do not decrease, with any limit: *)
(* what query.rs load_turn_page promises a caller that follows oldest_turn. *)
THEOREM Partition ==
    ASSUME LogSorted, NEW length \in 0 .. Len(log), NEW limit \in Nat \ {0}
    PROVE  LET early == SubSeq(log, 1, length)
               page  == Pages(early, log, limit)
           IN  /\ Read(page) = early
               /\ \A n \in DOMAIN page :
                    LET turns == TurnsOf(page[n].items) IN
                    /\ Cardinality(turns) <= limit
                    /\ page[n].has_older => Cardinality(turns) = limit
                    /\ \A k \in 1 .. n-1 : turns \intersect TurnsOf(page[k].items) = {}
<1> DEFINE early == SubSeq(log, 1, length)
           page == Pages(early, log, limit)
           N == Cardinality(TurnsOf(log)) + 1
<1>1. log \in Seq(Item) /\ Sorted(log) /\ Len(log) \in Nat /\ length \in Nat /\ length <= Len(log)
  BY ItemTurns DEF LogSorted, LogType
<1>2. N \in Nat \ {0}
  <2>1. TurnsOf(log) = TurnsTo(log, Len(log))
    BY DEF TurnsOf, TurnsTo
  <2>2. Cardinality(TurnsOf(log)) \in Nat
    BY <1>1, <2>1, TurnsToFinite
  <2> QED
    BY <2>2
<1>3. early \in Seq(Item) /\ Len(early) = length /\ \A i \in 1 .. length : early[i] = log[i]
  BY <1>1
<1>4. Sorted(early)
  <2> HIDE DEF early
  <2>1. \A i \in 1 .. length : i \in 1 .. Len(log)
    BY <1>1
  <2> QED
    BY <1>1, <1>3, <2>1 DEF Sorted
<1> HIDE DEF early, N
<1>5. /\ page \in [1 .. N -> Page]
      /\ page[1] = load_turn_page(early, -1, limit)
      /\ \A n \in 1 .. N - 1 : page[n+1] = NextPage(page[n], log, limit)
  BY <1>1, <1>2, <1>3, <1>4, PagesUnfold DEF N
<1> HIDE DEF page
<1>6. \E a \in 0 .. length : IsPage(page[1], log, a, length, limit)
  <2>1. \A k \in 1 .. Len(early) : Below(-1, early[k].turn) <=> k <= length
    BY <1>1, <1>3 DEF Below
  <2>2. length \in 0 .. Len(early) /\ -1 \in Nat \union {-1}
    BY <1>1, <1>3
  <2>3. PICK a \in 0 .. length : IsPage(page[1], early, a, length, limit)
    <3>1. \E a \in 0 .. length :
            IsPage(load_turn_page(early, -1, limit), early, a, length, limit)
      BY <1>3, <1>4, <2>1, <2>2, PageOf
    <3> QED
      BY <1>5, <3>1
  <2>4. IsPage(page[1], log, a, length, limit)
    BY <1>1, <2>3, EarlyPage DEF early
  <2> QED
    BY <2>4
<1>7. PICK cut : Cuts(cut, page, log, length, N, limit)
  BY <1>1, <1>2, <1>5, <1>6, PagesAreCut
<1>8. cut[N] = 0
  BY <1>1, <1>2, <1>7, LastCut DEF N
<1>9. Read(page) = early
  <2>1. log \in Seq(Item) /\ length \in 0 .. Len(log) /\ N \in Nat \ {0}
        /\ ArePages(page, N)
    BY <1>1, <1>2, <1>5 DEF ArePages
  <2>2. ReadsAs(page, log, length)
    BY <1>7, <1>8, <2>1, PagesRead
  <2> QED
    BY <2>2 DEF early, ReadsAs
<1>10. ASSUME NEW n \in 1 .. N
       PROVE  /\ Cardinality(TurnsOf(page[n].items)) <= limit
              /\ page[n].has_older => Cardinality(TurnsOf(page[n].items)) = limit
              /\ \A k \in 1 .. n-1 : TurnsOf(page[n].items) \intersect TurnsOf(page[k].items) = {}
  <2>1. IsPage(page[n], log, cut[n], cut[n-1], limit)
    BY <1>7 DEF Cuts
  <2>2. /\ Cardinality(TurnsOf(page[n].items)) <= limit
        /\ page[n].has_older => Cardinality(TurnsOf(page[n].items)) = limit
    BY <2>1 DEF IsPage
  <2>3. ASSUME NEW k \in 1 .. n-1
        PROVE  TurnsOf(page[n].items) \intersect TurnsOf(page[k].items) = {}
    BY <1>1, <1>2, <1>7, PagesApart
  <2> QED
    BY <2>2, <2>3
<1>11. DOMAIN page = 1 .. N
  BY <1>5
<1> QED
  BY <1>9, <1>10, <1>11 DEF page, early

LEMMA LogStaysSorted == Spec => []LogSorted
<1>1. ASSUME Init PROVE Sorted(log)
  BY <1>1 DEF Init, Sorted
<1>2. ASSUME LogType, Sorted(log), [Next]_log PROVE Sorted(log)'
  <2>1. CASE Grow
    <3>1. PICK item \in Alphabet : log' = Append(log, item)
      BY <2>1 DEF Grow
    <3>2. log \in Seq(Item) /\ item \in Item /\ Len(log) \in Nat
          /\ \A i \in 1 .. Len(log) : log[i].turn \in Nat
      BY <1>2, <3>1, AlphabetType, ItemTurns DEF LogType
    <3>3. log # << >> => log[Len(log)].turn <= item.turn
      BY <3>1, <3>2 DEF Alphabet, PlainItem, CallItem, ResultItem, next_turn
    <3>4. item.turn \in Nat
      BY <3>2 DEF Item
    <3>5. ASSUME NEW i \in 1 .. Len(log') , NEW j \in 1 .. Len(log'), i <= j
          PROVE  log'[i].turn <= log'[j].turn
      <4>1. Len(log') = Len(log) + 1 /\ log'[Len(log)+1] = item
            /\ \A m \in 1 .. Len(log) : log'[m] = log[m]
        BY <3>1, <3>2
      <4>2. CASE j \in 1 .. Len(log)
        <5>1. i \in 1 .. Len(log)
          BY <3>2, <3>5, <4>2
        <5>2. log[i].turn <= log[j].turn
          BY <1>2, <3>5, <4>2, <5>1 DEF Sorted
        <5> QED
          BY <4>1, <4>2, <5>1, <5>2
      <4>3. CASE j = Len(log) + 1
        <5>1. CASE i = j
          BY <3>4, <4>1, <4>3, <5>1
        <5>2. CASE i # j
          <6>1. i \in 1 .. Len(log) /\ log # << >> /\ Len(log) \in 1 .. Len(log) /\ i <= Len(log)
            BY <3>2, <3>5, <4>1, <4>3, <5>2
          <6>2. log[i].turn <= log[Len(log)].turn
            BY <1>2, <6>1 DEF Sorted
          <6>3. log[Len(log)].turn <= item.turn
            BY <3>3, <6>1
          <6>4. log[i].turn \in Nat /\ log[Len(log)].turn \in Nat
            BY <3>2, <6>1
          <6> QED
            BY <3>4, <4>1, <4>3, <6>1, <6>2, <6>3, <6>4
        <5> QED
          BY <5>1, <5>2
      <4> QED
        BY <3>2, <4>1, <4>2, <4>3
    <3> QED
      BY <3>5 DEF Sorted
  <2>2. CASE log' = log
    BY <1>2, <2>2 DEF Sorted
  <2> QED
    BY <1>2, <2>1, <2>2 DEF Next, Full
<1> QED
  BY <1>1, <1>2, LogTypes, PTL DEF Spec, LogSorted

(* A reader that follows oldest_turn backwards (query.rs turn_page) obtains *)
(* every item of the log as it was when the first page was read, each once  *)
(* and in order, with no Turn on two pages, none with more Turns than asked *)
(* for, and has_older telling whether to go on: for logs of every length,   *)
(* and however much was appended between the pages.                        *)
THEOREM PagesArePartition == Spec => []PagesPartitionLog
<1>1. LogSorted => PagesPartitionLog
  <2>1. 1 .. 2 \subseteq Nat \ {0}
    OBVIOUS
  <2> QED
    BY <2>1, Partition DEF PagesPartitionLog
<1> QED
  BY <1>1, LogStaysSorted, PTL

-----------------------------------------------------------------------------
(* Blocks of a kind, and what they are about.                               *)

(* What the blocks of a set are about.                                    *)
About(B, W) == \A b \in B : b.what \in W

(* What the blocks of a kind are about.                                     *)
Picked(blocks, kind) == Whats(OfKind(blocks, kind))

(* Block by block, what the blocks are about,                               *)
LEMMA WhatsAppend ==
    ASSUME NEW B, NEW W, About(B, W), NEW s \in Seq(B), NEW e \in B
    PROVE  /\ Whats(s) \in Seq(W) /\ Len(Whats(s)) = Len(s)
           /\ Whats(Append(s, e)) = Append(Whats(s), e.what)
<1>1. Len(s) \in Nat /\ \A k \in 1 .. Len(s) : s[k].what \in W
  <2>1. \A k \in 1 .. Len(s) : s[k] \in B
    OBVIOUS
  <2> QED
    BY <2>1 DEF About
<1>2. Whats(s) = [k \in 1 .. Len(s) |-> s[k].what]
  BY DEF Whats
<1>3. Whats(s) \in Seq(W) /\ Len(Whats(s)) = Len(s)
  BY <1>1, <1>2
<1>4. /\ Len(Append(s, e)) = Len(s) + 1
      /\ \A k \in 1 .. Len(s) : Append(s, e)[k] = s[k]
      /\ Append(s, e)[Len(s) + 1] = e
  BY Appended
<1>5. Whats(Append(s, e)) = [k \in 1 .. Len(s) + 1 |-> Append(s, e)[k].what]
  BY <1>4 DEF Whats
<1>6. Append(Whats(s), e.what)
        = [k \in 1 .. Len(s) + 1 |-> IF k = Len(s) + 1 THEN e.what ELSE s[k].what]
  BY <1>1, <1>2, <1>3
<1>7. \A k \in 1 .. Len(s) + 1 :
        Append(s, e)[k].what = IF k = Len(s) + 1 THEN e.what ELSE s[k].what
  BY <1>1, <1>4
<1> QED
  BY <1>3, <1>5, <1>6, <1>7

LEMMA PickedEmpty ==
    ASSUME NEW kind
    PROVE  Picked(<< >>, kind) = << >> /\ OfKind(<< >>, kind) = << >>
<1>1. OfKind(<< >>, kind) = << >>
  BY KeptEmpty DEF OfKind
<1>2. Whats(<< >>) = << >>
  BY DEF Whats
<1> QED
  BY <1>1, <1>2 DEF Picked

(* and what the blocks of a kind are about.                                 *)
LEMMA PickedAppend ==
    ASSUME NEW B, NEW W, About(B, W), NEW s \in Seq(B), NEW e \in B, NEW kind
    PROVE  /\ OfKind(s, kind) \in Seq(B)
           /\ OfKind(Append(s, e), kind)
                = IF e.kind = kind THEN Append(OfKind(s, kind), e) ELSE OfKind(s, kind)
           /\ Picked(s, kind) \in Seq(W)
           /\ Len(Picked(s, kind)) = Len(OfKind(s, kind))
           /\ Picked(Append(s, e), kind)
                = IF e.kind = kind THEN Append(Picked(s, kind), e.what) ELSE Picked(s, kind)
<1> DEFINE t == Append(s, e)
           P == {k \in 1 .. Len(s) : s[k].kind = kind}
           Q == {k \in 1 .. Len(t) : t[k].kind = kind}
<1>1. Len(t) = Len(s) + 1 /\ Len(s) \in Nat /\ t[Len(s) + 1] = e
      /\ \A k \in 1 .. Len(s) : t[k] = s[k]
  BY Appended
<1> HIDE DEF t
<1>2. \A k \in 1 .. Len(s) : k \in P <=> k \in Q
  BY <1>1
<1>3. Len(s) + 1 \in Q <=> e.kind = kind
  BY <1>1
<1>4. OfKind(s, kind) = Kept(s, P) /\ OfKind(t, kind) = Kept(t, Q)
  BY DEF OfKind
<1> HIDE DEF P, Q
<1>5. /\ Kept(s, P) \in Seq(B)
      /\ Kept(t, Q) = IF Len(s) + 1 \in Q THEN Append(Kept(s, P), e) ELSE Kept(s, P)
  BY <1>2, KeptAppend DEF t
<1>6. /\ OfKind(s, kind) \in Seq(B)
      /\ OfKind(t, kind) = IF e.kind = kind THEN Append(OfKind(s, kind), e) ELSE OfKind(s, kind)
  BY <1>3, <1>4, <1>5
<1>7. /\ Whats(OfKind(s, kind)) \in Seq(W) /\ Len(Whats(OfKind(s, kind))) = Len(OfKind(s, kind))
      /\ Whats(Append(OfKind(s, kind), e)) = Append(Whats(OfKind(s, kind)), e.what)
  BY <1>6, WhatsAppend
<1> QED
  BY <1>6, <1>7 DEF t, Picked

(* What is picked is what the blocks are about.                             *)
LEMMA PickedType ==
    ASSUME NEW B, NEW W, About(B, W), NEW s \in Seq(B), NEW kind
    PROVE  Picked(s, kind) \in Seq(W)
<1>1. CASE s = << >>
  <2>1. << >> \in Seq(W)
    OBVIOUS
  <2> QED
    BY <1>1, <2>1, PickedEmpty
<1>2. CASE s # << >>
  <2>1. s[1] \in B
    BY <1>2
  <2> QED
    BY <2>1, PickedAppend
<1> QED
  BY <1>1, <1>2

(* The picks of a concatenation are those of its parts.                     *)
LEMMA PickedConcat ==
    ASSUME NEW B, NEW W, About(B, W), NEW s \in Seq(B), NEW t \in Seq(B), NEW kind
    PROVE  Picked(s \o t, kind) = Picked(s, kind) \o Picked(t, kind)
<1> DEFINE S == {n \in Nat : n <= Len(t) =>
                   Picked(s \o Upto(t, n), kind) = Picked(s, kind) \o Picked(Upto(t, n), kind)}
<1>1. 0 \in S
  <2>1. Upto(t, 0) = << >> /\ s \o << >> = s
    BY UptoEnds, ConcatEmpty
  <2>2. Picked(s, kind) \in Seq(W)
    BY PickedType
  <2>3. Picked(s, kind) \o << >> = Picked(s, kind)
    BY <2>2, ConcatEmpty
  <2> QED
    BY <2>1, <2>3, PickedEmpty
<1>2. ASSUME NEW n \in Nat, n \in S PROVE n + 1 \in S
  <2>1. SUFFICES ASSUME n + 1 <= Len(t)
                 PROVE  Picked(s \o Upto(t, n+1), kind) = Picked(s, kind) \o Picked(Upto(t, n+1), kind)
    OBVIOUS
  <2> DEFINE e == t[n+1]
  <2>2. Upto(t, n) \in Seq(B) /\ e \in B /\ Upto(t, n+1) = Append(Upto(t, n), e)
    BY <2>1, UptoNext
  <2>3. Picked(s \o Upto(t, n), kind) = Picked(s, kind) \o Picked(Upto(t, n), kind)
    BY <1>2, <2>1
  <2> HIDE DEF e, S
  <2> DEFINE z == s \o Upto(t, n)
  <2>4. z \in Seq(B) /\ s \o Upto(t, n+1) = Append(z, e)
    <3>1. z \in Seq(B)
      BY <2>2, ConcatType
    <3>2. s \o Append(Upto(t, n), e) = Append(z, e)
      BY <2>2, ConcatAppend
    <3> QED
      BY <2>2, <3>1, <3>2
  <2> HIDE DEF z
  <2>5. Picked(s, kind) \in Seq(W) /\ Picked(Upto(t, n), kind) \in Seq(W) /\ e.what \in W
    BY <2>2, PickedType DEF About
  <2>6. Picked(Append(z, e), kind)
          = IF e.kind = kind THEN Append(Picked(z, kind), e.what) ELSE Picked(z, kind)
    BY <2>2, <2>4, PickedAppend
  <2>7. Picked(Append(Upto(t, n), e), kind)
          = IF e.kind = kind THEN Append(Picked(Upto(t, n), kind), e.what)
            ELSE Picked(Upto(t, n), kind)
    BY <2>2, PickedAppend
  <2>8. Picked(s, kind) \o Append(Picked(Upto(t, n), kind), e.what)
          = Append(Picked(s, kind) \o Picked(Upto(t, n), kind), e.what)
    BY <2>5, ConcatAppend
  <2> QED
    BY <2>2, <2>3, <2>4, <2>6, <2>7, <2>8 DEF z
<1> HIDE DEF S
<1>3. \A n \in Nat : n \in S
  BY <1>1, <1>2, Induction
<1>4. Len(t) \in S /\ Len(t) \in Nat
  BY <1>3
<1>5. Picked(s \o Upto(t, Len(t)), kind) = Picked(s, kind) \o Picked(Upto(t, Len(t)), kind)
  BY <1>4 DEF S
<1> QED
  BY <1>5, UptoEnds

(* The blocks of the kind alone say what the picks are.                     *)
LEMMA PickedKind ==
    ASSUME NEW B, NEW kind, NEW V, \A b \in B : b.kind = kind => b.what \in V, NEW s \in Seq(B)
    PROVE  Picked(s, kind) \in Seq(V)
<1> DEFINE W == {b.what : b \in B}
           S == {n \in Nat : n <= Len(s) => Picked(Upto(s, n), kind) \in Seq(V)}
<1>1. About(B, W)
  BY DEF About
<1> HIDE DEF W
<1>2. 0 \in S
  <2>1. << >> \in Seq(V)
    OBVIOUS
  <2> QED
    BY <2>1, UptoEnds, PickedEmpty
<1>3. ASSUME NEW n \in Nat, n \in S PROVE n + 1 \in S
  <2>1. SUFFICES ASSUME n + 1 <= Len(s) PROVE Picked(Upto(s, n + 1), kind) \in Seq(V)
    OBVIOUS
  <2> DEFINE e == s[n+1]
             t == Upto(s, n)
  <2>2. t \in Seq(B) /\ e \in B /\ Upto(s, n+1) = Append(t, e)
    BY <2>1, UptoNext
  <2>3. Picked(t, kind) \in Seq(V)
    BY <1>3, <2>1
  <2> HIDE DEF e, t, S
  <2>4. Picked(Append(t, e), kind)
          = IF e.kind = kind THEN Append(Picked(t, kind), e.what) ELSE Picked(t, kind)
    BY <1>1, <2>2, PickedAppend
  <2>5. e.kind = kind => Append(Picked(t, kind), e.what) \in Seq(V)
    BY <2>2, <2>3, AppendKeeps
  <2> QED
    BY <2>2, <2>3, <2>4, <2>5
<1> HIDE DEF S
<1>4. \A n \in Nat : n \in S
  BY <1>2, <1>3, Induction
<1>5. Len(s) \in S /\ Len(s) \in Nat
  BY <1>4
<1>6. Picked(Upto(s, Len(s)), kind) \in Seq(V)
  BY <1>5 DEF S
<1> QED
  BY <1>6, UptoEnds

(* A sequence of blocks of one kind.                                       *)
LEMMA PickedAll ==
    ASSUME NEW B, NEW kind, \A b \in B : b.kind = kind, NEW s \in Seq(B)
    PROVE  Picked(s, kind) = Whats(s) /\ OfKind(s, kind) = s
<1> DEFINE W == {b.what : b \in B}
           S == {n \in Nat : n <= Len(s) => OfKind(Upto(s, n), kind) = Upto(s, n)}
<1>1. About(B, W)
  BY DEF About
<1> HIDE DEF W
<1>2. 0 \in S
  BY UptoEnds, PickedEmpty
<1>3. ASSUME NEW n \in Nat, n \in S PROVE n + 1 \in S
  <2>1. SUFFICES ASSUME n + 1 <= Len(s) PROVE OfKind(Upto(s, n + 1), kind) = Upto(s, n + 1)
    OBVIOUS
  <2> DEFINE e == s[n+1]
             t == Upto(s, n)
  <2>2. t \in Seq(B) /\ e \in B /\ Upto(s, n+1) = Append(t, e)
    BY <2>1, UptoNext
  <2>3. OfKind(t, kind) = t
    BY <1>3, <2>1
  <2> HIDE DEF e, t, S
  <2>4. OfKind(Append(t, e), kind)
          = IF e.kind = kind THEN Append(OfKind(t, kind), e) ELSE OfKind(t, kind)
    BY <1>1, <2>2, PickedAppend
  <2> QED
    BY <2>2, <2>3, <2>4
<1> HIDE DEF S
<1>4. \A n \in Nat : n \in S
  BY <1>2, <1>3, Induction
<1>5. Len(s) \in S /\ Len(s) \in Nat
  BY <1>4
<1>6. OfKind(Upto(s, Len(s)), kind) = Upto(s, Len(s))
  BY <1>5 DEF S
<1>7. OfKind(s, kind) = s
  BY <1>6, UptoEnds
<1> QED
  BY <1>7 DEF Picked

(* Without blocks of the kind nothing is picked.                            *)
LEMMA PickedNone ==
    ASSUME NEW B, NEW kind, \A b \in B : b.kind # kind, NEW s \in Seq(B)
    PROVE  Picked(s, kind) = << >> /\ OfKind(s, kind) = << >>
<1> DEFINE W == {b.what : b \in B}
           S == {n \in Nat : n <= Len(s) => OfKind(Upto(s, n), kind) = << >>}
<1>1. About(B, W)
  BY DEF About
<1> HIDE DEF W
<1>2. 0 \in S
  BY UptoEnds, PickedEmpty
<1>3. ASSUME NEW n \in Nat, n \in S PROVE n + 1 \in S
  <2>1. SUFFICES ASSUME n + 1 <= Len(s) PROVE OfKind(Upto(s, n + 1), kind) = << >>
    OBVIOUS
  <2> DEFINE e == s[n+1]
             t == Upto(s, n)
  <2>2. t \in Seq(B) /\ e \in B /\ Upto(s, n+1) = Append(t, e)
    BY <2>1, UptoNext
  <2>3. OfKind(t, kind) = << >>
    BY <1>3, <2>1
  <2> HIDE DEF e, t, S
  <2>4. OfKind(Append(t, e), kind)
          = IF e.kind = kind THEN Append(OfKind(t, kind), e) ELSE OfKind(t, kind)
    BY <1>1, <2>2, PickedAppend
  <2> QED
    BY <2>2, <2>3, <2>4
<1> HIDE DEF S
<1>4. \A n \in Nat : n \in S
  BY <1>2, <1>3, Induction
<1>5. Len(s) \in S /\ Len(s) \in Nat
  BY <1>4
<1>6. OfKind(Upto(s, Len(s)), kind) = << >>
  BY <1>5 DEF S
<1>7. OfKind(s, kind) = << >>
  BY <1>6, UptoEnds
<1>8. Whats(<< >>) = << >>
  BY DEF Whats
<1> QED
  BY <1>7, <1>8 DEF Picked

(* The types of the picks, for every kind.                                  *)
LEMMA PickedKinds ==
    ASSUME NEW B, NEW W, About(B, W), NEW s \in Seq(B)
    PROVE  \A kind : OfKind(s, kind) \in Seq(B) /\ Picked(s, kind) \in Seq(W)
<1> SUFFICES ASSUME NEW kind PROVE OfKind(s, kind) \in Seq(B) /\ Picked(s, kind) \in Seq(W)
  OBVIOUS
<1>1. CASE s = << >>
  <2>1. OfKind(s, kind) = << >> /\ Picked(s, kind) = << >>
    BY <1>1, PickedEmpty
  <2> QED
    BY <2>1
<1>2. CASE s # << >>
  <2>1. s[1] \in B
    BY <1>2
  <2> QED
    BY <2>1, PickedAppend
<1> QED
  BY <1>1, <1>2

-----------------------------------------------------------------------------
(* The blocks of a conversation and the parts of a request.                 *)

(* What blocks are about, the blocks of a conversation and the parts of a   *)
(* request.                                                                *)
Matters == (Nat \X Nat) \union {"system"} \union CallIds \union {None}

Contents == [kind : {"text", "thinking", "tool_use", "tool_result"}, what : Matters]

Parts == [kind : {"text", "thinking"}, what : Seq(Matters)]
         \union [kind : {"call", "result"}, what : Matters]

PartKinds == {"text", "thinking", "call", "result"}

(* What the parts of a kind say: the fragments of its texts, or the         *)
(* identities of its calls or results.                                      *)
Gist(parts, kind) ==
    IF kind \in {"text", "thinking"} THEN FlattenSeq(Picked(parts, kind)) ELSE Picked(parts, kind)

(* This reads a concatenation of parts part by part.                        *)
LEMMA GistReads ==
    ASSUME NEW kind \in PartKinds, NEW s \in Seq(Parts), NEW t \in Seq(Parts)
    PROVE  /\ Gist(s, kind) \in Seq(Matters)
           /\ Gist(s \o t, kind) = Gist(s, kind) \o Gist(t, kind)
           /\ Gist(<< >>, kind) = << >>
<1> DEFINE W == Seq(Matters) \union Matters
<1>1. About(Parts, W)
  BY DEF About, Parts
<1> HIDE DEF W
<1>2. Picked(s \o t, kind) = Picked(s, kind) \o Picked(t, kind)
  BY <1>1, PickedConcat
<1>3. Picked(<< >>, kind) = << >>
  BY PickedEmpty
<1>4. CASE kind \in {"text", "thinking"}
  <2>1. \A b \in Parts : b.kind = kind => b.what \in Seq(Matters)
    BY <1>4 DEF Parts
  <2>2. Picked(s, kind) \in Seq(Seq(Matters)) /\ Picked(t, kind) \in Seq(Seq(Matters))
    BY <2>1, PickedKind
  <2> DEFINE a == Picked(s, kind)
             b == Picked(t, kind)
  <2>3. a \in Seq(Seq(Matters)) /\ b \in Seq(Seq(Matters))
    BY <2>2
  <2> HIDE DEF a, b
  <2>4. FlattenSeq(a \o b) = FlattenSeq(a) \o FlattenSeq(b) /\ FlattenSeq(a) \in Seq(Matters)
    BY <2>3, FlatConcat, FlatType
  <2> QED
    BY <1>2, <1>3, <1>4, <2>4, FlatEmpty DEF Gist, a, b
<1>5. CASE kind \in {"call", "result"}
  <2>1. \A b \in Parts : b.kind = kind => b.what \in Matters
    BY <1>5 DEF Parts
  <2>2. Picked(s, kind) \in Seq(Matters)
    BY <2>1, PickedKind
  <2>3. kind \notin {"text", "thinking"}
    BY <1>5
  <2> QED
    BY <1>2, <1>3, <2>2, <2>3 DEF Gist
<1> QED
  BY <1>4, <1>5 DEF PartKinds

Roles == {"user", "assistant", "tool", "system", "developer", "model", "function_call_output"}

Wires == [role : Roles, parts : Seq(Parts)]

PartsIn == [m \in Wires |-> m.parts]

(* All the parts of the messages of a request.                              *)
Gathered(w) == FlattenSeq([n \in 1 .. Len(w) |-> w[n].parts])

(* They are the concatenation of what PartsIn makes of each message,        *)
LEMMA GatheredEach ==
    ASSUME NEW w \in Seq(Wires)
    PROVE  Gathered(w) = FlattenSeq(Each(PartsIn, w)) /\ Gathered(w) \in Seq(Parts)
<1>1. ASSUME NEW n \in 1 .. Len(w) PROVE w[n].parts = PartsIn[w[n]]
  <2>1. w[n] \in Wires
    OBVIOUS
  <2> QED
    BY <2>1 DEF PartsIn
<1>2. [n \in 1 .. Len(w) |-> w[n].parts] = Each(PartsIn, w)
  BY <1>1 DEF Each
<1>3. Maps(PartsIn, Wires, Seq(Parts))
  BY DEF Maps, PartsIn, Wires
<1>4. Each(PartsIn, w) \in Seq(Seq(Parts))
  <2> DEFINE Y == Seq(Parts)
  <2>1. Maps(PartsIn, Wires, Y)
    BY <1>3
  <2> HIDE DEF Y
  <2>2. Each(PartsIn, w) \in Seq(Y)
    BY <2>1 DEF Each, Maps
  <2> QED
    BY <2>2 DEF Y
<1> QED
  BY <1>2, <1>4, FlatType DEF Gathered

(* of a concatenation those of both sides,                                  *)
LEMMA GatheredConcat ==
    ASSUME NEW s \in Seq(Wires), NEW t \in Seq(Wires)
    PROVE  Gathered(s \o t) = Gathered(s) \o Gathered(t)
<1> DEFINE Y == Seq(Parts)
           a == Each(PartsIn, s)
           b == Each(PartsIn, t)
           st == s \o t
<1>1. Maps(PartsIn, Wires, Y)
  BY DEF Maps, PartsIn, Wires
<1>2. st \in Seq(Wires)
  BY ConcatType
<1> HIDE DEF Y
<1>3. Each(PartsIn, st) = a \o b
  BY <1>1, EachConcat
<1>4. a \in Seq(Y) /\ b \in Seq(Y)
  BY <1>1 DEF Each, Maps
<1>5. a \in Seq(Seq(Parts)) /\ b \in Seq(Seq(Parts))
  BY <1>4 DEF Y
<1> HIDE DEF a, b
<1>6. FlattenSeq(a \o b) = FlattenSeq(a) \o FlattenSeq(b)
  BY <1>5, FlatConcat
<1>7. Gathered(st) = FlattenSeq(Each(PartsIn, st)) /\ Gathered(s) = FlattenSeq(a) /\ Gathered(t) = FlattenSeq(b)
  BY <1>2, GatheredEach DEF a, b
<1> QED
  BY <1>3, <1>6, <1>7

(* and of one message its own.                                              *)
LEMMA GatheredSmall ==
    /\ Gathered(<< >>) = << >>
    /\ \A m \in Wires : Gathered(<<m>>) = m.parts
<1>1. Gathered(<< >>) = << >>
  BY FlatEmpty DEF Gathered
<1>2. ASSUME NEW m \in Wires PROVE Gathered(<<m>>) = m.parts
  <2>1. [n \in 1 .. Len(<<m>>) |-> <<m>>[n].parts] = <<m.parts>>
    OBVIOUS
  <2>2. m.parts \in Seq(Parts)
    BY DEF Wires
  <2> QED
    BY <2>1, <2>2, FlatOne DEF Gathered
<1> QED
  BY <1>1, <1>2

(* What the messages of a request say.                                     *)
WireGist(w, kind) == Gist(Gathered(w), kind)

WireGists(kind) == [w \in Seq(Wires) |-> WireGist(w, kind)]

(* What is said is read message by message.                                 *)
LEMMA WireReads ==
    ASSUME NEW kind \in PartKinds
    PROVE  /\ Reads(WireGists(kind), Wires, Matters)
           /\ \A w \in Seq(Wires) : WireGists(kind)[w] = WireGist(w, kind)
<1>1. ASSUME NEW w \in Seq(Wires)
      PROVE  WireGists(kind)[w] = WireGist(w, kind) /\ WireGist(w, kind) \in Seq(Matters)
  <2>1. Gathered(w) \in Seq(Parts)
    BY GatheredEach
  <2> QED
    BY <2>1, GistReads DEF WireGists, WireGist
<1>2. WireGists(kind) \in [Seq(Wires) -> Seq(Matters)]
  BY <1>1 DEF WireGists
<1>3. WireGists(kind)[<< >>] = << >>
  <2>1. << >> \in Seq(Wires) /\ << >> \in Seq(Parts)
    OBVIOUS
  <2> QED
    BY <1>1, <2>1, GatheredSmall, GistReads DEF WireGist
<1>4. ASSUME NEW s \in Seq(Wires), NEW t \in Seq(Wires)
      PROVE  WireGists(kind)[s \o t] = WireGists(kind)[s] \o WireGists(kind)[t]
  <2>1. s \o t \in Seq(Wires) /\ Gathered(s) \in Seq(Parts) /\ Gathered(t) \in Seq(Parts)
    BY ConcatType, GatheredEach
  <2>2. Gathered(s \o t) = Gathered(s) \o Gathered(t)
    BY GatheredConcat
  <2> DEFINE a == Gathered(s)
             b == Gathered(t)
  <2>3. a \in Seq(Parts) /\ b \in Seq(Parts)
    BY <2>1
  <2> HIDE DEF a, b
  <2>4. Gist(a \o b, kind) = Gist(a, kind) \o Gist(b, kind)
    BY <2>3, GistReads
  <2>5. /\ WireGists(kind)[s \o t] = WireGist(s \o t, kind)
        /\ WireGists(kind)[s] = WireGist(s, kind) /\ WireGists(kind)[t] = WireGist(t, kind)
    BY <1>1, <2>1
  <2> QED
    BY <2>2, <2>4, <2>5 DEF WireGist, a, b
<1> QED
  BY <1>1, <1>2, <1>3, <1>4 DEF Reads

(* The kind of block that a kind of part is made from.                     *)
Source(kind) ==
    CASE kind = "call" -> "tool_use" [] kind = "result" -> "tool_result" [] OTHER -> kind

(* What a single part says.                                                 *)
LEMMA GistOne ==
    ASSUME NEW p \in Parts, NEW kind \in PartKinds
    PROVE  /\ kind # p.kind => Gist(<<p>>, kind) = << >>
           /\ kind = p.kind /\ kind \in {"text", "thinking"} => Gist(<<p>>, kind) = p.what
           /\ kind = p.kind /\ kind \notin {"text", "thinking"} => Gist(<<p>>, kind) = <<p.what>>
<1> DEFINE W == Seq(Matters) \union Matters
<1>1. About(Parts, W) /\ p.what \in W
  BY DEF About, Parts
<1> HIDE DEF W
<1>2. << >> \in Seq(Parts) /\ Append(<< >>, p) = <<p>> /\ Append(<< >>, p.what) = <<p.what>>
  OBVIOUS
<1>3. Picked(<<p>>, kind) = IF p.kind = kind THEN <<p.what>> ELSE << >>
  <2> DEFINE none == << >>
  <2>1. none \in Seq(Parts)
    BY <1>2
  <2>2. Append(none, p) = <<p>> /\ Append(none, p.what) = <<p.what>>
    BY <1>2
  <2>3. Picked(none, kind) = none
    BY PickedEmpty
  <2> HIDE DEF none
  <2>4. Picked(Append(none, p), kind)
          = IF p.kind = kind THEN Append(Picked(none, kind), p.what) ELSE Picked(none, kind)
    BY <1>1, <2>1, PickedAppend
  <2> QED
    BY <2>2, <2>3, <2>4 DEF none
<1>4. CASE kind # p.kind
  BY <1>3, <1>4, FlatEmpty DEF Gist
<1>5. CASE kind = p.kind /\ kind \in {"text", "thinking"}
  <2>1. p.what \in Seq(Matters)
    BY <1>5 DEF Parts
  <2>2. FlattenSeq(<<p.what>>) = p.what
    BY <2>1, FlatOne
  <2> QED
    BY <1>3, <1>5, <2>2 DEF Gist
<1>6. CASE kind = p.kind /\ kind \notin {"text", "thinking"}
  BY <1>3, <1>6 DEF Gist
<1> QED
  BY <1>4, <1>5, <1>6

(* A part made of one block says what the block says.                      *)
Literal(b) ==
    CASE b.kind = "text"        -> ContentBlock("text", <<b.what>>)
      [] b.kind = "thinking"    -> ContentBlock("thinking", <<b.what>>)
      [] b.kind = "tool_use"    -> ContentBlock("call", b.what)
      [] b.kind = "tool_result" -> ContentBlock("result", b.what)

Literals == [b \in Contents |-> Literal(b)]

(* A block by itself is written as it is said.                              *)
LEMMA LiteralGist ==
    ASSUME NEW b \in Contents
    PROVE  /\ Literal(b) \in Parts
           /\ \A kind \in PartKinds :
                Gist(<<Literal(b)>>, kind) = IF b.kind = Source(kind) THEN <<b.what>> ELSE << >>
<1>0. /\ b.what \in Matters /\ <<b.what>> \in Seq(Matters)
      /\ b.kind \in {"text", "thinking", "tool_use", "tool_result"}
  BY DEF Contents
<1>1. CASE b.kind \in {"text", "thinking"}
  <2> DEFINE p == ContentBlock(b.kind, <<b.what>>)
  <2>1. Literal(b) = p /\ p \in Parts /\ p.kind = b.kind /\ p.what = <<b.what>>
    BY <1>0, <1>1 DEF Literal, Parts, ContentBlock
  <2> HIDE DEF p
  <2>2. ASSUME NEW kind \in PartKinds
        PROVE  Gist(<<p>>, kind) = IF b.kind = Source(kind) THEN <<b.what>> ELSE << >>
    <3>1. b.kind = Source(kind) <=> kind = b.kind
      BY <1>1 DEF Source, PartKinds
    <3> QED
      BY <1>1, <2>1, <3>1, GistOne
  <2> QED
    BY <2>1, <2>2
<1>2. CASE b.kind \in {"tool_use", "tool_result"}
  <2> DEFINE k == IF b.kind = "tool_use" THEN "call" ELSE "result"
             p == ContentBlock(k, b.what)
  <2>1. Literal(b) = p /\ p \in Parts /\ p.kind = k /\ p.what = b.what
    BY <1>0, <1>2 DEF Literal, Parts, ContentBlock
  <2>2. k \in {"call", "result"} /\ k \notin {"text", "thinking"}
    OBVIOUS
  <2>3. \A kind \in PartKinds : b.kind = Source(kind) <=> kind = k
    BY <1>2 DEF Source, PartKinds
  <2> HIDE DEF p, k
  <2>4. ASSUME NEW kind \in PartKinds
        PROVE  Gist(<<p>>, kind) = IF b.kind = Source(kind) THEN <<b.what>> ELSE << >>
    BY <2>1, <2>2, <2>3, GistOne
  <2> QED
    BY <2>1, <2>4
<1> QED
  BY <1>0, <1>1, <1>2

LEMMA PlainEach ==
    ASSUME NEW s \in Seq(Contents)
    PROVE  anthropic_content(s) = Each(Literals, s)
<1>1. \A k \in 1 .. Len(s) : s[k] \in Contents /\ Literals[s[k]] = Literal(s[k])
  BY DEF Literals
<1> QED
  BY <1>1 DEF anthropic_content, Each, Literal

LEMMA LiteralsMap == Maps(Literals, Contents, Parts)
  BY LiteralGist DEF Maps, Literals

(* The encoding of every block by a part of its own says what they say.    *)
LEMMA PlainGist ==
    ASSUME NEW s \in Seq(Contents)
    PROVE  /\ anthropic_content(s) \in Seq(Parts) /\ Len(anthropic_content(s)) = Len(s)
           /\ \A kind \in PartKinds :
                Gist(anthropic_content(s), kind) = Picked(s, Source(kind))
<1>1. Each(Literals, s) \in Seq(Parts) /\ Len(Each(Literals, s)) = Len(s)
  BY LiteralsMap DEF Maps, Each
<1>2. ASSUME NEW kind \in PartKinds
      PROVE  Gist(Each(Literals, s), kind) = Picked(s, Source(kind))
  <2> DEFINE S == {n \in Nat : n <= Len(s) =>
                     Gist(Each(Literals, Upto(s, n)), kind) = Picked(Upto(s, n), Source(kind))}
  <2>0. << >> \in Seq(Parts)
    OBVIOUS
  <2>1. 0 \in S
    BY <2>0, UptoEnds, EachEmpty, GistReads, PickedEmpty
  <2>2. ASSUME NEW n \in Nat, n \in S PROVE n + 1 \in S
    <3>1. SUFFICES ASSUME n + 1 <= Len(s)
                   PROVE  Gist(Each(Literals, Upto(s, n + 1)), kind)
                            = Picked(Upto(s, n + 1), Source(kind))
      OBVIOUS
    <3> DEFINE e == s[n+1]
               p == Upto(s, n)
    <3>2. p \in Seq(Contents) /\ e \in Contents /\ Upto(s, n+1) = Append(p, e)
      BY <3>1, UptoNext
    <3>3. Gist(Each(Literals, p), kind) = Picked(p, Source(kind))
      BY <2>2, <3>1
    <3> HIDE DEF e, p, S
    <3> DEFINE a == Each(Literals, p)
               b == Literal(e)
    <3>4. Each(Literals, Append(p, e)) = Append(a, Literals[e]) /\ a \in Seq(Parts)
      BY <3>2, LiteralsMap, EachAppend
    <3>5. b \in Parts /\ Literals[e] = b
      BY <3>2, LiteralGist DEF Literals
    <3>6. Gist(<<b>>, kind) = IF e.kind = Source(kind) THEN <<e.what>> ELSE << >>
      BY <3>2, LiteralGist
    <3> HIDE DEF a, b
    <3>7. a \o <<b>> = Append(a, b) /\ <<b>> \in Seq(Parts)
      BY <3>4, <3>5, ConcatOne
    <3>8. Gist(a \o <<b>>, kind) = Gist(a, kind) \o Gist(<<b>>, kind)
      BY <3>4, <3>7, GistReads
    <3>9. About(Contents, Matters) /\ e.what \in Matters
      BY <3>2 DEF About, Contents
    <3> DEFINE q == Picked(p, Source(kind))
    <3>10. /\ q \in Seq(Matters)
           /\ Picked(Append(p, e), Source(kind))
                = IF e.kind = Source(kind) THEN Append(q, e.what) ELSE q
      BY <3>2, <3>9, PickedAppend
    <3> HIDE DEF q
    <3>11. q \o <<e.what>> = Append(q, e.what) /\ q \o << >> = q
      BY <3>9, <3>10, ConcatOne, ConcatEmpty
    <3> QED
      BY <3>2, <3>3, <3>4, <3>5, <3>6, <3>7, <3>8, <3>10, <3>11 DEF q, a
  <2> HIDE DEF S
  <2>3. \A n \in Nat : n \in S
    BY <2>1, <2>2, Induction
  <2>4. Len(s) \in S /\ Upto(s, Len(s)) = s /\ Len(s) \in Nat
    BY <2>3, UptoEnds
  <2> QED
    BY <2>4 DEF S
<1> QED
  BY <1>1, <1>2, PlainEach

(* Texts joined, and blocks renamed.                                       *)
LEMMA JoinedGist ==
    ASSUME NEW b \in Seq(Contents), NEW k \in {"text", "thinking"}
    PROVE  /\ Joined(k, b) \in Seq(Parts)
           /\ \A kind \in PartKinds :
                Gist(Joined(k, b), kind) = IF kind = k THEN Whats(b) ELSE << >>
<1>1. About(Contents, Matters)
  BY DEF About, Contents
<1>2. Whats(b) \in Seq(Matters)
  <2>1. \A i \in 1 .. Len(b) : b[i] \in Contents
    OBVIOUS
  <2>2. \A i \in 1 .. Len(b) : b[i].what \in Matters
    BY <2>1 DEF Contents
  <2> QED
    BY <2>2 DEF Whats
<1> DEFINE p == ContentBlock(k, Whats(b))
<1>3. p \in Parts /\ p.kind = k /\ p.what = Whats(b)
  BY <1>2 DEF ContentBlock, Parts
<1> HIDE DEF p
<1>4. CASE b = << >>
  <2>1. Joined(k, b) = << >> /\ Whats(b) = << >> /\ << >> \in Seq(Parts)
    BY <1>4 DEF Joined, Whats
  <2> QED
    BY <2>1, GistReads
<1>5. CASE b # << >>
  <2>1. Joined(k, b) = <<p>> /\ <<p>> \in Seq(Parts)
    BY <1>3, <1>5 DEF Joined, p
  <2>2. ASSUME NEW kind \in PartKinds
        PROVE  Gist(<<p>>, kind) = IF kind = k THEN Whats(b) ELSE << >>
    BY <1>3, GistOne
  <2> QED
    BY <2>1, <2>2
<1> QED
  BY <1>4, <1>5

(* Blocks of a kind renamed keep what they are about.                       *)
LEMMA RenamedGist ==
    ASSUME NEW b \in Seq(Contents), NEW k \in {"call", "result"}
    PROVE  /\ Renamed(b, k) \in Seq(Parts)
           /\ \A kind \in PartKinds :
                Gist(Renamed(b, k), kind) = IF kind = k THEN Whats(b) ELSE << >>
<1> DEFINE B == {p \in Parts : p.kind = k}
           r == Renamed(b, k)
<1>1. ASSUME NEW i \in 1 .. Len(b) PROVE ContentBlock(k, b[i].what) \in B
  <2>1. b[i] \in Contents
    OBVIOUS
  <2>2. b[i].what \in Matters
    BY <2>1 DEF Contents
  <2> QED
    BY <2>2 DEF ContentBlock, Parts
<1>2. r \in Seq(B) /\ r \in Seq(Parts)
  <2>1. \A i \in 1 .. Len(b) : ContentBlock(k, b[i].what) \in Parts
    BY <1>1
  <2> HIDE DEF B
  <2> QED
    BY <1>1, <2>1 DEF Renamed
<1>3. Len(r) = Len(b) /\ \A i \in 1 .. Len(b) : r[i].what = b[i].what
  BY DEF Renamed, ContentBlock
<1>4. Whats(r) = Whats(b)
  <2> HIDE DEF r
  <2> QED
    BY <1>3 DEF Whats
<1> HIDE DEF r
<1>5. ASSUME NEW kind \in PartKinds
      PROVE  Gist(r, kind) = IF kind = k THEN Whats(b) ELSE << >>
  <2>1. CASE kind = k
    <3>1. \A p \in B : p.kind = kind
      BY <2>1
    <3> HIDE DEF B
    <3>2. Picked(r, kind) = Whats(r)
      BY <1>2, <3>1, PickedAll
    <3> QED
      BY <1>4, <2>1, <3>2 DEF Gist
  <2>2. CASE kind # k
    <3>1. \A p \in B : p.kind # kind
      BY <2>2
    <3> HIDE DEF B
    <3>2. Picked(r, kind) = << >>
      BY <1>2, <3>1, PickedNone
    <3> QED
      BY <2>2, <3>2, FlatEmpty DEF Gist
  <2> QED
    BY <2>1, <2>2
<1> QED
  BY <1>2, <1>5 DEF r

(* What is read of a part is there in the whole.                           *)
LEMMA GistWithin ==
    ASSUME NEW w \in Seq(Wires), NEW k \in 1 .. Len(w), NEW kind \in PartKinds,
           WireGist(w, kind) = << >>
    PROVE  Gist(w[k].parts, kind) = << >>
<1> DEFINE a == Upto(w, k - 1)
           b == <<w[k]>>
           c == From(w, k)
           h == WireGists(kind)
<1>1. k - 1 \in 0 .. Len(w) /\ k \in 0 .. Len(w) /\ k - 1 < Len(w) /\ (k - 1) + 1 = k
  OBVIOUS
<1>2. w = a \o From(w, k - 1)
  BY <1>1, SplitAt
<1>3. From(w, k - 1) = b \o c
  <2> DEFINE j == k - 1
  <2>1. j \in 0 .. Len(w) /\ j < Len(w) /\ j + 1 = k
    BY <1>1
  <2> HIDE DEF j
  <2>2. From(w, j) = <<w[j+1]>> \o From(w, j + 1)
    BY <2>1, FromNext
  <2> QED
    BY <2>1, <2>2 DEF j
<1>4. a \in Seq(Wires) /\ c \in Seq(Wires) /\ w[k] \in Wires
  BY <1>1, UptoType, FromType
<1>5. b \in Seq(Wires)
  BY <1>4
<1>6. Reads(h, Wires, Matters) /\ \A v \in Seq(Wires) : h[v] = WireGist(v, kind)
  BY WireReads
<1>7. h[b] = Gist(w[k].parts, kind)
  BY <1>4, <1>5, <1>6, GatheredSmall DEF WireGist
<1> HIDE DEF a, b, c, h
<1> DEFINE bc == b \o c
<1>8. bc \in Seq(Wires) /\ h[bc] = h[b] \o h[c]
  BY <1>4, <1>5, <1>6, ConcatType DEF Reads
<1> HIDE DEF bc
<1>9. h[a \o bc] = h[a] \o h[bc]
  BY <1>4, <1>6, <1>8 DEF Reads
<1>10. h[a] \in Seq(Matters) /\ h[b] \in Seq(Matters) /\ h[c] \in Seq(Matters)
  BY <1>4, <1>5, <1>6 DEF Reads
<1>11. h[w] = h[a] \o (h[b] \o h[c]) /\ h[w] = << >>
  BY <1>2, <1>3, <1>6, <1>8, <1>9 DEF bc
<1> DEFINE x == h[a]
           y == h[b]
           z == h[c]
<1>12. x \in Seq(Matters) /\ y \in Seq(Matters) /\ z \in Seq(Matters) /\ x \o (y \o z) = << >>
  BY <1>10, <1>11
<1> HIDE DEF x, y, z
<1>13. Len(y) = 0
  <2>1. y \o z \in Seq(Matters) /\ Len(y \o z) = Len(y) + Len(z)
    BY <1>12, ConcatType
  <2> DEFINE yz == y \o z
  <2>2. yz \in Seq(Matters) /\ Len(yz) = Len(y) + Len(z)
    BY <2>1
  <2> HIDE DEF yz
  <2>3. Len(x \o yz) = Len(x) + Len(yz)
    BY <1>12, <2>2, ConcatType
  <2>4. x \o yz = << >> /\ Len(<< >>) = 0
    BY <1>12 DEF yz
  <2>5. Len(x) \in Nat /\ Len(y) \in Nat /\ Len(z) \in Nat
    BY <1>12
  <2> QED
    BY <2>2, <2>3, <2>4, <2>5
<1>14. y = << >>
  BY <1>12, <1>13
<1> QED
  BY <1>7, <1>14 DEF y

-----------------------------------------------------------------------------
(* The messages that a log materializes into.                               *)

(* The blocks of some kinds.                                               *)
Held(kinds) == {b \in Contents : b.kind \in kinds}

(* Such blocks are blocks of a conversation, and of these kinds only.       *)
LEMMA HeldType ==
    ASSUME NEW kinds
    PROVE  Seq(Held(kinds)) \subseteq Seq(Contents) /\ About(Held(kinds), Matters)
<1>1. Held(kinds) \subseteq Contents
  BY DEF Held
<1>2. ASSUME NEW s \in Seq(Held(kinds)) PROVE s \in Seq(Contents)
  BY <1>1
<1>3. About(Held(kinds), Matters)
  BY DEF About, Held, Contents
<1> QED
  BY <1>2, <1>3

(* NotThinking, block by block.                                             *)
LEMMA NotThinkingAppend ==
    ASSUME NEW B, NEW s \in Seq(B), NEW e \in B
    PROVE  NotThinking(Append(s, e))
             = IF e.kind # "thinking" THEN Append(NotThinking(s), e) ELSE NotThinking(s)
<1> DEFINE t == Append(s, e)
           P == {k \in 1 .. Len(s) : s[k].kind # "thinking"}
           Q == {k \in 1 .. Len(t) : t[k].kind # "thinking"}
<1>1. Len(t) = Len(s) + 1 /\ Len(s) \in Nat /\ t[Len(s) + 1] = e
      /\ \A k \in 1 .. Len(s) : t[k] = s[k]
  BY Appended
<1> HIDE DEF t
<1>2. \A k \in 1 .. Len(s) : k \in P <=> k \in Q
  BY <1>1
<1>3. Len(s) + 1 \in Q <=> e.kind # "thinking"
  BY <1>1
<1>4. NotThinking(s) = Kept(s, P) /\ NotThinking(t) = Kept(t, Q)
  BY DEF NotThinking
<1> HIDE DEF P, Q
<1>5. Kept(t, Q) = IF Len(s) + 1 \in Q THEN Append(Kept(s, P), e) ELSE Kept(s, P)
  BY <1>2, KeptAppend DEF t
<1> QED
  BY <1>3, <1>4, <1>5 DEF t

(* Dropping the thinking leaves the rest.                                  *)
LEMMA NotThinkingPicked ==
    ASSUME NEW kinds, NEW s \in Seq(Held(kinds))
    PROVE  /\ NotThinking(s) \in Seq(Held(kinds \ {"thinking"}))
           /\ \A kind : Picked(NotThinking(s), kind)
                          = IF kind = "thinking" THEN << >> ELSE Picked(s, kind)
<1> DEFINE B == Held(kinds)
           C == Held(kinds \ {"thinking"})
           Is(t) == /\ NotThinking(t) \in Seq(C)
                    /\ \A kind : Picked(NotThinking(t), kind)
                                   = IF kind = "thinking" THEN << >> ELSE Picked(t, kind)
           S == {n \in Nat : n <= Len(s) => Is(Upto(s, n))}
<1>0. About(B, Matters) /\ About(C, Matters)
  BY HeldType
<1>1. 0 \in S
  <2>1. NotThinking(<< >>) = << >> /\ << >> \in Seq(C)
    BY KeptEmpty DEF NotThinking
  <2>2. Is(<< >>)
    BY <2>1, PickedEmpty
  <2> QED
    BY <2>2, UptoEnds
<1>2. ASSUME NEW n \in Nat, n \in S PROVE n + 1 \in S
  <2>1. SUFFICES ASSUME n + 1 <= Len(s) PROVE Is(Upto(s, n + 1))
    OBVIOUS
  <2> DEFINE e == s[n+1]
             p == Upto(s, n)
             t == Append(p, e)
             q == NotThinking(p)
  <2> HIDE DEF B, C
  <2>2. p \in Seq(B) /\ e \in B /\ Upto(s, n+1) = t
    BY <2>1, UptoNext DEF B
  <2>3. Is(p)
    BY <1>2, <2>1
  <2> HIDE DEF e, p, S
  <2>4. q \in Seq(C)
    BY <2>3
  <2>5. NotThinking(t) = IF e.kind # "thinking" THEN Append(q, e) ELSE q
    BY <2>2, NotThinkingAppend
  <2>6. \A kind : Picked(t, kind) = IF e.kind = kind THEN Append(Picked(p, kind), e.what) ELSE Picked(p, kind)
    BY <1>0, <2>2, PickedAppend
  <2>7. \A kind : Picked(q, kind) = IF kind = "thinking" THEN << >> ELSE Picked(p, kind)
    BY <2>3
  <2> HIDE DEF q, t
  <2>8. CASE e.kind = "thinking"
    BY <2>2, <2>4, <2>5, <2>6, <2>7, <2>8
  <2>9. CASE e.kind # "thinking"
    <3>1. e \in C
      BY <2>2, <2>9 DEF B, C, Held
    <3>2. Append(q, e) \in Seq(C)
      BY <2>4, <3>1, Appended
    <3>3. \A kind : Picked(Append(q, e), kind)
                      = IF e.kind = kind THEN Append(Picked(q, kind), e.what) ELSE Picked(q, kind)
      BY <1>0, <2>4, <3>1, PickedAppend
    <3> QED
      BY <2>2, <2>5, <2>6, <2>7, <2>9, <3>2, <3>3
  <2> QED
    BY <2>8, <2>9
<1> HIDE DEF S, Is
<1>3. \A n \in Nat : n \in S
  BY <1>1, <1>2, Induction
<1>4. Len(s) \in S /\ Upto(s, Len(s)) = s /\ Len(s) \in Nat
  BY <1>3, UptoEnds
<1>5. Is(s)
  BY <1>4 DEF S
<1> QED
  BY <1>5 DEF Is

(* The recursive function of UserItems.                                    *)
Items == [text_parts : Seq(Contents), items : Seq(Parts)]

UserStep(acc, block) ==
    IF block.kind = "text"
    THEN [acc EXCEPT !.text_parts = Append(@, block)]
    ELSE [text_parts |-> << >>,
          items |-> Append(flush_user_text(acc), ContentBlock("result", block.what))]

(* The steps of the recursive function of UserItems, one by one.            *)
LEMMA UserSteps ==
    ASSUME NEW s \in Seq(Contents)
    PROVE  \E f : /\ f[0] = [text_parts |-> << >>, items |-> << >>]
                  /\ \A n \in 1 .. Len(s) : f[n] = UserStep(f[n-1], s[n])
                  /\ UserItems(s) = flush_user_text(f[Len(s)])
<1> DEFINE base == [text_parts |-> << >>, items |-> << >>]
           Step(acc, block) ==
             IF block.kind = "text"
             THEN [acc EXCEPT !.text_parts = Append(@, block)]
             ELSE [text_parts |-> << >>,
                   items |-> Append(flush_user_text(acc), ContentBlock("result", block.what))]
           after[n \in 0 .. Len(s)] == IF n = 0 THEN base ELSE Step(after[n-1], s[n])
           step == [p \in Items \X (1 .. Len(s)) |-> UserStep(p[1], s[p[2]])]
<1>1. UserItems(s) = flush_user_text(after[Len(s)])
  BY DEF UserItems
<1>2. ASSUME NEW v \in Items, NEW n \in 1 .. Len(s)
      PROVE  step[<<v, n>>] = UserStep(v, s[n]) /\ step[<<v, n>>] \in Items
  <2>1. s[n] \in Contents /\ s[n].what \in Matters
    <3>1. s[n] \in Contents
      OBVIOUS
    <3> QED
      BY <3>1 DEF Contents
  <2>2. Append(v.text_parts, s[n]) \in Seq(Contents)
    <3>1. v.text_parts \in Seq(Contents)
      BY DEF Items
    <3> QED
      BY <2>1, <3>1, Appended
  <2> DEFINE flushed == flush_user_text(v)
             part == ContentBlock("result", s[n].what)
  <2>3. flushed \in Seq(Parts)
    <3>1. Joined("text", v.text_parts) \in Seq(Parts)
      BY JoinedGist DEF Items
    <3>2. v.items \in Seq(Parts)
      BY DEF Items
    <3> QED
      BY <3>1, <3>2, ConcatType DEF flush_user_text
  <2>4. part \in Parts
    BY <2>1 DEF Parts, ContentBlock
  <2> HIDE DEF flushed, part
  <2>5. Append(flushed, part) \in Seq(Parts)
    BY <2>3, <2>4, Appended
  <2>6. [text_parts |-> << >>, items |-> Append(flushed, part)] \in Items
    BY <2>5 DEF Items
  <2>7. [v EXCEPT !.text_parts = Append(v.text_parts, s[n])] \in Items
    BY <2>2 DEF Items
  <2>8. UserStep(v, s[n]) \in Items
    BY <2>6, <2>7 DEF UserStep, flushed, part
  <2> QED
    BY <2>8
<1>3. PICK f : Iterates(f, Items, base, step, Len(s))
  <2> HIDE DEF step
  <2>1. Stays(Items, step, Len(s))
    BY <1>2 DEF Stays
  <2>2. base \in Items /\ Len(s) \in Nat
    BY DEF Items
  <2> HIDE DEF base
  <2> QED
    BY <2>1, <2>2, Recursion
<1>4. \A n \in 1 .. Len(s) : f[n] = UserStep(f[n-1], s[n])
  <2> HIDE DEF step
  <2>1. \A n \in 1 .. Len(s) : n - 1 \in 0 .. Len(s)
    OBVIOUS
  <2> QED
    BY <1>2, <1>3, <2>1 DEF Iterates
<1>5. f = [n \in 0 .. Len(s) |-> IF n = 0 THEN base ELSE Step(f[n-1], s[n])]
  <2>1. \A n \in 0 .. Len(s) : n # 0 => n \in 1 .. Len(s)
    OBVIOUS
  <2> QED
    BY <1>3, <1>4, <2>1 DEF UserStep, Iterates
<1>6. after = [n \in 0 .. Len(s) |-> IF n = 0 THEN base ELSE Step(after[n-1], s[n])]
  BY <1>5
<1> HIDE DEF after, Step
<1>7. after[0] = base /\ \A n \in 1 .. Len(s) : after[n] = Step(after[n-1], s[n])
  <2>1. 0 \in 0 .. Len(s) /\ \A n \in 1 .. Len(s) : n \in 0 .. Len(s) /\ n # 0
    OBVIOUS
  <2> HIDE DEF base
  <2> QED
    BY <1>6, <2>1
<1>8. \A n \in 1 .. Len(s) : after[n] = UserStep(after[n-1], s[n])
  BY <1>7 DEF Step, UserStep
<1> QED
  BY <1>1, <1>7, <1>8

(* A message of one text, or of results only: each block is an item.       *)
LEMMA UserItemsPlain ==
    ASSUME NEW s \in Seq(Contents),
           \/ Len(s) = 1 /\ s[1].kind = "text"
           \/ s \in Seq(Held({"tool_result"}))
    PROVE  UserItems(s) = anthropic_content(s)
<1>1. PICK f : /\ f[0] = [text_parts |-> << >>, items |-> << >>]
               /\ \A n \in 1 .. Len(s) : f[n] = UserStep(f[n-1], s[n])
               /\ UserItems(s) = flush_user_text(f[Len(s)])
  BY UserSteps
<1>2. CASE Len(s) = 1 /\ s[1].kind = "text"
  <2>1. s = <<s[1]>> /\ s[1] \in Contents
    BY <1>2
  <2> DEFINE b == s[1]
  <2>2. f[1] = UserStep(f[0], b)
    BY <1>1, <1>2
  <2>3. f[1] = [text_parts |-> <<b>>, items |-> << >>]
    BY <1>1, <1>2, <2>2 DEF UserStep
  <2>4. flush_user_text(f[1]) = Joined("text", <<b>>)
    BY <2>3 DEF flush_user_text, Joined
  <2>5. Whats(<<b>>) = <<b.what>>
    BY DEF Whats
  <2>6. Joined("text", <<b>>) = <<ContentBlock("text", <<b.what>>)>>
    BY <2>5 DEF Joined
  <2>7. Len(<<b>>) = 1 /\ <<b>>[1] = b
    OBVIOUS
  <2>8. anthropic_content(<<b>>) = [k \in 1 .. 1 |-> ContentBlock("text", <<b.what>>)]
    BY <1>2, <2>7 DEF anthropic_content
  <2>9. anthropic_content(<<b>>) = <<ContentBlock("text", <<b.what>>)>>
    BY <2>8
  <2> QED
    BY <1>1, <1>2, <2>1, <2>4, <2>6, <2>9
<1>3. CASE s \in Seq(Held({"tool_result"}))
  <2> DEFINE made(n) == Each(Literals, Upto(s, n))
             S == {n \in Nat : n <= Len(s) =>
                     f[n] = [text_parts |-> << >>, items |-> made(n)]}
  <2>1. 0 \in S
    BY <1>1, UptoEnds, EachEmpty
  <2>2. ASSUME NEW n \in Nat, n \in S PROVE n + 1 \in S
    <3>1. SUFFICES ASSUME n + 1 <= Len(s)
                   PROVE  f[n+1] = [text_parts |-> << >>, items |-> made(n+1)]
      OBVIOUS
    <3> DEFINE e == s[n+1]
               p == Upto(s, n)
    <3>2. p \in Seq(Contents) /\ e \in Contents /\ Upto(s, n+1) = Append(p, e)
      <4>1. n < Len(s)
        BY <3>1
      <4> HIDE DEF S
      <4> QED
        BY <4>1, UptoNext
    <3>3. e.kind = "tool_result"
      <4>1. e \in Held({"tool_result"})
        BY <1>3, <3>1
      <4> QED
        BY <4>1 DEF Held
    <3>4. f[n] = [text_parts |-> << >>, items |-> Each(Literals, p)]
      BY <2>2, <3>1
    <3>5. f[n+1] = UserStep(f[n], e)
      <4>1. n + 1 \in 1 .. Len(s) /\ (n + 1) - 1 = n
        BY <3>1
      <4> QED
        BY <1>1, <4>1
    <3> HIDE DEF e, p
    <3>6. Each(Literals, Append(p, e)) = Append(Each(Literals, p), Literals[e])
          /\ Each(Literals, p) \in Seq(Parts)
      BY <3>2, LiteralsMap, EachAppend
    <3>7. Literals[e] = ContentBlock("result", e.what)
      BY <3>2, <3>3 DEF Literals, Literal
    <3>8. flush_user_text(f[n]) = Each(Literals, p)
      <4>1. Joined("text", << >>) = << >>
        BY DEF Joined
      <4>2. Each(Literals, p) \o << >> = Each(Literals, p)
        BY <3>6, ConcatEmpty
      <4>3. f[n].items = Each(Literals, p) /\ f[n].text_parts = << >>
        BY <3>4
      <4> QED
        BY <4>1, <4>2, <4>3 DEF flush_user_text
    <3> QED
      BY <3>2, <3>3, <3>5, <3>6, <3>7, <3>8 DEF UserStep
  <2> HIDE DEF S
  <2>3. \A n \in Nat : n \in S
    BY <2>1, <2>2, Induction
  <2>4. Len(s) \in S /\ Upto(s, Len(s)) = s /\ Len(s) \in Nat
    BY <2>3, UptoEnds
  <2>5. f[Len(s)] = [text_parts |-> << >>, items |-> Each(Literals, s)]
    BY <2>4 DEF S
  <2>6. Joined("text", << >>) = << >>
    BY DEF Joined
  <2>7. Each(Literals, s) \in Seq(Parts)
    BY PlainEach, PlainGist
  <2>8. Each(Literals, s) \o << >> = Each(Literals, s)
    BY <2>7, ConcatEmpty
  <2>9. f[Len(s)].items = Each(Literals, s) /\ f[Len(s)].text_parts = << >>
    BY <2>5
  <2>10. flush_user_text(f[Len(s)]) = Each(Literals, s)
    BY <2>6, <2>8, <2>9 DEF flush_user_text
  <2> QED
    BY <1>1, <2>10, PlainEach
<1> QED
  BY <1>2, <1>3

(* The messages that a log materializes into.                              *)
ResultContent(s) == s # << >> /\ s \in Seq(Held({"tool_result"}))

(* A user message is one text or the results of a round; an assistant       *)
(* message holds text, thinking and calls.                                  *)
UserMessage(m) ==
    /\ m.role = "user" /\ m.content \in Seq(Contents)
    /\ \/ Len(m.content) = 1 /\ m.content[1].kind = "text"
       \/ ResultContent(m.content)

AssistantMessage(m) ==
    m.role = "assistant" /\ m.content \in Seq(Held({"text", "thinking", "tool_use"}))

(* Says(w, m, keeps): the messages w of a request say what m does, the      *)
(* thinking only if `keeps`.                                               *)
Says(w, m, keeps) ==
    /\ w \in Seq(Wires)
    /\ \A kind \in PartKinds :
         WireGist(w, kind) =
           IF kind = "thinking" /\ ~ keeps THEN << >> ELSE Picked(m.content, Source(kind))

(* The results of Chat are a run of "tool" messages; every other message is *)
(* a single one, or none, of another role.                                 *)
Placed(w, m, runs) ==
    IF runs /\ m.role = "user" /\ ResultContent(m.content)
    THEN w # << >> /\ \A k \in 1 .. Len(w) : w[k].role = "tool"
    ELSE Len(w) <= 1 /\ (runs => Len(w) = 1) /\ \A k \in 1 .. Len(w) : w[k].role # "tool"

(* One message that says what m does, where no run of results is asked for, *)
(* is placed.                                                               *)
LEMMA OneWire ==
    ASSUME NEW role \in Roles \ {"tool"}, NEW parts \in Seq(Parts), NEW m, NEW runs, NEW keeps,
           ~ (runs /\ m.role = "user" /\ ResultContent(m.content)),
           \A kind \in PartKinds :
             Gist(parts, kind) =
               IF kind = "thinking" /\ ~ keeps THEN << >> ELSE Picked(m.content, Source(kind))
    PROVE  Says(<<Wire(role, parts)>>, m, keeps) /\ Placed(<<Wire(role, parts)>>, m, runs)
<1> DEFINE one == Wire(role, parts)
           w == <<one>>
<1>1. one \in Wires /\ one.parts = parts /\ one.role # "tool"
  BY DEF Wire, Wires
<1> HIDE DEF one
<1>2. w \in Seq(Wires) /\ Len(w) = 1 /\ \A k \in 1 .. Len(w) : w[k] = one
  BY <1>1
<1>3. Gathered(w) = parts
  BY <1>1, GatheredSmall
<1> HIDE DEF w
<1>4. Says(w, m, keeps)
  BY <1>2, <1>3 DEF Says, WireGist
<1>5. Placed(w, m, runs)
  BY <1>1, <1>2 DEF Placed
<1> QED
  BY <1>4, <1>5 DEF w, one

(* The messages hold blocks of a conversation.                              *)
LEMMA ContentsOf ==
    ASSUME NEW m, UserMessage(m) \/ AssistantMessage(m)
    PROVE  m.content \in Seq(Contents)
  BY HeldType DEF UserMessage, AssistantMessage

(* Of a kind that is not held nothing is picked.                            *)
LEMMA PickedHeld ==
    ASSUME NEW kinds, NEW s \in Seq(Held(kinds)), NEW kind, kind \notin kinds
    PROVE  Picked(s, kind) = << >> /\ OfKind(s, kind) = << >>
<1>1. \A b \in Held(kinds) : b.kind # kind
  BY DEF Held
<1> QED
  BY <1>1, PickedNone

-----------------------------------------------------------------------------
(* The encoders, one message at a time.                                     *)

(* chat_user_message says what the message does, results as a run.          *)
LEMMA ChatUser ==
    ASSUME NEW m, UserMessage(m)
    PROVE  Says(chat_message(m), m, TRUE) /\ Placed(chat_message(m), m, TRUE)
<1> DEFINE items == anthropic_content(m.content)
           w == chat_message(m)
           role(k) == IF items[k].kind = "result" THEN "tool" ELSE "user"
<1>0. m.content \in Seq(Contents) /\ m.role = "user"
  BY DEF UserMessage
<1>1. UserItems(m.content) = items
  BY UserItemsPlain DEF UserMessage, ResultContent
<1>2. items \in Seq(Parts) /\ Len(items) = Len(m.content)
      /\ \A kind \in PartKinds : Gist(items, kind) = Picked(m.content, Source(kind))
  BY <1>0, PlainGist
<1>3. \A k \in 1 .. Len(m.content) :
        items[k].kind = "result" <=> m.content[k].kind = "tool_result"
  <2>1. ASSUME NEW k \in 1 .. Len(m.content)
        PROVE  items[k].kind = "result" <=> m.content[k].kind = "tool_result"
    <3>1. m.content[k] \in Contents
      BY <1>0
    <3>2. items[k] = Literal(m.content[k])
      BY DEF anthropic_content, Literal
    <3>3. m.content[k].kind \in {"text", "thinking", "tool_use", "tool_result"}
      BY <3>1 DEF Contents
    <3> QED
      BY <3>2, <3>3 DEF Literal, ContentBlock
  <2> QED
    BY <2>1
<1>4. w = [k \in 1 .. Len(items) |-> Wire(role(k), <<items[k]>>)]
  BY <1>0, <1>1 DEF chat_message, chat_user_message
<1> HIDE DEF items, w
<1>5. ASSUME NEW k \in 1 .. Len(items)
      PROVE  /\ w[k] = Wire(role(k), <<items[k]>>) /\ w[k] \in Wires
             /\ w[k].parts = <<items[k]>> /\ w[k].role = role(k)
  <2>1. items[k] \in Parts
    BY <1>2
  <2>2. <<items[k]>> \in Seq(Parts) /\ role(k) \in Roles
    BY <2>1 DEF Roles
  <2>3. w[k] = Wire(role(k), <<items[k]>>)
    BY <1>4
  <2> QED
    BY <2>2, <2>3 DEF Wire, Wires
<1>6. w \in Seq(Wires) /\ Len(w) = Len(items)
  <2>1. Len(items) \in Nat
    BY <1>2
  <2> DEFINE d == Len(items)
  <2>2. w = [k \in 1 .. d |-> w[k]] /\ \A k \in 1 .. d : w[k] \in Wires
    BY <1>4, <1>5
  <2> HIDE DEF d
  <2>3. d \in Nat
    BY <2>1 DEF d
  <2>4. w \in Seq(Wires) /\ Len(w) = d
    BY <2>2, <2>3
  <2> QED
    BY <2>4 DEF d
<1>7. Gathered(w) = items
  <2>1. [k \in 1 .. Len(w) |-> w[k].parts] = [k \in 1 .. Len(items) |-> <<items[k]>>]
    BY <1>5, <1>6
  <2> QED
    BY <1>2, <2>1, FlatSingles DEF Gathered
<1>8. Says(w, m, TRUE)
  BY <1>2, <1>6, <1>7 DEF Says, WireGist
<1>9. Placed(w, m, TRUE)
  <2>1. CASE ResultContent(m.content)
    <3>1. ASSUME NEW k \in 1 .. Len(m.content) PROVE m.content[k].kind = "tool_result"
      <4>1. m.content[k] \in Held({"tool_result"})
        BY <2>1 DEF ResultContent
      <4> QED
        BY <4>1 DEF Held
    <3>2. Len(m.content) # 0
      BY <1>0, <2>1 DEF ResultContent
    <3> QED
      BY <1>0, <1>2, <1>3, <1>5, <1>6, <2>1, <3>1, <3>2 DEF Placed
  <2>2. CASE ~ ResultContent(m.content)
    <3>1. Len(m.content) = 1 /\ m.content[1].kind = "text"
      BY <2>2 DEF UserMessage
    <3> QED
      BY <1>0, <1>2, <1>3, <1>5, <1>6, <2>2, <3>1 DEF Placed
  <2> QED
    BY <2>1, <2>2
<1> QED
  BY <1>8, <1>9 DEF w

(* chat_assistant_message says what the message does, in one message.       *)
LEMMA ChatAssistant ==
    ASSUME NEW m, AssistantMessage(m)
    PROVE  Says(chat_message(m), m, TRUE) /\ Placed(chat_message(m), m, TRUE)
<1> DEFINE c == m.content
           text == Joined("text", OfKind(c, "text"))
           thinking == Joined("thinking", OfKind(c, "thinking"))
           calls == Renamed(OfKind(c, "tool_use"), "call")
<1>0. c \in Seq(Contents) /\ m.role = "assistant" /\ About(Contents, Matters)
  BY HeldType DEF AssistantMessage, About, Contents
<1>1. Picked(c, "tool_result") = << >>
  BY PickedHeld DEF AssistantMessage
<1> HIDE DEF c
<1>2. \A kind : /\ OfKind(c, kind) \in Seq(Contents)
                /\ Picked(c, kind) \in Seq(Matters) /\ Whats(OfKind(c, kind)) = Picked(c, kind)
  BY <1>0, PickedKinds DEF Picked
<1>3. /\ text \in Seq(Parts)
      /\ \A kind \in PartKinds :
           Gist(text, kind) = IF kind = "text" THEN Picked(c, "text") ELSE << >>
  BY <1>2, JoinedGist
<1>4. /\ thinking \in Seq(Parts)
      /\ \A kind \in PartKinds :
           Gist(thinking, kind) = IF kind = "thinking" THEN Picked(c, "thinking") ELSE << >>
  BY <1>2, JoinedGist
<1>5. /\ calls \in Seq(Parts)
      /\ \A kind \in PartKinds :
           Gist(calls, kind) = IF kind = "call" THEN Picked(c, "tool_use") ELSE << >>
  BY <1>2, RenamedGist
<1>6. chat_message(m) = <<Wire("assistant", text \o thinking \o calls)>>
  BY <1>0 DEF chat_message, chat_assistant_message, c
<1> HIDE DEF text, thinking, calls
<1>7. text \o thinking \in Seq(Parts) /\ text \o thinking \o calls \in Seq(Parts)
  BY <1>3, <1>4, <1>5, ConcatType
<1>8. ASSUME NEW kind \in PartKinds
      PROVE  Gist(text \o thinking \o calls, kind) = Picked(c, Source(kind))
  <2> DEFINE spoken == text \o thinking
  <2>1. Gist(spoken, kind) = Gist(text, kind) \o Gist(thinking, kind)
    BY <1>3, <1>4, GistReads
  <2>2. spoken \in Seq(Parts)
    BY <1>7
  <2> HIDE DEF spoken
  <2>3. Gist(spoken \o calls, kind) = Gist(spoken, kind) \o Gist(calls, kind)
    BY <1>5, <2>2, GistReads
  <2>4. \A s \in Seq(Matters) : s \o << >> = s /\ << >> \o s = s
    BY ConcatEmpty
  <2>5. << >> \in Seq(Matters)
    OBVIOUS
  <2> DEFINE a == Gist(text, kind)
             b == Gist(thinking, kind)
             d == Gist(calls, kind)
  <2>6. Gist(spoken \o calls, kind) = (a \o b) \o d
    BY <2>1, <2>3
  <2>7. /\ a = IF kind = "text" THEN Picked(c, "text") ELSE << >>
        /\ b = IF kind = "thinking" THEN Picked(c, "thinking") ELSE << >>
        /\ d = IF kind = "call" THEN Picked(c, "tool_use") ELSE << >>
    BY <1>3, <1>4, <1>5
  <2> HIDE DEF a, b, d
  <2>8. CASE kind = "text"
    BY <1>2, <2>4, <2>5, <2>6, <2>7, <2>8 DEF Source, spoken
  <2>9. CASE kind = "thinking"
    BY <1>2, <2>4, <2>5, <2>6, <2>7, <2>9 DEF Source, spoken
  <2>10. CASE kind = "call"
    BY <1>2, <2>4, <2>5, <2>6, <2>7, <2>10 DEF Source, spoken
  <2>11. CASE kind = "result"
    BY <1>1, <2>4, <2>5, <2>6, <2>7, <2>11 DEF Source, spoken
  <2> QED
    BY <2>8, <2>9, <2>10, <2>11 DEF PartKinds
<1>9. "assistant" \in Roles \ {"tool"} /\ m.role # "user"
  BY <1>0 DEF Roles
<1> DEFINE parts == text \o thinking \o calls
<1>10. parts \in Seq(Parts) /\ \A kind \in PartKinds : Gist(parts, kind) = Picked(m.content, Source(kind))
  BY <1>7, <1>8 DEF c
<1> HIDE DEF parts
<1>11. Says(<<Wire("assistant", parts)>>, m, TRUE) /\ Placed(<<Wire("assistant", parts)>>, m, TRUE)
  BY <1>9, <1>10, OneWire
<1> QED
  BY <1>6, <1>11 DEF parts

(* A user message holds texts and results only.                             *)
LEMMA UserHeld ==
    ASSUME NEW m, UserMessage(m)
    PROVE  m.content \in Seq(Held({"text", "tool_result"}))
<1>1. CASE Len(m.content) = 1 /\ m.content[1].kind = "text"
  <2>1. m.content[1] \in Contents /\ m.content \in Seq(Contents)
    BY <1>1 DEF UserMessage
  <2>2. m.content[1] \in Held({"text", "tool_result"})
    BY <1>1, <2>1 DEF Held
  <2> DEFINE B == Held({"text", "tool_result"})
  <2> HIDE DEF B
  <2>3. \A k \in 1 .. Len(m.content) : m.content[k] \in B
    BY <1>1, <2>2 DEF B
  <2>4. m.content \in Seq(B)
    BY <2>1, <2>3
  <2> QED
    BY <2>4 DEF B
<1>2. CASE ResultContent(m.content)
  <2>1. Held({"tool_result"}) \subseteq Held({"text", "tool_result"})
    BY DEF Held
  <2> QED
    BY <1>2, <2>1 DEF ResultContent
<1> QED
  BY <1>1, <1>2 DEF UserMessage

(* What the parts of a message have to say for it to be said.               *)
Tells(parts, m, keeps) ==
    /\ parts \in Seq(Parts)
    /\ \A kind \in PartKinds :
         Gist(parts, kind) =
           IF kind = "thinking" /\ ~ keeps THEN << >> ELSE Picked(m.content, Source(kind))

(* The items of UserItems say what a user message does.                     *)
LEMMA UserTells ==
    ASSUME NEW m, UserMessage(m), NEW keeps
    PROVE  Tells(anthropic_content(m.content), m, keeps)
<1>1. m.content \in Seq(Contents)
  BY DEF UserMessage
<1>2. Picked(m.content, "thinking") = << >>
  BY UserHeld, PickedHeld
<1>3. Source("thinking") = "thinking"
  BY DEF Source
<1> QED
  BY <1>1, <1>2, <1>3, PlainGist DEF Tells

(* A message of such parts is placed and says it.                           *)
LEMMA OneTells ==
    ASSUME NEW role \in Roles \ {"tool"}, NEW parts, NEW m, NEW keeps, Tells(parts, m, keeps)
    PROVE  Says(<<Wire(role, parts)>>, m, keeps) /\ Placed(<<Wire(role, parts)>>, m, FALSE)
  BY OneWire DEF Tells

(* responses_user_message and responses_assistant_message.                  *)
LEMMA ResponsesUser ==
    ASSUME NEW m, UserMessage(m)
    PROVE  Says(<<responses_message(m)>>, m, FALSE) /\ Placed(<<responses_message(m)>>, m, FALSE)
<1> DEFINE items == anthropic_content(m.content)
<1>1. UserItems(m.content) = items
  BY UserItemsPlain DEF UserMessage, ResultContent
<1>2. Tells(items, m, FALSE)
  BY UserTells
<1> HIDE DEF items
<1>3. PICK role \in Roles \ {"tool"} : responses_message(m) = Wire(role, items)
  <2>1. m.role = "user"
    BY DEF UserMessage
  <2> QED
    BY <1>1, <2>1 DEF responses_message, responses_user_message, Roles
<1> QED
  BY <1>2, <1>3, OneTells

LEMMA ResponsesAssistant ==
    ASSUME NEW m, AssistantMessage(m)
    PROVE  Says(<<responses_message(m)>>, m, FALSE) /\ Placed(<<responses_message(m)>>, m, FALSE)
<1> DEFINE c == m.content
           text == Joined("text", OfKind(c, "text"))
           calls == Renamed(OfKind(c, "tool_use"), "call")
           parts == text \o calls
<1>0. c \in Seq(Contents) /\ m.role = "assistant" /\ About(Contents, Matters)
  BY HeldType DEF AssistantMessage, About, Contents
<1>1. Picked(c, "tool_result") = << >>
  BY PickedHeld DEF AssistantMessage
<1> HIDE DEF c
<1>2. \A kind : /\ OfKind(c, kind) \in Seq(Contents)
                /\ Picked(c, kind) \in Seq(Matters) /\ Whats(OfKind(c, kind)) = Picked(c, kind)
  BY <1>0, PickedKinds DEF Picked
<1>3. /\ text \in Seq(Parts)
      /\ \A kind \in PartKinds :
           Gist(text, kind) = IF kind = "text" THEN Picked(c, "text") ELSE << >>
  BY <1>2, JoinedGist
<1>5. /\ calls \in Seq(Parts)
      /\ \A kind \in PartKinds :
           Gist(calls, kind) = IF kind = "call" THEN Picked(c, "tool_use") ELSE << >>
  BY <1>2, RenamedGist
<1>6. responses_message(m) = Wire("assistant", parts)
  BY <1>0 DEF responses_message, responses_assistant_message, c
<1> HIDE DEF text, calls
<1>7. parts \in Seq(Parts)
  BY <1>3, <1>5, ConcatType
<1>8. ASSUME NEW kind \in PartKinds
      PROVE  Gist(parts, kind) = IF kind = "thinking" THEN << >> ELSE Picked(c, Source(kind))
  <2> DEFINE a == Gist(text, kind)
             d == Gist(calls, kind)
  <2>1. Gist(parts, kind) = a \o d
    BY <1>3, <1>5, GistReads
  <2>2. \A s \in Seq(Matters) : s \o << >> = s /\ << >> \o s = s
    BY ConcatEmpty
  <2>3. << >> \in Seq(Matters)
    OBVIOUS
  <2>4. /\ a = IF kind = "text" THEN Picked(c, "text") ELSE << >>
        /\ d = IF kind = "call" THEN Picked(c, "tool_use") ELSE << >>
    BY <1>3, <1>5
  <2> HIDE DEF a, d, parts
  <2>5. CASE kind = "text"
    BY <1>2, <2>1, <2>2, <2>3, <2>4, <2>5 DEF Source
  <2>6. CASE kind = "thinking"
    BY <1>2, <2>1, <2>2, <2>3, <2>4, <2>6 DEF Source
  <2>7. CASE kind = "call"
    BY <1>2, <2>1, <2>2, <2>3, <2>4, <2>7 DEF Source
  <2>8. CASE kind = "result"
    BY <1>1, <2>1, <2>2, <2>3, <2>4, <2>8 DEF Source
  <2> QED
    BY <2>5, <2>6, <2>7, <2>8 DEF PartKinds
<1>9. "assistant" \in Roles \ {"tool"}
  BY DEF Roles
<1> HIDE DEF parts
<1>10. Tells(parts, m, FALSE)
  BY <1>7, <1>8 DEF Tells, c
<1> QED
  BY <1>6, <1>9, <1>10, OneTells

(* A message of anthropic_messages.                                         *)
LEMMA AnthropicOne ==
    ASSUME NEW m, UserMessage(m) \/ AssistantMessage(m)
    PROVE  LET w == <<Wire(m.role, anthropic_content(m.content))>>
           IN  Says(w, m, TRUE) /\ Placed(w, m, FALSE)
<1>1. m.content \in Seq(Contents)
  BY ContentsOf
<1>2. m.role \in Roles \ {"tool"}
  BY DEF UserMessage, AssistantMessage, Roles
<1> DEFINE parts == anthropic_content(m.content)
<1>3. Tells(parts, m, TRUE)
  BY <1>1, PlainGist DEF Tells
<1> HIDE DEF parts
<1>4. Says(<<Wire(m.role, parts)>>, m, TRUE) /\ Placed(<<Wire(m.role, parts)>>, m, FALSE)
  BY <1>2, <1>3, OneTells
<1> QED
  BY <1>4 DEF parts

(* A message of the Google family, left out without parts.                  *)
GoogleContents(m) ==
    IF google_message(m).parts # << >> THEN <<google_message(m)>> ELSE << >>

(* google_message: its type, and what is left of it.                        *)
LEMMA GoogleOne ==
    ASSUME NEW m, UserMessage(m) \/ AssistantMessage(m)
    PROVE  /\ google_message(m) \in Wires
           /\ Says(GoogleContents(m), m, FALSE) /\ Placed(GoogleContents(m), m, FALSE)
<1>1. \E role \in Roles \ {"tool"} : \E parts :
        google_message(m) = Wire(role, parts) /\ Tells(parts, m, FALSE)
  <2>1. CASE UserMessage(m)
    <3>1. m.role = "user"
      BY <2>1 DEF UserMessage
    <3>2. ASSUME NEW k \in 1 .. Len(m.content)
          PROVE  (IF m.content[k].kind = "text" THEN ContentBlock("text", <<m.content[k].what>>)
                  ELSE ContentBlock("result", m.content[k].what)) = Literal(m.content[k])
      <4>1. m.content \in Seq(Held({"text", "tool_result"}))
        BY <2>1, UserHeld
      <4>2. m.content[k] \in Held({"text", "tool_result"})
        BY <4>1
      <4>3. m.content[k].kind \in {"text", "tool_result"}
        BY <4>2 DEF Held
      <4> QED
        BY <4>3 DEF Literal
    <3>3. google_user_parts(m.content) = anthropic_content(m.content)
      BY <3>2 DEF google_user_parts, anthropic_content, Literal
    <3>4. google_message(m) = Wire("user", anthropic_content(m.content))
      BY <3>1, <3>3 DEF google_message
    <3>5. Tells(anthropic_content(m.content), m, FALSE)
      BY <2>1, UserTells
    <3>6. "user" \in Roles \ {"tool"}
      BY DEF Roles
    <3> QED
      BY <3>4, <3>5, <3>6
  <2>2. CASE AssistantMessage(m)
    <3> DEFINE kinds == {"text", "thinking", "tool_use"}
               kept == NotThinking(m.content)
    <3>1. m.role = "assistant" /\ m.content \in Seq(Held(kinds))
      BY <2>2 DEF AssistantMessage
    <3> HIDE DEF kinds
    <3>2. /\ kept \in Seq(Held(kinds \ {"thinking"}))
          /\ \A kind : Picked(kept, kind)
                         = IF kind = "thinking" THEN << >> ELSE Picked(m.content, kind)
      BY <3>1, NotThinkingPicked
    <3>3. google_message(m) = Wire("model", google_assistant_parts(m.content))
      BY <3>1 DEF google_message
    <3>4. google_assistant_parts(m.content)
            = [k \in 1 .. Len(kept) |->
                 IF kept[k].kind = "text" THEN ContentBlock("text", <<kept[k].what>>)
                 ELSE ContentBlock("call", kept[k].what)]
      BY DEF google_assistant_parts
    <3> HIDE DEF kept
    <3>5. ASSUME NEW k \in 1 .. Len(kept)
          PROVE  (IF kept[k].kind = "text" THEN ContentBlock("text", <<kept[k].what>>)
                  ELSE ContentBlock("call", kept[k].what)) = Literal(kept[k])
      <4>1. kept[k] \in Held(kinds \ {"thinking"})
        BY <3>2
      <4>2. kept[k].kind \in {"text", "tool_use"}
        BY <4>1 DEF Held, kinds
      <4> QED
        BY <4>2 DEF Literal
    <3>6. google_assistant_parts(m.content) = anthropic_content(kept)
      BY <3>4, <3>5 DEF anthropic_content, Literal
    <3>7. kept \in Seq(Contents)
      BY <3>2, HeldType
    <3>8. Tells(anthropic_content(kept), m, FALSE)
      <4>1. /\ anthropic_content(kept) \in Seq(Parts)
            /\ \A kind \in PartKinds : Gist(anthropic_content(kept), kind) = Picked(kept, Source(kind))
        BY <3>7, PlainGist
      <4>2. \A kind \in PartKinds : Source(kind) = "thinking" <=> kind = "thinking"
        BY DEF PartKinds, Source
      <4> QED
        BY <3>2, <4>1, <4>2 DEF Tells
    <3>9. "model" \in Roles \ {"tool"}
      BY DEF Roles
    <3> QED
      BY <3>3, <3>6, <3>8, <3>9
  <2> QED
    BY <2>1, <2>2
<1>a. PICK role \in Roles \ {"tool"} : \E parts :
        google_message(m) = Wire(role, parts) /\ Tells(parts, m, FALSE)
  BY <1>1
<1>2. PICK parts : google_message(m) = Wire(role, parts) /\ Tells(parts, m, FALSE)
  BY <1>a
<1>3. google_message(m) \in Wires /\ google_message(m).parts = parts
  BY <1>2 DEF Tells, Wire, Wires
<1>4. CASE parts # << >>
  <2>1. GoogleContents(m) = <<Wire(role, parts)>>
    BY <1>2, <1>3, <1>4 DEF GoogleContents
  <2> QED
    BY <1>2, <1>3, <2>1, OneTells
<1>5. CASE parts = << >>
  <2>1. GoogleContents(m) = << >>
    BY <1>3, <1>5 DEF GoogleContents
  <2>2. Says(<< >>, m, FALSE)
    <3>1. << >> \in Seq(Wires)
      OBVIOUS
    <3> QED
      BY <1>2, <1>5, <3>1, GatheredSmall DEF Says, Tells, WireGist
  <2>3. Placed(<< >>, m, FALSE)
    BY DEF Placed
  <2> QED
    BY <1>3, <2>1, <2>2, <2>3
<1> QED
  BY <1>4, <1>5

(* The four families, message by message.                                  *)
Encoded(family, m) ==
    CASE family = "openai_chat"          -> chat_message(m)
      [] family = "openai_responses"     -> <<responses_message(m)>>
      [] family = "anthropic_messages"   -> <<Wire(m.role, anthropic_content(m.content))>>
      [] family = "google_generative_ai" -> GoogleContents(m)

Keeps(family) == family \in {"openai_chat", "anthropic_messages"}

Runs(family) == family = "openai_chat"

(* In every family a message says on the wire what it says in the           *)
(* conversation, the thinking where the family keeps it.                    *)
LEMMA EncodedSays ==
    ASSUME NEW family \in Families, NEW m, UserMessage(m) \/ AssistantMessage(m)
    PROVE  /\ Says(Encoded(family, m), m, Keeps(family))
           /\ Placed(Encoded(family, m), m, Runs(family))
<1>1. CASE family = "openai_chat"
  <2>1. Encoded(family, m) = chat_message(m) /\ Keeps(family) = TRUE /\ Runs(family) = TRUE
    BY <1>1 DEF Encoded, Keeps, Runs
  <2> QED
    BY <2>1, ChatUser, ChatAssistant
<1>2. CASE family = "openai_responses"
  <2>1. /\ Encoded(family, m) = <<responses_message(m)>>
        /\ Keeps(family) = FALSE /\ Runs(family) = FALSE
    BY <1>2 DEF Encoded, Keeps, Runs
  <2> QED
    BY <2>1, ResponsesUser, ResponsesAssistant
<1>3. CASE family = "anthropic_messages"
  <2>1. /\ Encoded(family, m) = <<Wire(m.role, anthropic_content(m.content))>>
        /\ Keeps(family) = TRUE /\ Runs(family) = FALSE
    BY <1>3 DEF Encoded, Keeps, Runs
  <2> QED
    BY <2>1, AnthropicOne
<1>4. CASE family = "google_generative_ai"
  <2>1. /\ Encoded(family, m) = GoogleContents(m)
        /\ Keeps(family) = FALSE /\ Runs(family) = FALSE
    BY <1>4 DEF Encoded, Keeps, Runs
  <2> QED
    BY <2>1, GoogleOne
<1> QED
  BY <1>1, <1>2, <1>3, <1>4 DEF Families

-----------------------------------------------------------------------------
(* A whole request.                                                         *)

(* The messages of a conversation, encoded.                                 *)
Encodings(family, messages) == [n \in 1 .. Len(messages) |-> Encoded(family, messages[n])]

Sendable(messages) ==
    /\ Len(messages) \in Nat
    /\ \A n \in 1 .. Len(messages) : UserMessage(messages[n]) \/ AssistantMessage(messages[n])

(* Encodings are sequences of messages of a request.                        *)
LEMMA EncodingsType ==
    ASSUME NEW family \in Families, NEW messages, Sendable(messages)
    PROVE  /\ Encodings(family, messages) \in Seq(Seq(Wires))
           /\ Len(Encodings(family, messages)) = Len(messages)
<1>1. \A n \in 1 .. Len(messages) : Encoded(family, messages[n]) \in Seq(Wires)
  BY EncodedSays DEF Says, Sendable
<1> DEFINE Y == Seq(Wires)
<1> HIDE DEF Y
<1>2. Encodings(family, messages) \in Seq(Y) /\ Len(Encodings(family, messages)) = Len(messages)
  BY <1>1 DEF Encodings, Sendable, Y
<1> QED
  BY <1>2 DEF Y

(* The system prompt, before the conversation.                             *)
PromptRole(family) ==
    CASE family = "openai_chat" -> "system" [] family = "openai_responses" -> "developer"
      [] family = "anthropic_messages" -> "system" [] family = "google_generative_ai" -> "user"

Prompt(family, system) ==
    IF system THEN <<Wire(PromptRole(family), <<ContentBlock("text", <<"system">>)>>)>> ELSE << >>

(* The prompt says the system prompt and nothing else.                      *)
LEMMA PromptSays ==
    ASSUME NEW family \in Families, NEW system \in BOOLEAN
    PROVE  /\ Prompt(family, system) \in Seq(Wires)
           /\ \A kind \in PartKinds :
                WireGist(Prompt(family, system), kind)
                  = IF system /\ kind = "text" THEN <<"system">> ELSE << >>
           /\ Len(Prompt(family, system)) <= 1
           /\ \A k \in 1 .. Len(Prompt(family, system)) : Prompt(family, system)[k].role # "tool"
<1> DEFINE p == ContentBlock("text", <<"system">>)
           one == Wire(PromptRole(family), <<p>>)
<1>1. p \in Parts /\ p.kind = "text" /\ p.what = <<"system">>
  BY DEF ContentBlock, Parts, Matters
<1>2. PromptRole(family) \in Roles \ {"tool"}
  BY DEF PromptRole, Roles, Families
<1> HIDE DEF p
<1>3. one \in Wires /\ one.parts = <<p>> /\ one.role # "tool"
  BY <1>1, <1>2 DEF Wire, Wires
<1> HIDE DEF one
<1>4. CASE system
  <2>1. Prompt(family, system) = <<one>>
    BY <1>4 DEF Prompt, one, p
  <2>2. <<one>> \in Seq(Wires) /\ Len(<<one>>) = 1 /\ \A k \in 1 .. Len(<<one>>) : <<one>>[k] = one
    BY <1>3
  <2>3. Gathered(<<one>>) = <<p>>
    BY <1>3, GatheredSmall
  <2>4. \A kind \in PartKinds : Gist(<<p>>, kind) = IF kind = "text" THEN <<"system">> ELSE << >>
    BY <1>1, GistOne
  <2> DEFINE w == <<one>>
  <2> HIDE DEF w
  <2>5. w \in Seq(Wires) /\ Len(w) <= 1 /\ \A k \in 1 .. Len(w) : w[k].role # "tool"
    BY <1>3, <2>2 DEF w
  <2>6. \A kind \in PartKinds : WireGist(w, kind) = IF kind = "text" THEN <<"system">> ELSE << >>
    BY <2>3, <2>4 DEF WireGist, w
  <2>7. Prompt(family, system) = w
    BY <2>1 DEF w
  <2> QED
    BY <1>4, <2>5, <2>6, <2>7
<1>5. CASE ~ system
  <2>1. Prompt(family, system) = << >>
    BY <1>5 DEF Prompt
  <2>2. << >> \in Seq(Wires) /\ << >> \in Seq(Parts) /\ Len(<< >>) = 0
    OBVIOUS
  <2> DEFINE w == << >>
  <2>3. w \in Seq(Wires) /\ Len(w) <= 1 /\ \A k \in 1 .. Len(w) : w[k].role # "tool"
    BY <2>2
  <2>4. \A kind \in PartKinds : WireGist(w, kind) = << >>
    BY <2>2, GatheredSmall, GistReads DEF WireGist
  <2> HIDE DEF w
  <2>5. Prompt(family, system) = w
    BY <2>1 DEF w
  <2> QED
    BY <1>5, <2>3, <2>4, <2>5
<1> QED
  BY <1>4, <1>5

(* One message each, concatenated.                                          *)
LEMMA FlatWires ==
    ASSUME NEW w \in Seq(Wires)
    PROVE  FlattenSeq([n \in 1 .. Len(w) |-> <<w[n]>>]) = w
  BY FlatSingles

(* A request that the checks let through is the prompt and the encodings   *)
(* of its messages, one after the other.                                   *)
LEMMA BodyMessages ==
    ASSUME NEW family \in Families, NEW request, NEW option, Sendable(request.messages),
           request.system \in BOOLEAN
    PROVE  LET body == encode_request(family, request, option) IN
           /\ ~ validate_request(request) => body = RequestFailed
           /\ validate_request(request) =>
                /\ body.ok = TRUE
                /\ body.messages = Prompt(family, request.system)
                                     \o FlattenSeq(Encodings(family, request.messages))
<1> DEFINE messages == request.messages
           d == Len(messages)
           body == encode_request(family, request, option)
<1>0. d \in Nat
  BY DEF Sendable
<1>1. \A n \in 1 .. d : ~ invalid_block(messages[n])
  <2>1. ASSUME NEW n \in 1 .. d PROVE ~ invalid_block(messages[n])
    <3>1. CASE UserMessage(messages[n])
      <4>1. messages[n].content \in Seq(Held({"text", "tool_result"})) /\ messages[n].role = "user"
        BY <3>1, UserHeld DEF UserMessage
      <4>2. ASSUME NEW k \in 1 .. Len(messages[n].content)
            PROVE  messages[n].content[k].kind \in {"text", "tool_result"}
        <5>1. messages[n].content[k] \in Held({"text", "tool_result"})
          BY <4>1
        <5> QED
          BY <5>1 DEF Held
      <4> QED
        BY <4>1, <4>2 DEF invalid_block, HasOnly
    <3>2. CASE AssistantMessage(messages[n])
      <4> DEFINE kinds == {"text", "thinking", "tool_use"}
      <4>1. messages[n].content \in Seq(Held(kinds)) /\ messages[n].role = "assistant"
        BY <3>2 DEF AssistantMessage
      <4>2. ASSUME NEW k \in 1 .. Len(messages[n].content)
            PROVE  messages[n].content[k].kind \in kinds
        <5>1. messages[n].content[k] \in Held(kinds)
          BY <4>1
        <5> QED
          BY <5>1 DEF Held
      <4> QED
        BY <4>1, <4>2 DEF invalid_block, HasOnly
    <3> QED
      BY <3>1, <3>2 DEF Sendable
  <2> QED
    BY <2>1
<1>2. ~ validate_request(request) => body = RequestFailed
  BY DEF encode_request
<1>3. ASSUME validate_request(request)
      PROVE  /\ body.ok = TRUE
             /\ body.messages = Prompt(family, request.system)
                                  \o FlattenSeq(Encodings(family, messages))
  <2>1. CASE family = "openai_chat"
    <3>1. body = chat_request(request, option)
      BY <1>1, <1>3, <2>1 DEF encode_request
    <3>2. body.ok = TRUE /\ body.messages = Prompt(family, request.system) \o chat_messages(messages)
      BY <2>1, <3>1 DEF chat_request, Body, Prompt, PromptRole
    <3>3. Encodings(family, messages) = [n \in 1 .. d |-> chat_message(messages[n])]
      BY <2>1 DEF Encodings, Encoded
    <3> QED
      BY <3>2, <3>3 DEF chat_messages
  <2>2. CASE family = "openai_responses"
    <3> DEFINE w == [n \in 1 .. d |-> responses_message(messages[n])]
    <3>1. body = responses_request(request, option)
      BY <1>1, <1>3, <2>2 DEF encode_request
    <3>2. body.ok = TRUE /\ body.messages = Prompt(family, request.system) \o w
      <4>1. body.ok = TRUE /\ body.messages = encode_input(request)
        BY <3>1 DEF responses_request, Body
      <4>2. encode_input(request) = Prompt(family, request.system) \o w
        BY <2>2 DEF encode_input, Prompt, PromptRole
      <4> QED
        BY <4>1, <4>2
    <3>3. Encodings(family, messages) = [n \in 1 .. d |-> <<responses_message(messages[n])>>]
      BY <2>2 DEF Encodings, Encoded
    <3>4. ASSUME NEW n \in 1 .. d PROVE responses_message(messages[n]) \in Wires
      <4>1. <<responses_message(messages[n])>> \in Seq(Wires)
        BY ResponsesUser, ResponsesAssistant DEF Says, Sendable
      <4> QED
        BY <4>1
    <3>5. w = [n \in 1 .. d |-> w[n]] /\ \A n \in 1 .. d : w[n] \in Wires
      BY <3>4
    <3>6. [n \in 1 .. d |-> <<w[n]>>] = Encodings(family, messages)
      BY <3>3
    <3> HIDE DEF w, d
    <3>7. w \in Seq(Wires) /\ Len(w) = d
      BY <1>0, <3>5, Sequence
    <3> QED
      BY <3>2, <3>6, <3>7, FlatWires
  <2>3. CASE family = "anthropic_messages"
    <3> DEFINE w == anthropic_messages(messages)
    <3>1. body = anthropic_request(request)
      BY <1>1, <1>3, <2>3 DEF encode_request
    <3>2. body.ok = TRUE /\ body.messages = Prompt(family, request.system) \o w
      BY <2>3, <3>1 DEF anthropic_request, sanitize_messages_for_handoff, Body, Prompt, PromptRole
    <3>3. Encodings(family, messages)
            = [n \in 1 .. d |-> <<Wire(messages[n].role, anthropic_content(messages[n].content))>>]
      BY <2>3 DEF Encodings, Encoded
    <3>4. w = [n \in 1 .. d |-> Wire(messages[n].role, anthropic_content(messages[n].content))]
      BY DEF anthropic_messages
    <3>5. ASSUME NEW n \in 1 .. d
          PROVE  Wire(messages[n].role, anthropic_content(messages[n].content)) \in Wires
      <4>1. <<Wire(messages[n].role, anthropic_content(messages[n].content))>> \in Seq(Wires)
        BY AnthropicOne DEF Says, Sendable
      <4> QED
        BY <4>1
    <3>6. w = [n \in 1 .. d |-> w[n]] /\ \A n \in 1 .. d : w[n] \in Wires
      BY <3>4, <3>5
    <3>7. [n \in 1 .. d |-> <<w[n]>>] = Encodings(family, messages)
      BY <3>3, <3>4
    <3> HIDE DEF w, d
    <3>8. w \in Seq(Wires) /\ Len(w) = d
      BY <1>0, <3>6, Sequence
    <3> QED
      BY <3>2, <3>7, <3>8, FlatWires
  <2>4. CASE family = "google_generative_ai"
    <3> DEFINE w == [n \in 1 .. d |-> google_message(messages[n])]
               P == {n \in DOMAIN w : w[n].parts # << >>}
    <3>1. body = google_request(request)
      BY <1>1, <1>3, <2>4 DEF encode_request
    <3>2. body.ok = TRUE /\ body.messages = Prompt(family, request.system) \o encode_contents(messages)
      BY <2>4, <3>1 DEF google_request, Body, Prompt, PromptRole
    <3>3. encode_contents(messages) = Kept(w, P)
      BY DEF encode_contents
    <3>4. \A n \in 1 .. d : google_message(messages[n]) \in Wires
      BY GoogleOne DEF Sendable
    <3>5. w = [n \in 1 .. d |-> w[n]] /\ \A n \in 1 .. d : w[n] \in Wires
      BY <3>4
    <3>6. \A n \in 1 .. d : n \in P <=> google_message(messages[n]).parts # << >>
      OBVIOUS
    <3>7. Encodings(family, messages) = [n \in 1 .. d |-> GoogleContents(messages[n])]
      BY <2>4 DEF Encodings, Encoded
    <3>8. [n \in 1 .. d |-> IF n \in P THEN <<w[n]>> ELSE << >>] = Encodings(family, messages)
      BY <3>6, <3>7 DEF GoogleContents
    <3> HIDE DEF w, d, P
    <3>9. w \in Seq(Wires) /\ Len(w) = d
      BY <1>0, <3>5, Sequence
    <3>10. Kept(w, P) = FlattenSeq(KeptParts(w, P))
      BY <3>9, KeptFlat
    <3> QED
      BY <3>2, <3>3, <3>8, <3>9, <3>10 DEF KeptParts
  <2> QED
    BY <2>1, <2>2, <2>3, <2>4 DEF Families
<1> QED
  BY <1>2, <1>3

-----------------------------------------------------------------------------
(* The rounds of `materialize`.                                             *)

(* The rounds of `materialize`: the assistant message of a round is followed *)
(* by the user message with its results, unless it is the last so far; the *)
(* results of a round follow its calls.                                    *)
Rounded(out, open) ==
    \A n \in 1 .. Len(out) : out[n].ids # << >> =>
      /\ out[n].role = "assistant" =>
           \/ open /\ n = Len(out)
           \/ n < Len(out) /\ out[n+1].role = "user" /\ SameIds(out[n].ids, out[n+1].ids)
      /\ out[n].role = "user" => n > 1 /\ out[n-1].role = "assistant" /\ out[n-1].ids # << >>

(* The assistant message of a round.                                        *)
Asks(message) == message.role = "assistant" /\ message.ids # << >>

(* A message more: one that answers the open round, or one that does not    *)
(* answer at all when none is open.                                         *)
LEMMA RoundedAppend ==
    ASSUME NEW X, NEW out \in Seq(X), NEW e \in X, NEW open \in BOOLEAN, Rounded(out, open),
           open => out # << >> /\ e.role = "user" /\ Asks(out[Len(out)])
                   /\ SameIds(out[Len(out)].ids, e.ids),
           ~ open => e.ids = << >> \/ e.role = "assistant"
    PROVE  Rounded(Append(out, e), ~ open /\ e.ids # << >>)
<1> DEFINE t == Append(out, e)
           d == Len(out)
<1>1. Len(t) = d + 1 /\ t[d+1] = e /\ d \in Nat /\ \A i \in 1 .. d : t[i] = out[i]
  BY Appended
<1>2. open => d > 0
  OBVIOUS
<1> HIDE DEF t
<1>3. ASSUME NEW n \in 1 .. Len(t), t[n].ids # << >>
      PROVE  /\ t[n].role = "assistant" =>
                  \/ (~ open /\ e.ids # << >>) /\ n = Len(t)
                  \/ n < Len(t) /\ t[n+1].role = "user" /\ SameIds(t[n].ids, t[n+1].ids)
             /\ t[n].role = "user" => n > 1 /\ t[n-1].role = "assistant" /\ t[n-1].ids # << >>
  <2>1. CASE n = d + 1
    <3>1. t[n] = e /\ n = Len(t) /\ n - 1 = d
      BY <1>1, <2>1
    <3>2. CASE open
      <4>1. d \in 1 .. d /\ d + 1 > 1 /\ t[d] = out[d]
        BY <1>1, <1>2, <3>2
      <4> QED
        BY <2>1, <3>1, <3>2, <4>1 DEF Asks
    <3>3. CASE ~ open
      BY <1>3, <3>1, <3>3
    <3> QED
      BY <3>2, <3>3
  <2>2. CASE n # d + 1
    <3>1. n \in 1 .. d /\ t[n] = out[n]
      BY <1>1, <2>2
    <3>2. /\ out[n].role = "assistant" =>
               \/ open /\ n = d
               \/ n < d /\ out[n+1].role = "user" /\ SameIds(out[n].ids, out[n+1].ids)
          /\ out[n].role = "user" => n > 1 /\ out[n-1].role = "assistant" /\ out[n-1].ids # << >>
      BY <1>3, <3>1 DEF Rounded
    <3>3. n < d => t[n+1] = out[n+1]
      BY <1>1, <3>1
    <3>4. n > 1 => t[n-1] = out[n-1]
      BY <1>1, <3>1
    <3>5. open /\ n = d => t[n+1].role = "user" /\ SameIds(t[n].ids, t[n+1].ids) /\ n < Len(t)
      BY <1>1, <3>1
    <3>6. n < d => n < Len(t)
      BY <1>1, <3>1
    <3> QED
      BY <3>1, <3>2, <3>3, <3>4, <3>5, <3>6
  <2> QED
    BY <2>1, <2>2
<1> QED
  BY <1>3 DEF Rounded, t

(* The call identities that are pending.                                    *)
IdsOf(pending) == {c.id : c \in pending}

(* What is left to answer of the round at the end of `out`, `results` being *)
(* the answers so far.                                                     *)
Awaits(out, results, pending) ==
    /\ out # << >> /\ Asks(out[Len(out)])
    /\ Len(results) + Cardinality(pending) = Len(out[Len(out)].ids)
    /\ ToSet(results) \union IdsOf(pending) = ToSet(out[Len(out)].ids)

(* The invariant of the phase machine about its rounds.                     *)
Closes(m) ==
    m.phase # "error" =>
      /\ IsFiniteSet(m.pending)
      /\ \A n \in 1 .. Len(m.out) : m.out[n].role \in {"user", "assistant"}
      /\ Rounded(m.out, m.phase = "results")
      /\ m.phase = "idle" => m.pending = {} /\ m.blocks = << >>
      /\ m.phase = "calls" => /\ m.blocks # << >> /\ Len(m.blocks) = Cardinality(m.pending)
                              /\ ToSet(m.blocks) = IdsOf(m.pending)
      /\ m.phase = "results" => Awaits(m.out, m.blocks, m.pending)

(* Every message is of a user or an assistant.                              *)
LEMMA RolesAppend ==
    ASSUME NEW X, NEW out \in Seq(X), NEW e \in X, e.role \in {"user", "assistant"},
           \A n \in 1 .. Len(out) : out[n].role \in {"user", "assistant"}
    PROVE  \A n \in 1 .. Len(Append(out, e)) : Append(out, e)[n].role \in {"user", "assistant"}
<1> DEFINE t == Append(out, e)
<1>1. Len(t) = Len(out) + 1 /\ Len(out) \in Nat /\ t[Len(out)+1] = e
      /\ \A i \in 1 .. Len(out) : t[i] = out[i]
  BY Appended
<1> HIDE DEF t
<1>2. \A n \in 1 .. Len(t) : n = Len(out) + 1 \/ n \in 1 .. Len(out)
  BY <1>1
<1>3. \A n \in 1 .. Len(t) : t[n].role \in {"user", "assistant"}
  BY <1>1, <1>2
<1> QED
  BY <1>3 DEF t

Msgs == [role : Kinds, ids : IdLists]

(* It holds after a user or assistant item,                                 *)
LEMMA PlainCloses ==
    ASSUME NEW m \in Machines, Closes(m), NEW x \in Item, x.kind \in {"user", "assistant"},
           m.phase = "idle"
    PROVE  Closes(ensure_idle(m, x))
<1> DEFINE e == Message(x.kind, << >>)
<1>1. m.out \in Seq(Msgs) /\ e \in Msgs /\ e.ids = << >> /\ e.role = x.kind
  <2>1. << >> \in IdLists /\ x.kind \in Kinds
    BY DEF IdLists, Item
  <2> QED
    BY <2>1, MessageIds DEF Machines, Outs, Msgs, Message
<1> HIDE DEF e
<1> DEFINE next == ensure_idle(m, x)
<1>2. /\ next.phase = "idle" /\ next.pending = m.pending /\ next.blocks = m.blocks
      /\ next.out = Append(m.out, e)
  BY DEF ensure_idle, Machines, e
<1> HIDE DEF next
<1>3. Rounded(m.out, FALSE) /\ \A n \in 1 .. Len(m.out) : m.out[n].role \in {"user", "assistant"}
  BY DEF Closes
<1>4. Rounded(Append(m.out, e), ~ FALSE /\ e.ids # << >>)
  BY <1>1, <1>3, RoundedAppend
<1>5. Rounded(Append(m.out, e), FALSE)
  BY <1>1, <1>4
<1>6. \A n \in 1 .. Len(Append(m.out, e)) : Append(m.out, e)[n].role \in {"user", "assistant"}
  BY <1>1, <1>3, RolesAppend
<1> QED
  BY <1>2, <1>5, <1>6 DEF Closes, next

(* after a tool call,                                                       *)
LEMMA CallCloses ==
    ASSUME NEW m \in Machines, Closes(m), NEW x \in Item, Fresh(m, x)
    PROVE  Closes(append_call(m, x))
<1> DEFINE call == [id |-> x.id, name |-> x.name]
           next == append_call(m, x)
<1>1. /\ next.phase = "calls" /\ next.pending = m.pending \union {call}
      /\ next.blocks = Append(m.blocks, x.id) /\ next.out = m.out
  BY DEF append_call, Fresh, Machines
<1>2. /\ m.phase # "error" /\ m.phase # "results" /\ IsFiniteSet(m.pending)
      /\ Len(m.blocks) = Cardinality(m.pending) /\ ToSet(m.blocks) = IdsOf(m.pending)
  <2>1. m.phase \in {"idle", "calls"}
    BY DEF Fresh
  <2>2. CASE m.phase = "idle"
    <3>1. m.pending = {} /\ m.blocks = << >>
      BY <2>2 DEF Closes
    <3>2. ToSet(<< >>) = {} /\ Len(<< >>) = 0
      BY DEF ToSet
    <3>3. Cardinality({}) = 0 /\ IsFiniteSet({})
      BY FS_EmptySet
    <3> QED
      BY <2>2, <3>1, <3>2, <3>3 DEF IdsOf
  <2>3. CASE m.phase = "calls"
    BY <2>3 DEF Closes
  <2> QED
    BY <2>1, <2>2, <2>3
<1>3. call \notin m.pending
  BY DEF Fresh
<1>4. IsFiniteSet(next.pending) /\ Cardinality(next.pending) = Cardinality(m.pending) + 1
  BY <1>1, <1>2, <1>3, FS_AddElement
<1>5. m.blocks \in Seq(CallIds \union {None}) /\ x.id \in CallIds \union {None}
  BY DEF Machines, IdLists, Item
<1>6. /\ next.blocks # << >> /\ Len(next.blocks) = Len(m.blocks) + 1
      /\ ToSet(next.blocks) = ToSet(m.blocks) \union {x.id}
  <2>1. ToSet(Append(m.blocks, x.id)) = ToSet(m.blocks) \union {x.id}
    BY <1>5, ToSetAppend
  <2>2. Len(Append(m.blocks, x.id)) = Len(m.blocks) + 1 /\ Append(m.blocks, x.id) # << >>
    BY <1>5
  <2> QED
    BY <1>1, <2>1, <2>2
<1>7. IdsOf(next.pending) = IdsOf(m.pending) \union {x.id}
  <2>1. IdsOf(m.pending \union {call}) = IdsOf(m.pending) \union {call.id} /\ call.id = x.id
    BY DEF IdsOf
  <2> QED
    BY <1>1, <2>1
<1>8. Rounded(m.out, FALSE) /\ \A n \in 1 .. Len(m.out) : m.out[n].role \in {"user", "assistant"}
  BY <1>2 DEF Closes
<1> HIDE DEF next
<1> QED
  BY <1>1, <1>2, <1>4, <1>6, <1>7, <1>8 DEF Closes, next

(* after a tool result,                                                     *)
LEMMA ResultCloses ==
    ASSUME NEW m \in Machines, Closes(m), NEW x \in Item, Expected(m, x)
    PROVE  Closes(append_result(m, x))
<1> DEFINE call == [id |-> x.id, name |-> x.name]
           asking == Message("assistant", m.blocks)
           out == IF m.phase = "calls" THEN Append(m.out, asking) ELSE m.out
           told == IF m.phase = "calls" THEN << >> ELSE m.blocks
           results == Append(told, x.id)
           answer == Message("user", results)
           next == append_result(m, x)
           I == CallIds \union {None}
<1>1. call \in m.pending /\ m.phase \in {"calls", "results"}
  BY DEF Expected
<1>2. /\ m.pending = {call} => /\ next.phase = "idle" /\ next.pending = {}
                               /\ next.blocks = << >> /\ next.out = Append(out, answer)
      /\ m.pending # {call} => /\ next.phase = "results" /\ next.pending = m.pending \ {call}
                               /\ next.blocks = results /\ next.out = out
  BY <1>1 DEF append_result, Machines
<1>3. m.blocks \in Seq(I) /\ x.id \in I /\ m.out \in Seq(Msgs)
  BY DEF Machines, IdLists, Item, Outs, Msgs
<1>4. told \in Seq(I) /\ results \in Seq(I) /\ Len(results) = Len(told) + 1 /\ Len(told) \in Nat
  <2>1. told \in Seq(I)
    BY <1>3
  <2> HIDE DEF told
  <2> QED
    BY <1>3, <2>1
<1>5. ToSet(results) = ToSet(told) \union {x.id}
  <2> HIDE DEF told, I
  <2> QED
    BY <1>3, <1>4, ToSetAppend
<1>6. asking \in Msgs /\ answer \in Msgs
  <2>1. m.blocks \in IdLists /\ results \in IdLists
    BY <1>3, <1>4 DEF IdLists
  <2> HIDE DEF results
  <2> QED
    BY <2>1, MessageIds DEF Msgs, Kinds
<1>7. asking.role = "assistant" /\ asking.ids = m.blocks /\ answer.role = "user" /\ answer.ids = results
  BY DEF Message
<1> HIDE DEF asking, answer, call, results, told, next, I
<1>8. IsFiniteSet(m.pending) /\ \A n \in 1 .. Len(m.out) : m.out[n].role \in {"user", "assistant"}
  BY <1>1 DEF Closes
<1>9. /\ out \in Seq(Msgs) /\ Rounded(out, TRUE) /\ Awaits(out, told, m.pending)
      /\ \A n \in 1 .. Len(out) : out[n].role \in {"user", "assistant"}
  <2>1. CASE m.phase = "calls"
    <3>1. out = Append(m.out, asking) /\ told = << >>
      BY <2>1 DEF told
    <3>2. /\ m.blocks # << >> /\ Len(m.blocks) = Cardinality(m.pending)
          /\ ToSet(m.blocks) = IdsOf(m.pending) /\ Rounded(m.out, FALSE)
      BY <2>1 DEF Closes
    <3>3. Rounded(Append(m.out, asking), ~ FALSE /\ asking.ids # << >>)
      BY <1>3, <1>6, <1>7, <3>2, RoundedAppend
    <3>4. Rounded(Append(m.out, asking), TRUE)
      BY <1>7, <3>2, <3>3
    <3> DEFINE t == Append(m.out, asking)
    <3>5. t \in Seq(Msgs) /\ Len(t) = Len(m.out) + 1 /\ t[Len(t)] = asking /\ t # << >>
      BY <1>3, <1>6
    <3>6. \A n \in 1 .. Len(t) : t[n].role \in {"user", "assistant"}
      BY <1>3, <1>6, <1>7, <1>8, RolesAppend
    <3> HIDE DEF t
    <3>7. Len(<< >>) = 0 /\ ToSet(<< >>) = {} /\ 0 + Cardinality(m.pending) = Cardinality(m.pending)
      <4>1. Cardinality(m.pending) \in Nat
        BY <1>8, FS_CardinalityType
      <4> QED
        BY <4>1 DEF ToSet
    <3>8. Awaits(t, told, m.pending)
      BY <1>7, <3>1, <3>2, <3>5, <3>7 DEF Awaits, Asks
    <3> QED
      BY <3>1, <3>4, <3>5, <3>6, <3>8 DEF t
  <2>2. CASE m.phase = "results"
    BY <1>3, <1>8, <2>2 DEF Closes, told
  <2> QED
    BY <1>1, <2>1, <2>2
<1> HIDE DEF out
<1> DEFINE asked == out[Len(out)]
<1>10. /\ out # << >> /\ Asks(asked) /\ Len(told) + Cardinality(m.pending) = Len(asked.ids)
       /\ ToSet(told) \union IdsOf(m.pending) = ToSet(asked.ids)
  BY <1>9 DEF Awaits
<1>11. CASE m.pending = {call}
  <2>1. Cardinality(m.pending) = 1 /\ IdsOf(m.pending) = {x.id}
    <3>1. Cardinality({call}) = 1
      BY FS_Singleton
    <3>2. IdsOf({call}) = {x.id}
      BY DEF IdsOf, call
    <3> QED
      BY <1>11, <3>1, <3>2
  <2>2. SameIds(asked.ids, answer.ids)
    BY <1>4, <1>5, <1>7, <1>10, <2>1 DEF SameIds
  <2>3. Rounded(Append(out, answer), ~ TRUE /\ answer.ids # << >>)
    BY <1>6, <1>7, <1>9, <1>10, <2>2, RoundedAppend
  <2>4. Rounded(Append(out, answer), FALSE)
    BY <2>3
  <2>5. \A n \in 1 .. Len(Append(out, answer)) : Append(out, answer)[n].role \in {"user", "assistant"}
    BY <1>6, <1>7, <1>9, RolesAppend
  <2>6. IsFiniteSet({})
    BY FS_EmptySet
  <2> QED
    BY <1>2, <1>11, <2>4, <2>5, <2>6 DEF Closes, next
<1>12. CASE m.pending # {call}
  <2> DEFINE left == m.pending \ {call}
  <2>1. IsFiniteSet(left) /\ Cardinality(left) = Cardinality(m.pending) - 1
        /\ Cardinality(m.pending) \in Nat
    BY <1>1, <1>8, FS_RemoveElement, FS_CardinalityType
  <2>2. IdsOf(left) \union {x.id} = IdsOf(m.pending)
    <3>1. call.id = x.id
      BY DEF call
    <3> QED
      BY <1>1, <3>1 DEF IdsOf
  <2> HIDE DEF left
  <2>3. Len(results) + Cardinality(left) = Len(asked.ids)
    BY <1>4, <1>10, <2>1
  <2>4. ToSet(results) \union IdsOf(left) = ToSet(asked.ids)
    BY <1>5, <1>10, <2>2
  <2>5. Awaits(out, results, left)
    BY <1>10, <2>3, <2>4 DEF Awaits
  <2> QED
    BY <1>2, <1>9, <1>12, <2>1, <2>5 DEF Closes, next, left
<1> QED
  BY <1>11, <1>12 DEF next

(* and hence of every log (materialize).                                    *)
LEMMA MachineCloses ==
    ASSUME NEW items \in Seq(Item)
    PROVE  Closes(materialize(items)) /\ materialize(items) \in Machines
<1> DEFINE S == {n \in Nat : n <= Len(items) => Closes(materialize(Upto(items, n)))}
<1>0. \A s \in Seq(Item) : materialize(s) \in Machines
  BY MachineTracks DEF Tracks
<1>1. 0 \in S
  <2>1. materialize(Upto(items, 0)) = Idle
    BY UptoEnds, MaterializeEmpty
  <2>2. Closes(Idle)
    <3>1. /\ Idle.phase = "idle" /\ Idle.pending = {} /\ Idle.blocks = << >> /\ Idle.out = << >>
          /\ Len(<< >>) = 0
      BY DEF Idle
    <3>2. IsFiniteSet({})
      BY FS_EmptySet
    <3>4. \A n \in 1 .. Len(Idle.out) : FALSE
      BY <3>1
    <3>5. Rounded(Idle.out, Idle.phase = "results")
      BY <3>4 DEF Rounded
    <3> QED
      BY <3>1, <3>2, <3>4, <3>5 DEF Closes
  <2> QED
    BY <2>1, <2>2
<1>2. ASSUME NEW n \in Nat, n \in S PROVE n + 1 \in S
  <2>1. SUFFICES ASSUME n + 1 <= Len(items) PROVE Closes(materialize(Upto(items, n + 1)))
    OBVIOUS
  <2> DEFINE x == items[n+1]
             p == Upto(items, n)
             m == materialize(p)
             next == MaterializeStep(m, x)
  <2>2. p \in Seq(Item) /\ x \in Item /\ Upto(items, n+1) = Append(p, x)
    BY <2>1, UptoNext
  <2>3. Closes(m)
    BY <1>2, <2>1
  <2> HIDE DEF x, p, S
  <2>4. m \in Machines /\ materialize(Append(p, x)) = next
    BY <1>0, <2>2, MaterializeAppend
  <2> HIDE DEF m
  <2>5. x.kind \in Kinds /\ m.phase \in {"idle", "calls", "results", "error"}
    BY <2>2, <2>4 DEF Item, Machines
  <2>6. Failed(m).phase = "error"
    BY <2>4 DEF Failed, Machines
  <2>7. \A t : t.phase = "error" => Closes(t)
    BY DEF Closes
  <2>8. Closes(next)
    <3>1. CASE m.phase = "error"
      <4>1. Failed(m) = m
        BY <2>4, <3>1 DEF Machines, Failed
      <4>2. ensure_idle(m, x) = m /\ append_call(m, x) = m /\ append_result(m, x) = m
        BY <3>1, <4>1 DEF ensure_idle, append_call, append_result
      <4>3. next = m
        BY <2>5, <3>1, <4>1, <4>2 DEF MaterializeStep, Kinds
      <4> QED
        BY <2>3, <4>3
    <3>2. CASE m.phase # "error" /\ x.kind \in {"user", "assistant"}
      <4>1. next = ensure_idle(m, x)
        BY <3>2 DEF MaterializeStep
      <4>2. CASE m.phase = "idle"
        BY <2>2, <2>3, <2>4, <3>2, <4>1, <4>2, PlainCloses
      <4>3. CASE m.phase # "idle"
        BY <2>6, <2>7, <4>1, <4>3 DEF ensure_idle
      <4> QED
        BY <4>2, <4>3
    <3>3. CASE m.phase # "error" /\ x.kind = "call"
      <4>1. next = append_call(m, x)
        BY <3>3 DEF MaterializeStep
      <4>2. CASE Fresh(m, x)
        BY <2>2, <2>3, <2>4, <4>1, <4>2, CallCloses
      <4>3. CASE ~ Fresh(m, x)
        BY <2>6, <2>7, <4>1, <4>3 DEF append_call, Fresh
      <4> QED
        BY <4>2, <4>3
    <3>4. CASE m.phase # "error" /\ x.kind = "result"
      <4>1. next = append_result(m, x)
        BY <3>4 DEF MaterializeStep
      <4>2. CASE Expected(m, x)
        BY <2>2, <2>3, <2>4, <4>1, <4>2, ResultCloses
      <4>3. CASE ~ Expected(m, x)
        BY <2>6, <2>7, <4>1, <4>3 DEF append_result, Expected
      <4> QED
        BY <4>2, <4>3
    <3>5. CASE m.phase # "error" /\ x.kind = "checkpoint"
      <4>1. next = m
        BY <3>5 DEF MaterializeStep
      <4> QED
        BY <2>3, <4>1
    <3>6. CASE m.phase # "error" /\ x.kind = "compaction"
      <4>1. next = Failed(m)
        BY <3>6 DEF MaterializeStep
      <4> QED
        BY <2>6, <2>7, <4>1
    <3> QED
      BY <2>5, <3>1, <3>2, <3>3, <3>4, <3>5, <3>6 DEF Kinds
  <2> QED
    BY <2>2, <2>4, <2>8
<1> HIDE DEF S
<1>3. \A n \in Nat : n \in S
  BY <1>1, <1>2, Induction
<1>4. Len(items) \in S /\ Upto(items, Len(items)) = items /\ Len(items) \in Nat
  BY <1>3, UptoEnds
<1> QED
  BY <1>0, <1>4 DEF S

(* A conversation carries the messages `out` of a log.                      *)
Carries(messages, out) ==
    /\ Sendable(messages) /\ Len(out) = Len(messages) /\ Rounded(out, FALSE)
    /\ \A n \in 1 .. Len(messages) :
         /\ messages[n].role = out[n].role /\ out[n].role \in {"user", "assistant"}
         /\ out[n].ids \in Seq(Matters)
         /\ Picked(messages[n].content, "tool_use")
              = IF out[n].role = "assistant" THEN out[n].ids ELSE << >>
         /\ Picked(messages[n].content, "tool_result")
              = IF out[n].role = "user" THEN out[n].ids ELSE << >>
         /\ out[n].role = "user" => (ResultContent(messages[n].content) <=> out[n].ids # << >>)

(* Blocks of one kind: only that kind is picked, all of it.                 *)
LEMMA AllOfKind ==
    ASSUME NEW ids \in Seq(Matters), NEW kind \in {"tool_use", "tool_result"}
    PROVE  LET s == [k \in 1 .. Len(ids) |-> ContentBlock(kind, ids[k])] IN
           /\ s \in Seq(Held({kind})) /\ Len(s) = Len(ids)
           /\ \A other : Picked(s, other) = IF other = kind THEN ids ELSE << >>
<1> DEFINE s == [k \in 1 .. Len(ids) |-> ContentBlock(kind, ids[k])]
           d == Len(ids)
           B == Held({kind})
<1>1. d \in Nat /\ \A k \in 1 .. d : ids[k] \in Matters
  OBVIOUS
<1>2. ASSUME NEW k \in 1 .. d
      PROVE  s[k] = ContentBlock(kind, ids[k]) /\ s[k] \in B /\ s[k].what = ids[k]
  <2>1. ids[k] \in Matters
    BY <1>1
  <2> QED
    BY <2>1 DEF ContentBlock, Held, Contents
<1>3. s = [k \in 1 .. d |-> s[k]]
  OBVIOUS
<1>4. \A b \in B : b.kind = kind
  BY DEF Held
<1>5. ids = [k \in 1 .. d |-> ids[k]]
  OBVIOUS
<1> HIDE DEF s, d, B
<1>6. s \in Seq(B) /\ Len(s) = d
  BY <1>1, <1>2, <1>3, Sequence
<1>7. Whats(s) = ids
  BY <1>2, <1>5, <1>6 DEF Whats
<1>8. Picked(s, kind) = ids
  BY <1>4, <1>6, <1>7, PickedAll
<1>9. ASSUME NEW other, other # kind PROVE Picked(s, other) = << >>
  BY <1>4, <1>6, <1>9, PickedNone
<1> QED
  BY <1>6, <1>8, <1>9 DEF s, d, B

(* MessageContent makes such a message of each one of materialize.          *)
LEMMA MessageOne ==
    ASSUME NEW message \in Msgs, NEW n \in Nat, NEW blocks \in Seq({"text", "thinking"}),
           message.role \in {"user", "assistant"}, NEW m,
           m.role = message.role, m.content = MessageContent(message, n, blocks)
    PROVE  /\ UserMessage(m) \/ AssistantMessage(m)
           /\ message.ids \in Seq(Matters)
           /\ Picked(m.content, "tool_use")
                = IF message.role = "assistant" THEN message.ids ELSE << >>
           /\ Picked(m.content, "tool_result")
                = IF message.role = "user" THEN message.ids ELSE << >>
           /\ message.role = "user" => (ResultContent(m.content) <=> message.ids # << >>)
<1> DEFINE ids == message.ids
           c == m.content
<1>1. ids \in Seq(Matters)
  <2>1. ids \in Seq(CallIds \union {None})
    BY DEF Msgs, IdLists
  <2>2. CallIds \union {None} \subseteq Matters
    BY DEF Matters
  <2> QED
    BY <2>1, <2>2
<1>2. CASE ids = << >> /\ message.role = "user"
  <2> DEFINE b == ContentBlock("text", <<n, 1>>)
  <2>1. c = <<b>>
    BY <1>2 DEF MessageContent
  <2>2. b \in Contents /\ b.kind = "text"
    BY DEF ContentBlock, Contents, Matters
  <2> HIDE DEF b
  <2>3. c \in Seq(Contents) /\ Len(c) = 1 /\ c[1] = b /\ c \in Seq(Held({"text"}))
    <3>1. b \in Held({"text"})
      BY <2>2 DEF Held
    <3> QED
      BY <2>1, <2>2, <3>1
  <2>4. UserMessage(m)
    BY <1>2, <2>2, <2>3 DEF UserMessage
  <2>5. Picked(c, "tool_use") = << >> /\ Picked(c, "tool_result") = << >>
    BY <2>3, PickedHeld
  <2>6. ~ ResultContent(c)
    <3>1. SUFFICES ASSUME c \in Seq(Held({"tool_result"})) PROVE FALSE
      BY DEF ResultContent
    <3>2. 1 \in 1 .. Len(c)
      BY <2>3
    <3>3. c[1] \in Held({"tool_result"})
      BY <3>1, <3>2, ElementOf
    <3> QED
      BY <2>2, <2>3, <3>3 DEF Held
  <2> QED
    BY <1>1, <1>2, <2>4, <2>5, <2>6
<1>3. CASE ids = << >> /\ message.role = "assistant"
  <2> DEFINE made(k) == ContentBlock(blocks[k], <<n, k>>)
             d == Len(blocks)
             B == Held({"text", "thinking"})
  <2>1. c = [k \in 1 .. d |-> made(k)]
    BY <1>3 DEF MessageContent
  <2>2. d \in Nat /\ \A k \in 1 .. d : blocks[k] \in {"text", "thinking"} /\ k \in Nat
    OBVIOUS
  <2>3. ASSUME NEW k \in 1 .. d PROVE made(k) \in B
    BY <2>2 DEF ContentBlock, Held, Contents, Matters
  <2> HIDE DEF made, B, d
  <2>4. c = [k \in 1 .. d |-> c[k]] /\ \A k \in 1 .. d : c[k] \in B
    BY <2>1, <2>3
  <2> HIDE DEF c
  <2>5. c \in Seq(B)
    BY <2>2, <2>4, Sequence
  <2>6. Picked(c, "tool_use") = << >> /\ Picked(c, "tool_result") = << >>
    BY <2>5, PickedHeld DEF B
  <2>7. Held({"text", "thinking"}) \subseteq Held({"text", "thinking", "tool_use"})
    BY DEF Held
  <2>8. c \in Seq(Held({"text", "thinking", "tool_use"}))
    BY <2>5, <2>7 DEF B
  <2>9. AssistantMessage(m)
    BY <1>3, <2>8 DEF AssistantMessage, c
  <2> QED
    BY <1>1, <1>3, <2>6, <2>9 DEF c
<1>4. CASE ids # << >> /\ message.role = "assistant"
  <2>1. c = [k \in 1 .. Len(ids) |-> ContentBlock("tool_use", ids[k])]
    BY <1>4 DEF MessageContent
  <2> HIDE DEF ids
  <2>2. /\ c \in Seq(Held({"tool_use"}))
        /\ \A other : Picked(c, other) = IF other = "tool_use" THEN ids ELSE << >>
    BY <1>1, <2>1, AllOfKind
  <2> HIDE DEF c
  <2>3. Held({"tool_use"}) \subseteq Held({"text", "thinking", "tool_use"})
    BY DEF Held
  <2>4. c \in Seq(Held({"text", "thinking", "tool_use"}))
    BY <2>2, <2>3
  <2>5. AssistantMessage(m)
    BY <1>4, <2>4 DEF AssistantMessage, c
  <2> QED
    BY <1>1, <1>4, <2>2, <2>5 DEF c, ids
<1>5. CASE ids # << >> /\ message.role = "user"
  <2>1. c = [k \in 1 .. Len(ids) |-> ContentBlock("tool_result", ids[k])]
    BY <1>5 DEF MessageContent
  <2> HIDE DEF ids
  <2>2. /\ c \in Seq(Held({"tool_result"})) /\ Len(c) = Len(ids)
        /\ \A other : Picked(c, other) = IF other = "tool_result" THEN ids ELSE << >>
    BY <1>1, <2>1, AllOfKind
  <2> HIDE DEF c
  <2>3. c # << >>
    BY <1>1, <1>5, <2>2
  <2>4. c \in Seq(Contents)
    BY <2>2, HeldType
  <2>5. ResultContent(c)
    BY <2>2, <2>3 DEF ResultContent
  <2>6. UserMessage(m)
    BY <1>5, <2>4, <2>5 DEF UserMessage, c
  <2> QED
    BY <1>1, <1>5, <2>2, <2>5, <2>6 DEF c, ids
<1> QED
  BY <1>2, <1>3, <1>4, <1>5

(* The conversation of every log that materializes carries its messages.    *)
LEMMA ConversationCarries ==
    ASSUME NEW items \in Seq(Item), Materializes(items), NEW blocks \in Seq({"text", "thinking"})
    PROVE  Carries(Conversation(items, blocks), materialize(items).out)
<1> DEFINE out == materialize(items).out
           messages == Conversation(items, blocks)
<1>1. /\ out \in Seq(Msgs) /\ Rounded(out, FALSE)
      /\ \A n \in 1 .. Len(out) : out[n].role \in {"user", "assistant"}
  <2>1. Closes(materialize(items)) /\ materialize(items) \in Machines
    BY MachineCloses
  <2>2. materialize(items).phase = "idle"
    BY DEF Materializes
  <2> QED
    BY <2>1, <2>2 DEF Closes, Machines, Outs, Msgs
<1>2. messages = [n \in 1 .. Len(out) |->
                    [role |-> out[n].role, content |-> MessageContent(out[n], n, blocks)]]
  BY DEF Conversation
<1> HIDE DEF out, messages
<1>3. Len(messages) = Len(out) /\ Len(out) \in Nat
  BY <1>1, <1>2
<1>4. ASSUME NEW n \in 1 .. Len(out)
      PROVE  /\ UserMessage(messages[n]) \/ AssistantMessage(messages[n])
             /\ messages[n].role = out[n].role
             /\ out[n].ids \in Seq(Matters)
             /\ Picked(messages[n].content, "tool_use")
                  = IF out[n].role = "assistant" THEN out[n].ids ELSE << >>
             /\ Picked(messages[n].content, "tool_result")
                  = IF out[n].role = "user" THEN out[n].ids ELSE << >>
             /\ out[n].role = "user" => (ResultContent(messages[n].content) <=> out[n].ids # << >>)
  <2> DEFINE message == out[n]
             m == messages[n]
  <2>1. message \in Msgs /\ n \in Nat /\ message.role \in {"user", "assistant"}
    BY <1>1, <1>3
  <2>2. m.role = message.role /\ m.content = MessageContent(message, n, blocks)
    BY <1>2
  <2> HIDE DEF message, m
  <2>3. /\ UserMessage(m) \/ AssistantMessage(m)
        /\ message.ids \in Seq(Matters)
        /\ Picked(m.content, "tool_use")
             = IF message.role = "assistant" THEN message.ids ELSE << >>
        /\ Picked(m.content, "tool_result")
             = IF message.role = "user" THEN message.ids ELSE << >>
        /\ message.role = "user" => (ResultContent(m.content) <=> message.ids # << >>)
    BY <2>1, <2>2, MessageOne
  <2> QED
    BY <2>2, <2>3 DEF message, m
<1>5. Sendable(messages)
  BY <1>3, <1>4 DEF Sendable
<1> QED
  BY <1>1, <1>3, <1>4, <1>5 DEF Carries, out, messages

-----------------------------------------------------------------------------
(* What is said in a request.                                               *)

(* What the blocks of a kind hold, in the whole conversation.               *)
Told(messages, kind) == [n \in 1 .. Len(messages) |-> Picked(messages[n].content, kind)]

(* These are sequences of what blocks are about.                            *)
LEMMA ToldType ==
    ASSUME NEW messages, Sendable(messages), NEW kind
    PROVE  Told(messages, kind) \in Seq(Seq(Matters)) /\ Len(Told(messages, kind)) = Len(messages)
<1>1. ASSUME NEW n \in 1 .. Len(messages)
      PROVE  Picked(messages[n].content, kind) \in Seq(Matters)
  <2>1. messages[n].content \in Seq(Contents)
    BY ContentsOf DEF Sendable
  <2>2. About(Contents, Matters)
    BY DEF About, Contents
  <2> QED
    BY <2>1, <2>2, PickedKinds
<1> DEFINE Y == Seq(Matters)
           t == Told(messages, kind)
<1>2. t = [n \in 1 .. Len(messages) |-> t[n]] /\ \A n \in 1 .. Len(messages) : t[n] \in Y
  BY <1>1 DEF Told
<1>3. Len(messages) \in Nat
  BY DEF Sendable
<1> HIDE DEF Y, t
<1>4. t \in Seq(Y) /\ Len(t) = Len(messages)
  BY <1>2, <1>3, Sequence
<1> QED
  BY <1>4 DEF Y, t

(* All of a request, the prompt first.                                     *)
All(family, system, messages) ==
    Prompt(family, system) \o FlattenSeq(Encodings(family, messages))

(* The whole request says what the conversation tells, the prompt first.    *)
LEMMA AllSays ==
    ASSUME NEW family \in Families, NEW system \in BOOLEAN, NEW messages, Sendable(messages),
           NEW kind \in PartKinds
    PROVE  /\ All(family, system, messages) \in Seq(Wires)
           /\ WireGist(All(family, system, messages), kind)
                = (IF system /\ kind = "text" THEN <<"system">> ELSE << >>)
                  \o (IF kind = "thinking" /\ ~ Keeps(family) THEN << >>
                      ELSE FlattenSeq(Told(messages, Source(kind))))
<1> DEFINE p == Prompt(family, system)
           seqs == Encodings(family, messages)
           h == WireGists(kind)
           first == IF system /\ kind = "text" THEN <<"system">> ELSE << >>
           drops == kind = "thinking" /\ ~ Keeps(family)
<1>1. p \in Seq(Wires) /\ WireGist(p, kind) = first
  BY PromptSays
<1>2. seqs \in Seq(Seq(Wires)) /\ Len(seqs) = Len(messages)
  BY EncodingsType
<1>3. Reads(h, Wires, Matters) /\ \A w \in Seq(Wires) : h[w] = WireGist(w, kind)
  BY WireReads
<1>4. ASSUME NEW n \in 1 .. Len(messages)
      PROVE  h[seqs[n]] = IF drops THEN << >> ELSE Picked(messages[n].content, Source(kind))
  <2>1. UserMessage(messages[n]) \/ AssistantMessage(messages[n])
    BY DEF Sendable
  <2>2. Says(Encoded(family, messages[n]), messages[n], Keeps(family))
    BY <2>1, EncodedSays
  <2>3. seqs[n] = Encoded(family, messages[n])
    BY DEF Encodings
  <2>4. seqs[n] \in Seq(Wires)
       /\ WireGist(seqs[n], kind) = IF drops THEN << >> ELSE Picked(messages[n].content, Source(kind))
    BY <2>2, <2>3 DEF Says
  <2> HIDE DEF h, seqs, drops
  <2> QED
    BY <1>3, <2>4
<1> HIDE DEF seqs, h, p, first
<1> DEFINE flat == FlattenSeq(seqs)
<1>5. flat \in Seq(Wires)
  BY <1>2, FlatType
<1>6. h[flat] = FlattenSeq(Each(h, seqs))
  BY <1>2, <1>3, ReadsFlat
<1>7. FlattenSeq(Each(h, seqs)) = IF drops THEN << >> ELSE FlattenSeq(Told(messages, Source(kind)))
  <2>1. CASE drops
    <3>1. Each(h, seqs) = [n \in 1 .. Len(messages) |-> << >>]
      BY <1>2, <1>4, <2>1 DEF Each
    <3>2. Len(messages) \in Nat
      BY DEF Sendable
    <3> QED
      BY <2>1, <3>1, <3>2, FlatNothing
  <2>2. CASE ~ drops
    <3>1. Each(h, seqs) = Told(messages, Source(kind))
      BY <1>2, <1>4, <2>2 DEF Each, Told
    <3> QED
      BY <2>2, <3>1
  <2> QED
    BY <2>1, <2>2
<1> HIDE DEF flat
<1>8. h[p \o flat] = h[p] \o h[flat] /\ p \o flat \in Seq(Wires)
  BY <1>1, <1>3, <1>5, ConcatType DEF Reads
<1>9. WireGist(p \o flat, kind) = first \o (IF drops THEN << >> ELSE FlattenSeq(Told(messages, Source(kind))))
  BY <1>1, <1>3, <1>6, <1>7, <1>8 DEF flat
<1> QED
  BY <1>8, <1>9 DEF All, p, seqs, flat, first, drops

(* What is said in a request is what was said in the conversation.          *)
LEMMA SaidOnWire ==
    ASSUME NEW family \in Families, NEW system \in BOOLEAN, NEW messages, Sendable(messages),
           NEW body, body.messages = All(family, system, messages)
    PROVE  /\ Said(body, "text") = ConversationSaid(system, messages, "text")
           /\ Said(body, "thinking") =
                IF Keeps(family) THEN ConversationSaid(system, messages, "thinking") ELSE << >>
           /\ PartsOf(body) = Gathered(body.messages)
<1> DEFINE w == All(family, system, messages)
<1>1. PartsOf(body) = Gathered(w) /\ PartsOf(body) = Gathered(body.messages)
  BY DEF PartsOf, Gathered
<1>2. \A kind \in {"text", "thinking"} : Said(body, kind) = WireGist(w, kind)
  BY <1>1 DEF Said, WireGist, Gist, Picked
<1>3. \A kind \in {"text", "thinking"} :
        ConversationSaid(system, messages, kind)
          = (IF system /\ kind = "text" THEN <<"system">> ELSE << >>)
            \o FlattenSeq(Told(messages, kind))
  BY DEF ConversationSaid, Told, Picked
<1>4. "text" \in PartKinds /\ "thinking" \in PartKinds
  BY DEF PartKinds
<1>5. Source("text") = "text" /\ Source("thinking") = "thinking"
  BY DEF Source
<1> HIDE DEF w
<1>6. WireGist(w, "text") = ConversationSaid(system, messages, "text")
  <2>1. \A kind \in PartKinds :
          WireGist(w, kind)
            = (IF system /\ kind = "text" THEN <<"system">> ELSE << >>)
              \o (IF kind = "thinking" /\ ~ Keeps(family) THEN << >>
                  ELSE FlattenSeq(Told(messages, Source(kind))))
    BY AllSays DEF w
  <2>2. WireGist(w, "text")
          = (IF system THEN <<"system">> ELSE << >>) \o FlattenSeq(Told(messages, "text"))
    BY <1>4, <1>5, <2>1
  <2> QED
    BY <1>3, <2>2
<1>7. WireGist(w, "thinking")
        = << >> \o (IF ~ Keeps(family) THEN << >> ELSE FlattenSeq(Told(messages, "thinking")))
  <2>1. \A kind \in PartKinds :
          WireGist(w, kind)
            = (IF system /\ kind = "text" THEN <<"system">> ELSE << >>)
              \o (IF kind = "thinking" /\ ~ Keeps(family) THEN << >>
                  ELSE FlattenSeq(Told(messages, Source(kind))))
    BY AllSays DEF w
  <2> QED
    BY <1>4, <1>5, <2>1
<1>8. << >> \o << >> = << >>
  OBVIOUS
<1> QED
  BY <1>1, <1>2, <1>3, <1>6, <1>7, <1>8

(* As many results as calls.                                               *)
LEMMA AsManyResults ==
    ASSUME NEW messages, NEW out, Carries(messages, out)
    PROVE  Len(FlattenSeq(Told(messages, "tool_use"))) = Len(FlattenSeq(Told(messages, "tool_result")))
<1> DEFINE d == Len(messages)
           calls == Told(messages, "tool_use")
           results == Told(messages, "tool_result")
           C(n) == FlattenSeq(Upto(calls, n))
           R(n) == FlattenSeq(Upto(results, n))
           owed(n) == IF n > 0 /\ Asks(out[n]) THEN Len(out[n].ids) ELSE 0
           S == {n \in Nat : n <= d => Len(C(n)) = Len(R(n)) + owed(n)}
<1>1. /\ Sendable(messages) /\ Len(out) = d /\ Rounded(out, FALSE) /\ d \in Nat
  BY DEF Carries, Sendable
<1>2. /\ calls \in Seq(Seq(Matters)) /\ Len(calls) = d
      /\ results \in Seq(Seq(Matters)) /\ Len(results) = d
  BY <1>1, ToldType
<1>3. ASSUME NEW n \in 1 .. d
      PROVE  /\ calls[n] = IF out[n].role = "assistant" THEN out[n].ids ELSE << >>
             /\ results[n] = IF out[n].role = "user" THEN out[n].ids ELSE << >>
             /\ out[n].role \in {"user", "assistant"} /\ Len(out[n].ids) \in Nat
             /\ out[n].ids = << >> <=> Len(out[n].ids) = 0
  <2>1. out[n].ids \in Seq(Matters)
    BY DEF Carries
  <2>2. Len(out[n].ids) \in Nat /\ (out[n].ids = << >> <=> Len(out[n].ids) = 0)
    BY <2>1
  <2> QED
    BY <2>2 DEF Carries, Told
<1>4. Len(<< >>) = 0
  OBVIOUS
<1> HIDE DEF calls, results, d, C, R, owed
<1>5. 0 \in S
  <2>1. C(0) = << >> /\ R(0) = << >>
    BY <1>2, UptoEnds, FlatEmpty DEF C, R
  <2>2. owed(0) = 0
    BY DEF owed
  <2> QED
    BY <1>4, <2>1, <2>2
<1>6. ASSUME NEW n \in Nat, n \in S PROVE n + 1 \in S
  <2>1. SUFFICES ASSUME n + 1 <= d PROVE Len(C(n+1)) = Len(R(n+1)) + owed(n+1)
    OBVIOUS
  <2>2. n < Len(calls) /\ n < Len(results) /\ n + 1 \in 1 .. d
    BY <1>1, <1>2, <2>1
  <2>3. Len(C(n)) = Len(R(n)) + owed(n)
    BY <1>1, <1>6, <2>1
  <2>4. Len(C(n+1)) = Len(C(n)) + Len(calls[n+1]) /\ Len(C(n)) \in Nat
    <3> DEFINE p == Upto(calls, n)
               e == calls[n+1]
    <3>1. p \in Seq(Seq(Matters)) /\ e \in Seq(Matters) /\ Upto(calls, n+1) = Append(p, e)
      BY <1>2, <2>2, UptoNext
    <3> HIDE DEF p, e
    <3>2. FlattenSeq(Append(p, e)) = FlattenSeq(p) \o e /\ FlattenSeq(p) \in Seq(Matters)
      BY <3>1, FlatAppend
    <3>3. Len(FlattenSeq(p) \o e) = Len(FlattenSeq(p)) + Len(e) /\ Len(FlattenSeq(p)) \in Nat
      BY <3>1, <3>2, ConcatType
    <3> QED
      BY <3>1, <3>2, <3>3 DEF p, e, C
  <2>5. Len(R(n+1)) = Len(R(n)) + Len(results[n+1]) /\ Len(R(n)) \in Nat
    <3> DEFINE p == Upto(results, n)
               e == results[n+1]
    <3>1. p \in Seq(Seq(Matters)) /\ e \in Seq(Matters) /\ Upto(results, n+1) = Append(p, e)
      BY <1>2, <2>2, UptoNext
    <3> HIDE DEF p, e
    <3>2. FlattenSeq(Append(p, e)) = FlattenSeq(p) \o e /\ FlattenSeq(p) \in Seq(Matters)
      BY <3>1, FlatAppend
    <3>3. Len(FlattenSeq(p) \o e) = Len(FlattenSeq(p)) + Len(e) /\ Len(FlattenSeq(p)) \in Nat
      BY <3>1, <3>2, ConcatType
    <3> QED
      BY <3>1, <3>2, <3>3 DEF p, e, R
  <2>6. n > 0 /\ Asks(out[n]) =>
          out[n+1].role = "user" /\ Len(out[n].ids) = Len(out[n+1].ids) /\ out[n+1].ids # << >>
    <3>1. SUFFICES ASSUME n > 0, Asks(out[n])
                   PROVE  out[n+1].role = "user" /\ Len(out[n].ids) = Len(out[n+1].ids)
                          /\ out[n+1].ids # << >>
      OBVIOUS
    <3>2. n \in 1 .. d
      BY <1>1, <2>1, <3>1
    <3>3. out[n+1].role = "user" /\ SameIds(out[n].ids, out[n+1].ids)
      BY <1>1, <2>1, <3>1, <3>2 DEF Rounded, Asks
    <3> QED
      BY <1>3, <2>2, <3>1, <3>2, <3>3 DEF SameIds, Asks
  <2>7. out[n+1].role = "user" /\ out[n+1].ids # << >> => n > 0 /\ Asks(out[n])
    <3>1. SUFFICES ASSUME out[n+1].role = "user", out[n+1].ids # << >>
                   PROVE  n > 0 /\ Asks(out[n])
      OBVIOUS
    <3>2. n + 1 > 1 /\ out[(n+1)-1].role = "assistant" /\ out[(n+1)-1].ids # << >>
      BY <1>1, <2>2, <3>1 DEF Rounded
    <3>3. (n + 1) - 1 = n
      OBVIOUS
    <3> QED
      BY <3>2, <3>3 DEF Asks
  <2> HIDE DEF S
  <2>8. CASE out[n+1].role = "assistant"
    <3>1. ~ (n > 0 /\ Asks(out[n]))
      BY <2>6, <2>8
    <3>2. owed(n) = 0 /\ owed(n+1) = Len(out[n+1].ids)
      BY <1>3, <2>2, <2>8, <3>1 DEF Asks, owed
    <3>3. Len(calls[n+1]) = Len(out[n+1].ids) /\ Len(results[n+1]) = 0
      BY <1>3, <1>4, <2>2, <2>8
    <3> QED
      BY <1>3, <2>2, <2>3, <2>4, <2>5, <3>2, <3>3
  <2>9. CASE out[n+1].role = "user"
    <3>1. owed(n+1) = 0
      BY <2>9 DEF Asks, owed
    <3>2. Len(calls[n+1]) = 0 /\ Len(results[n+1]) = Len(out[n+1].ids)
      BY <1>3, <1>4, <2>2, <2>9
    <3>3. owed(n) = Len(out[n+1].ids)
      BY <1>3, <2>2, <2>6, <2>7, <2>9 DEF owed
    <3> QED
      BY <1>3, <2>2, <2>3, <2>4, <2>5, <3>1, <3>2, <3>3
  <2> QED
    BY <1>3, <2>2, <2>8, <2>9
<1> HIDE DEF S
<1>7. \A n \in Nat : n \in S
  BY <1>5, <1>6, Induction
<1>8. Len(C(d)) = Len(R(d)) + owed(d)
  BY <1>1, <1>7 DEF S
<1>9. owed(d) = 0
  <2>1. ASSUME d > 0, Asks(out[d]) PROVE FALSE
    <3>1. d \in 1 .. Len(out) /\ out[d].ids # << >> /\ out[d].role = "assistant" /\ ~ (d < Len(out))
      BY <1>1, <2>1 DEF Asks
    <3> QED
      BY <1>1, <3>1 DEF Rounded
  <2> QED
    BY <2>1 DEF owed
<1>10. C(d) = FlattenSeq(calls) /\ R(d) = FlattenSeq(results)
  BY <1>2, UptoEnds DEF C, R
<1>11. Len(R(d)) \in Nat
  <2>1. FlattenSeq(results) \in Seq(Matters)
    BY <1>2, FlatType
  <2> DEFINE r == FlattenSeq(results)
  <2>2. r \in Seq(Matters)
    BY <2>1
  <2> HIDE DEF r
  <2>3. Len(r) \in Nat
    BY <2>2
  <2> QED
    BY <1>10, <2>3 DEF r
<1> QED
  BY <1>8, <1>9, <1>10, <1>11 DEF calls, results

-----------------------------------------------------------------------------
(* What follows a message with calls.                                       *)

(* The results that follow a message are those of the messages r that come  *)
(* next: a single one, or a run of "tool" messages that the rest ends.     *)
Answering(r, rest) ==
    \/ Len(r) = 1 /\ r[1].role # "tool"
    \/ /\ r # << >> /\ \A k \in 1 .. Len(r) : r[k].role = "tool"
       /\ rest # << >> => rest[1].role # "tool"

(* These are the results that ResultsAfter reads.                           *)
LEMMA Following ==
    ASSUME NEW a \in Seq(Wires), NEW r \in Seq(Wires), NEW rest \in Seq(Wires), r # << >>,
           Answering(r, rest), NEW body, body.messages = a \o (r \o rest)
    PROVE  ResultsAfter(body, Len(a)) = WireGist(r, "result")
<1> DEFINE t == r \o rest
           d == Len(r)
<1>0. /\ r \o rest \in Seq(Wires) /\ Len(r \o rest) = Len(r) + Len(rest)
      /\ Len(r) \in Nat /\ Len(rest) \in Nat /\ Len(r) > 0
      /\ \A i \in 1 .. Len(r) : (r \o rest)[i] = r[i]
      /\ \A i \in Len(r) + 1 .. Len(r \o rest) : (r \o rest)[i] = rest[i - Len(r)]
  <2>1. r \in Seq(Wires) /\ rest \in Seq(Wires) /\ r # << >>
    OBVIOUS
  <2> QED
    BY <2>1, ConcatIndex
<1>1. /\ t \in Seq(Wires) /\ Len(t) = d + Len(rest) /\ d \in Nat /\ Len(rest) \in Nat
      /\ \A i \in 1 .. d : t[i] = r[i]
      /\ \A i \in d + 1 .. Len(t) : t[i] = rest[i - d]
  BY <1>0
<1>2. d > 0
  BY <1>0
<1> HIDE DEF t
<1>4. SubSeq(body.messages, Len(a) + 1, Len(body.messages)) = t
  <2>1. a \in Seq(Wires) /\ t \in Seq(Wires)
    BY <1>1
  <2>2. From(a \o t, Len(a)) = t
    BY <2>1, AfterFirst
  <2>3. body.messages = a \o t
    BY DEF t
  <2> QED
    BY <2>2, <2>3 DEF From
<1>5. t # << >> /\ t[1] = r[1] /\ 1 \in 1 .. d
  BY <1>1, <1>2
<1> DEFINE run == {k \in 0 .. Len(t) : \A j \in 1 .. k : t[j].role = "tool"}
           last == CHOOSE k \in run : \A j \in run : j <= k
<1>6. ResultsAfter(body, Len(a))
        = IF t[1].role = "tool" THEN FlattenSeq([k \in 1 .. last |-> Ids(t[k], "result")])
          ELSE Ids(t[1], "result")
  <2>1. ResultsAfter(body, Len(a)) = FirstResults(t)
    BY <1>4 DEF ResultsAfter
  <2>2. FirstResults(t)
          = IF t = << >> THEN << >>
            ELSE IF t[1].role = "tool"
            THEN FlattenSeq([k \in 1 .. last |-> Ids(t[k], "result")])
            ELSE Ids(t[1], "result")
    BY Zenon DEF FirstResults
  <2> HIDE DEF run, last
  <2> QED
    BY <2>1, <2>2, <1>5
<1>7. "result" \in PartKinds /\ "result" \notin {"text", "thinking"}
  BY DEF PartKinds
<1>8. \A m : Ids(m, "result") = Gist(m.parts, "result")
  BY <1>7 DEF Ids, Gist, Picked
<1>9. CASE Len(r) = 1 /\ r[1].role # "tool"
  <2>1. r = <<r[1]>> /\ r[1] \in Wires
    BY <1>9
  <2>2. Gathered(<<r[1]>>) = r[1].parts
    BY <2>1, GatheredSmall
  <2>3. WireGist(r, "result") = Gist(r[1].parts, "result")
    BY <2>1, <2>2 DEF WireGist
  <2> HIDE DEF last
  <2> QED
    BY <1>5, <1>6, <1>8, <1>9, <2>3
<1>10. CASE /\ \A k \in 1 .. d : r[k].role = "tool"
            /\ rest # << >> => rest[1].role # "tool"
  <2>1. \A k \in 1 .. d : t[k].role = "tool"
    BY <1>1, <1>10
  <2>2. d \in run
    BY <1>1, <2>1
  <2>3. ASSUME NEW k \in run PROVE k <= d
    <3>1. SUFFICES ASSUME k > d PROVE FALSE
      BY <1>1
    <3>2. d + 1 \in 1 .. k /\ d + 1 \in d + 1 .. Len(t) /\ (d + 1) - d = 1 /\ Len(rest) > 0
      BY <1>1, <3>1
    <3>3. t[d+1].role = "tool" /\ t[d+1] = rest[1] /\ rest # << >>
      BY <1>1, <3>2
    <3> QED
      BY <1>10, <3>3
  <2>4. \A k \in run : k \in Nat
    BY <1>1
  <2> HIDE DEF run
  <2>5. last = d
    <3>1. last \in run /\ \A j \in run : j <= last
      BY <2>2, <2>3
    <3> HIDE DEF last
    <3> QED
      BY <1>1, <2>2, <2>3, <2>4, <3>1
  <2> HIDE DEF last
  <2> DEFINE parts == [n \in 1 .. d |-> r[n].parts]
             h == [p \in Seq(Parts) |-> Gist(p, "result")]
  <2>6. /\ \A n \in 1 .. d : r[n].parts \in Seq(Parts) /\ parts[n] = r[n].parts
        /\ parts = [n \in 1 .. d |-> parts[n]]
    <3>1. \A n \in 1 .. d : r[n] \in Wires
      OBVIOUS
    <3> QED
      BY <3>1 DEF Wires
  <2>7. parts \in Seq(Seq(Parts)) /\ Len(parts) = d
    <3> DEFINE Y == Seq(Parts)
    <3>1. \A n \in 1 .. d : parts[n] \in Y
      BY <2>6
    <3> HIDE DEF Y, parts, d
    <3>2. parts \in Seq(Y) /\ Len(parts) = d
      BY <1>1, <2>6, <3>1, Sequence
    <3> QED
      BY <3>2 DEF Y
  <2>8. \A p \in Seq(Parts) : h[p] = Gist(p, "result") /\ Gist(p, "result") \in Seq(Matters)
    BY <1>7, GistReads
  <2>9. Reads(h, Parts, Matters)
    <3>1. h \in [Seq(Parts) -> Seq(Matters)]
      BY <2>8
    <3>2. << >> \in Seq(Parts) /\ \A s, u \in Seq(Parts) : s \o u \in Seq(Parts)
      BY ConcatType
    <3>3. h[<< >>] = << >>
      <4>1. h[<< >>] = Gist(<< >>, "result")
        BY <2>8, <3>2
      <4> QED
        BY <1>7, <3>2, <4>1, GistReads
    <3> HIDE DEF h
    <3>4. ASSUME NEW s \in Seq(Parts), NEW u \in Seq(Parts) PROVE h[s \o u] = h[s] \o h[u]
      <4>1. Gist(s \o u, "result") = Gist(s, "result") \o Gist(u, "result")
        BY <1>7, GistReads
      <4>2. s \o u \in Seq(Parts)
        BY <3>2
      <4> QED
        BY <2>8, <4>1, <4>2
    <3> QED
      BY <3>1, <3>3, <3>4 DEF Reads
  <2>10. Gathered(r) = FlattenSeq(parts)
    BY DEF Gathered
  <2>11. Gathered(r) \in Seq(Parts)
    BY GatheredEach
  <2>12. [k \in 1 .. d |-> Ids(t[k], "result")] = Each(h, parts)
    <3>1. \A k \in 1 .. d : Ids(t[k], "result") = h[parts[k]]
      BY <1>1, <1>8, <2>6, <2>8
    <3> HIDE DEF h, parts
    <3> QED
      BY <2>7, <3>1 DEF Each
  <2> HIDE DEF h, parts
  <2>13. h[FlattenSeq(parts)] = FlattenSeq(Each(h, parts))
    BY <2>7, <2>9, ReadsFlat
  <2>14. WireGist(r, "result") = h[FlattenSeq(parts)]
    BY <2>8, <2>10, <2>11 DEF WireGist
  <2> QED
    BY <1>5, <1>6, <2>1, <2>5, <2>12, <2>13, <2>14
<1> QED
  BY <1>9, <1>10 DEF Answering

(* The prompt and the encodings as one sequence of sequences.              *)
Pieces(family, system, messages) ==
    <<Prompt(family, system)>> \o Encodings(family, messages)

(* Concatenated, the pieces are the whole request.                          *)
LEMMA PiecesType ==
    ASSUME NEW family \in Families, NEW system \in BOOLEAN, NEW messages, Sendable(messages)
    PROVE  LET pieces == Pieces(family, system, messages) IN
           /\ pieces \in Seq(Seq(Wires)) /\ Len(pieces) = Len(messages) + 1
           /\ pieces[1] = Prompt(family, system)
           /\ \A n \in 1 .. Len(messages) : pieces[n+1] = Encoded(family, messages[n])
           /\ FlattenSeq(pieces) = All(family, system, messages)
<1> DEFINE Y == Seq(Wires)
           p == Prompt(family, system)
           e == Encodings(family, messages)
           one == <<p>>
           pieces == one \o e
           d == Len(messages)
<1>1. p \in Y /\ e \in Seq(Y) /\ Len(e) = d /\ \A n \in 1 .. d : e[n] = Encoded(family, messages[n])
  BY PromptSays, EncodingsType DEF Encodings
<1>2. d \in Nat
  BY DEF Sendable
<1> HIDE DEF p, e, Y, d
<1>3. one \in Seq(Y) /\ Len(one) = 1 /\ one[1] = p
  BY <1>1
<1> HIDE DEF one
<1>4. /\ pieces \in Seq(Y) /\ Len(pieces) = Len(one) + Len(e)
      /\ \A i \in 1 .. Len(one) : pieces[i] = one[i]
      /\ \A i \in Len(one) + 1 .. Len(pieces) : pieces[i] = e[i - Len(one)]
  <2>1. one \in Seq(Y) /\ e \in Seq(Y)
    BY <1>1, <1>3
  <2> QED
    BY <2>1, ConcatIndex
<1>5. pieces[1] = p /\ Len(pieces) = d + 1
  BY <1>1, <1>2, <1>3, <1>4
<1>6. ASSUME NEW n \in 1 .. d PROVE pieces[n+1] = Encoded(family, messages[n])
  <2>1. n + 1 \in Len(one) + 1 .. Len(pieces) /\ (n + 1) - Len(one) = n
    BY <1>2, <1>3, <1>5
  <2>2. pieces[n+1] = e[(n + 1) - Len(one)]
    BY <1>4, <2>1
  <2> QED
    BY <1>1, <2>1, <2>2
<1>7. FlattenSeq(pieces) = p \o FlattenSeq(e)
  <2>1. one \in Seq(Seq(Wires)) /\ e \in Seq(Seq(Wires)) /\ p \in Seq(Wires)
    BY <1>1, <1>3 DEF Y
  <2>2. FlattenSeq(one \o e) = FlattenSeq(one) \o FlattenSeq(e)
    BY <2>1, FlatConcat
  <2>3. FlattenSeq(one) = p
    BY <2>1, FlatOne DEF one
  <2> QED
    BY <2>2, <2>3
<1>8. pieces = Pieces(family, system, messages)
  BY DEF Pieces, one, p, e
<1>9. p \o FlattenSeq(e) = All(family, system, messages)
  BY DEF All, p, e
<1> HIDE DEF pieces
<1> QED
  BY <1>4, <1>5, <1>6, <1>7, <1>8, <1>9 DEF Y, p, d

(* What a piece says of the calls and the results, and how it is placed.   *)
LEMMA PieceSays ==
    ASSUME NEW family \in Families, NEW system \in BOOLEAN, NEW messages, Sendable(messages),
           NEW n \in 1 .. Len(messages)
    PROVE  LET piece == Pieces(family, system, messages)[n+1] IN
           /\ piece \in Seq(Wires)
           /\ WireGist(piece, "call") = Picked(messages[n].content, "tool_use")
           /\ WireGist(piece, "result") = Picked(messages[n].content, "tool_result")
           /\ Placed(piece, messages[n], Runs(family))
<1> DEFINE piece == Pieces(family, system, messages)[n+1]
<1>1. piece = Encoded(family, messages[n])
  BY PiecesType
<1>2. UserMessage(messages[n]) \/ AssistantMessage(messages[n])
  BY DEF Sendable
<1>3. /\ Says(piece, messages[n], Keeps(family))
      /\ Placed(piece, messages[n], Runs(family))
  BY <1>1, <1>2, EncodedSays
<1>4. "call" \in PartKinds /\ "result" \in PartKinds
      /\ Source("call") = "tool_use" /\ Source("result") = "tool_result"
      /\ "call" # "thinking" /\ "result" # "thinking"
  BY DEF PartKinds, Source
<1> HIDE DEF piece
<1>5. piece \in Seq(Wires) /\ WireGist(piece, "call") = Picked(messages[n].content, "tool_use")
  BY <1>3, <1>4 DEF Says
<1>6. WireGist(piece, "result") = Picked(messages[n].content, "tool_result")
  BY <1>3, <1>4 DEF Says
<1> QED
  BY <1>3, <1>5, <1>6 DEF piece

(* The n-th message of a request has the calls of the j-th message of the   *)
(* conversation, and is the piece made of it.                               *)
Opens(pieces, w, out, n, j) ==
    /\ Asks(out[j])
    /\ n = Len(FlattenSeq(Upto(pieces, j))) + 1
    /\ w[n] \in Wires
    /\ pieces[j+1] = <<w[n]>>
    /\ Gist(w[n].parts, "call") = out[j].ids

LEMMA CallPiece ==
    ASSUME NEW family \in Families, NEW system \in BOOLEAN, NEW messages, NEW out,
           Carries(messages, out), NEW n \in 1 .. Len(All(family, system, messages)),
           Gist(All(family, system, messages)[n].parts, "call") # << >>
    PROVE  \E j \in 1 .. Len(messages) :
             Opens(Pieces(family, system, messages), All(family, system, messages), out, n, j)
<1> DEFINE pieces == Pieces(family, system, messages)
           w == All(family, system, messages)
           Y == Seq(Wires)
<1>1. Sendable(messages) /\ Len(messages) \in Nat
  BY DEF Carries, Sendable
<1>2. /\ pieces \in Seq(Y) /\ Len(pieces) = Len(messages) + 1
      /\ pieces[1] = Prompt(family, system) /\ FlattenSeq(pieces) = w
  BY <1>1, PiecesType
<1>3. ASSUME NEW j \in 1 .. Len(messages)
      PROVE  /\ pieces[j+1] \in Y
             /\ WireGist(pieces[j+1], "call") = Picked(messages[j].content, "tool_use")
             /\ Placed(pieces[j+1], messages[j], Runs(family))
  BY <1>1, PieceSays
<1>4. "call" \in PartKinds /\ "call" # "text"
  BY DEF PartKinds
<1>5. WireGist(pieces[1], "call") = << >>
  BY <1>2, <1>4, PromptSays
<1> HIDE DEF pieces, w
<1>6. PICK i \in 1 .. Len(pieces) : \E k \in 1 .. Len(pieces[i]) :
             n = Len(FlattenSeq(Upto(pieces, i - 1))) + k /\ w[n] = pieces[i][k]
  <2>1. pieces \in Seq(Seq(Wires)) /\ n \in 1 .. Len(FlattenSeq(pieces))
    BY <1>2 DEF w, Y
  <2>2. \E i \in 1 .. Len(pieces) : \E k \in 1 .. Len(pieces[i]) :
             /\ n = Len(FlattenSeq(Upto(pieces, i - 1))) + k
             /\ FlattenSeq(pieces)[n] = pieces[i][k]
    BY <2>1, Located
  <2> QED
    BY <2>2, <1>2
<1>7. PICK k \in 1 .. Len(pieces[i]) :
             n = Len(FlattenSeq(Upto(pieces, i - 1))) + k /\ w[n] = pieces[i][k]
  BY <1>6
<1>8. pieces[i] \in Y
  BY <1>2
<1>9. Gist(w[n].parts, "call") # << >>
  BY DEF w
<1>10. WireGist(pieces[i], "call") # << >>
  <2>1. pieces[i] \in Seq(Wires) /\ k \in 1 .. Len(pieces[i])
    BY <1>8 DEF Y
  <2> DEFINE v == pieces[i]
  <2>2. v \in Seq(Wires) /\ k \in 1 .. Len(v) /\ Gist(v[k].parts, "call") # << >>
    BY <1>7, <1>9, <2>1
  <2> HIDE DEF v
  <2>3. WireGist(v, "call") # << >>
    BY <1>4, <2>2, GistWithin
  <2> QED
    BY <2>3 DEF v
<1> DEFINE j == i - 1
<1>11. i # 1
  BY <1>5, <1>10
<1>12. j \in 1 .. Len(messages) /\ j + 1 = i
  BY <1>1, <1>2, <1>11
<1> HIDE DEF j
<1>13. Picked(messages[j].content, "tool_use") # << >>
  BY <1>3, <1>10, <1>12
<1>14. /\ out[j].role = "assistant" /\ messages[j].role = "assistant" /\ out[j].ids # << >>
       /\ Picked(messages[j].content, "tool_use") = out[j].ids
  BY <1>12, <1>13 DEF Carries
<1>15. Len(pieces[i]) <= 1
  <2>1. Placed(pieces[i], messages[j], Runs(family))
    BY <1>3, <1>12
  <2> QED
    BY <2>1, <1>14 DEF Placed
<1>16. pieces[i] = <<w[n]>> /\ k = 1 /\ w[n] \in Wires
  <2> DEFINE v == pieces[i]
  <2>1. v \in Seq(Wires) /\ k \in 1 .. Len(v) /\ Len(v) <= 1 /\ w[n] = v[k]
    BY <1>7, <1>8, <1>15 DEF Y
  <2> HIDE DEF v
  <2>2. Len(v) = 1 /\ k = 1 /\ v = <<v[1]>> /\ v[1] \in Wires
    BY <2>1, Single
  <2> QED
    BY <2>1, <2>2 DEF v
<1>17. WireGist(pieces[i], "call") = Gist(w[n].parts, "call")
  BY <1>16, GatheredSmall DEF WireGist
<1>18. Gist(w[n].parts, "call") = out[j].ids
  BY <1>3, <1>12, <1>14, <1>17
<1>19. n = Len(FlattenSeq(Upto(pieces, j))) + 1
  BY <1>7, <1>16 DEF j
<1>20. Asks(out[j])
  BY <1>14 DEF Asks
<1> QED
  BY <1>12, <1>16, <1>18, <1>19, <1>20 DEF Opens, pieces, w

(* No run of "tool" messages goes on into the pieces after the m-th.       *)
LEMMA RunEnds ==
    ASSUME NEW pieces \in Seq(Seq(Wires)), NEW m \in 0 .. Len(pieces),
           \/ \A i \in m + 1 .. Len(pieces) : \A k \in 1 .. Len(pieces[i]) :
                pieces[i][k].role # "tool"
           \/ m < Len(pieces) => Len(pieces[m+1]) = 1 /\ pieces[m+1][1].role # "tool"
    PROVE  /\ FlattenSeq(From(pieces, m)) \in Seq(Wires)
           /\ FlattenSeq(From(pieces, m)) # << >> =>
                FlattenSeq(From(pieces, m))[1].role # "tool"
<1> DEFINE Y == Seq(Wires)
           s == From(pieces, m)
           rest == FlattenSeq(s)
<1>1. pieces \in Seq(Y)
  OBVIOUS
<1> HIDE DEF Y
<1>2. s \in Seq(Y) /\ Len(s) = Len(pieces) - m /\ \A k \in 1 .. Len(pieces) - m : s[k] = pieces[m+k]
  BY <1>1, FromType
<1>3. rest \in Seq(Wires)
  <2>1. s \in Seq(Seq(Wires))
    BY <1>2 DEF Y
  <2> QED
    BY <2>1, FlatType
<1> HIDE DEF s
<1>4. CASE \A i \in m + 1 .. Len(pieces) : \A k \in 1 .. Len(pieces[i]) : pieces[i][k].role # "tool"
  <2>1. SUFFICES ASSUME rest # << >> PROVE rest[1].role # "tool"
    BY <1>3 DEF s
  <2>2. 1 \in 1 .. Len(rest)
    <3> HIDE DEF rest
    <3> QED
      BY <1>3, <2>1
  <2>3. s \in Seq(Seq(Wires))
    BY <1>2 DEF Y
  <2>4. PICK i \in 1 .. Len(s) : \E k \in 1 .. Len(s[i]) : rest[1] = s[i][k]
    BY <2>2, <2>3, Located
  <2>5. i \in 1 .. Len(pieces) - m /\ m + i \in m + 1 .. Len(pieces) /\ s[i] = pieces[m+i]
    BY <1>1, <1>2
  <2> QED
    BY <1>4, <2>4, <2>5
<1>5. CASE m < Len(pieces) => Len(pieces[m+1]) = 1 /\ pieces[m+1][1].role # "tool"
  <2>1. CASE m = Len(pieces)
    <3>1. s = << >>
      BY <1>1, <1>2, <2>1
    <3> QED
      BY <1>3, <3>1, FlatEmpty DEF s
  <2>2. CASE m < Len(pieces)
    <3> DEFINE p == pieces[m+1]
               z == From(pieces, m + 1)
               one == <<p>>
    <3>1. m + 1 \in 0 .. Len(pieces) /\ m + 1 \in 1 .. Len(pieces)
      BY <1>1, <2>2
    <3>2. s = one \o z
      BY <1>1, <2>2, FromNext DEF s
    <3>3. p \in Y /\ z \in Seq(Y)
      BY <1>1, <3>1, FromType
    <3> HIDE DEF p, z
    <3>4. one \in Seq(Y)
      BY <3>3
    <3> HIDE DEF one
    <3>5. one \in Seq(Seq(Wires)) /\ z \in Seq(Seq(Wires)) /\ p \in Seq(Wires)
      BY <3>3, <3>4 DEF Y
    <3>6. rest = FlattenSeq(one) \o FlattenSeq(z)
      BY <3>2, <3>5, FlatConcat
    <3>7. FlattenSeq(one) = p /\ FlattenSeq(z) \in Seq(Wires)
      BY <3>5, FlatOne, FlatType DEF one
    <3> DEFINE q == FlattenSeq(z)
    <3>8. rest = p \o q /\ q \in Seq(Wires)
      BY <3>6, <3>7
    <3> HIDE DEF q, rest
    <3>9. Len(p) = 1 /\ p[1].role # "tool"
      BY <1>5, <2>2 DEF p
    <3>10. 1 \in 1 .. Len(p)
      BY <3>9
    <3>11. (p \o q)[1] = p[1]
      BY <3>5, <3>8, <3>10, ConcatIndex
    <3>12. rest[1].role # "tool"
      BY <3>8, <3>9, <3>11
    <3> QED
      BY <1>3, <3>12 DEF rest, s
  <2> QED
    BY <1>1, <2>1, <2>2
<1> QED
  BY <1>4, <1>5

(* Of a message with calls: the pieces of a request around it.             *)
LEMMA Around ==
    ASSUME NEW pieces \in Seq(Seq(Wires)), NEW j \in Nat, j > 0, j + 2 <= Len(pieces),
           NEW m \in Wires, pieces[j+1] = <<m>>
    PROVE  LET a == FlattenSeq(Upto(pieces, j + 1)) IN
           /\ a \in Seq(Wires)
           /\ Len(a) = Len(FlattenSeq(Upto(pieces, j))) + 1
           /\ FlattenSeq(pieces)
                = a \o (pieces[j+2] \o FlattenSeq(From(pieces, j + 2)))
<1> DEFINE Y == Seq(Wires)
           u == Upto(pieces, j)
           e == pieces[j+1]
           p == pieces[j+2]
           v == Upto(pieces, j + 1)
           f == From(pieces, j + 1)
           g == From(pieces, j + 2)
           one == <<p>>
<1>1. pieces \in Seq(Y) /\ Len(pieces) \in Nat
  OBVIOUS
<1> HIDE DEF Y
<1>2. /\ u \in Seq(Y) /\ v \in Seq(Y) /\ v = Append(u, e)
  <2>1. j < Len(pieces) /\ j + 1 \in 0 .. Len(pieces) /\ j \in 0 .. Len(pieces)
    BY <1>1
  <2> QED
    BY <1>1, <2>1, UptoNext, UptoType
<1>3. f \in Seq(Y) /\ g \in Seq(Y) /\ p \in Y /\ e \in Y
  <2>1. j + 1 \in 0 .. Len(pieces) /\ j + 2 \in 0 .. Len(pieces)
        /\ j + 2 \in 1 .. Len(pieces) /\ j + 1 \in 1 .. Len(pieces)
    BY <1>1
  <2>2. f \in Seq(Y)
    BY <1>1, <2>1, FromType
  <2>3. g \in Seq(Y)
    BY <1>1, <2>1, FromType
  <2>4. p \in Y /\ e \in Y
    BY <1>1, <2>1, ElementOf
  <2> QED
    BY <2>2, <2>3, <2>4
<1>4. pieces = v \o f
  <2>1. j + 1 \in 0 .. Len(pieces)
    BY <1>1
  <2> QED
    BY <1>1, <2>1, SplitAt
<1>5. f = one \o g
  <2> DEFINE i == j + 1
  <2>1. i \in 0 .. Len(pieces) /\ i < Len(pieces) /\ i + 1 = j + 2
    BY <1>1
  <2> HIDE DEF i
  <2>2. From(pieces, i) = <<pieces[i+1]>> \o From(pieces, i + 1)
    BY <1>1, <2>1, FromNext
  <2> QED
    BY <2>1, <2>2 DEF i
<1>6. e = <<m>>
  OBVIOUS
<1> HIDE DEF u, e, p, v, f, g
<1>7. one \in Seq(Y)
  BY <1>3
<1> HIDE DEF one
<1>8. /\ u \in Seq(Seq(Wires)) /\ v \in Seq(Seq(Wires)) /\ f \in Seq(Seq(Wires))
      /\ g \in Seq(Seq(Wires)) /\ one \in Seq(Seq(Wires)) /\ p \in Seq(Wires) /\ e \in Seq(Wires)
  BY <1>2, <1>3, <1>7 DEF Y
<1>9. FlattenSeq(v) = FlattenSeq(u) \o e /\ FlattenSeq(u) \in Seq(Wires)
      /\ FlattenSeq(v) \in Seq(Wires)
  BY <1>2, <1>8, FlatAppend, FlatType
<1>10. Len(FlattenSeq(v)) = Len(FlattenSeq(u)) + 1
  <2> DEFINE x == FlattenSeq(u)
  <2>1. x \in Seq(Wires) /\ e \in Seq(Wires)
    BY <1>8, <1>9
  <2> HIDE DEF x
  <2>2. Len(x \o e) = Len(x) + Len(e)
    BY <2>1, ConcatIndex
  <2>3. Len(e) = 1
    BY <1>6
  <2> QED
    BY <1>9, <2>2, <2>3 DEF x
<1>11. FlattenSeq(v \o f) = FlattenSeq(v) \o FlattenSeq(f)
  BY <1>8, FlatConcat
<1>12. FlattenSeq(f) = FlattenSeq(one) \o FlattenSeq(g)
  BY <1>5, <1>8, FlatConcat
<1>13. FlattenSeq(one) = p
  BY <1>8, FlatOne DEF one
<1>14. FlattenSeq(pieces) = FlattenSeq(v) \o (p \o FlattenSeq(g))
  BY <1>4, <1>11, <1>12, <1>13
<1> QED
  BY <1>9, <1>10, <1>14 DEF u, p, v, g

(* The message after the assistant message of a round answers it.          *)
LEMMA Replying ==
    ASSUME NEW messages, NEW out, Carries(messages, out), NEW j \in 1 .. Len(messages),
           Asks(out[j])
    PROVE  /\ j + 1 \in 1 .. Len(messages) /\ out[j+1].role = "user" /\ out[j+1].ids # << >>
           /\ SameIds(out[j].ids, out[j+1].ids)
           /\ messages[j+1].role = "user" /\ ResultContent(messages[j+1].content)
           /\ Picked(messages[j+1].content, "tool_result") = out[j+1].ids
           /\ j + 2 <= Len(messages) =>
                ~ (messages[j+2].role = "user" /\ ResultContent(messages[j+2].content))
<1>1. Len(messages) \in Nat /\ Len(out) = Len(messages) /\ Rounded(out, FALSE)
  BY DEF Carries, Sendable
<1>2. j < Len(out) /\ out[j+1].role = "user" /\ SameIds(out[j].ids, out[j+1].ids)
  BY <1>1 DEF Rounded, Asks
<1>3. j + 1 \in 1 .. Len(messages)
  BY <1>1, <1>2
<1>4. out[j].ids \in Seq(Matters) /\ out[j+1].ids \in Seq(Matters)
  BY <1>3 DEF Carries
<1>5. out[j+1].ids # << >>
  <2> DEFINE x == out[j].ids
             y == out[j+1].ids
  <2>1. x \in Seq(Matters) /\ x # << >> /\ Len(x) = Len(y)
    BY <1>2, <1>4 DEF Asks, SameIds
  <2> HIDE DEF x, y
  <2>2. y # << >>
    BY <2>1
  <2> QED
    BY <2>2 DEF y
<1>6. /\ messages[j+1].role = "user" /\ ResultContent(messages[j+1].content)
      /\ Picked(messages[j+1].content, "tool_result") = out[j+1].ids
  BY <1>2, <1>3, <1>5 DEF Carries
<1>7. ASSUME j + 2 <= Len(messages), messages[j+2].role = "user",
             ResultContent(messages[j+2].content)
      PROVE  FALSE
  <2>1. j + 2 \in 1 .. Len(messages) /\ (j + 2) - 1 = j + 1
    BY <1>1, <1>7
  <2>2. out[j+2].role = "user" /\ out[j+2].ids # << >>
    BY <1>7, <2>1 DEF Carries
  <2>3. out[(j + 2) - 1].role = "assistant"
    BY <1>1, <2>1, <2>2 DEF Rounded
  <2> QED
    BY <1>2, <2>1, <2>3
<1> QED
  BY <1>2, <1>3, <1>5, <1>6, <1>7

(* A request has, after a message with calls, exactly their results.       *)
LEMMA Answered ==
    ASSUME NEW family \in Families, NEW system \in BOOLEAN, NEW messages, NEW out,
           Carries(messages, out), NEW n \in 1 .. Len(All(family, system, messages)),
           Gist(All(family, system, messages)[n].parts, "call") # << >>
    PROVE  \E j \in 1 .. Len(messages) :
             /\ Asks(out[j])
             /\ Gist(All(family, system, messages)[n].parts, "call") = out[j].ids
             /\ \A body : body.messages = All(family, system, messages) =>
                  ResultsAfter(body, n) = out[j+1].ids
<1> DEFINE pieces == Pieces(family, system, messages)
           w == All(family, system, messages)
<1>1. Sendable(messages) /\ Len(messages) \in Nat
  BY DEF Carries, Sendable
<1>2. /\ pieces \in Seq(Seq(Wires)) /\ Len(pieces) = Len(messages) + 1
      /\ pieces[1] = Prompt(family, system) /\ FlattenSeq(pieces) = w
  BY <1>1, PiecesType
<1>3. ASSUME NEW i \in 1 .. Len(messages)
      PROVE  /\ pieces[i+1] \in Seq(Wires)
             /\ WireGist(pieces[i+1], "result") = Picked(messages[i].content, "tool_result")
             /\ Placed(pieces[i+1], messages[i], Runs(family))
  BY <1>1, PieceSays
<1>4a. PICK j \in 1 .. Len(messages) : Opens(pieces, w, out, n, j)
  BY CallPiece
<1>4. /\ Asks(out[j])
      /\ n = Len(FlattenSeq(Upto(pieces, j))) + 1
      /\ w[n] \in Wires
      /\ pieces[j+1] = <<w[n]>>
      /\ Gist(w[n].parts, "call") = out[j].ids
  BY <1>4a DEF Opens
<1> HIDE DEF pieces, w
<1>5. /\ j + 1 \in 1 .. Len(messages) /\ out[j+1].ids # << >>
      /\ messages[j+1].role = "user" /\ ResultContent(messages[j+1].content)
      /\ Picked(messages[j+1].content, "tool_result") = out[j+1].ids
      /\ j + 2 <= Len(messages) =>
                ~ (messages[j+2].role = "user" /\ ResultContent(messages[j+2].content))
  BY <1>4, Replying
<1> DEFINE r == pieces[j+2]
           a == FlattenSeq(Upto(pieces, j + 1))
           rest == FlattenSeq(From(pieces, j + 2))
<1>6. /\ r \in Seq(Wires) /\ WireGist(r, "result") = out[j+1].ids
      /\ Placed(r, messages[j+1], Runs(family))
  <2> DEFINE i == j + 1
  <2>1. i \in 1 .. Len(messages) /\ i + 1 = j + 2
    BY <1>5
  <2> HIDE DEF i
  <2>2. /\ pieces[i+1] \in Seq(Wires)
        /\ WireGist(pieces[i+1], "result") = Picked(messages[i].content, "tool_result")
        /\ Placed(pieces[i+1], messages[i], Runs(family))
    BY <1>3, <2>1
  <2> QED
    BY <1>5, <2>1, <2>2 DEF i
<1>7. a \in Seq(Wires) /\ Len(a) = n /\ w = a \o (r \o rest)
  <2>1. j \in Nat /\ j > 0 /\ j + 2 <= Len(pieces)
    BY <1>1, <1>2, <1>5
  <2> QED
    BY <1>2, <1>4, <2>1, Around
<1>8. r # << >>
  <2>1. WireGist(<< >>, "result") = << >>
    <3>1. "result" \in PartKinds /\ << >> \in Seq(Parts)
      BY DEF PartKinds
    <3> QED
      BY <3>1, GatheredSmall, GistReads DEF WireGist
  <2> QED
    BY <1>5, <1>6, <2>1
<1>9. \/ \A i \in (j + 2) + 1 .. Len(pieces) : \A k \in 1 .. Len(pieces[i]) :
                pieces[i][k].role # "tool"
      \/ j + 2 < Len(pieces) => Len(pieces[(j+2)+1]) = 1 /\ pieces[(j+2)+1][1].role # "tool"
  <2>1. CASE ~ Runs(family)
    <3>1. ASSUME NEW i \in (j + 2) + 1 .. Len(pieces), NEW k \in 1 .. Len(pieces[i])
          PROVE  pieces[i][k].role # "tool"
      <4> DEFINE h == i - 1
      <4>1. h \in 1 .. Len(messages) /\ h + 1 = i
        BY <1>1, <1>2
      <4> HIDE DEF h
      <4>2. Placed(pieces[h+1], messages[h], Runs(family))
        BY <1>3, <4>1
      <4> QED
        BY <2>1, <4>1, <4>2 DEF Placed
    <3> QED
      BY <3>1
  <2>2. CASE Runs(family)
    <3>1. SUFFICES ASSUME j + 2 < Len(pieces)
                   PROVE  Len(pieces[(j+2)+1]) = 1 /\ pieces[(j+2)+1][1].role # "tool"
      OBVIOUS
    <3> DEFINE i == j + 2
    <3>2. i \in 1 .. Len(messages) /\ i = j + 2 /\ i <= Len(messages)
      BY <1>1, <1>2, <3>1
    <3> HIDE DEF i
    <3>3. Placed(pieces[i+1], messages[i], Runs(family))
      BY <1>3, <3>2
    <3>4. ~ (messages[i].role = "user" /\ ResultContent(messages[i].content))
      BY <1>5, <3>2
    <3>5. Len(pieces[i+1]) <= 1 /\ Len(pieces[i+1]) = 1
          /\ \A k \in 1 .. Len(pieces[i+1]) : pieces[i+1][k].role # "tool"
      BY <2>2, <3>3, <3>4 DEF Placed
    <3> QED
      BY <3>2, <3>5
  <2> QED
    BY <2>1, <2>2
<1>10. rest \in Seq(Wires) /\ (rest # << >> => rest[1].role # "tool")
  <2> DEFINE m == j + 2
  <2>1. m \in 0 .. Len(pieces)
    BY <1>1, <1>2, <1>5
  <2>2. \/ \A i \in m + 1 .. Len(pieces) : \A k \in 1 .. Len(pieces[i]) :
                pieces[i][k].role # "tool"
        \/ m < Len(pieces) => Len(pieces[m+1]) = 1 /\ pieces[m+1][1].role # "tool"
    BY <1>9
  <2>3. rest = FlattenSeq(From(pieces, m))
    OBVIOUS
  <2> HIDE DEF m, rest
  <2> QED
    BY <1>2, <2>1, <2>2, <2>3, RunEnds
<1> HIDE DEF r, a, rest
<1>11. Answering(r, rest)
  <2>1. CASE Runs(family)
    <3>1. r # << >> /\ \A k \in 1 .. Len(r) : r[k].role = "tool"
      BY <1>5, <1>6, <2>1 DEF Placed
    <3> QED
      BY <1>10, <3>1 DEF Answering
  <2>2. CASE ~ Runs(family)
    <3>1. Len(r) <= 1 /\ \A k \in 1 .. Len(r) : r[k].role # "tool"
      BY <1>6, <2>2 DEF Placed
    <3>2. Len(r) = 1
      <4>1. r \in Seq(Wires) /\ r # << >>
        BY <1>6, <1>8
      <4>2. 1 \in 1 .. Len(r)
        BY <4>1
      <4> QED
        BY <3>1, <4>1, <4>2, Single
    <3> QED
      BY <3>1, <3>2 DEF Answering
  <2> QED
    BY <2>1, <2>2
<1>12. ASSUME NEW body, body.messages = w PROVE ResultsAfter(body, Len(a)) = WireGist(r, "result")
  <2>1. body.messages = a \o (r \o rest)
    BY <1>7, <1>12
  <2> QED
    BY <1>6, <1>7, <1>8, <1>10, <1>11, <2>1, Following
<1>13. \A body : body.messages = w => ResultsAfter(body, n) = out[j+1].ids
  BY <1>6, <1>7, <1>12
<1> QED
  BY <1>4, <1>13 DEF w

(* As many blocks of a kind as are picked.                                  *)
LEMMA CountPicked ==
    ASSUME NEW s \in Seq(Parts), NEW kind
    PROVE  Len(OfKind(s, kind)) = Len(Picked(s, kind))
<1> DEFINE W == Seq(Matters) \union Matters
<1>1. About(Parts, W)
  BY DEF About, Parts
<1> HIDE DEF W
<1>2. OfKind(s, kind) \in Seq(Parts)
  BY <1>1, PickedKinds
<1> DEFINE o == OfKind(s, kind)
<1>3. o \in Seq(Parts)
  BY <1>2
<1> HIDE DEF o
<1>4. Len(Whats(o)) = Len(o)
  <2>1. Len(o) \in Nat
    BY <1>3
  <2> QED
    BY <2>1 DEF Whats
<1> QED
  BY <1>4 DEF Picked, o

(* There is no result besides those of the calls.                          *)
LEMMA Counted ==
    ASSUME NEW family \in Families, NEW system \in BOOLEAN, NEW messages, NEW out,
           Carries(messages, out), NEW body, body.messages = All(family, system, messages)
    PROVE  Len(OfKind(PartsOf(body), "call")) = Len(OfKind(PartsOf(body), "result"))
<1> DEFINE w == All(family, system, messages)
           g == Gathered(w)
           calls == FlattenSeq(Told(messages, "tool_use"))
           results == FlattenSeq(Told(messages, "tool_result"))
<1>1. Sendable(messages)
  BY DEF Carries
<1>2. PartsOf(body) = g
  BY <1>1, SaidOnWire
<1>3. w \in Seq(Wires)
  <2>1. "call" \in PartKinds
    BY DEF PartKinds
  <2> QED
    BY <1>1, <2>1, AllSays
<1>4. /\ "call" \in PartKinds /\ "result" \in PartKinds
      /\ Source("call") = "tool_use" /\ Source("result") = "tool_result"
      /\ "call" \notin {"text", "thinking"} /\ "result" \notin {"text", "thinking"}
  BY DEF PartKinds, Source
<1>5. calls \in Seq(Matters) /\ results \in Seq(Matters)
  BY <1>1, ToldType, FlatType
<1>6. WireGist(w, "call") = << >> \o calls
  <2>1. WireGist(w, "call")
          = (IF system /\ "call" = "text" THEN <<"system">> ELSE << >>)
            \o (IF "call" = "thinking" /\ ~ Keeps(family) THEN << >>
                ELSE FlattenSeq(Told(messages, Source("call"))))
    BY <1>1, <1>4, AllSays
  <2> HIDE DEF w
  <2> QED
    BY <1>4, <2>1
<1>7. WireGist(w, "result") = << >> \o results
  <2>1. WireGist(w, "result")
          = (IF system /\ "result" = "text" THEN <<"system">> ELSE << >>)
            \o (IF "result" = "thinking" /\ ~ Keeps(family) THEN << >>
                ELSE FlattenSeq(Told(messages, Source("result"))))
    BY <1>1, <1>4, AllSays
  <2> HIDE DEF w
  <2> QED
    BY <1>4, <2>1
<1>8. Len(calls) = Len(results)
  BY AsManyResults
<1> HIDE DEF w, calls, results
<1>9. g \in Seq(Parts)
  BY <1>3, GatheredEach
<1>10. WireGist(w, "call") = Picked(g, "call") /\ WireGist(w, "result") = Picked(g, "result")
  BY <1>4 DEF WireGist, Gist
<1>11. << >> \o calls = calls /\ << >> \o results = results
  BY <1>5
<1> HIDE DEF g
<1>12. Len(OfKind(g, "call")) = Len(Picked(g, "call"))
       /\ Len(OfKind(g, "result")) = Len(Picked(g, "result"))
  BY <1>9, CountPicked
<1> QED
  BY <1>2, <1>6, <1>7, <1>8, <1>10, <1>11, <1>12

(* The rounds that are written in the order of their calls.                *)
LEMMA InCallOrder ==
    ASSUME NEW messages, NEW out, Carries(messages, out), ResultsInCallOrder(messages),
           NEW j \in 1 .. Len(messages), Asks(out[j])
    PROVE  out[j].ids = out[j+1].ids
<1>1. /\ j + 1 \in 1 .. Len(messages) /\ out[j+1].ids # << >>
      /\ Picked(messages[j+1].content, "tool_result") = out[j+1].ids
  BY Replying
<1> DEFINE s == OfKind(messages[j+1].content, "tool_result")
           t == OfKind(messages[j].content, "tool_use")
<1>2. Whats(s) = out[j+1].ids
  BY <1>1 DEF Picked
<1>3. Whats(t) = out[j].ids
  BY DEF Picked, Carries, Asks
<1>4. s # << >>
  <2>1. Whats(<< >>) = << >>
    BY DEF Whats
  <2> HIDE DEF s
  <2> QED
    BY <1>1, <1>2, <2>1
<1>5. j + 1 \in 2 .. Len(messages) /\ (j + 1) - 1 = j
  BY <1>1
<1>6. OfKind(messages[j+1].content, "tool_result") # << >> =>
            Whats(OfKind(messages[j+1].content, "tool_result"))
              = Whats(OfKind(messages[(j+1)-1].content, "tool_use"))
  BY <1>5 DEF ResultsInCallOrder
<1> QED
  BY <1>2, <1>3, <1>4, <1>5, <1>6

(* So the calls of a request are paired with their results.                 *)
LEMMA Paired ==
    ASSUME NEW family \in Families, NEW system \in BOOLEAN, NEW messages, NEW out,
           Carries(messages, out), NEW body, body.messages = All(family, system, messages),
           family # "google_generative_ai" \/ ResultsInCallOrder(messages)
    PROVE  CallsPaired(family, body)
<1> DEFINE w == All(family, system, messages)
<1>1. Len(OfKind(PartsOf(body), "call")) = Len(OfKind(PartsOf(body), "result"))
  BY Counted
<1>2. \A m : Ids(m, "call") = Gist(m.parts, "call")
  BY DEF Ids, Gist, Picked
<1>3. ASSUME NEW n \in 1 .. Len(w), Gist(w[n].parts, "call") # << >>
      PROVE  /\ SameIds(Gist(w[n].parts, "call"), ResultsAfter(body, n))
             /\ family = "google_generative_ai" => Gist(w[n].parts, "call") = ResultsAfter(body, n)
  <2>1. PICK j \in 1 .. Len(messages) :
             /\ Asks(out[j])
             /\ Gist(w[n].parts, "call") = out[j].ids
             /\ \A b : b.messages = w => ResultsAfter(b, n) = out[j+1].ids
    BY <1>3, Answered
  <2>2. ResultsAfter(body, n) = out[j+1].ids
    BY <2>1
  <2>3. SameIds(out[j].ids, out[j+1].ids)
    BY <2>1, Replying
  <2>4. family = "google_generative_ai" => out[j].ids = out[j+1].ids
    BY <2>1, InCallOrder
  <2> QED
    BY <2>1, <2>2, <2>3, <2>4
<1>4. ASSUME NEW n \in 1 .. Len(body.messages), Ids(body.messages[n], "call") # << >>
      PROVE  /\ SameIds(Ids(body.messages[n], "call"), ResultsAfter(body, n))
             /\ family = "google_generative_ai" =>
                  Ids(body.messages[n], "call") = ResultsAfter(body, n)
  <2>1. n \in 1 .. Len(w) /\ body.messages[n] = w[n]
    OBVIOUS
  <2> HIDE DEF w
  <2> QED
    BY <1>2, <1>3, <1>4, <2>1
<1> QED
  BY <1>1, <1>4 DEF CallsPaired

(* A model service can use the request made of a log.                      *)
Usable(items, blocks, family, system, config, registry, option) ==
    LET messages == Conversation(items, blocks)
        request  == compile(config, system, messages, registry)
        body     == encode_request(family, request, option)
    IN  /\ body.ok = (config.model /\ config.max_tokens > 0 /\ messages # << >>)
        /\ body.ok =>
             /\ Said(body, "text") = ConversationSaid(system, messages, "text")
             /\ Said(body, "thinking") =
                  IF family \in {"openai_chat", "anthropic_messages"}
                  THEN ConversationSaid(system, messages, "thinking") ELSE << >>
             /\ (family # "google_generative_ai" \/ ResultsInCallOrder(messages)) =>
                  CallsPaired(family, body)

(* It can use the request of every log that materializes.                  *)
LEMMA RequestOf ==
    ASSUME NEW items \in Seq(Item), Materializes(items),
           NEW blocks \in Seq({"text", "thinking"}), NEW family \in Families,
           NEW system \in BOOLEAN, NEW config \in LlmCallConfig, NEW registry, NEW option
    PROVE  Usable(items, blocks, family, system, config, registry, option)
<1> DEFINE messages == Conversation(items, blocks)
           out == materialize(items).out
           request == compile(config, system, messages, registry)
           body == encode_request(family, request, option)
           valid == config.model /\ config.max_tokens > 0 /\ messages # << >>
<1>1. Carries(messages, out)
  BY ConversationCarries
<1> HIDE DEF messages, out
<1>2. Sendable(messages)
  BY <1>1 DEF Carries
<1>3. request.messages = messages /\ request.system = system
  BY DEF compile
<1>4. validate_request(request) = valid
  <2>1. config.model \in BOOLEAN
    BY DEF LlmCallConfig
  <2> QED
    BY <2>1 DEF compile, validate_request
<1> HIDE DEF request, valid
<1>5. /\ ~ validate_request(request) => body = RequestFailed
      /\ validate_request(request) =>
           /\ body.ok = TRUE
           /\ body.messages = Prompt(family, request.system)
                                \o FlattenSeq(Encodings(family, request.messages))
  BY <1>2, <1>3, BodyMessages
<1> HIDE DEF body
<1>6. valid \in BOOLEAN
  BY DEF valid
<1>7. body.ok = valid
  <2>1. CASE valid
    BY <1>4, <1>5, <2>1
  <2>2. CASE ~ valid
    <3>1. body = [ok |-> FALSE]
      BY <1>4, <1>5, <2>2 DEF RequestFailed
    <3> QED
      BY <1>6, <2>2, <3>1
  <2> QED
    BY <2>1, <2>2
<1>8. ASSUME body.ok
      PROVE  /\ Said(body, "text") = ConversationSaid(system, messages, "text")
             /\ Said(body, "thinking") =
                  IF family \in {"openai_chat", "anthropic_messages"}
                  THEN ConversationSaid(system, messages, "thinking") ELSE << >>
             /\ (family # "google_generative_ai" \/ ResultsInCallOrder(messages)) =>
                  CallsPaired(family, body)
  <2>1. body.messages = All(family, system, messages)
    BY <1>3, <1>4, <1>5, <1>7, <1>8 DEF All
  <2>2. /\ Said(body, "text") = ConversationSaid(system, messages, "text")
        /\ Said(body, "thinking") =
             IF Keeps(family) THEN ConversationSaid(system, messages, "thinking") ELSE << >>
    BY <1>2, <2>1, SaidOnWire
  <2>3. (family # "google_generative_ai" \/ ResultsInCallOrder(messages)) =>
             CallsPaired(family, body)
    BY <1>1, <2>1, Paired
  <2> QED
    BY <2>2, <2>3 DEF Keeps
<1> QED
  BY <1>7, <1>8 DEF Usable, body, request, messages, valid

(* A model service can use the request of every log that materializes       *)
(* (model_input::compile and the four encode_request functions): it is      *)
(* refused only for what the caller left out, it says what the conversation *)
(* said, in order and once, and directly after every message with tool uses *)
(* come exactly their results, in the Google family in the order of the     *)
(* calls if the log has them so. For logs of every length, with rounds of   *)
(* any number of calls.                                                     *)
THEOREM RequestsAnswerToolUses == Spec => []EveryToolUseAnsweredOnWire
<1>1. LogType => EveryToolUseAnsweredOnWire
  <2>1. Blocks \subseteq Seq({"text", "thinking"}) /\ Configs \subseteq LlmCallConfig
    BY DEF Blocks, Configs
  <2>2. SUFFICES ASSUME LogType, Materializes(log), NEW blocks \in Blocks,
                        NEW family \in Families, NEW system \in BOOLEAN, NEW config \in Configs
                 PROVE  Usable(log, blocks, family, system, config, <<"read">>, TRUE)
    BY DEF EveryToolUseAnsweredOnWire, Usable
  <2>3. log \in Seq(Item) /\ Materializes(log)
    BY <2>2 DEF LogType
  <2>4. blocks \in Seq({"text", "thinking"}) /\ config \in LlmCallConfig
    BY <2>1
  <2> QED
    BY <2>3, <2>4, RequestOf
<1> QED
  BY <1>1, LogTypes, PTL
=============================================================================
