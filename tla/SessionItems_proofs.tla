------------------------- MODULE SessionItems_proofs -------------------------
(***************************************************************************)
(* Proofs about the functions over a session log, for every log: that the  *)
(* recursive function in `materialize` runs its machine over the items one  *)
(* by one, and that the machine tells well-formed logs from the others.    *)
(*                                                                         *)
(* The induction over the log is a well-founded one in which the hypothesis *)
(* is a set, not an operator: the least element of those that violate it.  *)
(***************************************************************************)
EXTENDS SessionItems, WellFoundedInduction, TLAPS

LEMMA Least ==
    ASSUME NEW S \in SUBSET Nat, S # {}
    PROVE  \E n \in S : \A k \in S : n <= k
<1> DEFINE R == {ss \in Nat \X Nat : ss[1] < ss[2]}
<1>1. IsWellFoundedOn(R, Nat)
  BY NatLessThanWellFounded DEF OpToRel
<1>2. \E x \in S : \A y \in S : ~ (<<y, x>> \in R)
  BY <1>1, WFMin
<1>3. PICK x \in S : \A y \in S : ~ (<<y, x>> \in R)
  BY <1>2
<1>4. ASSUME NEW y \in S PROVE x <= y
  <2>1. x \in Nat /\ y \in Nat /\ <<y, x>> \in Nat \X Nat
    OBVIOUS
  <2>2. <<y, x>>[1] = y /\ <<y, x>>[2] = x /\ ~ (<<y, x>> \in R)
    BY <1>3
  <2>3. ~ (y < x)
    BY <2>1, <2>2
  <2> QED
    BY <2>1, <2>3
<1> QED
  BY <1>4

LEMMA Induction ==
    ASSUME NEW S, 0 \in S, \A n \in Nat : n \in S => n + 1 \in S
    PROVE  \A n \in Nat : n \in S
<1> DEFINE T == {n \in Nat : n \notin S}
<1>1. SUFFICES ASSUME T # {} PROVE FALSE
  OBVIOUS
<1>2. PICK n \in T : \A k \in T : n <= k
  BY <1>1, Least
<1>3. n # 0
  OBVIOUS
<1>4. n - 1 \in Nat /\ n - 1 \notin T
  BY <1>2, <1>3
<1> QED
  BY <1>2, <1>4

(* A recursive function over 0 .. d exists when each value is made of the   *)
(* one before it; what makes it is a function, as an operator could not be *)
(* a parameter here.                                                       *)
Stays(V, step, d) == \A v \in V, n \in 1 .. d : step[<<v, n>>] \in V

Iterates(f, V, base, step, d) ==
    f \in [0 .. d -> V] /\ f[0] = base /\ \A n \in 1 .. d : f[n] = step[<<f[n-1], n>>]

LEMMA Recursion ==
    ASSUME NEW V, NEW base \in V, NEW step, NEW d \in Nat, Stays(V, step, d)
    PROVE  \E f : Iterates(f, V, base, step, d)
<1> DEFINE Runs(f, c) == f[0] = base /\ \A n \in 1 .. c : f[n] = step[<<f[n-1], n>>]
           S == {c \in Nat : c <= d => \E f \in [0 .. c -> V] : Runs(f, c)}
<1>1. 0 \in S
  <2>1. [n \in 0 .. 0 |-> base] \in [0 .. 0 -> V] /\ [n \in 0 .. 0 |-> base][0] = base
    OBVIOUS
  <2>2. \A n \in 1 .. 0 : FALSE
    OBVIOUS
  <2> QED
    BY <2>1, <2>2
<1>2. ASSUME NEW c \in Nat, c \in S PROVE c + 1 \in S
  <2>1. SUFFICES ASSUME c + 1 <= d PROVE \E g \in [0 .. c+1 -> V] : Runs(g, c + 1)
    OBVIOUS
  <2>2. PICK f \in [0 .. c -> V] : Runs(f, c)
    BY <1>2, <2>1
  <2> DEFINE g == [n \in 0 .. c+1 |-> IF n = c + 1 THEN step[<<f[c], c + 1>>] ELSE f[n]]
  <2>3. step[<<f[c], c + 1>>] \in V
    BY <2>1, <2>2 DEF Stays
  <2>4. g \in [0 .. c+1 -> V]
    BY <2>2, <2>3
  <2>5. \A n \in 0 .. c : g[n] = f[n]
    OBVIOUS
  <2>6. g[c+1] = step[<<f[c], c + 1>>] /\ g[c] = f[c]
    OBVIOUS
  <2> HIDE DEF g
  <2>7. ASSUME NEW n \in 1 .. c+1 PROVE g[n] = step[<<g[n-1], n>>]
    <3>1. CASE n = c + 1
      BY <2>6, <3>1
    <3>2. CASE n # c + 1
      <4>1. n \in 1 .. c /\ n - 1 \in 0 .. c /\ n \in 0 .. c
        BY <3>2
      <4> QED
        BY <2>2, <2>5, <4>1
    <3> QED
      BY <3>1, <3>2
  <2>8. g[0] = base
    BY <2>2, <2>5
  <2> QED
    BY <2>4, <2>7, <2>8
<1> HIDE DEF S
<1>3. \A c \in Nat : c \in S
  BY <1>1, <1>2, Induction
<1> QED
  BY <1>3 DEF S, Iterates

(* Appending keeps a log a log, and what was in it stays where it was.      *)
LEMMA Appended ==
    ASSUME NEW S, NEW s \in Seq(S), NEW e \in S
    PROVE  /\ Append(s, e) \in Seq(S)
           /\ Len(Append(s, e)) = Len(s) + 1
           /\ \A i \in 1 .. Len(s) : Append(s, e)[i] = s[i]
           /\ Append(s, e)[Len(s) + 1] = e
OBVIOUS

-----------------------------------------------------------------------------
(* The recursive function of `materialize` exists, and there is only one.   *)

Unfolds(f, items, d) ==
    f = [n \in 0 .. d |-> IF n = 0 THEN Idle ELSE MaterializeStep(f[n-1], items[n])]

LEMMA Exists ==
    ASSUME NEW items
    PROVE  \A d \in Nat : \E f : Unfolds(f, items, d)
<1> DEFINE S == {d \in Nat : \E f : Unfolds(f, items, d)}
<1>1. 0 \in S
  <2> DEFINE f == [n \in 0 .. 0 |-> Idle]
  <2>1. \A n \in 0 .. 0 : n = 0
    OBVIOUS
  <2>2. Unfolds(f, items, 0)
    BY <2>1 DEF Unfolds
  <2> QED
    BY <2>2
<1>2. ASSUME NEW d \in Nat, d \in S PROVE d + 1 \in S
  <2>1. PICK f : Unfolds(f, items, d)
    BY <1>2
  <2> DEFINE g == [n \in 0 .. d+1 |->
                     IF n = d + 1 THEN MaterializeStep(f[d], items[d+1]) ELSE f[n]]
  <2>2. \A n \in 0 .. d : f[n] = IF n = 0 THEN Idle ELSE MaterializeStep(f[n-1], items[n])
    BY <2>1 DEF Unfolds
  <2>3. ASSUME NEW n \in 0 .. d+1
        PROVE  g[n] = IF n = 0 THEN Idle ELSE MaterializeStep(g[n-1], items[n])
    <3>1. CASE n = d + 1
      <4>1. n - 1 = d /\ n # 0 /\ g[d] = f[d]
        BY <3>1
      <4> QED
        BY <4>1, <3>1
    <3>2. CASE n # d + 1 /\ n # 0
      <4>1. n \in 0 .. d /\ n - 1 \in 0 .. d /\ n - 1 # d + 1
        BY <3>2
      <4>2. g[n] = f[n] /\ g[n-1] = f[n-1]
        BY <4>1, <3>2
      <4> QED
        BY <4>1, <4>2, <2>2, <3>2
    <3>3. CASE n = 0
      <4>1. g[n] = f[n] /\ 0 \in 0 .. d
        BY <3>3
      <4> QED
        BY <4>1, <2>2, <3>3
    <3> QED
      BY <3>1, <3>2, <3>3
  <2>4. Unfolds(g, items, d + 1)
    BY <2>3 DEF Unfolds
  <2> QED
    BY <2>4
<1> HIDE DEF S
<1>3. \A n \in Nat : n \in S
  BY <1>1, <1>2, Induction
<1> QED
  BY <1>3 DEF S

LEMMA Unique ==
    ASSUME NEW items, NEW d \in Nat, NEW e \in Nat,
           NEW f, Unfolds(f, items, d), NEW g, Unfolds(g, items, e),
           NEW c \in Nat, c <= d, c <= e
    PROVE  f[c] = g[c]
<1> DEFINE S == {n \in Nat : n <= d /\ n <= e => f[n] = g[n]}
<1>1. 0 \in S
  BY DEF Unfolds
<1>2. ASSUME NEW n \in Nat, n \in S PROVE n + 1 \in S
  <2>1. SUFFICES ASSUME n + 1 <= d, n + 1 <= e PROVE f[n+1] = g[n+1]
    OBVIOUS
  <2>2. n + 1 \in 0 .. d /\ n + 1 \in 0 .. e /\ n + 1 # 0 /\ (n + 1) - 1 = n
    BY <2>1
  <2>3. f[n+1] = MaterializeStep(f[n], items[n+1]) /\ g[n+1] = MaterializeStep(g[n], items[n+1])
    BY <2>2 DEF Unfolds
  <2>4. f[n] = g[n]
    BY <1>2, <2>1
  <2> QED
    BY <2>3, <2>4
<1> HIDE DEF S
<1>3. c \in S
  BY <1>1, <1>2, Induction
<1> QED
  BY <1>3 DEF S

(* The value of `materialize` is that of the machine after the last item.   *)
LEMMA Machine ==
    ASSUME NEW items, Len(items) \in Nat
    PROVE  \E f : Unfolds(f, items, Len(items)) /\ materialize(items) = f[Len(items)]
<1> DEFINE after[n \in 0 .. Len(items)] ==
             IF n = 0 THEN Idle
             ELSE CHOOSE next \in {MaterializeStep(m, items[n]) : m \in {after[n-1]}} : TRUE
<1>1. materialize(items) = after[Len(items)]
  BY DEF materialize
<1>2. \A m, item : (CHOOSE next \in {MaterializeStep(v, item) : v \in {m}} : TRUE)
                    = MaterializeStep(m, item)
  <2>1. \A m, item : {MaterializeStep(v, item) : v \in {m}} = {MaterializeStep(m, item)}
    OBVIOUS
  <2> QED
    BY <2>1
<1>3. \A f : Unfolds(f, items, Len(items)) <=>
        f = [n \in 0 .. Len(items) |->
               IF n = 0 THEN Idle
               ELSE CHOOSE next \in {MaterializeStep(m, items[n]) : m \in {f[n-1]}} : TRUE]
  BY <1>2 DEF Unfolds
<1>4. \E f : Unfolds(f, items, Len(items))
  BY Exists
<1>5. Unfolds(after, items, Len(items))
  BY <1>3, <1>4
<1> QED
  BY <1>1, <1>5

-----------------------------------------------------------------------------
(* What the machine keeps, and what each kind of item makes of it.          *)

IdLists == Seq(CallIds \union {None})
Pendings == SUBSET [id : CallIds \union {None}, name : ToolNames \union {None}]
Outs == Seq([role : Kinds, ids : IdLists])
Machines == [phase : {"idle", "calls", "results", "error"},
             pending : Pendings, blocks : IdLists, out : Outs]

LEMMA AppendKeeps ==
    ASSUME NEW S, NEW q \in Seq(S), NEW x \in S
    PROVE  Append(q, x) \in Seq(S)
OBVIOUS

LEMMA MessageIds ==
    ASSUME NEW role \in Kinds, NEW ids \in IdLists
    PROVE  Message(role, ids) \in [role : Kinds, ids : IdLists]
  BY DEF Message

(* A message is accepted between rounds only.                              *)
LEMMA PlainStep ==
    ASSUME NEW m \in Machines, NEW x \in Item, x.kind \in {"user", "assistant"},
           m.phase # "error"
    PROVE  LET next == MaterializeStep(m, x) IN
           /\ next \in Machines
           /\ m.phase = "idle" => next.phase = "idle" /\ next.pending = m.pending
           /\ m.phase # "idle" => next.phase = "error"
<1>1. x.kind \in Kinds
  BY DEF Item
<1>2. Append(m.out, Message(x.kind, << >>)) \in Outs
  <2>1. << >> \in IdLists
    BY DEF IdLists
  <2> QED
    BY <2>1, <1>1, MessageIds, AppendKeeps DEF Machines, Outs
<1>3. MaterializeStep(m, x) = ensure_idle(m, x)
  BY DEF MaterializeStep
<1>4. Failed(m) \in Machines /\ Failed(m).phase = "error"
  BY DEF Machines, Failed
<1>5. CASE m.phase = "idle"
  <2>1. ensure_idle(m, x) = [m EXCEPT !.out = Append(m.out, Message(x.kind, << >>))]
    BY <1>5 DEF ensure_idle
  <2> QED
    BY <2>1, <1>2, <1>3, <1>5 DEF Machines
<1>6. CASE m.phase # "idle"
  BY <1>3, <1>4, <1>6 DEF ensure_idle
<1> QED
  BY <1>5, <1>6

(* A call belongs to the round being recorded and has an identity of its own. *)
Fresh(m, x) == m.phase \in {"idle", "calls"} /\ \A c \in m.pending : c.id # x.id

LEMMA CallStep ==
    ASSUME NEW m \in Machines, NEW x \in Item, x.kind = "call", m.phase # "error"
    PROVE  LET next == MaterializeStep(m, x) IN
           /\ next \in Machines
           /\ Fresh(m, x) => /\ next.phase = "calls"
                             /\ next.pending = m.pending \union {[id |-> x.id, name |-> x.name]}
           /\ ~ Fresh(m, x) => next.phase = "error"
<1>1. MaterializeStep(m, x) = append_call(m, x)
  BY DEF MaterializeStep
<1>2. Failed(m) \in Machines /\ Failed(m).phase = "error"
  BY DEF Machines, Failed
<1>3. x.id \in CallIds \union {None} /\ x.name \in ToolNames \union {None}
  BY DEF Item
<1>4. Append(m.blocks, x.id) \in IdLists
  BY <1>3, AppendKeeps DEF Machines, IdLists
<1>5. CASE Fresh(m, x)
  <2>1. append_call(m, x) =
          [m EXCEPT !.phase = "calls",
                    !.pending = m.pending \union {[id |-> x.id, name |-> x.name]},
                    !.blocks = Append(m.blocks, x.id)]
    BY <1>5 DEF append_call, Fresh
  <2>2. m.pending \union {[id |-> x.id, name |-> x.name]}
          \in Pendings
    BY <1>3 DEF Machines, Pendings
  <2> DEFINE next == append_call(m, x)
  <2>3. /\ next.phase = "calls" /\ next.out = m.out
        /\ next.pending = m.pending \union {[id |-> x.id, name |-> x.name]}
        /\ next.blocks = Append(m.blocks, x.id)
        /\ next = [phase |-> next.phase, pending |-> next.pending,
                   blocks |-> next.blocks, out |-> next.out]
    BY <2>1 DEF Machines
  <2>4. next \in Machines
    <3>1. m.out \in Outs
      BY DEF Machines
    <3> QED
      BY <2>2, <2>3, <1>4, <3>1 DEF Machines
  <2> HIDE DEF next
  <2> QED
    BY <2>3, <2>4, <1>1, <1>5 DEF next
<1>6. CASE ~ Fresh(m, x)
  BY <1>1, <1>2, <1>6 DEF append_call, Fresh
<1> QED
  BY <1>5, <1>6

(* A result answers a pending call of the same identity and name.          *)
Expected(m, x) ==
    m.phase \in {"calls", "results"} /\ [id |-> x.id, name |-> x.name] \in m.pending

LEMMA ResultStep ==
    ASSUME NEW m \in Machines, NEW x \in Item, x.kind = "result", m.phase # "error"
    PROVE  LET next == MaterializeStep(m, x)
               call == [id |-> x.id, name |-> x.name]
           IN  /\ next \in Machines
               /\ Expected(m, x) =>
                    /\ next.phase = IF m.pending = {call} THEN "idle" ELSE "results"
                    /\ next.pending = m.pending \ {call}
               /\ ~ Expected(m, x) => next.phase = "error"
<1> DEFINE call == [id |-> x.id, name |-> x.name]
           opened == IF m.phase = "calls"
                     THEN [m EXCEPT !.out = Append(m.out, Message("assistant", m.blocks)),
                                    !.blocks = << >>]
                     ELSE m
           blocks == Append(opened.blocks, x.id)
           closed == [phase |-> "idle", pending |-> {}, blocks |-> << >>,
                      out |-> Append(opened.out, Message("user", blocks))]
           answered == [opened EXCEPT !.phase = "results", !.pending = m.pending \ {call},
                                      !.blocks = blocks]
<1>1. MaterializeStep(m, x) = append_result(m, x)
  BY DEF MaterializeStep
<1>2. Failed(m) \in Machines /\ Failed(m).phase = "error"
  BY DEF Machines, Failed
<1>3. x.id \in CallIds \union {None}
  BY DEF Item
<1>4. opened \in Machines /\ opened.pending = m.pending
  <2>1. Append(m.out, Message("assistant", m.blocks)) \in Outs
    BY MessageIds, AppendKeeps DEF Machines, Kinds, Outs
  <2>2. << >> \in IdLists
    BY DEF IdLists
  <2> QED
    BY <2>1, <2>2 DEF Machines
<1> HIDE DEF opened
<1>5. blocks \in IdLists
  BY <1>3, <1>4, AppendKeeps DEF Machines, IdLists
<1>6. Append(opened.out, Message("user", blocks)) \in Outs
  BY <1>4, <1>5, MessageIds, AppendKeeps DEF Machines, Kinds, Outs
<1> HIDE DEF blocks
<1>7. closed \in Machines /\ answered \in Machines
  <2>1. << >> \in IdLists /\ {} \in Pendings /\ m.pending \ {call} \in Pendings
    BY DEF IdLists, Pendings, Machines
  <2> QED
    BY <2>1, <1>4, <1>5, <1>6 DEF Machines
<1>8. answered.phase = "results" /\ answered.pending = m.pending \ {call}
  BY <1>4 DEF Machines
<1>9. append_result(m, x) = IF ~ Expected(m, x) THEN Failed(m)
                            ELSE IF m.pending = {call} THEN closed ELSE answered
  BY <1>4 DEF append_result, Expected, opened, blocks
<1>10. CASE ~ Expected(m, x)
  BY <1>1, <1>2, <1>9, <1>10
<1>11. CASE Expected(m, x) /\ m.pending = {call}
  <2>1. m.pending \ {call} = {}
    BY <1>11
  <2> QED
    BY <2>1, <1>1, <1>7, <1>9, <1>11
<1>12. CASE Expected(m, x) /\ m.pending # {call}
  BY <1>1, <1>7, <1>8, <1>9, <1>12
<1> QED
  BY <1>10, <1>11, <1>12

-----------------------------------------------------------------------------
(* The machine against the definition of an open call.                     *)

OpenCall(items, i) == [id |-> items[i].id, name |-> items[i].name]

(* A machine that has not failed before position n is idle if no call is   *)
(* open there, and its pending map is the open calls; no later item carries *)
(* the identity of one of them; and it is recording a round if no result   *)
(* follows them.                                                           *)
Follows(items, m, n) ==
    /\ (m.phase = "idle") = (OpenAt(items, n) = {})
    /\ m.pending = {OpenCall(items, i) : i \in OpenAt(items, n)}
    /\ \A i \in OpenAt(items, n), k \in 1 .. n-1 :
         k > i /\ items[k].kind \in {"call", "result"} => items[k].id # items[i].id
    /\ \A i \in OpenAt(items, n) :
         (m.phase = "calls") = \A k \in i+1 .. n-1 : ~ IsResult(items, k)

(* What is known of the machine after the first n items.                    *)
Tracks(items, m, n) ==
    /\ m \in Machines
    /\ (m.phase = "error") = ~ \A k \in 1 .. n : FitsAt(items, k)
    /\ m.phase # "error" => Follows(items, m, n + 1)

(* An item closes the call it answers, and is open itself if it is a call. *)
LEMMA OpenNext ==
    ASSUME NEW items, NEW n \in Nat \ {0}
    PROVE  OpenAt(items, n + 1) = {i \in OpenAt(items, n) : ~ Answers(items, n, i)}
                                 \union {i \in {n} : IsCall(items, n)}
<1>1. ASSUME NEW i \in OpenAt(items, n + 1)
      PROVE  \/ i \in OpenAt(items, n) /\ ~ Answers(items, n, i)
             \/ i = n /\ IsCall(items, n)
  <2>1. i \in 1 .. n /\ IsCall(items, i) /\ \A j \in i+1 .. n : ~ Answers(items, j, i)
    BY DEF OpenAt
  <2>2. CASE i = n
    BY <2>1, <2>2
  <2>3. CASE i # n
    <3>1. i \in 1 .. n-1 /\ n \in i+1 .. n /\ \A j \in i+1 .. n-1 : j \in i+1 .. n
      BY <2>1, <2>3
    <3> QED
      BY <3>1, <2>1 DEF OpenAt
  <2> QED
    BY <2>2, <2>3
<1>2. ASSUME NEW i \in OpenAt(items, n), ~ Answers(items, n, i)
      PROVE  i \in OpenAt(items, n + 1)
  <2>1. i \in 1 .. n-1 /\ IsCall(items, i) /\ \A j \in i+1 .. n-1 : ~ Answers(items, j, i)
    BY DEF OpenAt
  <2>2. \A j \in i+1 .. n : j \in i+1 .. n-1 \/ j = n
    BY <2>1
  <2>3. \A j \in i+1 .. n : ~ Answers(items, j, i)
    BY <2>1, <2>2, <1>2
  <2> QED
    BY <2>1, <2>3 DEF OpenAt
<1>3. ASSUME IsCall(items, n) PROVE n \in OpenAt(items, n + 1)
  BY <1>3 DEF OpenAt
<1> QED
  BY <1>1, <1>2, <1>3

(* The calls still open have identities of their own.                      *)
LEMMA OpenDistinct ==
    ASSUME NEW items, NEW m, NEW n \in Nat \ {0}, Follows(items, m, n),
           NEW i \in OpenAt(items, n), NEW j \in OpenAt(items, n), items[i].id = items[j].id
    PROVE  i = j
<1>1. i \in 1 .. n-1 /\ j \in 1 .. n-1 /\ items[i].kind = "call" /\ items[j].kind = "call"
  BY DEF OpenAt, IsCall
<1>2. ~ i < j /\ ~ j < i
  BY <1>1 DEF Follows
<1> QED
  BY <1>1, <1>2

(* What the result at n answers, if the machine has followed the log.      *)
LEMMA AnswersOpen ==
    ASSUME NEW items, NEW m, NEW n \in Nat \ {0}, Follows(items, m, n),
           NEW i \in OpenAt(items, n), IsResult(items, n)
    PROVE  Answers(items, n, i) <=> OpenCall(items, i) = OpenCall(items, n)
<1>1. i \in 1 .. n-1 /\ IsCall(items, i)
  BY DEF OpenAt
<1>2. \A k \in i+1 .. n-1 : items[k].kind \in {"call", "result"} => items[k].id # items[i].id
  <2>1. \A k \in i+1 .. n-1 : k \in 1 .. n-1 /\ k > i
    BY <1>1
  <2> QED
    BY <2>1 DEF Follows
<1>3. OpenCall(items, i) = OpenCall(items, n) <=>
        items[i].id = items[n].id /\ items[i].name = items[n].name
  BY DEF OpenCall
<1> QED
  BY <1>1, <1>2, <1>3 DEF Answers

LEMMA TracksStep ==
    ASSUME NEW items \in Seq(Item), NEW m, NEW n \in Nat, n < Len(items), Tracks(items, m, n)
    PROVE  Tracks(items, MaterializeStep(m, items[n+1]), n + 1)
<1> DEFINE p == n + 1
           x == items[p]
           next == MaterializeStep(m, x)
           O == OpenAt(items, p)
<1>1. p \in 1 .. Len(items) /\ p \in Nat \ {0} /\ x \in Item /\ m \in Machines
  BY DEF Tracks
<1>2. \A k : k \in 1 .. p <=> k \in 1 .. n \/ k = p
  OBVIOUS
<1>3. CASE m.phase = "error"
  <2>1. Failed(m) = m
    BY <1>1, <1>3 DEF Machines, Failed
  <2>2. x.kind \in Kinds
    BY <1>1 DEF Item
  <2>3. ensure_idle(m, x) = m /\ append_call(m, x) = m /\ append_result(m, x) = m
    BY <2>1, <1>3 DEF ensure_idle, append_call, append_result
  <2>4. next = m
    BY <2>1, <2>2, <2>3, <1>3 DEF MaterializeStep, Kinds
  <2> QED
    BY <2>4, <1>2, <1>3 DEF Tracks
<1>4. CASE m.phase # "error"
  <2>1. Follows(items, m, p) /\ \A k \in 1 .. n : FitsAt(items, k)
    BY <1>4 DEF Tracks
  <2>2. (\A k \in 1 .. p : FitsAt(items, k)) <=> FitsAt(items, p)
    BY <2>1, <1>2
  <2>3. SUFFICES /\ next \in Machines
                 /\ (next.phase = "error") = ~ FitsAt(items, p)
                 /\ FitsAt(items, p) => Follows(items, next, p + 1)
    BY <2>2 DEF Tracks
  <2>4. OpenAt(items, p + 1) = {i \in O : ~ Answers(items, p, i)}
                               \union {i \in {p} : IsCall(items, p)}
    BY <1>1, OpenNext
  <2>5. O \subseteq 1 .. n
    BY DEF OpenAt
  <2>6. \A k : k \in 1 .. (p+1)-1 <=> k \in 1 .. p-1 \/ k = p
    OBVIOUS
  <2>7. ASSUME NEW i \in O
        PROVE  (\A k \in i+1 .. (p+1)-1 : ~ IsResult(items, k))
                 <=> (\A k \in i+1 .. p-1 : ~ IsResult(items, k)) /\ ~ IsResult(items, p)
    <3>1. \A k : k \in i+1 .. (p+1)-1 <=> k \in i+1 .. p-1 \/ k = p
      BY <2>5
    <3> QED
      BY <3>1
  <2>8. x.kind \in Kinds
    BY <1>1 DEF Item
  <2>9. CASE x.kind \in {"user", "assistant"}
    <3>1. /\ next \in Machines
          /\ m.phase = "idle" => next.phase = "idle" /\ next.pending = m.pending
          /\ m.phase # "idle" => next.phase = "error"
      BY <1>1, <1>4, <2>9, PlainStep
    <3>2. FitsAt(items, p) <=> O = {}
      BY <2>9 DEF FitsAt
    <3>3. OpenAt(items, p + 1) = O
      BY <2>4, <2>9 DEF Answers, IsCall, IsResult
    <3>4. O = {} => Follows(items, next, p + 1)
      BY <3>1, <3>3, <2>1 DEF Follows
    <3> QED
      BY <3>1, <3>2, <3>4, <2>1 DEF Follows
  <2>10. CASE x.kind = "call"
    <3>1. /\ next \in Machines
          /\ Fresh(m, x) =>
               next.phase = "calls" /\ next.pending = m.pending \union {OpenCall(items, p)}
          /\ ~ Fresh(m, x) => next.phase = "error"
      BY <1>1, <1>4, <2>10, CallStep DEF OpenCall
    <3>2. OpenAt(items, p + 1) = O \union {p}
      BY <2>4, <2>10 DEF Answers, IsCall, IsResult
    <3>3. (\A c \in m.pending : c.id # x.id) <=> \A i \in O : items[i].id # x.id
      <4>1. m.pending = {OpenCall(items, i) : i \in O}
        BY <2>1 DEF Follows
      <4>2. \A i \in O : OpenCall(items, i).id = items[i].id
        BY DEF OpenCall
      <4> QED
        BY <4>1, <4>2
    <3>4. m.phase \in {"idle", "calls"} <=> \A i \in O : \A k \in i+1 .. p-1 : ~ IsResult(items, k)
      BY <2>1 DEF Follows
    <3>5. FitsAt(items, p) <=> Fresh(m, x)
      BY <3>3, <3>4, <2>10 DEF FitsAt, Fresh
    <3>6. ASSUME Fresh(m, x) PROVE Follows(items, next, p + 1)
      <4>1. next.phase = "calls" /\ next.pending = {OpenCall(items, i) : i \in O \union {p}}
        BY <3>1, <3>6, <2>1 DEF Follows
      <4>2. ASSUME NEW i \in O \union {p}, NEW k \in 1 .. (p+1)-1, k > i,
                   items[k].kind \in {"call", "result"}
            PROVE  items[k].id # items[i].id
        <5>1. i \in O
          BY <4>2, <2>5
        <5>2. CASE k \in 1 .. p-1
          BY <5>1, <5>2, <4>2, <2>1 DEF Follows
        <5>3. CASE k = p
          BY <5>1, <5>3, <3>3, <3>6 DEF Fresh
        <5> QED
          BY <5>2, <5>3, <2>6, <4>2
      <4>3. ASSUME NEW i \in O \union {p}
            PROVE  \A k \in i+1 .. (p+1)-1 : ~ IsResult(items, k)
        <5>1. CASE i = p
          BY <5>1
        <5>2. CASE i \in O
          BY <5>2, <2>7, <3>4, <3>6, <2>10 DEF Fresh, IsResult
        <5> QED
          BY <5>1, <5>2
      <4> QED
        BY <4>1, <4>2, <4>3, <3>2 DEF Follows
    <3> QED
      BY <3>1, <3>5, <3>6
  <2>11. CASE x.kind = "result"
    <3> DEFINE call == OpenCall(items, p)
    <3>1. /\ next \in Machines
          /\ Expected(m, x) =>
               /\ next.phase = IF m.pending = {call} THEN "idle" ELSE "results"
               /\ next.pending = m.pending \ {call}
          /\ ~ Expected(m, x) => next.phase = "error"
      BY <1>1, <1>4, <2>11, ResultStep DEF OpenCall
    <3>2. \A i \in O : Answers(items, p, i) <=> OpenCall(items, i) = call
      BY <1>1, <2>1, <2>11, AnswersOpen DEF IsResult
    <3>3. Expected(m, x) <=> call \in m.pending
      BY <1>1, <1>4, <2>1 DEF Expected, Follows, OpenCall, Machines
    <3>4. FitsAt(items, p) <=> Expected(m, x)
      BY <3>2, <3>3, <2>1, <2>11 DEF FitsAt, Follows
    <3>5. OpenAt(items, p + 1) = {i \in O : OpenCall(items, i) # call}
      BY <2>4, <2>11, <3>2 DEF IsCall
    <3>6. ASSUME Expected(m, x) PROVE Follows(items, next, p + 1)
      <4>1. next.pending = {OpenCall(items, i) : i \in OpenAt(items, p + 1)}
        BY <3>1, <3>5, <3>6, <2>1 DEF Follows
      <4>2. (m.pending = {call}) <=> OpenAt(items, p + 1) = {}
        BY <3>3, <3>5, <3>6, <2>1 DEF Follows
      <4>3. ASSUME NEW i \in OpenAt(items, p + 1), NEW k \in 1 .. (p+1)-1, k > i,
                   items[k].kind \in {"call", "result"}
            PROVE  items[k].id # items[i].id
        <5>1. i \in O /\ OpenCall(items, i) # call
          BY <3>5
        <5>2. CASE k \in 1 .. p-1
          BY <5>1, <5>2, <4>3, <2>1 DEF Follows
        <5>3. CASE k = p
          <6>1. PICK a \in O : OpenCall(items, a) = call
            BY <3>3, <3>6, <2>1 DEF Follows
          <6>2. items[a].id = x.id
            BY <6>1 DEF OpenCall
          <6>3. items[i].id # items[a].id
            BY <5>1, <6>1, <1>1, <2>1, OpenDistinct
          <6> QED
            BY <6>2, <6>3, <5>3
        <5> QED
          BY <5>2, <5>3, <2>6, <4>3
      <4>4. ASSUME NEW i \in OpenAt(items, p + 1)
            PROVE  ~ \A k \in i+1 .. (p+1)-1 : ~ IsResult(items, k)
        BY <3>5, <2>7, <2>11 DEF IsResult
      <4> QED
        BY <4>1, <4>2, <4>3, <4>4, <3>1, <3>6 DEF Follows
    <3> QED
      BY <3>1, <3>4, <3>6
  <2>12. CASE x.kind = "checkpoint"
    <3>1. next = m /\ FitsAt(items, p)
      BY <1>4, <2>12 DEF MaterializeStep, FitsAt
    <3>2. OpenAt(items, p + 1) = O
      BY <2>4, <2>12 DEF Answers, IsCall, IsResult
    <3>3. ASSUME NEW i \in O, NEW k \in 1 .. (p+1)-1, k > i, items[k].kind \in {"call", "result"}
          PROVE  items[k].id # items[i].id
      BY <3>3, <2>1, <2>6, <2>12 DEF Follows
    <3>4. \A i \in O : (\A k \in i+1 .. (p+1)-1 : ~ IsResult(items, k))
                         <=> \A k \in i+1 .. p-1 : ~ IsResult(items, k)
      BY <2>7, <2>12 DEF IsResult
    <3>5. Follows(items, next, p + 1)
      BY <3>1, <3>2, <3>3, <3>4, <2>1 DEF Follows
    <3> QED
      BY <3>1, <3>5, <1>1, <1>4
  <2>13. CASE x.kind = "compaction"
    <3>1. next = Failed(m) /\ ~ FitsAt(items, p)
      BY <1>4, <2>13 DEF MaterializeStep, FitsAt
    <3>2. Failed(m) \in Machines /\ Failed(m).phase = "error"
      BY <1>1 DEF Machines, Failed
    <3> QED
      BY <3>1, <3>2
  <2> QED
    BY <2>8, <2>9, <2>10, <2>11, <2>12, <2>13 DEF Kinds
<1> QED
  BY <1>3, <1>4

(* By induction over the items.                                            *)
LEMMA MachineTracks ==
    ASSUME NEW items \in Seq(Item)
    PROVE  Tracks(items, materialize(items), Len(items))
<1>1. PICK f : Unfolds(f, items, Len(items)) /\ materialize(items) = f[Len(items)]
  BY Machine
<1> DEFINE S == {n \in Nat : n <= Len(items) => Tracks(items, f[n], n)}
<1>2. 0 \in S
  <2>1. f[0] = Idle
    BY <1>1 DEF Unfolds
  <2>2. OpenAt(items, 0 + 1) = {}
    BY DEF OpenAt
  <2>3. Idle \in Machines
    BY DEF Idle, Machines, IdLists, Outs, Pendings
  <2>4. Follows(items, Idle, 0 + 1)
    BY <2>2 DEF Follows, Idle
  <2>5. Tracks(items, Idle, 0)
    BY <2>3, <2>4 DEF Tracks, Idle
  <2> QED
    BY <2>1, <2>5
<1>3. ASSUME NEW n \in Nat, n \in S PROVE n + 1 \in S
  <2>1. SUFFICES ASSUME n + 1 <= Len(items) PROVE Tracks(items, f[n+1], n + 1)
    OBVIOUS
  <2>2. n + 1 \in 0 .. Len(items) /\ n + 1 # 0 /\ (n + 1) - 1 = n /\ n < Len(items)
    BY <2>1
  <2>3. f[n+1] = MaterializeStep(f[n], items[n+1])
    BY <2>2, <1>1 DEF Unfolds
  <2>4. Tracks(items, f[n], n)
    BY <1>3, <2>2
  <2> QED
    BY <2>2, <2>3, <2>4, TracksStep
<1> HIDE DEF S
<1>4. Len(items) \in S
  BY <1>2, <1>3, Induction
<1> QED
  BY <1>1, <1>4 DEF S

(* Of every log, of whatever origin and length: `materialize` fails exactly *)
(* if the log is not well formed, ends in the phase Idle exactly if every   *)
(* call is answered, and its pending map holds exactly the open calls       *)
(* (context/materialize.rs).                                                *)
THEOREM MaterializeAgrees ==
    \A items \in Seq(Item) :
      LET m == materialize(items) IN
      /\ (m.phase = "error") = ~ WellFormed(items)
      /\ m.phase # "error" =>
           /\ (m.phase = "idle") = (OpenCalls(items) = {})
           /\ m.pending = {[id |-> items[i].id, name |-> items[i].name] : i \in OpenCalls(items)}
  BY MachineTracks DEF Tracks, Follows, WellFormed, OpenCalls, OpenCall

LEMMA MaterializeEmpty == materialize(<< >>) = Idle
<1>1. Len(<< >>) = 0
  OBVIOUS
<1>2. PICK f : Unfolds(f, << >>, 0) /\ materialize(<< >>) = f[0]
  <2>1. \E f : Unfolds(f, << >>, Len(<< >>)) /\ materialize(<< >>) = f[Len(<< >>)]
    BY <1>1, Machine
  <2> QED
    BY <2>1, <1>1
<1> QED
  BY <1>2 DEF Unfolds

(* An item appended to a log is one more step of the machine.               *)
LEMMA MaterializeAppend ==
    ASSUME NEW items \in Seq(Item), NEW x \in Item
    PROVE  materialize(Append(items, x)) = MaterializeStep(materialize(items), x)
<1> DEFINE longer == Append(items, x)
           n == Len(items)
<1>1. longer \in Seq(Item) /\ Len(longer) = n + 1 /\ longer[n+1] = x /\ n \in Nat
      /\ \A k \in 1 .. n : longer[k] = items[k]
  OBVIOUS
<1>2. PICK f : Unfolds(f, items, n) /\ materialize(items) = f[n]
  BY Machine
<1> HIDE DEF longer
<1>3. PICK g : Unfolds(g, longer, n + 1) /\ materialize(longer) = g[n+1]
  <2>1. \E g : Unfolds(g, longer, Len(longer)) /\ materialize(longer) = g[Len(longer)]
    BY Machine, <1>1
  <2> QED
    BY <2>1, <1>1
<1>4. g[n+1] = MaterializeStep(g[n], x)
  BY <1>1, <1>3 DEF Unfolds
<1> DEFINE h == [k \in 0 .. n |-> g[k]]
<1>5. Unfolds(h, items, n)
  <2>1. ASSUME NEW k \in 0 .. n
        PROVE  g[k] = IF k = 0 THEN Idle ELSE MaterializeStep(g[k-1], items[k])
    <3>1. k \in 0 .. n+1
      BY <1>1
    <3>2. g[k] = IF k = 0 THEN Idle ELSE MaterializeStep(g[k-1], longer[k])
      BY <3>1, <1>3 DEF Unfolds
    <3> QED
      BY <3>2, <1>1
  <2>2. \A k \in 0 .. n : k # 0 => h[k-1] = g[k-1]
    BY <1>1
  <2> QED
    BY <2>1, <2>2 DEF Unfolds
<1>6. h[n] = f[n]
  BY <1>1, <1>2, <1>5, Unique
<1> QED
  BY <1>1, <1>2, <1>3, <1>4, <1>6 DEF longer

-----------------------------------------------------------------------------
(* A log that grows.                                                       *)

(* Which calls an item answers does not depend on what comes after it.      *)
LEMMA AnswersStay ==
    ASSUME NEW s \in Seq(Item), NEW item \in Item, NEW j \in 1 .. Len(s), NEW i \in 1 .. Len(s)
    PROVE  Answers(Append(s, item), j, i) <=> Answers(s, j, i)
<1>1. /\ Append(s, item)[i] = s[i] /\ Append(s, item)[j] = s[j]
      /\ \A k \in i+1 .. j-1 : Append(s, item)[k] = s[k]
  BY Appended
<1> QED
  BY <1>1 DEF Answers, IsCall, IsResult

(* Which calls were open at a position does not depend on what follows it.  *)
LEMMA OpenStays ==
    ASSUME NEW s \in Seq(Item), NEW item \in Item, NEW n \in 1 .. Len(s) + 1
    PROVE  OpenAt(Append(s, item), n) = OpenAt(s, n)
<1>1. \A i \in 1 .. n-1 : i \in 1 .. Len(s) /\ (IsCall(Append(s, item), i) <=> IsCall(s, i))
  BY Appended DEF IsCall
<1>2. ASSUME NEW i \in 1 .. n-1, NEW j \in i+1 .. n-1
      PROVE  Answers(Append(s, item), j, i) <=> Answers(s, j, i)
  <2>1. i \in 1 .. Len(s) /\ j \in 1 .. Len(s)
    OBVIOUS
  <2> QED
    BY <2>1, AnswersStay
<1> QED
  BY <1>1, <1>2 DEF OpenAt

LEMMA FitsStays ==
    ASSUME NEW s \in Seq(Item), NEW item \in Item, NEW n \in 1 .. Len(s)
    PROVE  FitsAt(Append(s, item), n) <=> FitsAt(s, n)
<1> DEFINE longer == Append(s, item)
<1>1. OpenAt(longer, n) = OpenAt(s, n)
  BY OpenStays
<1>2. longer[n] = s[n] /\ \A k \in 1 .. n-1 : longer[k] = s[k]
  BY Appended
<1>3. \A i \in OpenAt(s, n) : /\ i \in 1 .. n-1 /\ longer[i] = s[i]
                              /\ Answers(longer, n, i) <=> Answers(s, n, i)
                              /\ \A j \in i+1 .. n-1 : IsResult(longer, j) <=> IsResult(s, j)
  BY <1>2, AnswersStay DEF OpenAt, IsResult
<1> SUFFICES FitsAt(longer, n) <=> FitsAt(s, n)
  OBVIOUS
<1> HIDE DEF longer
<1>4. (\A i \in OpenAt(s, n) : longer[i].id # longer[n].id)
        <=> \A i \in OpenAt(s, n) : s[i].id # s[n].id
  BY <1>2, <1>3
<1>5. (\A i \in OpenAt(s, n) : \A j \in i+1 .. n-1 : ~ IsResult(longer, j))
        <=> \A i \in OpenAt(s, n) : \A j \in i+1 .. n-1 : ~ IsResult(s, j)
  BY <1>3
<1>6. (\E i \in OpenAt(s, n) : Answers(longer, n, i)) <=> \E i \in OpenAt(s, n) : Answers(s, n, i)
  BY <1>3
<1>7. s[n].kind \in Kinds
  <2>1. s[n] \in Item
    OBVIOUS
  <2> QED
    BY <2>1 DEF Item
<1>8. CASE s[n].kind \in {"user", "assistant", "checkpoint", "compaction"}
  BY <1>1, <1>2, <1>8 DEF FitsAt
<1>9. CASE s[n].kind = "call"
  BY <1>1, <1>2, <1>4, <1>5, <1>9 DEF FitsAt
<1>10. CASE s[n].kind = "result"
  BY <1>1, <1>2, <1>6, <1>10 DEF FitsAt
<1> QED
  BY <1>7, <1>8, <1>9, <1>10 DEF Kinds

(* A log stays well formed if what is appended fits.                       *)
LEMMA WellFormedAppend ==
    ASSUME NEW s \in Seq(Item), NEW item \in Item, WellFormed(s),
           FitsAt(Append(s, item), Len(s) + 1)
    PROVE  WellFormed(Append(s, item))
<1>1. \A n \in 1 .. Len(Append(s, item)) : n \in 1 .. Len(s) \/ n = Len(s) + 1
  BY Appended
<1> QED
  BY <1>1, FitsStays DEF WellFormed

LEMMA OpenAppend ==
    ASSUME NEW s \in Seq(Item), NEW item \in Item
    PROVE  /\ OpenAt(Append(s, item), Len(s) + 1) = OpenCalls(s)
           /\ OpenCalls(Append(s, item)) =
                {i \in OpenCalls(s) : ~ Answers(Append(s, item), Len(s) + 1, i)}
                \union {i \in {Len(s) + 1} : item.kind = "call"}
<1>1. Len(Append(s, item)) = Len(s) + 1 /\ Append(s, item)[Len(s) + 1] = item
  BY Appended
<1>2. OpenAt(Append(s, item), Len(s) + 1) = OpenCalls(s)
  BY OpenStays DEF OpenCalls
<1>3. OpenAt(Append(s, item), (Len(s) + 1) + 1) =
        {i \in OpenAt(Append(s, item), Len(s) + 1) : ~ Answers(Append(s, item), Len(s) + 1, i)}
        \union {i \in {Len(s) + 1} : IsCall(Append(s, item), Len(s) + 1)}
  BY OpenNext
<1> QED
  BY <1>1, <1>2, <1>3 DEF OpenCalls, IsCall

(* A call that is open at the end was open ever since it was recorded.     *)
LEMMA OpenBefore ==
    ASSUME NEW s \in Seq(Item), NEW n \in 1 .. Len(s) + 1, NEW i \in OpenCalls(s), i < n
    PROVE  i \in OpenAt(s, n)
BY DEF OpenCalls, OpenAt

-----------------------------------------------------------------------------
(* What Kept keeps, of any sequence.                                        *)

(* The recursive function of Kept exists, and there is only one.           *)
Filters(f, s, positions, V) ==
    /\ f \in [0 .. Len(s) -> V] /\ f[0] = << >>
    /\ \A n \in 1 .. Len(s) :
         f[n] = IF n \in positions THEN Append(f[n-1], s[n]) ELSE f[n-1]

(* The recursive function of Kept is a filter.                              *)
LEMMA KeptFilters ==
    ASSUME NEW X, NEW s \in Seq(X), NEW positions
    PROVE  \E f : Filters(f, s, positions, Seq(X)) /\ Kept(s, positions) = f[Len(s)]
<1> DEFINE kept[n \in 0 .. Len(s)] ==
             IF n = 0 THEN << >>
             ELSE IF n \in positions THEN Append(kept[n-1], s[n]) ELSE kept[n-1]
           step == [p \in Seq(X) \X (1 .. Len(s)) |->
                      IF p[2] \in positions THEN Append(p[1], s[p[2]]) ELSE p[1]]
<1>1. Kept(s, positions) = kept[Len(s)]
  BY DEF Kept
<1>2. \A v \in Seq(X), n \in 1 .. Len(s) :
        /\ step[<<v, n>>] = IF n \in positions THEN Append(v, s[n]) ELSE v
        /\ step[<<v, n>>] \in Seq(X)
  <2>1. ASSUME NEW v \in Seq(X), NEW n \in 1 .. Len(s)
        PROVE  (IF n \in positions THEN Append(v, s[n]) ELSE v) \in Seq(X)
    <3>1. s[n] \in X
      OBVIOUS
    <3> QED
      BY <3>1
  <2> QED
    BY <2>1
<1>3. PICK f : Iterates(f, Seq(X), << >>, step, Len(s))
  <2> HIDE DEF step
  <2>1. Stays(Seq(X), step, Len(s))
    BY <1>2 DEF Stays
  <2>2. << >> \in Seq(X) /\ Len(s) \in Nat
    OBVIOUS
  <2> QED
    BY <2>1, <2>2, Recursion
<1>4. Filters(f, s, positions, Seq(X))
  <2> HIDE DEF step
  <2>1. \A n \in 1 .. Len(s) : n - 1 \in 0 .. Len(s)
    OBVIOUS
  <2> QED
    BY <1>2, <1>3, <2>1 DEF Iterates, Filters
<1>5. f = [n \in 0 .. Len(s) |->
             IF n = 0 THEN << >>
             ELSE IF n \in positions THEN Append(f[n-1], s[n]) ELSE f[n-1]]
  <2>1. \A n \in 0 .. Len(s) : n # 0 => n \in 1 .. Len(s)
    OBVIOUS
  <2> QED
    BY <1>4, <2>1 DEF Filters
<1>6. kept = [n \in 0 .. Len(s) |->
                IF n = 0 THEN << >>
                ELSE IF n \in positions THEN Append(kept[n-1], s[n]) ELSE kept[n-1]]
  BY <1>5
<1> HIDE DEF kept
<1> DEFINE S == {n \in Nat : n <= Len(s) => kept[n] = f[n]}
<1>7. 0 \in S
  BY <1>4, <1>6 DEF Filters
<1>8. ASSUME NEW n \in Nat, n \in S PROVE n + 1 \in S
  <2>1. SUFFICES ASSUME n + 1 <= Len(s) PROVE kept[n+1] = f[n+1]
    OBVIOUS
  <2>2. n + 1 \in 0 .. Len(s) /\ n + 1 \in 1 .. Len(s) /\ n + 1 # 0 /\ (n + 1) - 1 = n
        /\ kept[n] = f[n]
    BY <1>8, <2>1
  <2>3. kept[n+1] = IF n + 1 \in positions THEN Append(kept[n], s[n+1]) ELSE kept[n]
    BY <1>6, <2>2
  <2>4. f[n+1] = IF n + 1 \in positions THEN Append(f[n], s[n+1]) ELSE f[n]
    BY <1>4, <2>2 DEF Filters
  <2> QED
    BY <2>2, <2>3, <2>4
<1> HIDE DEF S
<1>9. \A n \in Nat : n \in S
  BY <1>7, <1>8, Induction
<1>10. kept[Len(s)] = f[Len(s)]
  <2>1. Len(s) \in Nat /\ Len(s) \in S
    BY <1>9
  <2> QED
    BY <2>1 DEF S
<1> QED
  BY <1>1, <1>4, <1>10

(* Sequences that agree on a prefix are filtered alike there.               *)
LEMMA FiltersSame ==
    ASSUME NEW s, NEW t, NEW P, NEW Q, NEW V, NEW f, NEW g, NEW d \in Nat,
           Filters(f, s, P, V), Filters(g, t, Q, V),
           d <= Len(s), d <= Len(t), Len(s) \in Nat, Len(t) \in Nat,
           \A n \in 1 .. d : s[n] = t[n] /\ (n \in P <=> n \in Q)
    PROVE  f[d] = g[d]
<1> DEFINE S == {n \in Nat : n <= d => f[n] = g[n]}
<1>1. 0 \in S
  BY DEF Filters
<1>2. ASSUME NEW n \in Nat, n \in S PROVE n + 1 \in S
  <2>1. SUFFICES ASSUME n + 1 <= d PROVE f[n+1] = g[n+1]
    OBVIOUS
  <2>2. n + 1 \in 1 .. Len(s) /\ n + 1 \in 1 .. Len(t) /\ n + 1 \in 1 .. d
        /\ (n + 1) - 1 = n /\ f[n] = g[n]
    BY <1>2, <2>1
  <2>3. f[n+1] = IF n + 1 \in P THEN Append(f[n], s[n+1]) ELSE f[n]
    BY <2>2 DEF Filters
  <2>4. g[n+1] = IF n + 1 \in Q THEN Append(g[n], t[n+1]) ELSE g[n]
    BY <2>2 DEF Filters
  <2> QED
    BY <2>2, <2>3, <2>4
<1> HIDE DEF S
<1>3. \A n \in Nat : n \in S
  BY <1>1, <1>2, Induction
<1>4. d \in S
  BY <1>3
<1> QED
  BY <1>4 DEF S

(* Nothing is kept of the empty sequence.                                   *)
LEMMA KeptEmpty ==
    ASSUME NEW positions
    PROVE  Kept(<< >>, positions) = << >>
<1>1. << >> \in Seq({}) /\ Len(<< >>) = 0
  OBVIOUS
<1>2. PICK f : Filters(f, << >>, positions, Seq({})) /\ Kept(<< >>, positions) = f[Len(<< >>)]
  BY <1>1, KeptFilters
<1> QED
  BY <1>1, <1>2 DEF Filters

(* One more element is kept or not; the others stay as they were.           *)
LEMMA KeptAppend ==
    ASSUME NEW X, NEW s \in Seq(X), NEW e \in X, NEW P, NEW Q,
           \A n \in 1 .. Len(s) : n \in P <=> n \in Q
    PROVE  /\ Kept(s, P) \in Seq(X)
           /\ Kept(Append(s, e), Q)
                = IF Len(s) + 1 \in Q THEN Append(Kept(s, P), e) ELSE Kept(s, P)
<1> DEFINE t == Append(s, e)
           d == Len(s)
<1>1. t \in Seq(X) /\ Len(t) = d + 1 /\ d \in Nat /\ t[d+1] = e /\ \A n \in 1 .. d : t[n] = s[n]
  BY Appended
<1>2. PICK f : Filters(f, s, P, Seq(X)) /\ Kept(s, P) = f[Len(s)]
  BY KeptFilters
<1>3. PICK g : Filters(g, t, Q, Seq(X)) /\ Kept(t, Q) = g[Len(t)]
  BY <1>1, KeptFilters
<1>4. Kept(s, P) \in Seq(X)
  <2>1. d \in 0 .. d
    BY <1>1
  <2> QED
    BY <1>2, <2>1 DEF Filters
<1> HIDE DEF t
<1>5. f[d] = g[d]
  <2>1. d <= Len(s) /\ d <= Len(t) /\ Len(s) \in Nat /\ Len(t) \in Nat
    BY <1>1 DEF d
  <2>2. \A n \in 1 .. d : s[n] = t[n] /\ (n \in P <=> n \in Q)
    BY <1>1 DEF d
  <2> QED
    <3>1. d \in Nat /\ Filters(f, s, P, Seq(X)) /\ Filters(g, t, Q, Seq(X))
      BY <1>1, <1>2, <1>3
    <3> QED
      BY <2>1, <2>2, <3>1, FiltersSame
<1> HIDE DEF d
<1>6. g[d+1] = IF d + 1 \in Q THEN Append(g[d], e) ELSE g[d]
  <2>1. d + 1 \in 1 .. Len(t) /\ (d + 1) - 1 = d
    BY <1>1
  <2> QED
    BY <1>1, <1>3, <2>1 DEF Filters
<1> QED
  BY <1>1, <1>2, <1>3, <1>4, <1>5, <1>6 DEF t, d
=============================================================================
