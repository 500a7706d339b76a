------------------------- MODULE EventStream_proofs -------------------------
(***************************************************************************)
(* Proofs about EventStream, for every capacity, every set of calls and    *)
(* all bounds: the queue keeps the order it promises, and a loss is        *)
(* visible.  The first part is about the operations of EventBuffers.       *)
(***************************************************************************)
EXTENDS EventStream, WellFoundedInduction, TLAPS

(* FirstIn and LastIn, of sets that have a first and a last element.       *)
LEMMA FirstOfSome ==
    ASSUME NEW S \in SUBSET Nat, S # {}
    PROVE  FirstIn(S) \in S /\ \A j \in S : FirstIn(S) <= j
<1> DEFINE R == {ss \in Nat \X Nat : ss[1] < ss[2]}
<1>1. IsWellFoundedOn(R, Nat)
  BY NatLessThanWellFounded DEF OpToRel
<1>2. \E x \in S : \A y \in S : ~ (<<y, x>> \in R)
  BY <1>1, WFMin
<1>3. PICK x \in S : \A y \in S : ~ (<<y, x>> \in R)
  BY <1>2
<1>4. ASSUME NEW y \in S PROVE x <= y
  <2>1. x \in Nat /\ y \in Nat /\ <<y, x>> \in Nat \X Nat
    OBVIOUS
  <2>2. <<y, x>>[1] = y /\ <<y, x>>[2] = x /\ ~ (<<y, x>> \in R)
    BY <1>3
  <2>3. ~ (y < x)
    BY <2>1, <2>2
  <2> QED
    BY <2>1, <2>3
<1> QED
  BY <1>4 DEF FirstIn

LEMMA LastOfOne ==
    ASSUME NEW S \in SUBSET Nat, NEW i \in S, \A j \in S : j = i
    PROVE  LastIn(S) = i
<1>1. \E x \in S : \A j \in S : j <= x
  OBVIOUS
<1>2. LastIn(S) \in S
  BY <1>1 DEF LastIn
<1> QED
  BY <1>2

(* RemoveAt leaves the other elements in their order.                      *)
LEMMA Removed ==
    ASSUME NEW S, NEW q \in Seq(S), NEW k \in DOMAIN q
    PROVE  /\ RemoveAt(q, k) \in Seq(S) /\ Len(RemoveAt(q, k)) = Len(q) - 1
           /\ \A i \in 1 .. Len(q) - 1 : RemoveAt(q, k)[i] = q[IF i < k THEN i ELSE i + 1]
<1> DEFINE front == SubSeq(q, 1, k - 1)
           back  == SubSeq(q, k + 1, Len(q))
<1>1. k \in 1 .. Len(q) /\ Len(q) \in Nat
  OBVIOUS
<1>2. /\ front \in Seq(S) /\ Len(front) = k - 1
      /\ \A i \in 1 .. k - 1 : front[i] = q[i]
  BY <1>1
<1>3. /\ back \in Seq(S) /\ Len(back) = Len(q) - k
      /\ \A i \in 1 .. Len(q) - k : back[i] = q[i + k]
  BY <1>1
<1>4. RemoveAt(q, k) = front \o back
  BY DEF RemoveAt
<1> HIDE DEF front, back
<1>5. /\ front \o back \in Seq(S) /\ Len(front \o back) = Len(q) - 1
      /\ \A i \in 1 .. Len(q) - 1 :
           (front \o back)[i] = IF i <= k - 1 THEN front[i] ELSE back[i - (k - 1)]
  BY <1>1, <1>2, <1>3
<1>6. ASSUME NEW i \in 1 .. Len(q) - 1
      PROVE  (front \o back)[i] = q[IF i < k THEN i ELSE i + 1]
  <2>1. CASE i < k
    BY <1>1, <1>2, <1>5, <2>1
  <2>2. CASE ~ (i < k)
    <3>1. i - (k - 1) \in 1 .. Len(q) - k /\ (i - (k - 1)) + k = i + 1 /\ ~ (i <= k - 1)
      BY <1>1, <2>2
    <3>2. (front \o back)[i] = back[i - (k - 1)]
      BY <1>5, <3>1
    <3>3. back[i - (k - 1)] = q[(i - (k - 1)) + k]
      BY <1>3, <3>1
    <3> QED
      BY <2>2, <3>1, <3>2, <3>3
  <2> QED
    BY <2>1, <2>2
<1> QED
  BY <1>4, <1>5, <1>6

-----------------------------------------------------------------------------
(* What the buffer tells payloads apart by.                                *)

InSlot(p, s) == p.kind \in {"state", "snapshot"} /\ SlotOf(p) = s

LEMMA PayloadFacts ==
    ASSUME NEW p \in Payloads
    PROVE  /\ p.kind \in {"state", "snapshot", "closing", "control", "resync"}
           /\ p.kind = "state" => p = StateChanged(p.body) /\ p.body \in Versions
           /\ p.kind = "snapshot" =>
                p = ResponseSnapshot(p.call, p.body) /\ p.call \in Calls /\ p.body \in Versions
           /\ p.kind = "closing" => p.call \in Calls /\ p.body \in 1 .. MaxControls
           /\ p.kind = "control" => p.body \in 1 .. MaxControls
           /\ p.kind = "resync" <=> p = ResyncRequired
<1>1. CASE \E v \in Versions : p = StateChanged(v)
  BY <1>1 DEF StateChanged, ResyncRequired
<1>2. CASE \E c \in Calls, v \in Versions : p = ResponseSnapshot(c, v)
  BY <1>2 DEF ResponseSnapshot, ResyncRequired
<1>3. CASE \E c \in Calls, n \in 1 .. MaxControls : p = CallClosed(c, n)
  BY <1>3 DEF CallClosed, ResyncRequired
<1>4. CASE \E n \in 1 .. MaxControls : p = Control(n)
  BY <1>4 DEF Control, ResyncRequired
<1>5. CASE p = ResyncRequired
  BY <1>5 DEF ResyncRequired
<1> QED
  BY <1>1, <1>2, <1>3, <1>4, <1>5 DEF Payloads

(* A payload fills one slot or none; the slot of a call is not the state's. *)
LEMMA SlotFacts ==
    ASSUME NEW p \in Payloads, p.kind \in {"state", "snapshot"}
    PROVE  /\ SlotOf(p) \in SlotNames /\ p.body \in Versions
           /\ p.kind = "state" <=> SlotOf(p) = State
           /\ p.kind = "snapshot" <=> SlotOf(p) \in Calls
           /\ p.kind = "snapshot" => SlotOf(p) = p.call
  BY PayloadFacts, StateIsNoCall DEF SlotOf, SlotNames

-----------------------------------------------------------------------------
(* Queues.  What the invariants say of the queue in order, and of the      *)
(* slots and the controls in it.                                           *)

InOrder(q, low, high) ==
    /\ \A i \in DOMAIN q : low < q[i].seq /\ q[i].seq < high
    /\ \A i, j \in DOMAIN q : i < j => q[i].seq < q[j].seq

OncePerSlot(q) ==
    \A i, j \in DOMAIN q, s \in SlotNames :
        InSlot(q[i].payload, s) /\ InSlot(q[j].payload, s) => i = j

ControlsGrow(q) ==
    \A i, j \in DOMAIN q :
        IsControl(q[i].payload) /\ IsControl(q[j].payload) /\ i < j =>
          q[i].payload.body < q[j].payload.body

BodiesIn(q) == {q[i].payload.body : i \in {j \in DOMAIN q : IsControl(q[j].payload)}}

(* The newest body of a slot is the queued one, or the one received when   *)
(* none is queued.                                                         *)
NewestIn(q, new, old) ==
    \A s \in SlotNames :
        new[s] # Lost =>
          /\ \A i \in DOMAIN q : InSlot(q[i].payload, s) => q[i].payload.body = new[s]
          /\ (\A i \in DOMAIN q : ~ InSlot(q[i].payload, s)) => old[s] = new[s]

(* The queue r is the queue q without its k-th element.                    *)
Without(r, q, k) ==
    /\ r \in Seq(Envelopes) /\ Len(r) = Len(q) - 1
    /\ \A i \in 1 .. Len(q) - 1 : r[i] = q[IF i < k THEN i ELSE i + 1]

LEMMA RemoveIsWithout ==
    ASSUME NEW q \in Seq(Envelopes), NEW k \in DOMAIN q
    PROVE  Without(RemoveAt(q, k), q, k)
  BY Removed DEF Without

LEMMA TailIsWithout ==
    ASSUME NEW q \in Seq(Envelopes), q # << >>
    PROVE  1 \in DOMAIN q /\ Head(q) = q[1] /\ Without(Tail(q), q, 1)
  BY DEF Without

LEMMA WithoutFacts ==
    ASSUME NEW q \in Seq(Envelopes), NEW k \in DOMAIN q, NEW r, Without(r, q, k)
    PROVE  /\ \A i \in DOMAIN r : \E j \in DOMAIN q \ {k} : r[i] = q[j]
           /\ \A j \in DOMAIN q \ {k} : \E i \in DOMAIN r : r[i] = q[j]
           /\ \A i1, i2 \in DOMAIN r :
                i1 < i2 => \E j1, j2 \in DOMAIN q : j1 < j2 /\ r[i1] = q[j1] /\ r[i2] = q[j2]
<1>1. /\ DOMAIN q = 1 .. Len(q) /\ Len(q) \in Nat /\ k \in 1 .. Len(q)
      /\ DOMAIN r = 1 .. Len(q) - 1
  BY DEF Without
<1>2. \A i \in 1 .. Len(q) - 1 : r[i] = q[IF i < k THEN i ELSE i + 1]
  BY DEF Without
<1>3. ASSUME NEW i \in DOMAIN r PROVE \E j \in DOMAIN q \ {k} : r[i] = q[j]
  <2>1. (IF i < k THEN i ELSE i + 1) \in DOMAIN q \ {k}
    BY <1>1
  <2> QED
    BY <1>1, <1>2, <2>1
<1>4. ASSUME NEW j \in DOMAIN q \ {k} PROVE \E i \in DOMAIN r : r[i] = q[j]
  <2> DEFINE i == IF j < k THEN j ELSE j - 1
  <2>1. i \in 1 .. Len(q) - 1 /\ (IF i < k THEN i ELSE i + 1) = j
    BY <1>1
  <2> QED
    BY <1>1, <1>2, <2>1
<1>5. ASSUME NEW i1 \in DOMAIN r, NEW i2 \in DOMAIN r, i1 < i2
      PROVE  \E j1, j2 \in DOMAIN q : j1 < j2 /\ r[i1] = q[j1] /\ r[i2] = q[j2]
  <2> DEFINE j1 == IF i1 < k THEN i1 ELSE i1 + 1
             j2 == IF i2 < k THEN i2 ELSE i2 + 1
  <2>1. j1 \in DOMAIN q /\ j2 \in DOMAIN q /\ j1 < j2
    BY <1>1, <1>5
  <2>2. r[i1] = q[j1] /\ r[i2] = q[j2]
    BY <1>1, <1>2
  <2> QED
    BY <2>1, <2>2
<1> QED
  BY <1>3, <1>4, <1>5

(* Taking an element out disturbs none of the orders.                      *)
LEMMA WithoutKeeps ==
    ASSUME NEW q \in Seq(Envelopes), NEW k \in DOMAIN q, NEW r, Without(r, q, k)
    PROVE  /\ \A low, high : InOrder(q, low, high) => InOrder(r, low, high)
           /\ OncePerSlot(q) => OncePerSlot(r)
           /\ ControlsGrow(q) => ControlsGrow(r)
<1>1. /\ \A i \in DOMAIN r : \E j \in DOMAIN q \ {k} : r[i] = q[j]
      /\ \A i1, i2 \in DOMAIN r :
           i1 < i2 => \E j1, j2 \in DOMAIN q : j1 < j2 /\ r[i1] = q[j1] /\ r[i2] = q[j2]
  BY WithoutFacts
<1>2. DOMAIN r \subseteq Nat /\ DOMAIN q \subseteq Nat
  BY DEF Without
<1>3. ASSUME NEW low, NEW high, InOrder(q, low, high) PROVE InOrder(r, low, high)
  BY <1>1, <1>3 DEF InOrder
<1>4. ASSUME OncePerSlot(q) PROVE OncePerSlot(r)
  <2>1. SUFFICES ASSUME NEW i1 \in DOMAIN r, NEW i2 \in DOMAIN r, NEW s \in SlotNames,
                        InSlot(r[i1].payload, s), InSlot(r[i2].payload, s), i1 < i2
                 PROVE  FALSE
    BY <1>2 DEF OncePerSlot
  <2>2. PICK j1 \in DOMAIN q, j2 \in DOMAIN q : j1 < j2 /\ r[i1] = q[j1] /\ r[i2] = q[j2]
    BY <1>1, <2>1
  <2>3. j1 = j2
    BY <1>4, <2>1, <2>2 DEF OncePerSlot
  <2> QED
    BY <1>2, <2>2, <2>3
<1>5. ASSUME ControlsGrow(q) PROVE ControlsGrow(r)
  <2>1. SUFFICES ASSUME NEW i1 \in DOMAIN r, NEW i2 \in DOMAIN r,
                        IsControl(r[i1].payload), IsControl(r[i2].payload), i1 < i2
                 PROVE  r[i1].payload.body < r[i2].payload.body
    BY DEF ControlsGrow
  <2>2. PICK j1 \in DOMAIN q, j2 \in DOMAIN q : j1 < j2 /\ r[i1] = q[j1] /\ r[i2] = q[j2]
    BY <1>1, <2>1
  <2> QED
    BY <1>5, <2>1, <2>2 DEF ControlsGrow
<1> QED
  BY <1>3, <1>4, <1>5

LEMMA WithoutBodies ==
    ASSUME NEW q \in Seq(Envelopes), NEW k \in DOMAIN q, NEW r, Without(r, q, k)
    PROVE  /\ ~ IsControl(q[k].payload) => BodiesIn(r) = BodiesIn(q)
           /\ IsControl(q[k].payload) => BodiesIn(q) = BodiesIn(r) \cup {q[k].payload.body}
<1>1. /\ \A i \in DOMAIN r : \E j \in DOMAIN q \ {k} : r[i] = q[j]
      /\ \A j \in DOMAIN q \ {k} : \E i \in DOMAIN r : r[i] = q[j]
  BY WithoutFacts
<1>2. BodiesIn(r) = {q[j].payload.body : j \in {i \in DOMAIN q \ {k} : IsControl(q[i].payload)}}
  BY <1>1 DEF BodiesIn
<1> QED
  BY <1>2 DEF BodiesIn

(* Publishing at the end, with a new number.                               *)
LEMMA PushKeeps ==
    ASSUME NEW q \in Seq(Envelopes), NEW e \in Envelopes, NEW low \in Nat
    PROVE  LET r == Append(q, e) IN
           /\ r \in Seq(Envelopes) /\ Len(r) = Len(q) + 1
           /\ InOrder(q, low, e.seq) /\ low < e.seq => InOrder(r, low, e.seq + 1)
           /\ /\ OncePerSlot(q)
              /\ \A i \in DOMAIN q, s \in SlotNames :
                   InSlot(e.payload, s) => ~ InSlot(q[i].payload, s)
              => OncePerSlot(r)
           /\ /\ ControlsGrow(q)
              /\ \A i \in DOMAIN q :
                   IsControl(e.payload) /\ IsControl(q[i].payload) =>
                     q[i].payload.body < e.payload.body
              => ControlsGrow(r)
           /\ ~ IsControl(e.payload) => BodiesIn(r) = BodiesIn(q)
           /\ IsControl(e.payload) => BodiesIn(r) = BodiesIn(q) \cup {e.payload.body}
<1> DEFINE r == Append(q, e)
           n == Len(q) + 1
<1>1. /\ r \in Seq(Envelopes) /\ Len(r) = n /\ n \in Nat \ {0}
      /\ DOMAIN q = 1 .. n - 1 /\ DOMAIN r = 1 .. n
      /\ r[n] = e /\ \A i \in 1 .. n - 1 : r[i] = q[i]
  OBVIOUS
<1>2. e.seq \in Nat /\ \A i \in DOMAIN q : q[i].seq \in Nat
  <2>1. \A x \in Envelopes : x.seq \in Nat
    BY BoundsAreNumbers DEF Envelopes
  <2> QED
    BY <2>1
<1> HIDE DEF r, n
<1>3. ASSUME InOrder(q, low, e.seq), low < e.seq PROVE InOrder(r, low, e.seq + 1)
  <2>1. \A i \in 1 .. n : low < r[i].seq /\ r[i].seq < e.seq + 1
    BY <1>1, <1>2, <1>3 DEF InOrder
  <2>2. \A i, j \in 1 .. n : i < j => r[i].seq < r[j].seq
    BY <1>1, <1>2, <1>3 DEF InOrder
  <2> QED
    BY <1>1, <2>1, <2>2 DEF InOrder
<1>4. ASSUME OncePerSlot(q),
             \A i \in DOMAIN q, s \in SlotNames :
               InSlot(e.payload, s) => ~ InSlot(q[i].payload, s)
      PROVE  OncePerSlot(r)
  BY <1>1, <1>4 DEF OncePerSlot
<1>5. ASSUME ControlsGrow(q),
             \A i \in DOMAIN q :
               IsControl(e.payload) /\ IsControl(q[i].payload) =>
                 q[i].payload.body < e.payload.body
      PROVE  ControlsGrow(r)
  BY <1>1, <1>5 DEF ControlsGrow
<1>6. \A i \in DOMAIN r : (i = n /\ r[i] = e) \/ (i \in DOMAIN q /\ r[i] = q[i])
  BY <1>1
<1>7. ~ IsControl(e.payload) => BodiesIn(r) = BodiesIn(q)
  BY <1>1, <1>6 DEF BodiesIn
<1>8. ASSUME IsControl(e.payload) PROVE BodiesIn(r) = BodiesIn(q) \cup {e.payload.body}
  <2>1. BodiesIn(r) \subseteq BodiesIn(q) \cup {e.payload.body}
    BY <1>6 DEF BodiesIn
  <2>2. n \in DOMAIN r /\ e.payload.body \in BodiesIn(r)
    <3>1. n \in {j \in DOMAIN r : IsControl(r[j].payload)} /\ r[n].payload.body = e.payload.body
      BY <1>1, <1>8
    <3> QED
      BY <3>1 DEF BodiesIn
  <2>3. BodiesIn(q) \subseteq BodiesIn(r)
    <3>1. \A i \in DOMAIN q : i \in DOMAIN r /\ r[i] = q[i]
      BY <1>1
    <3> QED
      BY <3>1 DEF BodiesIn
  <2> QED
    BY <2>1, <2>2, <2>3
<1> QED
  BY <1>1, <1>3, <1>4, <1>5, <1>7, <1>8 DEF r, n

(* Publishing over a queued payload of the same slot.                      *)
SameSlots(r, q, k) ==
    \A i \in DOMAIN q :
        /\ i # k => r[i] = q[i]
        /\ \A s \in SlotNames : InSlot(r[i].payload, s) <=> InSlot(q[i].payload, s)

LEMMA OverwriteKeeps ==
    ASSUME NEW q \in Seq(Envelopes), NEW k \in DOMAIN q, NEW p \in Payloads,
           NEW slot \in SlotNames, InSlot(p, slot), InSlot(q[k].payload, slot),
           NEW o, o = [q EXCEPT ![k].payload = p]
    PROVE  /\ o \in Seq(Envelopes) /\ Len(o) = Len(q) /\ o[k].payload = p
           /\ SameSlots(o, q, k)
           /\ \A low, high : InOrder(q, low, high) => InOrder(o, low, high)
           /\ OncePerSlot(q) => OncePerSlot(o)
           /\ ControlsGrow(q) => ControlsGrow(o)
           /\ BodiesIn(o) = BodiesIn(q)
<1> DEFINE r == [q EXCEPT ![k].payload = p]
<1>1. \A i \in DOMAIN q : q[i] \in Envelopes
  OBVIOUS
<1>2. /\ DOMAIN r = DOMAIN q /\ r[k] = [q[k] EXCEPT !.payload = p]
      /\ \A i \in DOMAIN q : i # k => r[i] = q[i]
  OBVIOUS
<1>3. [q[k] EXCEPT !.payload = p] \in Envelopes
  BY <1>1 DEF Envelopes
<1>4. r \in Seq(Envelopes) /\ Len(r) = Len(q)
  <2>1. r = [q EXCEPT ![k] = [q[k] EXCEPT !.payload = p]]
    OBVIOUS
  <2> HIDE DEF r
  <2> QED
    BY <1>3, <2>1
<1>5. r[k].payload = p /\ r[k].seq = q[k].seq
  <2>1. q[k] \in Envelopes
    BY <1>1
  <2> QED
    BY <1>2, <2>1 DEF Envelopes
<1> HIDE DEF r
<1>6. /\ \A s : InSlot(p, s) <=> InSlot(q[k].payload, s)
      /\ ~ IsControl(p) /\ ~ IsControl(q[k].payload)
  BY DEF InSlot, IsControl
<1>7. \A i \in DOMAIN q : /\ r[i].seq = q[i].seq
                          /\ \A s \in SlotNames : InSlot(r[i].payload, s) <=> InSlot(q[i].payload, s)
                          /\ IsControl(r[i].payload) <=> IsControl(q[i].payload)
                          /\ IsControl(q[i].payload) => r[i] = q[i]
  BY <1>2, <1>5, <1>6
<1>8. \A low, high : InOrder(q, low, high) => InOrder(r, low, high)
  BY <1>2, <1>7 DEF InOrder
<1>9. OncePerSlot(q) => OncePerSlot(r)
  BY <1>2, <1>7 DEF OncePerSlot
<1>10. ControlsGrow(q) => ControlsGrow(r)
  BY <1>2, <1>7 DEF ControlsGrow
<1>11. BodiesIn(r) = BodiesIn(q)
  BY <1>2, <1>7 DEF BodiesIn
<1>12. SameSlots(r, q, k)
  BY <1>2, <1>7 DEF SameSlots
<1> QED
  BY <1>2, <1>4, <1>5, <1>8, <1>9, <1>10, <1>11, <1>12 DEF r

-----------------------------------------------------------------------------
(* The buffer operations.                                                  *)

Publishable == Payloads \ {ResyncRequired}

Envelope(n, p) == [seq |-> n, payload |-> p]

SlotFree(q, p) == \A i \in DOMAIN q, s \in SlotNames : InSlot(p, s) => ~ InSlot(q[i].payload, s)

(* What publish does to the buffer: it turns p away, writes it over an     *)
(* older payload of its slot, evicts a draft for it, refuses it, or puts   *)
(* it at the end.                                                          *)
PublishEffect(b, p, c) ==
    LET q == b.queue
        k == FirstIn(Evictable(b))
    IN  \/ /\ b.closed /\ ~ Evicts(b, p) /\ ~ Refuses(b, p)
           /\ c = b
        \/ /\ ~ b.closed /\ ~ Evicts(b, p) /\ ~ Refuses(b, p)
           /\ \E i \in DOMAIN q, s \in SlotNames :
                /\ InSlot(p, s) /\ InSlot(q[i].payload, s)
                /\ c.queue = [q EXCEPT ![i].payload = p]
           /\ c.next_seq = b.next_seq
        \/ /\ ~ b.closed /\ Evicts(b, p) /\ ~ Refuses(b, p) /\ SlotFree(q, p)
           /\ k \in DOMAIN q /\ q[k].payload.kind = "snapshot"
           /\ c.queue = Append(RemoveAt(q, k), Envelope(b.next_seq, p))
           /\ c.next_seq = b.next_seq + 1
        \/ /\ ~ b.closed /\ ~ Evicts(b, p) /\ Refuses(b, p) /\ SlotFree(q, p)
           /\ c.queue = q /\ c.next_seq = b.next_seq
        \/ /\ ~ b.closed /\ ~ Evicts(b, p) /\ ~ Refuses(b, p) /\ SlotFree(q, p)
           /\ Slots(b, p) = {}
           /\ c.queue = Append(q, Envelope(b.next_seq, p))
           /\ c.next_seq = b.next_seq + 1

LEMMA SlotsAreSlots ==
    ASSUME NEW b \in Buffers, NEW p \in Payloads
    PROVE  /\ \A i \in Slots(b, p) : /\ i \in DOMAIN b.queue
                                     /\ p.kind \in {"state", "snapshot"}
                                     /\ InSlot(p, SlotOf(p)) /\ SlotOf(p) \in SlotNames
                                     /\ InSlot(b.queue[i].payload, SlotOf(p))
           /\ Slots(b, p) = {} => SlotFree(b.queue, p)
<1> DEFINE q == b.queue
<1>1. \A i \in DOMAIN q : q[i].payload \in Payloads
  <2>1. q \in Seq(Envelopes)
    BY DEF Buffers
  <2>2. \A i \in DOMAIN q : q[i] \in Envelopes
    BY <2>1
  <2> HIDE DEF q
  <2> QED
    BY <2>2 DEF Envelopes
<1>2. ASSUME NEW i \in Slots(b, p)
      PROVE  /\ i \in DOMAIN q
             /\ p.kind \in {"state", "snapshot"}
             /\ InSlot(p, SlotOf(p)) /\ SlotOf(p) \in SlotNames
             /\ InSlot(q[i].payload, SlotOf(p))
  <2>1. /\ i \in DOMAIN q
        /\ \/ p.kind = "snapshot" /\ q[i].payload.kind = "snapshot" /\ q[i].payload.call = p.call
           \/ p.kind = "state" /\ q[i].payload.kind = "state"
    BY DEF Slots, IsSnapshot
  <2>2. q[i].payload \in Payloads
    BY <1>1, <2>1
  <2> QED
    BY <2>1, <2>2, SlotFacts DEF InSlot
<1>3. ASSUME Slots(b, p) = {}, NEW i \in DOMAIN q, NEW s \in SlotNames,
             InSlot(p, s), InSlot(q[i].payload, s)
      PROVE  FALSE
  <2>1. q[i].payload \in Payloads
    BY <1>1
  <2>2. \/ p.kind = "snapshot" /\ q[i].payload.kind = "snapshot" /\ q[i].payload.call = p.call
        \/ p.kind = "state" /\ q[i].payload.kind = "state"
    BY <1>3, <2>1, SlotFacts DEF InSlot
  <2>3. i \in Slots(b, p)
    BY <2>2 DEF Slots, IsSnapshot
  <2> QED
    BY <1>3, <2>3
<1> QED
  BY <1>2, <1>3 DEF SlotFree

IsBuffer(c) ==
    c = [queue |-> c.queue, next_seq |-> c.next_seq, last_delivered_seq |-> c.last_delivered_seq,
         resync_required |-> c.resync_required, marker_queued |-> c.marker_queued,
         closed |-> c.closed, active_assistant_calls |-> c.active_assistant_calls]

LEMMA BufferFacts ==
    ASSUME NEW b \in Buffers
    PROVE  /\ IsBuffer(b) /\ b.queue \in Seq(Envelopes)
           /\ b.next_seq \in 1 .. MaxSeq + 1 /\ b.last_delivered_seq \in 0 .. MaxSeq
           /\ b.resync_required \in BOOLEAN /\ b.marker_queued \in BOOLEAN /\ b.closed \in BOOLEAN
           /\ b.active_assistant_calls \in SUBSET Calls
  BY DEF Buffers, IsBuffer

LEMMA PublishCases ==
    ASSUME NEW b \in Buffers, NEW p \in Publishable, OncePerSlot(b.queue)
    PROVE  LET c == Publish(b, p) IN
           /\ PublishEffect(b, p, c) /\ IsBuffer(c)
           /\ c.closed = b.closed
           /\ c.last_delivered_seq = b.last_delivered_seq
           /\ c.marker_queued = b.marker_queued
           /\ c.active_assistant_calls \in SUBSET Calls
           /\ c.resync_required = (b.resync_required \/ Evicts(b, p) \/ Refuses(b, p))
<1> DEFINE q == b.queue
           c == Publish(b, p)
           calls == ActiveAfter(b.active_assistant_calls, p)
           a == [b EXCEPT !.active_assistant_calls = ActiveAfter(@, p)]
           Effect == /\ PublishEffect(b, p, c) /\ IsBuffer(c)
                     /\ c.closed = b.closed
                     /\ c.last_delivered_seq = b.last_delivered_seq
                     /\ c.marker_queued = b.marker_queued
                     /\ c.active_assistant_calls \in SUBSET Calls
                     /\ c.resync_required = (b.resync_required \/ Evicts(b, p) \/ Refuses(b, p))
<1>1. p \in Payloads /\ p # ResyncRequired
  BY DEF Publishable
<1>2. /\ q \in Seq(Envelopes) /\ b.closed \in BOOLEAN
      /\ b.resync_required \in BOOLEAN /\ b.active_assistant_calls \in SUBSET Calls
      /\ IsBuffer(b)
  BY BufferFacts
<1>3. calls \in SUBSET Calls
  BY <1>1, <1>2, PayloadFacts DEF ActiveAfter
<1> HIDE DEF calls
<1>4. a = [queue |-> q, next_seq |-> b.next_seq, last_delivered_seq |-> b.last_delivered_seq,
           resync_required |-> b.resync_required, marker_queued |-> b.marker_queued,
           closed |-> b.closed, active_assistant_calls |-> calls]
  BY <1>2 DEF calls, IsBuffer
<1> HIDE DEF a
<1>5. /\ \A n : Slots([b EXCEPT !.active_assistant_calls = n], p) = Slots(b, p)
      /\ Slots(a, p) = Slots(b, p) /\ Evictable(a) = Evictable(b)
  BY <1>2, <1>4 DEF Slots, Evictable, IsBuffer
<1>6. CASE b.closed
  <2>1. ~ Evicts(b, p) /\ ~ Refuses(b, p) /\ ~ Coalesces(b, p)
    BY <1>6 DEF Evicts, Refuses, Coalesces
  <2>2. c = b
    BY <1>6, <2>1 DEF Publish
  <2> HIDE DEF c
  <2>3. Effect
    BY <1>2, <1>6, <2>1, <2>2 DEF PublishEffect
  <2> QED
    BY <2>3 DEF c
<1>7. CASE ~ b.closed /\ Slots(b, p) # {}
  <2>1. ~ Evicts(b, p) /\ ~ Refuses(b, p) /\ Coalesces(b, p)
    BY <1>7 DEF Evicts, Refuses, Coalesces
  <2>2. c = Coalesced(a, p)
    BY <1>7, <2>1 DEF Publish, a
  <2> DEFINE k == IF IsSnapshot(p) THEN FirstIn(Slots(b, p)) ELSE LastIn(Slots(b, p))
  <2>3. Slots(b, p) \in SUBSET Nat
    BY <1>2 DEF Slots
  <2>4. \A i, j \in Slots(b, p) : i = j
    <3>1. \A i \in Slots(b, p) : /\ i \in DOMAIN q /\ SlotOf(p) \in SlotNames
                                 /\ InSlot(q[i].payload, SlotOf(p))
      BY <1>1, SlotsAreSlots
    <3> QED
      BY <3>1 DEF OncePerSlot
  <2>5. k \in Slots(b, p)
    <3>1. PICK i \in Slots(b, p) : TRUE
      BY <1>7
    <3>2. LastIn(Slots(b, p)) = i /\ FirstIn(Slots(b, p)) \in Slots(b, p)
      BY <2>3, <2>4, <3>1, FirstOfSome, LastOfOne
    <3> QED
      BY <3>1, <3>2
  <2>6. c = [a EXCEPT !.queue[k].payload = p]
    BY <1>5, <2>2 DEF Coalesced
  <2> HIDE DEF c, k
  <2>7. c = [queue |-> [q EXCEPT ![k].payload = p], next_seq |-> b.next_seq,
             last_delivered_seq |-> b.last_delivered_seq,
             resync_required |-> b.resync_required, marker_queued |-> b.marker_queued,
             closed |-> b.closed, active_assistant_calls |-> calls]
    BY <1>4, <2>6
  <2>8. /\ c.queue = [q EXCEPT ![k].payload = p] /\ c.next_seq = b.next_seq /\ IsBuffer(c)
        /\ c.last_delivered_seq = b.last_delivered_seq
        /\ c.resync_required = b.resync_required /\ c.marker_queued = b.marker_queued
        /\ c.closed = b.closed /\ c.active_assistant_calls = calls
    BY <2>7 DEF IsBuffer
  <2>9. \E i \in DOMAIN q, s \in SlotNames :
          /\ InSlot(p, s) /\ InSlot(q[i].payload, s)
          /\ c.queue = [q EXCEPT ![i].payload = p]
    BY <1>1, <2>5, <2>8, SlotsAreSlots
  <2>10. Effect
    BY <1>2, <1>3, <1>7, <2>1, <2>8, <2>9 DEF PublishEffect
  <2> QED
    BY <2>10 DEF c
<1>8. CASE ~ b.closed /\ Slots(b, p) = {} /\ Evicts(b, p)
  <2>1. ~ Refuses(b, p) /\ ~ Coalesces(b, p) /\ SlotFree(q, p)
    BY <1>1, <1>8, SlotsAreSlots DEF Evicts, Refuses, Coalesces
  <2>2. c = Push(WithLoss(Evicted(a)), p)
    BY <1>8, <2>1 DEF Publish, a
  <2> DEFINE k == FirstIn(Evictable(b))
  <2>3. k \in DOMAIN q /\ q[k].payload.kind = "snapshot"
    <3>1. Evictable(b) \in SUBSET Nat /\ Evictable(b) # {}
      BY <1>2, <1>8 DEF Evictable, Evicts
    <3>2. k \in Evictable(b)
      BY <3>1, FirstOfSome
    <3> QED
      BY <3>2 DEF Evictable, IsSnapshot
  <2>4. c = [queue |-> Append(RemoveAt(q, k), Envelope(b.next_seq, p)),
             next_seq |-> b.next_seq + 1,
             last_delivered_seq |-> b.last_delivered_seq,
             resync_required |-> TRUE, marker_queued |-> b.marker_queued,
             closed |-> b.closed, active_assistant_calls |-> calls]
    BY <1>4, <1>5, <2>2 DEF Push, WithLoss, Evicted, Envelope
  <2> HIDE DEF c, k
  <2>5. /\ c.queue = Append(RemoveAt(q, k), Envelope(b.next_seq, p))
        /\ c.next_seq = b.next_seq + 1 /\ IsBuffer(c)
        /\ c.last_delivered_seq = b.last_delivered_seq
        /\ c.resync_required = TRUE /\ c.marker_queued = b.marker_queued
        /\ c.closed = b.closed /\ c.active_assistant_calls = calls
    BY <2>4 DEF IsBuffer
  <2>6. Effect
    BY <1>2, <1>3, <1>8, <2>1, <2>3, <2>5 DEF PublishEffect, k
  <2> QED
    BY <2>6 DEF c
<1>9. CASE ~ b.closed /\ Slots(b, p) = {} /\ Refuses(b, p)
  <2>1. ~ Evicts(b, p) /\ ~ Coalesces(b, p) /\ SlotFree(q, p)
    BY <1>1, <1>9, SlotsAreSlots DEF Evicts, Refuses, Coalesces
  <2>2. c = WithLoss(a)
    BY <1>9, <2>1 DEF Publish, a
  <2> HIDE DEF c
  <2>3. c = [queue |-> q, next_seq |-> b.next_seq,
             last_delivered_seq |-> b.last_delivered_seq,
             resync_required |-> TRUE, marker_queued |-> b.marker_queued,
             closed |-> b.closed, active_assistant_calls |-> calls]
    BY <1>4, <2>2 DEF WithLoss
  <2>4. /\ c.queue = q /\ c.next_seq = b.next_seq /\ IsBuffer(c)
        /\ c.last_delivered_seq = b.last_delivered_seq
        /\ c.resync_required = TRUE /\ c.marker_queued = b.marker_queued
        /\ c.closed = b.closed /\ c.active_assistant_calls = calls
    BY <2>3 DEF IsBuffer
  <2>5. Effect
    BY <1>2, <1>3, <1>9, <2>1, <2>4 DEF PublishEffect
  <2> QED
    BY <2>5 DEF c
<1>10. CASE ~ b.closed /\ Slots(b, p) = {} /\ ~ Evicts(b, p) /\ ~ Refuses(b, p)
  <2>1. ~ Coalesces(b, p) /\ SlotFree(q, p)
    BY <1>1, <1>10, SlotsAreSlots DEF Coalesces
  <2>2. c = Push(a, p)
    BY <1>10, <2>1 DEF Publish, a
  <2> HIDE DEF c
  <2>3. c = [queue |-> Append(q, Envelope(b.next_seq, p)),
             next_seq |-> b.next_seq + 1,
             last_delivered_seq |-> b.last_delivered_seq,
             resync_required |-> b.resync_required, marker_queued |-> b.marker_queued,
             closed |-> b.closed, active_assistant_calls |-> calls]
    BY <1>4, <2>2 DEF Push, Envelope
  <2>4. /\ c.queue = Append(q, Envelope(b.next_seq, p))
        /\ c.next_seq = b.next_seq + 1 /\ IsBuffer(c)
        /\ c.last_delivered_seq = b.last_delivered_seq
        /\ c.resync_required = b.resync_required /\ c.marker_queued = b.marker_queued
        /\ c.closed = b.closed /\ c.active_assistant_calls = calls
    BY <2>3 DEF IsBuffer
  <2>5. Effect
    BY <1>2, <1>3, <1>10, <2>1, <2>4 DEF PublishEffect
  <2> QED
    BY <2>5 DEF c
<1> QED
  BY <1>2, <1>6, <1>7, <1>8, <1>9, <1>10

LEMMA MarkedCases ==
    ASSUME NEW b \in Buffers
    PROVE  LET c == Marked(b) IN
           /\ IsBuffer(c)
           /\ \/ c = b
              \/ /\ b.resync_required /\ ~ Full(b) /\ c.marker_queued
                 /\ c.queue = Append(b.queue, Envelope(b.next_seq, ResyncRequired))
                 /\ c.next_seq = b.next_seq + 1
                 /\ c.last_delivered_seq = b.last_delivered_seq
                 /\ c.resync_required = b.resync_required /\ c.closed = b.closed
                 /\ c.active_assistant_calls = b.active_assistant_calls
<1> DEFINE c == Marked(b)
<1>1. IsBuffer(b)
  BY BufferFacts
<1>2. CASE c = b
  BY <1>1, <1>2
<1>3. CASE c # b
  <2>1. /\ b.resync_required /\ ~ Full(b)
        /\ c = [Push(b, ResyncRequired) EXCEPT !.marker_queued = TRUE]
    BY <1>3 DEF Marked
  <2>2. c = [queue |-> Append(b.queue, Envelope(b.next_seq, ResyncRequired)),
             next_seq |-> b.next_seq + 1,
             last_delivered_seq |-> b.last_delivered_seq,
             resync_required |-> b.resync_required, marker_queued |-> TRUE,
             closed |-> b.closed, active_assistant_calls |-> b.active_assistant_calls]
    BY <1>1, <2>1 DEF Push, Envelope, IsBuffer
  <2> HIDE DEF c
  <2>3. /\ c.queue = Append(b.queue, Envelope(b.next_seq, ResyncRequired))
        /\ c.next_seq = b.next_seq + 1 /\ IsBuffer(c)
        /\ c.last_delivered_seq = b.last_delivered_seq
        /\ c.resync_required = b.resync_required /\ c.marker_queued = TRUE
        /\ c.closed = b.closed /\ c.active_assistant_calls = b.active_assistant_calls
    BY <2>2 DEF IsBuffer
  <2> QED
    BY <2>1, <2>3 DEF c
<1> QED
  BY <1>2, <1>3

-----------------------------------------------------------------------------
(* The newest body of every slot, as the queue changes.                    *)

LEMMA NewestForgotten ==
    ASSUME NEW q, NEW new, NEW new2, NEW old, NewestIn(q, new, old),
           \A s \in SlotNames : new2[s] = Lost \/ new2[s] = new[s]
    PROVE  NewestIn(q, new2, old)
  BY DEF NewestIn

LEMMA NewestWithout ==
    ASSUME NEW q \in Seq(Envelopes), NEW k \in DOMAIN q, NEW r, Without(r, q, k),
           NEW new, NEW old, NewestIn(q, new, old),
           \A s \in SlotNames : InSlot(q[k].payload, s) => new[s] = Lost
    PROVE  NewestIn(r, new, old)
<1>1. /\ \A i \in DOMAIN r : \E j \in DOMAIN q \ {k} : r[i] = q[j]
      /\ \A j \in DOMAIN q \ {k} : \E i \in DOMAIN r : r[i] = q[j]
  BY WithoutFacts
<1>2. SUFFICES ASSUME NEW s \in SlotNames, new[s] # Lost
               PROVE  /\ \A i \in DOMAIN r : InSlot(r[i].payload, s) => r[i].payload.body = new[s]
                      /\ (\A i \in DOMAIN r : ~ InSlot(r[i].payload, s)) => old[s] = new[s]
  BY DEF NewestIn
<1>3. /\ \A i \in DOMAIN q : InSlot(q[i].payload, s) => q[i].payload.body = new[s]
      /\ (\A i \in DOMAIN q : ~ InSlot(q[i].payload, s)) => old[s] = new[s]
      /\ ~ InSlot(q[k].payload, s)
  BY <1>2 DEF NewestIn
<1>4. \A i \in DOMAIN r : InSlot(r[i].payload, s) => r[i].payload.body = new[s]
  BY <1>1, <1>3
<1>5. (\A i \in DOMAIN r : ~ InSlot(r[i].payload, s)) => \A i \in DOMAIN q : ~ InSlot(q[i].payload, s)
  BY <1>1, <1>3
<1> QED
  BY <1>3, <1>4, <1>5

LEMMA NewestPushed ==
    ASSUME NEW q \in Seq(Envelopes), NEW e \in Envelopes, NEW new, NEW new2, NEW old,
           NewestIn(q, new, old), SlotFree(q, e.payload),
           \A s \in SlotNames :
             new2[s] = IF InSlot(e.payload, s) THEN e.payload.body ELSE new[s]
    PROVE  NewestIn(Append(q, e), new2, old)
<1> DEFINE r == Append(q, e)
           n == Len(q) + 1
<1>1. /\ n \in Nat \ {0} /\ DOMAIN q = 1 .. n - 1 /\ DOMAIN r = 1 .. n
      /\ r[n] = e /\ \A i \in 1 .. n - 1 : r[i] = q[i]
  OBVIOUS
<1> HIDE DEF r, n
<1>2. \A i \in DOMAIN r : (i = n /\ r[i] = e) \/ (i \in DOMAIN q /\ r[i] = q[i])
  BY <1>1
<1>3. n \in DOMAIN r /\ \A i \in DOMAIN q : i \in DOMAIN r /\ r[i] = q[i]
  BY <1>1
<1>4. ASSUME NEW s \in SlotNames, new2[s] # Lost
      PROVE  /\ \A i \in DOMAIN r : InSlot(r[i].payload, s) => r[i].payload.body = new2[s]
             /\ (\A i \in DOMAIN r : ~ InSlot(r[i].payload, s)) => old[s] = new2[s]
  <2>1. CASE InSlot(e.payload, s)
    <3>1. \A i \in DOMAIN q : ~ InSlot(q[i].payload, s)
      BY <1>4, <2>1 DEF SlotFree
    <3>2. new2[s] = e.payload.body
      BY <1>4, <2>1
    <3> QED
      BY <1>1, <1>2, <1>3, <2>1, <3>1, <3>2
  <2>2. CASE ~ InSlot(e.payload, s)
    <3>1. new2[s] = new[s]
      BY <1>4, <2>2
    <3>2. /\ \A i \in DOMAIN q : InSlot(q[i].payload, s) => q[i].payload.body = new[s]
          /\ (\A i \in DOMAIN q : ~ InSlot(q[i].payload, s)) => old[s] = new[s]
      BY <1>4, <3>1 DEF NewestIn
    <3> QED
      BY <1>2, <1>3, <2>2, <3>1, <3>2
  <2> QED
    BY <2>1, <2>2
<1> QED
  BY <1>4 DEF NewestIn, r

(* The bodies new2 are the bodies new with the one of p.                   *)
Taken(new2, p, new) ==
    \A s \in SlotNames : new2[s] = IF InSlot(p, s) THEN p.body ELSE new[s]

LEMMA NewestOverwritten ==
    ASSUME NEW q \in Seq(Envelopes), NEW k \in DOMAIN q, NEW p \in Payloads,
           NEW slot \in SlotNames, InSlot(p, slot), InSlot(q[k].payload, slot), OncePerSlot(q),
           NEW new, NEW new2, NEW old, NewestIn(q, new, old),
           Taken(new2, p, new),
           NEW r, DOMAIN r = DOMAIN q, r[k].payload = p,
           SameSlots(r, q, k)
    PROVE  NewestIn(r, new2, old)
<1>1. DOMAIN r = DOMAIN q
  OBVIOUS
<1>2. /\ r[k].payload = p
      /\ \A i \in DOMAIN q : /\ i # k => r[i] = q[i]
                             /\ \A s \in SlotNames : InSlot(r[i].payload, s) <=> InSlot(q[i].payload, s)
  BY DEF SameSlots
<1>5. \A s \in SlotNames : new2[s] = IF InSlot(p, s) THEN p.body ELSE new[s]
  BY DEF Taken
<1>3. \A s : InSlot(p, s) => s = slot
  BY DEF InSlot
<1>4. ASSUME NEW s \in SlotNames, new2[s] # Lost
      PROVE  /\ \A i \in DOMAIN r : InSlot(r[i].payload, s) => r[i].payload.body = new2[s]
             /\ (\A i \in DOMAIN r : ~ InSlot(r[i].payload, s)) => old[s] = new2[s]
  <2>1. CASE s = slot
    <3>1. \A i \in DOMAIN q : InSlot(r[i].payload, s) => i = k
      BY <1>2, <2>1 DEF OncePerSlot
    <3>2. InSlot(r[k].payload, s) /\ new2[s] = p.body
      BY <1>2, <1>5, <2>1
    <3> QED
      BY <1>1, <1>2, <3>1, <3>2
  <2>2. CASE s # slot
    <3>1. new2[s] = new[s] /\ ~ InSlot(p, s)
      BY <1>3, <1>5, <2>2
    <3>2. /\ \A i \in DOMAIN q : InSlot(q[i].payload, s) => q[i].payload.body = new[s]
          /\ (\A i \in DOMAIN q : ~ InSlot(q[i].payload, s)) => old[s] = new[s]
      BY <1>4, <3>1 DEF NewestIn
    <3>3. \A i \in DOMAIN r : InSlot(r[i].payload, s) => i # k
      BY <1>2, <3>1
    <3>4. ~ InSlot(q[k].payload, s)
      BY <1>3, <2>2 DEF InSlot
    <3> QED
      BY <1>1, <1>2, <3>1, <3>2, <3>3, <3>4
  <2> QED
    BY <2>1, <2>2
<1> QED
  BY <1>4 DEF NewestIn

LEMMA NewestReceived ==
    ASSUME NEW q \in Seq(Envelopes), NEW k \in DOMAIN q, NEW r, Without(r, q, k),
           NEW new, NEW old, NEW old2, NewestIn(q, new, old),
           \A s \in SlotNames :
             old2[s] = IF InSlot(q[k].payload, s) THEN q[k].payload.body ELSE old[s]
    PROVE  NewestIn(r, new, old2)
<1>1. /\ \A i \in DOMAIN r : \E j \in DOMAIN q \ {k} : r[i] = q[j]
      /\ \A j \in DOMAIN q \ {k} : \E i \in DOMAIN r : r[i] = q[j]
  BY WithoutFacts
<1>2. SUFFICES ASSUME NEW s \in SlotNames, new[s] # Lost
               PROVE  /\ \A i \in DOMAIN r : InSlot(r[i].payload, s) => r[i].payload.body = new[s]
                      /\ (\A i \in DOMAIN r : ~ InSlot(r[i].payload, s)) => old2[s] = new[s]
  BY DEF NewestIn
<1>3. /\ \A i \in DOMAIN q : InSlot(q[i].payload, s) => q[i].payload.body = new[s]
      /\ (\A i \in DOMAIN q : ~ InSlot(q[i].payload, s)) => old[s] = new[s]
  BY <1>2 DEF NewestIn
<1>4. \A i \in DOMAIN r : InSlot(r[i].payload, s) => r[i].payload.body = new[s]
  BY <1>1, <1>3
<1>5. CASE InSlot(q[k].payload, s)
  BY <1>2, <1>3, <1>4, <1>5
<1>6. CASE ~ InSlot(q[k].payload, s)
  <2>1. (\A i \in DOMAIN r : ~ InSlot(r[i].payload, s)) => \A i \in DOMAIN q : ~ InSlot(q[i].payload, s)
    BY <1>1, <1>6
  <2> QED
    BY <1>2, <1>3, <1>4, <1>6, <2>1
<1> QED
  BY <1>5, <1>6

-----------------------------------------------------------------------------
(* The inductive invariant.                                                *)

Numbers(b) ==
    b.last_delivered_seq < b.next_seq /\ InOrder(b.queue, b.last_delivered_seq, b.next_seq)

(* Who has heard h and has q to come hears the n first controls but those  *)
(* that were refused, in order.                                            *)
Accounted(h, q, n, out) == {h[i] : i \in DOMAIN h} \cup BodiesIn(q) = 1 .. n \ out

Rising(h) == \A i, j \in DOMAIN h : i < j => h[i] < h[j]

Before(h, q) == \A i \in DOMAIN h, x \in BodiesIn(q) : h[i] < x

(* A loss leaves its flag until a snapshot makes up for it.                *)
LossFlagged == (unseen => buf.resync_required) /\ (Forgetful => ~ unseen)

StreamInv ==
    /\ TypeOK
    /\ Numbers(buf)
    /\ OncePerSlot(buf.queue)
    /\ Accounted(heard, buf.queue, sent, refused)
    /\ Rising(heard) /\ Before(heard, buf.queue) /\ ControlsGrow(buf.queue)
    /\ NewestIn(buf.queue, newest, shown)
    /\ LossFlagged

(* The slots left without their newest body are exactly those whose body   *)
(* publish evicts or refuses.                                              *)
NewestAfter(p, new) ==
    \A s \in SlotNames :
        new[s] = IF s \in LostSlots(p) THEN Lost
                 ELSE IF InSlot(p, s) THEN p.body ELSE newest[s]

LEMMA PublishKeeps ==
    ASSUME StreamInv, NEW p \in Publishable, Room, ~ buf.closed, NEW new, NewestAfter(p, new),
           IsControl(p) => p.body = sent + 1
    PROVE  LET c == Publish(buf, p) IN
           /\ c \in Buffers /\ Len(c.queue) <= Capacity
           /\ Numbers(c) /\ OncePerSlot(c.queue) /\ ControlsGrow(c.queue)
           /\ BodiesIn(c.queue) = BodiesIn(buf.queue)
                \cup (IF IsControl(p) /\ ~ Refuses(buf, p) THEN {p.body} ELSE {})
           /\ NewestIn(c.queue, new, shown)
           /\ c.resync_required = (buf.resync_required \/ Lossy(p))
           /\ c.closed = buf.closed
<1> DEFINE q == buf.queue
           c == Publish(buf, p)
           n == buf.next_seq
           k == FirstIn(Evictable(buf))
           e == Envelope(n, p)
           Extra == IF IsControl(p) /\ ~ Refuses(buf, p) THEN {p.body} ELSE {}
           Kept(r) == /\ r \in Seq(Envelopes) /\ Len(r) <= Capacity
                      /\ OncePerSlot(r) /\ ControlsGrow(r)
                      /\ BodiesIn(r) = BodiesIn(q) \cup Extra
                      /\ NewestIn(r, new, shown)
<1>1. /\ buf \in Buffers /\ q \in Seq(Envelopes) /\ Len(q) <= Capacity
      /\ n \in Nat /\ n \in 1 .. MaxSeq /\ buf.last_delivered_seq \in Nat
      /\ Numbers(buf) /\ OncePerSlot(q) /\ ControlsGrow(q) /\ NewestIn(q, newest, shown)
      /\ p \in Payloads /\ Capacity \in Nat \ {0}
  <2>1. buf \in Buffers /\ Len(q) <= Capacity
    BY DEF StreamInv, TypeOK
  <2>2. /\ q \in Seq(Envelopes) /\ n \in 1 .. MaxSeq + 1 /\ buf.last_delivered_seq \in 0 .. MaxSeq
    BY <2>1, BufferFacts
  <2>3. n \in Nat /\ n \in 1 .. MaxSeq /\ buf.last_delivered_seq \in Nat
    BY <2>2, BoundsAreNumbers DEF Room
  <2> QED
    BY <2>1, <2>2, <2>3, CapacityAssumption DEF StreamInv, Publishable
<1>2. /\ PublishEffect(buf, p, c) /\ IsBuffer(c)
      /\ c.closed = buf.closed
      /\ c.last_delivered_seq = buf.last_delivered_seq
      /\ c.marker_queued = buf.marker_queued
      /\ c.active_assistant_calls \in SUBSET Calls
      /\ c.resync_required = (buf.resync_required \/ Evicts(buf, p) \/ Refuses(buf, p))
  BY <1>1, PublishCases
<1> HIDE DEF c
<1>10. n \in 1 .. MaxSeq + 1 /\ n + 1 \in 1 .. MaxSeq + 1
  BY <1>1, BoundsAreNumbers
<1>11. buf.last_delivered_seq < n /\ InOrder(q, buf.last_delivered_seq, n)
  BY <1>1 DEF Numbers
<1>3. /\ buf.closed \in BOOLEAN /\ buf.marker_queued \in BOOLEAN
      /\ buf.resync_required \in BOOLEAN /\ c.resync_required \in BOOLEAN
      /\ buf.last_delivered_seq \in 0 .. MaxSeq
  <2>1. /\ buf.closed \in BOOLEAN /\ buf.marker_queued \in BOOLEAN
        /\ buf.resync_required \in BOOLEAN /\ buf.last_delivered_seq \in 0 .. MaxSeq
    BY <1>1, BufferFacts
  <2> QED
    BY <1>2, <2>1
<1>4. e \in Envelopes /\ e.payload = p /\ e.seq = n
  BY <1>1 DEF Envelope, Envelopes
<1> HIDE DEF e, Extra
<1>5. /\ \A s : InSlot(p, s) => p.kind \in {"state", "snapshot"} /\ s = SlotOf(p)
      /\ p.kind \in {"state", "snapshot"} => ~ IsControl(p)
  BY DEF InSlot, IsControl
<1>6. \A x \in BodiesIn(q) : x \in 1 .. sent /\ x < sent + 1
  <2>1. BodiesIn(q) \subseteq 1 .. sent /\ sent \in Nat
    BY BoundsAreNumbers DEF StreamInv, Accounted, TypeOK
  <2> QED
    BY <2>1
<1>7. \A i \in DOMAIN q : IsControl(q[i].payload) => q[i].payload.body \in BodiesIn(q)
  BY DEF BodiesIn
<1>8. Kept(c.queue) /\ Numbers(c) /\ c.next_seq \in 1 .. MaxSeq + 1
  <2>1. CASE /\ ~ Evicts(buf, p) /\ ~ Refuses(buf, p)
             /\ \E i \in DOMAIN q, s \in SlotNames :
                  /\ InSlot(p, s) /\ InSlot(q[i].payload, s)
                  /\ c.queue = [q EXCEPT ![i].payload = p]
             /\ c.next_seq = n
    <3>1. PICK i \in DOMAIN q, s \in SlotNames :
            /\ InSlot(p, s) /\ InSlot(q[i].payload, s)
            /\ c.queue = [q EXCEPT ![i].payload = p]
      BY <2>1
    <3>2. LostSlots(p) = {}
      BY <2>1 DEF LostSlots
    <3> DEFINE r == [q EXCEPT ![i].payload = p]
    <3>4. /\ r \in Seq(Envelopes) /\ Len(r) = Len(q) /\ r[i].payload = p /\ SameSlots(r, q, i)
          /\ InOrder(r, buf.last_delivered_seq, n)
          /\ OncePerSlot(r) /\ ControlsGrow(r) /\ BodiesIn(r) = BodiesIn(q)
      BY <1>1, <1>11, <3>1, OverwriteKeeps
    <3>5. c.queue = r
      BY <3>1
    <3> HIDE DEF r
    <3>3. NewestIn(r, new, shown)
      <4>1. DOMAIN r = DOMAIN q
        BY <1>1, <3>4
      <4>2. Taken(new, p, newest)
        BY <3>2 DEF NewestAfter, Taken
      <4> QED
        BY <1>1, <3>1, <3>4, <4>1, <4>2, NewestOverwritten
    <3>6. Extra = {}
      BY <1>5, <3>1 DEF Extra
    <3>7. Numbers(c) /\ c.next_seq \in 1 .. MaxSeq + 1
      <4>1. c.next_seq = n /\ c.last_delivered_seq = buf.last_delivered_seq
        BY <1>2, <2>1
      <4> QED
        BY <1>10, <1>11, <3>4, <3>5, <4>1 DEF Numbers
    <3>8. Kept(r)
      BY <1>1, <3>3, <3>4, <3>5, <3>6
    <3> QED
      BY <3>5, <3>7, <3>8
  <2>2. CASE /\ Evicts(buf, p) /\ ~ Refuses(buf, p) /\ SlotFree(q, p)
             /\ k \in DOMAIN q /\ q[k].payload.kind = "snapshot"
             /\ c.queue = Append(RemoveAt(q, k), e) /\ c.next_seq = n + 1
    <3> DEFINE r == RemoveAt(q, k)
    <3>1. Without(r, q, k) /\ r \in Seq(Envelopes) /\ Len(r) = Len(q) - 1
      BY <1>1, <2>2, RemoveIsWithout DEF Without
    <3>2. /\ \A low, high : InOrder(q, low, high) => InOrder(r, low, high)
          /\ OncePerSlot(r) /\ ControlsGrow(r)
      BY <1>1, <2>2, <3>1, WithoutKeeps
    <3>3. BodiesIn(r) = BodiesIn(q)
      BY <1>1, <2>2, <3>1, WithoutBodies DEF IsControl
    <3> DEFINE mid == [s \in SlotNames |-> IF s \in LostSlots(p) THEN Lost ELSE newest[s]]
    <3>4. /\ \A s \in SlotNames : InSlot(q[k].payload, s) => s \in LostSlots(p)
          /\ \A s \in SlotNames : InSlot(p, s) => s \notin LostSlots(p)
      <4>1. q[k].payload \in Payloads
        <5>1. q[k] \in Envelopes
          BY <1>1, <2>2
        <5> QED
          BY <5>1 DEF Envelopes
      <4>2. LostSlots(p) = {q[k].payload.call}
        BY <2>2 DEF LostSlots
      <4>3. \A s \in SlotNames : InSlot(q[k].payload, s) => s = q[k].payload.call
        BY <2>2, <4>1, SlotFacts DEF InSlot
      <4>4. InSlot(q[k].payload, q[k].payload.call) /\ q[k].payload.call \in SlotNames
        BY <2>2, <4>1, SlotFacts DEF InSlot
      <4> QED
        BY <2>2, <4>2, <4>3, <4>4 DEF SlotFree
    <3>5. NewestIn(q, mid, shown)
      BY <1>1, NewestForgotten
    <3>6. NewestIn(r, mid, shown)
      BY <1>1, <2>2, <3>1, <3>4, <3>5, NewestWithout
    <3>7. SlotFree(r, p)
      BY <1>1, <2>2, <3>1, WithoutFacts DEF SlotFree
    <3>8. \A s \in SlotNames : new[s] = IF InSlot(p, s) THEN p.body ELSE mid[s]
      BY <3>4 DEF NewestAfter
    <3> HIDE DEF mid, r
    <3>9. NewestIn(Append(r, e), new, shown)
      BY <1>4, <3>1, <3>6, <3>7, <3>8, NewestPushed
    <3>10. /\ InOrder(r, buf.last_delivered_seq, e.seq) /\ buf.last_delivered_seq < e.seq
           /\ \A i \in DOMAIN r : IsControl(p) /\ IsControl(r[i].payload) =>
                r[i].payload.body < p.body
      <4>1. \A i \in DOMAIN r : IsControl(r[i].payload) => r[i].payload.body \in BodiesIn(q)
        BY <3>3 DEF BodiesIn
      <4> QED
        BY <1>1, <1>4, <1>6, <3>2, <4>1 DEF Numbers
    <3>11. \A i \in DOMAIN r, s \in SlotNames : InSlot(e.payload, s) => ~ InSlot(r[i].payload, s)
      BY <1>4, <3>7 DEF SlotFree
    <3>12. /\ Append(r, e) \in Seq(Envelopes) /\ Len(Append(r, e)) = Len(r) + 1
           /\ InOrder(Append(r, e), buf.last_delivered_seq, e.seq + 1)
           /\ OncePerSlot(Append(r, e)) /\ ControlsGrow(Append(r, e))
           /\ ~ IsControl(e.payload) => BodiesIn(Append(r, e)) = BodiesIn(r)
           /\ IsControl(e.payload) => BodiesIn(Append(r, e)) = BodiesIn(r) \cup {e.payload.body}
      BY <1>1, <1>4, <3>1, <3>2, <3>10, <3>11, PushKeeps
    <3>13. c.queue = Append(r, e) /\ Len(c.queue) <= Capacity
      BY <1>1, <2>2, <3>1, <3>12 DEF r
    <3>14. Numbers(c) /\ c.next_seq \in 1 .. MaxSeq + 1
      <4>1. c.next_seq = n + 1 /\ c.last_delivered_seq = buf.last_delivered_seq /\ e.seq = n
        BY <1>2, <1>4, <2>2
      <4>2. buf.last_delivered_seq < n + 1
        BY <1>1, <1>11
      <4> QED
        BY <1>10, <3>12, <3>13, <4>1, <4>2 DEF Numbers
    <3>15. BodiesIn(Append(r, e)) = BodiesIn(q) \cup Extra
      BY <1>4, <2>2, <3>3, <3>12 DEF Extra
    <3>16. Kept(Append(r, e))
      BY <3>9, <3>12, <3>13, <3>15
    <3> QED
      BY <3>13, <3>14, <3>16
  <2>3. CASE /\ ~ Evicts(buf, p) /\ Refuses(buf, p) /\ SlotFree(q, p)
             /\ c.queue = q /\ c.next_seq = n
    <3>1. \A s \in SlotNames : new[s] = Lost \/ new[s] = newest[s]
      BY <1>5, <2>3 DEF NewestAfter, LostSlots
    <3>2. NewestIn(q, new, shown)
      BY <1>1, <3>1, NewestForgotten
    <3>3. Extra = {}
      BY <2>3 DEF Extra
    <3>4. Numbers(c) /\ c.next_seq \in 1 .. MaxSeq + 1
      BY <1>2, <1>10, <1>11, <2>3 DEF Numbers
    <3>5. Kept(q)
      BY <1>1, <3>2, <3>3
    <3> QED
      BY <2>3, <3>4, <3>5
  <2>4. CASE /\ ~ Evicts(buf, p) /\ ~ Refuses(buf, p) /\ SlotFree(q, p) /\ ~ buf.closed
             /\ Slots(buf, p) = {}
             /\ c.queue = Append(q, e) /\ c.next_seq = n + 1
    <3>1. LostSlots(p) = {}
      BY <2>4 DEF LostSlots
    <3>2. \A s \in SlotNames : new[s] = IF InSlot(p, s) THEN p.body ELSE newest[s]
      BY <3>1 DEF NewestAfter
    <3>3. NewestIn(Append(q, e), new, shown)
      BY <1>1, <1>4, <2>4, <3>2, NewestPushed
    <3>4. /\ InOrder(q, buf.last_delivered_seq, e.seq) /\ buf.last_delivered_seq < e.seq
          /\ \A i \in DOMAIN q : IsControl(p) /\ IsControl(q[i].payload) =>
               q[i].payload.body < p.body
      BY <1>1, <1>4, <1>6, <1>7 DEF Numbers
    <3>5. \A i \in DOMAIN q, s \in SlotNames : InSlot(e.payload, s) => ~ InSlot(q[i].payload, s)
      BY <1>4, <2>4 DEF SlotFree
    <3>6. /\ Append(q, e) \in Seq(Envelopes) /\ Len(Append(q, e)) = Len(q) + 1
          /\ InOrder(Append(q, e), buf.last_delivered_seq, e.seq + 1)
          /\ OncePerSlot(Append(q, e)) /\ ControlsGrow(Append(q, e))
          /\ ~ IsControl(e.payload) => BodiesIn(Append(q, e)) = BodiesIn(q)
          /\ IsControl(e.payload) => BodiesIn(Append(q, e)) = BodiesIn(q) \cup {e.payload.body}
      BY <1>1, <1>4, <3>4, <3>5, PushKeeps
    <3>7. Len(q) < Capacity
      <4>1. ~ Full(buf)
        BY <2>4 DEF Evicts, Refuses
      <4> QED
        BY <1>1, <4>1 DEF Full
    <3>8. Numbers(c) /\ c.next_seq \in 1 .. MaxSeq + 1
      <4>1. c.next_seq = n + 1 /\ c.last_delivered_seq = buf.last_delivered_seq /\ e.seq = n
        BY <1>2, <1>4, <2>4
      <4>2. buf.last_delivered_seq < n + 1
        BY <1>1, <1>11
      <4> QED
        BY <1>10, <2>4, <3>6, <4>1, <4>2 DEF Numbers
    <3>9. BodiesIn(Append(q, e)) = BodiesIn(q) \cup Extra
      BY <1>4, <2>4, <3>6 DEF Extra
    <3>10. Kept(Append(q, e))
      BY <1>1, <3>3, <3>6, <3>7, <3>9
    <3> QED
      BY <2>4, <3>8, <3>10
  <2> QED
    BY <1>2, <2>1, <2>2, <2>3, <2>4 DEF PublishEffect, e
<1>9. c \in Buffers
  BY <1>2, <1>3, <1>8 DEF Buffers, IsBuffer
<1> QED
  BY <1>2, <1>8, <1>9 DEF c, Lossy, Extra

LEMMA TypeFacts ==
    ASSUME StreamInv
    PROVE  /\ buf \in Buffers /\ Len(buf.queue) <= Capacity
           /\ ended \in BOOLEAN /\ told \in BOOLEAN /\ unseen \in BOOLEAN
           /\ snapping \in {"no", "loaded", "status", "acknowledged"}
           /\ sent \in 0 .. MaxControls /\ sent \in Nat
           /\ refused \subseteq 1 .. sent /\ heard \in Seq(1 .. sent)
           /\ newest \in [SlotNames -> Bodies] /\ shown \in [SlotNames -> Versions]
  BY BoundsAreNumbers DEF StreamInv, TypeOK

(* A publication that adds n - sent controls, and takes the refused ones   *)
(* to out, leaves the invariant.                                           *)
LEMMA PublishedKeeps ==
    ASSUME StreamInv, NEW p \in Publishable, ~ buf.closed, Published(p), NewestAfter(p, newest'),
           newest' \in [SlotNames -> Bodies],
           \/ ~ IsControl(p) /\ sent' = sent /\ refused' = refused
           \/ /\ IsControl(p) /\ p.body = sent + 1 /\ sent' = sent + 1 /\ sent' <= MaxControls
              /\ refused' = IF Refuses(buf, p) THEN refused \cup {sent + 1} ELSE refused
    PROVE  StreamInv'
<1> DEFINE q == buf.queue
           c == Publish(buf, p)
           Extra == IF IsControl(p) /\ ~ Refuses(buf, p) THEN {p.body} ELSE {}
<1>1. /\ Room /\ buf' = c /\ unseen' = (unseen \/ (Lossy(p) /\ ~ Forgetful))
      /\ UNCHANGED <<snapping, ended, heard, shown, told>>
  BY DEF Published
<1>2. /\ c \in Buffers /\ Len(c.queue) <= Capacity
      /\ Numbers(c) /\ OncePerSlot(c.queue) /\ ControlsGrow(c.queue)
      /\ BodiesIn(c.queue) = BodiesIn(q) \cup Extra
      /\ NewestIn(c.queue, newest', shown)
      /\ c.resync_required = (buf.resync_required \/ Lossy(p))
  BY <1>1, PublishKeeps
<1> HIDE DEF c, Extra
<1>3. /\ buf \in Buffers /\ ended \in BOOLEAN /\ told \in BOOLEAN /\ unseen \in BOOLEAN
      /\ snapping \in {"no", "loaded", "status", "acknowledged"}
      /\ sent \in 0 .. MaxControls /\ sent \in Nat
      /\ refused \subseteq 1 .. sent /\ heard \in Seq(1 .. sent)
      /\ shown \in [SlotNames -> Versions]
  BY TypeFacts
<1>4. /\ sent' \in 0 .. MaxControls /\ refused' \subseteq 1 .. sent'
      /\ 1 .. sent \subseteq 1 .. sent'
      /\ (1 .. sent \ refused) \cup Extra = 1 .. sent' \ refused'
  <2>1. CASE ~ IsControl(p) /\ sent' = sent /\ refused' = refused
    BY <1>3, <2>1 DEF Extra
  <2>2. CASE /\ IsControl(p) /\ p.body = sent + 1 /\ sent' = sent + 1 /\ sent' <= MaxControls
             /\ refused' = IF Refuses(buf, p) THEN refused \cup {sent + 1} ELSE refused
    <3>1. sent' \in 0 .. MaxControls
      BY <1>3, <2>2, BoundsAreNumbers
    <3>2. 1 .. sent' = 1 .. sent \cup {sent + 1} /\ sent + 1 \notin 1 .. sent
      BY <1>3, <2>2
    <3>3. sent + 1 \notin refused
      BY <1>3, <3>2
    <3>4. CASE Refuses(buf, p)
      BY <1>3, <2>2, <3>1, <3>2, <3>3, <3>4 DEF Extra
    <3>5. CASE ~ Refuses(buf, p)
      BY <1>3, <2>2, <3>1, <3>2, <3>3, <3>5 DEF Extra
    <3> QED
      BY <3>4, <3>5
  <2> QED
    BY <2>1, <2>2
<1>5. TypeOK'
  <2>1. heard \in Seq(1 .. sent')
    BY <1>3, <1>4
  <2> QED
    BY <1>1, <1>2, <1>3, <1>4, <2>1 DEF TypeOK, Forgetful
<1>6. Accounted(heard, c.queue, sent', refused')
  <2>1. Accounted(heard, q, sent, refused)
    BY DEF StreamInv
  <2> QED
    BY <1>2, <1>4, <2>1 DEF Accounted
<1>7. Before(heard, c.queue)
  <2>1. Before(heard, q)
    BY DEF StreamInv
  <2>2. \A i \in DOMAIN heard : heard[i] \in 1 .. sent /\ heard[i] < sent + 1
    BY <1>3
  <2>3. \A x \in Extra : x = sent + 1
    BY DEF Extra
  <2> QED
    BY <1>2, <2>1, <2>2, <2>3 DEF Before
<1>8. LossFlagged'
  <2>1. LossFlagged
    BY DEF StreamInv
  <2> QED
    BY <1>1, <1>2, <1>3, <2>1 DEF LossFlagged, Forgetful
<1> QED
  BY <1>1, <1>2, <1>5, <1>6, <1>7, <1>8 DEF StreamInv

(* A slot's new body is one version on.                                    *)
LEMMA PublishSlotKeeps ==
    ASSUME StreamInv, NEW s \in SlotNames, PublishSlot(s)
    PROVE  StreamInv'
<1> DEFINE v == IF newest[s] = Lost THEN shown[s] + 1 ELSE newest[s] + 1
           p == IF s = State THEN StateChanged(v) ELSE ResponseSnapshot(s, v)
<1>1. /\ ~ buf.closed /\ v <= MaxVersion /\ Published(p)
      /\ newest' = [x \in SlotNames |-> IF x \in LostSlots(p) THEN Lost
                                        ELSE IF x = s THEN v ELSE newest[x]]
      /\ UNCHANGED <<sent, refused>>
  BY DEF PublishSlot
<1>2. newest \in [SlotNames -> Bodies] /\ shown \in [SlotNames -> Versions]
  BY TypeFacts
<1>3. v \in Versions
  <2>1. newest[s] \in Bodies /\ shown[s] \in Versions
    BY <1>2
  <2> QED
    BY <1>1, <2>1, BoundsAreNumbers DEF Bodies, Versions, Lost
<1> HIDE DEF v
<1>4. p \in Publishable /\ ~ IsControl(p) /\ \A x \in SlotNames : InSlot(p, x) <=> x = s
  <2>1. CASE s = State
    BY <1>3, <2>1
      DEF StateChanged, ResyncRequired, Publishable, Payloads, IsControl, InSlot, SlotOf
  <2>2. CASE s # State
    BY <1>3, <2>2
      DEF ResponseSnapshot, ResyncRequired, Publishable, Payloads, IsControl, InSlot, SlotOf,
          SlotNames
  <2> QED
    BY <2>1, <2>2
<1>5. p.body = v
  BY DEF StateChanged, ResponseSnapshot
<1> HIDE DEF p
<1>6. NewestAfter(p, newest')
  BY <1>1, <1>4, <1>5 DEF NewestAfter
<1>7. newest' \in [SlotNames -> Bodies]
  BY <1>1, <1>2, <1>3 DEF Bodies
<1> QED
  BY <1>1, <1>4, <1>6, <1>7, PublishedKeeps

LEMMA PublishControlKeeps ==
    ASSUME StreamInv, NEW p \in Payloads, IsControl(p), PublishControl(p)
    PROVE  StreamInv'
<1>1. /\ ~ buf.closed /\ sent < MaxControls /\ p.body = sent + 1 /\ Published(p)
      /\ sent' = sent + 1
      /\ refused' = IF Refuses(buf, p) THEN refused \cup {sent + 1} ELSE refused
      /\ newest' = [x \in SlotNames |-> IF x \in LostSlots(p) THEN Lost ELSE newest[x]]
  BY DEF PublishControl
<1>2. newest \in [SlotNames -> Bodies] /\ sent \in Nat
  BY TypeFacts
<1>3. p \in Publishable
  BY DEF Publishable, IsControl, ResyncRequired
<1>4. \A s : ~ InSlot(p, s)
  BY DEF InSlot, IsControl
<1>5. NewestAfter(p, newest')
  BY <1>1, <1>4 DEF NewestAfter
<1>6. newest' \in [SlotNames -> Bodies]
  BY <1>1, <1>2 DEF Bodies
<1>7. sent' <= MaxControls
  BY <1>1, <1>2, BoundsAreNumbers
<1> QED
  BY <1>1, <1>3, <1>5, <1>6, <1>7, PublishedKeeps

LEMMA PublishOtherKeeps ==
    ASSUME StreamInv, PublishOther
    PROVE  StreamInv'
<1> DEFINE p == Control(sent + 1)
<1>1. PublishControl(p)
  BY DEF PublishOther
<1>2. sent \in Nat /\ sent < MaxControls
  BY <1>1, TypeFacts DEF PublishControl
<1>3. p \in Payloads /\ IsControl(p)
  BY <1>2, BoundsAreNumbers DEF Payloads, IsControl, Control
<1> QED
  BY <1>1, <1>3, PublishControlKeeps

LEMMA PublishClosingKeeps ==
    ASSUME StreamInv, NEW c \in Calls, PublishClosing(c)
    PROVE  StreamInv'
<1> DEFINE p == CallClosed(c, sent + 1)
<1>1. PublishControl(p)
  BY DEF PublishClosing
<1>2. sent \in Nat /\ sent < MaxControls
  BY <1>1, TypeFacts DEF PublishControl
<1>3. p \in Payloads /\ IsControl(p)
  BY <1>2, BoundsAreNumbers DEF Payloads, IsControl, CallClosed
<1> QED
  BY <1>1, <1>3, PublishControlKeeps

(* Closing lasts, so a late publication changes nothing.                   *)
LEMMA PublishLateKeeps ==
    ASSUME StreamInv, PublishLate
    PROVE  UNCHANGED vars
<1> DEFINE p == StateChanged(newest[State])
<1>1. buf' = Publish(buf, p) /\ buf.closed
  BY DEF PublishLate, Published
<1>2. ~ Lossy(p) /\ ~ Coalesces(buf, p)
  BY <1>1 DEF Lossy, Evicts, Refuses, Coalesces
<1>3. buf' = buf
  BY <1>1, <1>2 DEF Publish, Lossy
<1>4. unseen' = unseen
  <2>1. unseen \in BOOLEAN /\ unseen' = (unseen \/ (Lossy(p) /\ ~ Forgetful))
    BY TypeFacts DEF PublishLate, Published
  <2> QED
    BY <1>2, <2>1
<1> QED
  BY <1>3, <1>4 DEF vars, PublishLate, Published

-----------------------------------------------------------------------------
(* Receiving.                                                              *)

(* The marker that recv may queue is no control and fills no slot.         *)
LEMMA MarkedKeeps ==
    ASSUME StreamInv, Marked(buf).next_seq <= MaxSeq + 1
    PROVE  LET m == Marked(buf) IN
           /\ m \in Buffers /\ Len(m.queue) <= Capacity /\ IsBuffer(m)
           /\ Numbers(m) /\ OncePerSlot(m.queue) /\ ControlsGrow(m.queue)
           /\ BodiesIn(m.queue) = BodiesIn(buf.queue)
           /\ NewestIn(m.queue, newest, shown)
           /\ m.resync_required = buf.resync_required
<1> DEFINE m == Marked(buf)
           q == buf.queue
           n == buf.next_seq
           e == Envelope(n, ResyncRequired)
<1>1. /\ buf \in Buffers /\ q \in Seq(Envelopes) /\ Len(q) <= Capacity
      /\ n \in Nat \ {0} /\ buf.last_delivered_seq \in Nat /\ n \in 1 .. MaxSeq + 1
      /\ Numbers(buf) /\ OncePerSlot(q) /\ ControlsGrow(q) /\ NewestIn(q, newest, shown)
      /\ Capacity \in Nat \ {0} /\ MaxSeq \in Nat
  <2>1. buf \in Buffers /\ Len(q) <= Capacity
    BY TypeFacts
  <2>2. q \in Seq(Envelopes) /\ n \in 1 .. MaxSeq + 1 /\ buf.last_delivered_seq \in 0 .. MaxSeq
    BY <2>1, BufferFacts
  <2> QED
    BY <2>1, <2>2, CapacityAssumption, BoundsAreNumbers DEF StreamInv
<1>2. /\ IsBuffer(m) /\ m.next_seq <= MaxSeq + 1
      /\ \/ m = buf
         \/ /\ buf.resync_required /\ ~ Full(buf) /\ m.marker_queued
            /\ m.queue = Append(q, e) /\ m.next_seq = n + 1
            /\ m.last_delivered_seq = buf.last_delivered_seq
            /\ m.resync_required = buf.resync_required /\ m.closed = buf.closed
            /\ m.active_assistant_calls = buf.active_assistant_calls
  BY <1>1, MarkedCases
<1> HIDE DEF m
<1>3. CASE m = buf
  BY <1>1, <1>2, <1>3 DEF m
<1>4. CASE /\ buf.resync_required /\ ~ Full(buf) /\ m.marker_queued
           /\ m.queue = Append(q, e) /\ m.next_seq = n + 1
           /\ m.last_delivered_seq = buf.last_delivered_seq
           /\ m.resync_required = buf.resync_required /\ m.closed = buf.closed
           /\ m.active_assistant_calls = buf.active_assistant_calls
  <2>1. n \in 1 .. MaxSeq /\ n + 1 \in 1 .. MaxSeq + 1
    BY <1>1, <1>2, <1>4
  <2>2. /\ e \in Envelopes /\ e.seq = n /\ e.payload = ResyncRequired
        /\ ~ IsControl(e.payload) /\ \A s : ~ InSlot(e.payload, s)
    BY <2>1 DEF Envelope, Envelopes, Payloads, ResyncRequired, IsControl, InSlot
  <2> HIDE DEF e
  <2>3. buf.last_delivered_seq < e.seq /\ InOrder(q, buf.last_delivered_seq, e.seq)
    BY <1>1, <2>2 DEF Numbers
  <2>4. /\ Append(q, e) \in Seq(Envelopes) /\ Len(Append(q, e)) = Len(q) + 1
        /\ InOrder(Append(q, e), buf.last_delivered_seq, e.seq + 1)
        /\ OncePerSlot(Append(q, e)) /\ ControlsGrow(Append(q, e))
        /\ BodiesIn(Append(q, e)) = BodiesIn(q)
    BY <1>1, <2>2, <2>3, PushKeeps
  <2>5. NewestIn(Append(q, e), newest, shown)
    BY <1>1, <2>2, NewestPushed DEF SlotFree
  <2>6. Len(m.queue) <= Capacity
    BY <1>1, <1>4, <2>4 DEF Full
  <2>7. Numbers(m)
    <3>1. buf.last_delivered_seq < n + 1
      BY <1>1, <2>2, <2>3
    <3> QED
      BY <1>4, <2>2, <2>4, <3>1 DEF Numbers
  <2>8. m \in Buffers
    <3>1. /\ buf.resync_required \in BOOLEAN /\ buf.closed \in BOOLEAN
          /\ buf.last_delivered_seq \in 0 .. MaxSeq
          /\ buf.active_assistant_calls \in SUBSET Calls
      BY <1>1, BufferFacts
    <3>2. m.marker_queued = TRUE
      BY <1>2, <1>4 DEF IsBuffer, m, Marked, Full
    <3> QED
      BY <1>2, <1>4, <2>1, <2>4, <3>1, <3>2 DEF Buffers, IsBuffer
  <2> QED
    BY <1>2, <1>4, <2>4, <2>5, <2>6, <2>7, <2>8 DEF m
<1> QED
  BY <1>2, <1>3, <1>4

LEMMA RecvKeeps ==
    ASSUME StreamInv, Recv
    PROVE  StreamInv'
<1> DEFINE m == Marked(buf)
           q == m.queue
           e == Received(buf)
           p == e.payload
           r == Tail(q)
<1>1. /\ q # << >> /\ m.next_seq <= MaxSeq + 1 /\ e = Head(q)
      /\ buf' = AfterRecv(buf) /\ told' = (told \/ p = ResyncRequired \/ e.seq # buf.last_delivered_seq + 1)
      /\ heard' = IF IsControl(p) THEN Append(heard, p.body) ELSE heard
      /\ shown' = IF p.kind \in {"state", "snapshot"}
                    THEN [shown EXCEPT ![SlotOf(p)] = p.body] ELSE shown
      /\ UNCHANGED <<snapping, ended, sent, refused, newest, unseen>>
  BY DEF Recv, CanRecv, Received, IsControl
<1>2. /\ m \in Buffers /\ Len(q) <= Capacity /\ IsBuffer(m)
      /\ Numbers(m) /\ OncePerSlot(q) /\ ControlsGrow(q)
      /\ BodiesIn(q) = BodiesIn(buf.queue)
      /\ NewestIn(q, newest, shown)
      /\ m.resync_required = buf.resync_required
  BY <1>1, MarkedKeeps
<1>3. /\ buf'.queue = r /\ buf'.last_delivered_seq = e.seq /\ buf'.next_seq = m.next_seq
      /\ buf'.marker_queued = (m.marker_queued /\ p # ResyncRequired)
      /\ buf'.resync_required = m.resync_required /\ buf'.closed = m.closed
      /\ buf'.active_assistant_calls = m.active_assistant_calls
      /\ IsBuffer(buf')
  BY <1>1, <1>2 DEF AfterRecv, IsBuffer
<1> HIDE DEF m, e, p
<1>4. /\ ended \in BOOLEAN /\ told \in BOOLEAN /\ unseen \in BOOLEAN
      /\ snapping \in {"no", "loaded", "status", "acknowledged"}
      /\ sent \in 0 .. MaxControls /\ sent \in Nat
      /\ refused \subseteq 1 .. sent /\ heard \in Seq(1 .. sent)
      /\ newest \in [SlotNames -> Bodies] /\ shown \in [SlotNames -> Versions]
  BY TypeFacts
<1>5. /\ q \in Seq(Envelopes) /\ m.next_seq \in 1 .. MaxSeq + 1
      /\ m.last_delivered_seq \in 0 .. MaxSeq
      /\ m.resync_required \in BOOLEAN /\ m.marker_queued \in BOOLEAN /\ m.closed \in BOOLEAN
      /\ m.active_assistant_calls \in SUBSET Calls
  BY <1>2, BufferFacts
<1>6. 1 \in DOMAIN q /\ e = q[1] /\ Without(r, q, 1)
  BY <1>1, <1>5, TailIsWithout
<1>7. /\ e \in Envelopes /\ e.seq \in 1 .. MaxSeq /\ p \in Payloads /\ e.payload = p
      /\ q[1].payload = p
  <2>1. e \in Envelopes
    BY <1>5, <1>6
  <2> QED
    BY <1>6, <2>1 DEF Envelopes, p
<1> HIDE DEF r, q
<1>8. /\ r \in Seq(Envelopes) /\ Len(r) = Len(q) - 1
      /\ \A i \in DOMAIN r : i + 1 \in DOMAIN q /\ 1 < i + 1 /\ r[i] = q[i + 1]
  BY <1>5, <1>6 DEF Without
<1>9. OncePerSlot(r) /\ ControlsGrow(r) /\ InOrder(r, m.last_delivered_seq, m.next_seq)
  BY <1>2, <1>5, <1>6, WithoutKeeps DEF Numbers, q
<1>10. /\ ~ IsControl(p) => BodiesIn(r) = BodiesIn(q)
       /\ IsControl(p) => BodiesIn(q) = BodiesIn(r) \cup {p.body}
  BY <1>5, <1>6, <1>7, WithoutBodies
<1>11. Numbers(buf')
  <2>1. InOrder(q, m.last_delivered_seq, m.next_seq)
    BY <1>2 DEF Numbers, q
  <2>2. e.seq < m.next_seq /\ \A i \in DOMAIN r : e.seq < r[i].seq
    BY <1>6, <1>8, <2>1 DEF InOrder
  <2>3. InOrder(r, e.seq, m.next_seq)
    BY <1>9, <2>2 DEF InOrder
  <2> QED
    BY <1>3, <2>2, <2>3 DEF Numbers
<1>12. buf' \in Buffers /\ Len(r) <= Capacity
  <2>1. Len(r) <= Capacity
    BY <1>2, <1>5, <1>8, CapacityAssumption DEF q
  <2>2. e.seq \in 0 .. MaxSeq
    BY <1>7
  <2> QED
    BY <1>3, <1>5, <1>8, <2>1, <2>2 DEF Buffers, IsBuffer
<1>13. /\ Accounted(heard, q, sent, refused) /\ Rising(heard) /\ Before(heard, q)
       /\ \A x \in BodiesIn(q) : x \in 1 .. sent
  BY <1>2 DEF StreamInv, Accounted, Before, q
<1>14. /\ heard' \in Seq(1 .. sent) /\ Accounted(heard', r, sent, refused)
       /\ Rising(heard') /\ Before(heard', r)
  <2>1. CASE ~ IsControl(p)
    BY <1>1, <1>4, <1>10, <1>13, <2>1 DEF Accounted, Before, Rising
  <2>2. CASE IsControl(p)
    <3> DEFINE h == Append(heard, p.body)
               k == Len(heard) + 1
    <3>1. p.body \in 1 .. sent /\ p.body \in BodiesIn(q)
      BY <1>10, <1>13, <2>2
    <3>2. /\ h \in Seq(1 .. sent) /\ DOMAIN heard = 1 .. k - 1 /\ DOMAIN h = 1 .. k
          /\ k \in Nat \ {0} /\ h[k] = p.body /\ \A i \in 1 .. k - 1 : h[i] = heard[i]
      BY <1>4, <3>1
    <3> HIDE DEF h, k
    <3>3. heard' = h
      BY <1>1, <2>2 DEF h
    <3>4. \A i \in DOMAIN h : (i = k /\ h[i] = p.body) \/ (i \in DOMAIN heard /\ h[i] = heard[i])
      BY <3>2
    <3>5. {h[i] : i \in DOMAIN h} = {heard[i] : i \in DOMAIN heard} \cup {p.body}
      <4>1. \A i \in DOMAIN heard : i \in DOMAIN h /\ h[i] = heard[i]
        BY <3>2
      <4>2. k \in DOMAIN h /\ h[k] = p.body
        BY <3>2
      <4> QED
        BY <3>4, <4>1, <4>2
    <3>6. Accounted(h, r, sent, refused)
      BY <1>10, <1>13, <2>2, <3>5 DEF Accounted
    <3>7. \A i \in DOMAIN heard : heard[i] < p.body
      BY <1>13, <3>1 DEF Before
    <3>8. Rising(h)
      BY <1>13, <3>2, <3>4, <3>7 DEF Rising
    <3>9. \A x \in BodiesIn(r) : p.body < x /\ x \in BodiesIn(q)
      <4>1. SUFFICES ASSUME NEW i \in DOMAIN r, IsControl(r[i].payload)
                     PROVE  p.body < r[i].payload.body
        BY <1>10, <2>2 DEF BodiesIn
      <4> QED
        BY <1>2, <1>6, <1>7, <1>8, <2>2, <4>1 DEF ControlsGrow, q
    <3>10. Before(h, r)
      BY <1>13, <3>4, <3>9 DEF Before
    <3> QED
      BY <3>2, <3>3, <3>6, <3>8, <3>10
  <2> QED
    BY <2>1, <2>2
<1>15. shown' \in [SlotNames -> Versions] /\ NewestIn(r, newest, shown')
  <2>1. /\ shown' \in [SlotNames -> Versions]
        /\ \A s \in SlotNames :
             shown'[s] = IF InSlot(q[1].payload, s) THEN q[1].payload.body ELSE shown[s]
    <3>1. CASE p.kind \in {"state", "snapshot"}
      <4>1. shown' = [shown EXCEPT ![SlotOf(p)] = p.body]
        BY <1>1, <3>1
      <4>2. SlotOf(p) \in SlotNames /\ p.body \in Versions
        BY <1>7, <3>1, SlotFacts
      <4>3. \A s \in SlotNames : InSlot(p, s) <=> s = SlotOf(p)
        BY <3>1 DEF InSlot
      <4> QED
        BY <1>4, <1>7, <4>1, <4>2, <4>3
    <3>2. CASE p.kind \notin {"state", "snapshot"}
      BY <1>1, <1>4, <1>7, <3>2 DEF InSlot
    <3> QED
      BY <3>1, <3>2
  <2>2. NewestIn(q, newest, shown)
    BY <1>2 DEF q
  <2> QED
    BY <1>5, <1>6, <2>1, <2>2, NewestReceived
<1>16. LossFlagged'
  BY <1>1, <1>2, <1>3 DEF StreamInv, LossFlagged, Forgetful
<1>17. TypeOK'
  <2>1. told' \in BOOLEAN
    BY <1>1, <1>4
  <2> QED
    BY <1>1, <1>3, <1>4, <1>12, <1>14, <1>15, <2>1 DEF TypeOK
<1> QED
  BY <1>1, <1>3, <1>9, <1>11, <1>14, <1>15, <1>16, <1>17 DEF StreamInv

-----------------------------------------------------------------------------
(* The snapshot command and the end of the stream.                         *)

LEMMA SnapshotKeeps ==
    ASSUME StreamInv, SnapshotLoad \/ SnapshotStatus \/ SnapshotReply \/ RecvEnd
    PROVE  StreamInv'
<1>1. UNCHANGED <<buf, sent, refused, heard, newest, shown>>
  BY DEF SnapshotLoad, SnapshotStatus, SnapshotReply, RecvEnd, history
<1>2. /\ ended' \in BOOLEAN /\ told' \in BOOLEAN /\ unseen' \in BOOLEAN
      /\ snapping' \in {"no", "loaded", "status", "acknowledged"}
      /\ unseen' => unseen
      /\ snapping' \in {"loaded", "status"} => ~ unseen'
  <2>1. /\ ended \in BOOLEAN /\ told \in BOOLEAN /\ unseen \in BOOLEAN
        /\ snapping \in {"no", "loaded", "status", "acknowledged"}
        /\ snapping \in {"loaded", "status"} => ~ unseen
    BY TypeFacts DEF StreamInv, LossFlagged, Forgetful
  <2>2. CASE SnapshotLoad
    BY <2>1, <2>2 DEF SnapshotLoad
  <2>3. CASE SnapshotStatus
    BY <2>1, <2>3 DEF SnapshotStatus, history
  <2>4. CASE SnapshotReply
    BY <2>1, <2>4 DEF SnapshotReply, history
  <2>5. CASE RecvEnd
    BY <2>1, <2>5 DEF RecvEnd, history
  <2> QED
    BY <2>2, <2>3, <2>4, <2>5
<1>3. TypeOK'
  BY <1>1, <1>2, TypeFacts DEF TypeOK
<1>4. LossFlagged'
  BY <1>1, <1>2 DEF StreamInv, LossFlagged, Forgetful
<1> QED
  BY <1>1, <1>3, <1>4 DEF StreamInv

(* acknowledge_resync and close touch flags only; the flag that             *)
(* acknowledge_resync clears is of a loss the snapshot makes up for.        *)
LEMMA FlagsKeep ==
    ASSUME StreamInv, SnapshotAcknowledge \/ Close
    PROVE  StreamInv'
<1>1. UNCHANGED <<ended, sent, refused, heard, newest, shown, unseen, told>>
  BY DEF SnapshotAcknowledge, Close, history
<1>2. /\ buf \in Buffers /\ Len(buf.queue) <= Capacity /\ IsBuffer(buf)
      /\ buf.queue \in Seq(Envelopes)
      /\ buf.next_seq \in 1 .. MaxSeq + 1 /\ buf.last_delivered_seq \in 0 .. MaxSeq
      /\ buf.resync_required \in BOOLEAN /\ buf.marker_queued \in BOOLEAN
      /\ buf.closed \in BOOLEAN /\ buf.active_assistant_calls \in SUBSET Calls
  BY TypeFacts, BufferFacts
<1>3. /\ buf'.queue = buf.queue /\ buf'.next_seq = buf.next_seq
      /\ buf'.last_delivered_seq = buf.last_delivered_seq
      /\ buf'.marker_queued = buf.marker_queued
      /\ buf'.active_assistant_calls = buf.active_assistant_calls
      /\ buf'.resync_required \in BOOLEAN /\ buf'.closed \in BOOLEAN /\ IsBuffer(buf')
      /\ Close => buf'.resync_required = buf.resync_required
  BY <1>2 DEF SnapshotAcknowledge, Close, Acknowledged, Closed, IsBuffer
<1>4. buf' \in Buffers
  BY <1>2, <1>3 DEF Buffers, IsBuffer
<1>5. TypeOK'
  BY <1>1, <1>2, <1>3, <1>4, TypeFacts DEF TypeOK, SnapshotAcknowledge, Close
<1>6. LossFlagged'
  BY <1>1, <1>3, TypeFacts
    DEF StreamInv, LossFlagged, Forgetful, SnapshotAcknowledge, Close
<1>7. Numbers(buf')
  BY <1>3 DEF StreamInv, Numbers
<1> QED
  BY <1>1, <1>3, <1>5, <1>6, <1>7 DEF StreamInv

LEMMA InitStream ==
    ASSUME Init
    PROVE  StreamInv
<1>1. /\ buf.queue = << >> /\ buf.next_seq = 1 /\ buf.last_delivered_seq = 0
      /\ buf.resync_required = FALSE /\ buf.marker_queued = FALSE /\ buf.closed = FALSE
      /\ buf.active_assistant_calls = {} /\ IsBuffer(buf)
  BY DEF Init, EmptyBuffer, IsBuffer
<1>2. buf \in Buffers /\ Len(buf.queue) <= Capacity
  <2>1. 1 \in 1 .. MaxSeq + 1 /\ 0 \in 0 .. MaxSeq /\ << >> \in Seq(Envelopes)
    BY BoundsAreNumbers
  <2>2. Len(buf.queue) <= Capacity
    BY <1>1, CapacityAssumption
  <2> QED
    BY <1>1, <2>1, <2>2 DEF Buffers, IsBuffer
<1>3. TypeOK
  <2>1. 0 \in Versions /\ 0 \in 0 .. MaxControls
    BY BoundsAreNumbers DEF Versions
  <2>2. newest \in [SlotNames -> Bodies] /\ shown \in [SlotNames -> Versions]
    BY <2>1 DEF Init, Bodies
  <2>3. heard \in Seq(1 .. sent) /\ refused \subseteq 1 .. sent /\ sent \in 0 .. MaxControls
    BY <2>1 DEF Init
  <2> QED
    BY <1>2, <2>2, <2>3 DEF Init, TypeOK
<1>4. Numbers(buf) /\ OncePerSlot(buf.queue) /\ ControlsGrow(buf.queue) /\ BodiesIn(buf.queue) = {}
  BY <1>1 DEF Numbers, InOrder, OncePerSlot, ControlsGrow, BodiesIn
<1>5. Accounted(heard, buf.queue, sent, refused)
  <2>1. {heard[i] : i \in DOMAIN heard} = {} /\ 1 .. sent = {} /\ refused = {}
    BY DEF Init
  <2> QED
    BY <1>4, <2>1 DEF Accounted
<1>6. Rising(heard) /\ Before(heard, buf.queue)
  BY DEF Init, Rising, Before
<1>7. NewestIn(buf.queue, newest, shown)
  BY <1>1 DEF Init, NewestIn
<1>8. LossFlagged
  BY DEF Init, LossFlagged
<1> QED
  BY <1>3, <1>4, <1>5, <1>6, <1>7, <1>8 DEF StreamInv

LEMMA StreamStep == StreamInv /\ [Next]_vars => StreamInv'
<1> SUFFICES ASSUME StreamInv, [Next]_vars
             PROVE  StreamInv'
  OBVIOUS
<1>1. ASSUME UNCHANGED vars
      PROVE  StreamInv'
  <2>1. /\ UNCHANGED <<buf, snapping, ended, sent, refused, heard, newest, shown, unseen, told>>
        /\ StreamInv
    BY <1>1 DEF vars
  <2> QED
    BY <2>1 DEF StreamInv, TypeOK, LossFlagged, Forgetful
<1>2. CASE \E s \in SlotNames : PublishSlot(s)
  BY <1>2, PublishSlotKeeps
<1>3. CASE PublishOther
  BY <1>3, PublishOtherKeeps
<1>4. CASE \E c \in Calls : PublishClosing(c)
  BY <1>4, PublishClosingKeeps
<1>5. CASE PublishLate
  BY <1>1, <1>5, PublishLateKeeps
<1>6. CASE Recv
  BY <1>6, RecvKeeps
<1>7. CASE SnapshotLoad \/ SnapshotStatus \/ SnapshotReply \/ RecvEnd
  BY <1>7, SnapshotKeeps
<1>8. CASE SnapshotAcknowledge \/ Close
  BY <1>8, FlagsKeep
<1> QED
  BY <1>1, <1>2, <1>3, <1>4, <1>5, <1>6, <1>7, <1>8 DEF Next

(* The inductive invariant, in every reachable state of the buffer.        *)
THEOREM StreamInvariant == Spec => []StreamInv
<1>1. Init => StreamInv
  BY InitStream
<1> QED
  BY <1>1, StreamStep, PTL DEF Spec

-----------------------------------------------------------------------------
(* What the runs check.                                                    *)

(* The queue is bounded by the capacity of the buffer and holds envelopes  *)
(* of the payloads the desktop protocol has, whatever publish coalesces,   *)
(* evicts or refuses and wherever recv queues its marker.                  *)
THEOREM StreamTypes == Spec => []TypeOK
<1>1. StreamInv => TypeOK
  BY DEF StreamInv
<1> QED
  BY <1>1, StreamInvariant, PTL

LEMMA OrderKept == StreamInv => QueueKeepsOrder
<1> SUFFICES ASSUME StreamInv
             PROVE  QueueKeepsOrder
  OBVIOUS
<1> DEFINE q == buf.queue
<1>1. /\ buf \in Buffers /\ heard \in Seq(1 .. sent) /\ q \in Seq(Envelopes)
      /\ Numbers(buf) /\ OncePerSlot(q) /\ ControlsGrow(q)
      /\ Accounted(heard, q, sent, refused) /\ Rising(heard) /\ Before(heard, q)
      /\ NewestIn(q, newest, shown)
  BY TypeFacts, BufferFacts DEF StreamInv
<1>2. ControlsInOrder
  <2>1. Controls = {i \in DOMAIN q : IsControl(q[i].payload)}
    BY DEF Controls
  <2>2. {q[i].payload.body : i \in Controls} = BodiesIn(q)
    BY <2>1 DEF BodiesIn
  <2>3. \A j \in Controls : q[j].payload.body \in BodiesIn(q)
    BY <2>2
  <2>4. \A i, j \in Controls : i < j => q[i].payload.body < q[j].payload.body
    BY <1>1, <2>1 DEF ControlsGrow
  <2> HIDE DEF q
  <2>5. \A i \in DOMAIN heard, j \in Controls : heard[i] < q[j].payload.body
    BY <1>1, <2>3 DEF Before
  <2> QED
    BY <1>1, <2>2, <2>4, <2>5 DEF ControlsInOrder, Accounted, Rising, q
<1>3. NewestOrLost
  <2> SUFFICES ASSUME NEW s \in SlotNames, newest[s] # Lost
               PROVE  LET mine == {i \in DOMAIN q : InSlot(q[i].payload, s)}
                      IN  newest[s] = IF mine = {} THEN shown[s] ELSE q[LastIn(mine)].payload.body
    BY DEF NewestOrLost, InSlot
  <2> DEFINE mine == {i \in DOMAIN q : InSlot(q[i].payload, s)}
  <2>1. /\ \A i \in DOMAIN q : InSlot(q[i].payload, s) => q[i].payload.body = newest[s]
        /\ (\A i \in DOMAIN q : ~ InSlot(q[i].payload, s)) => shown[s] = newest[s]
    BY <1>1 DEF NewestIn
  <2>2. CASE mine = {}
    BY <2>1, <2>2
  <2>3. CASE mine # {}
    <3>1. PICK i \in mine : TRUE
      BY <2>3
    <3>2. \A j \in mine : j = i
      BY <1>1 DEF OncePerSlot
    <3>3. mine \in SUBSET Nat
      BY <1>1
    <3> HIDE DEF mine
    <3>4. LastIn(mine) = i
      BY <3>1, <3>2, <3>3, LastOfOne
    <3> QED
      BY <2>1, <2>3, <3>1, <3>4 DEF mine
  <2> QED
    BY <2>2, <2>3
<1>4. NumbersGrow
  BY <1>1 DEF NumbersGrow, Numbers, InOrder
<1> QED
  BY <1>2, <1>3, <1>4 DEF QueueKeepsOrder

(* publish and recv keep the order they promise: each control that publish *)
(* accepts is received or still queued, once and in order; the newest      *)
(* state and the newest draft of every call are what the receiver has or   *)
(* gets, unless their loss was recorded; and sequence numbers only grow,   *)
(* past coalescing, eviction, refusal and the marker.                      *)
THEOREM QueueOrdered == Spec => []QueueKeepsOrder
  BY StreamInvariant, OrderKept, PTL

(* A loss is visible to the receiver unless a snapshot begun after it      *)
(* makes up for it: publish raises resync_required with every loss, and    *)
(* acknowledge_resync clears it only at the end of a snapshot whose load   *)
(* came after the losses the flag stands for, or within its own window.    *)
THEOREM LossShows == Spec => []LossIsVisible
<1>1. StreamInv => LossIsVisible
  BY DEF StreamInv, LossFlagged, LossIsVisible, Visible
<1> QED
  BY <1>1, StreamInvariant, PTL

=============================================================================
