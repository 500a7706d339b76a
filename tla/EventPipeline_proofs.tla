------------------------- MODULE EventPipeline_proofs -------------------------
(***************************************************************************)
(* Proofs about EventPipeline, for every configuration, all capacities and *)
(* any number of events and faults: a flush means what it says, and losses *)
(* show.  The log half and the progress half share the flush only; each    *)
(* has its own part of the inductive invariant.                            *)
(***************************************************************************)
EXTENDS EventPipeline, TLAPS

(* A sequence of positions in the order of emission, and a queue of them   *)
(* in which flushes may stand.                                             *)
Growing(s) == \A i, j \in DOMAIN s : i < j => s[i] < s[j]
GrowingPast(q) == \A i, j \in DOMAIN q : i < j /\ q[i] # Flush /\ q[j] # Flush => q[i] < q[j]
Ahead(x, q) == \A i \in DOMAIN q : q[i] # Flush => x < q[i]

-----------------------------------------------------------------------------
(* The invariant of the log.                                               *)

(* A piece that ends has its number for itself; all numbers are below the  *)
(* next one, or the next one again after a failure.                        *)
PiecesInOrder(w, next) ==
    /\ \A k \in DOMAIN w : /\ w[k].seq <= next
                           /\ w[k].ends => w[k].whole /\ w[k].seq < next
    /\ \A j, k \in DOMAIN w :
         j < k => w[j].rec < w[k].rec /\ (w[j].ends => w[j].seq < w[k].seq)

RecordsOf(w) == {w[k].rec : k \in DOMAIN w}

(* Everything taken from the queue was written whole, under its place.     *)
Untroubled(l, w) ==
    /\ l.next_seq = Len(w)
    /\ \A k \in DOMAIN w : w[k].whole /\ w[k].ends /\ w[k].seq = k - 1
    /\ l.accepted = RecordsOf(w) \union ToSet(l.queue)

LogKept ==
    /\ Growing(log.queue) /\ ToSet(log.queue) \subseteq log.accepted
    /\ PiecesInOrder(written, log.next_seq)
    /\ \A r \in RecordsOf(written) : Ahead(r, log.queue)
    /\ log.accepted \subseteq RecordsOf(written) \union ToSet(log.queue) \union log.lost
    /\ log.state = "running" /\ log.pc # "dead" => Untroubled(log, written)

-----------------------------------------------------------------------------
(* The invariant of the progress worker.                                   *)

(* j tells what i had to tell.                                             *)
Tells(j, i) == j = i \/ (j > i /\ IsSnapshot(i) /\ SameCall(j, i))

(* What the observer was told, what is at the head, and what is queued.    *)
InLine(s, x, q) ==
    /\ Growing(s) /\ GrowingPast(q)
    /\ \A k \in DOMAIN s : Ahead(s[k], q)
    /\ x # None => Ahead(x, q) /\ \A k \in DOMAIN s : s[k] < x

AtHead(p) == IF p.held # None THEN p.held ELSE p.pending

InHand(p, i) ==
    \/ p.held # None /\ Tells(p.held, i)
    \/ p.pc = "pending" /\ p.pending = i
    \/ i \in ToSet(p.queue)

ProgressKept ==
    /\ progress.pc = "pending" \/ progress.pending = None
    /\ progress.held # None => progress.pc = "ready" /\ IsSnapshot(progress.held)
    /\ InLine(seen, AtHead(progress), progress.queue)
    /\ progress.pc # "dead" => \A i \in progress.accepted : Known(i) \/ InHand(progress, i)
    /\ prev \in {"llm_started", "update"} => progress.active = calls
    /\ progress.state = "running" =>
         \A i \in Positions :
           config.progress /\ script[i].kind # "user_prompt" => i \in progress.accepted

-----------------------------------------------------------------------------
(* The invariant of the flushes.                                           *)

PendingFlush(p) == p.pc = "pending" /\ p.pending = Flush
NoFlushWaits(p) == ~ PendingFlush(p) /\ \A i \in DOMAIN p.queue : p.queue[i] # Flush
FlushWaitsLast(p) ==
    \/ PendingFlush(p) /\ p.queue = << >>
    \/ /\ ~ PendingFlush(p) /\ p.queue # << >> /\ p.queue[Len(p.queue)] = Flush
       /\ \A i \in 1 .. Len(p.queue) - 1 : p.queue[i] # Flush

FlushKept ==
    /\ agent = "down" => flush.of = "none"
    /\ flush.of = "log" => flush.covers \subseteq log.accepted
    /\ flush.of = "log" /\ flush.state = "ok" =>
         flush.covers \ log.lost \subseteq {written[k].rec : k \in 1 .. durable}
    /\ flush.of = "progress" => flush.covers \subseteq progress.accepted
    /\ flush.of = "progress" /\ flush.state = "ok" => \A i \in flush.covers : Known(i)
    /\ flush.of = "progress" /\ flush.state = "failed" => progress.pc = "dead"
    /\ agent = "up" /\ progress.pc # "dead" =>
         IF flush.of = "progress" /\ flush.state = "sent"
           THEN FlushWaitsLast(progress) ELSE NoFlushWaits(progress)

PipelineInv == TypeOK /\ LogKept /\ ProgressKept /\ FlushKept

-----------------------------------------------------------------------------
(* Sequences.                                                              *)

LEMMA AppendFacts ==
    ASSUME NEW S, NEW s \in Seq(S), NEW x \in S
    PROVE  /\ Append(s, x) \in Seq(S) /\ Len(Append(s, x)) = Len(s) + 1
           /\ \A i \in DOMAIN s : i \in DOMAIN Append(s, x) /\ Append(s, x)[i] = s[i]
           /\ Len(s) + 1 \in DOMAIN Append(s, x) /\ Append(s, x)[Len(s) + 1] = x
           /\ \A i \in DOMAIN Append(s, x) :
                \/ i \in DOMAIN s /\ Append(s, x)[i] = s[i]
                \/ i = Len(s) + 1 /\ Append(s, x)[i] = x
           /\ \A i \in DOMAIN s : i < Len(s) + 1 /\ i \in 1 .. Len(s)
           /\ Len(s) \in Nat
  OBVIOUS

LEMMA TailFacts ==
    ASSUME NEW S, NEW s \in Seq(S), s # << >>
    PROVE  /\ Head(s) \in S /\ Head(s) = s[1] /\ 1 \in DOMAIN s
           /\ Tail(s) \in Seq(S) /\ Len(Tail(s)) = Len(s) - 1
           /\ \A i \in DOMAIN Tail(s) : i + 1 \in DOMAIN s /\ Tail(s)[i] = s[i + 1] /\ 1 < i + 1
           /\ \A i \in DOMAIN s : i = 1 \/ (i - 1 \in DOMAIN Tail(s) /\ Tail(s)[i - 1] = s[i])
           /\ \A i, j \in DOMAIN Tail(s) : i < j => i + 1 < j + 1
           /\ Len(s) \in Nat \ {0}
<1>1. /\ Len(s) \in Nat \ {0} /\ DOMAIN s = 1 .. Len(s) /\ DOMAIN Tail(s) = 1 .. Len(s) - 1
      /\ Tail(s) \in Seq(S) /\ Len(Tail(s)) = Len(s) - 1
      /\ \A i \in 1 .. Len(s) - 1 : Tail(s)[i] = s[i + 1]
      /\ Head(s) \in S /\ Head(s) = s[1]
  OBVIOUS
<1>2. \A i \in DOMAIN s : i = 1 \/ (i - 1 \in DOMAIN Tail(s) /\ Tail(s)[i - 1] = s[i])
  <2>1. SUFFICES ASSUME NEW i \in 1 .. Len(s), i # 1
                 PROVE  i - 1 \in 1 .. Len(s) - 1 /\ Tail(s)[i - 1] = s[i]
    BY <1>1
  <2>2. i - 1 \in 1 .. Len(s) - 1 /\ (i - 1) + 1 = i
    BY <1>1, <2>1
  <2>3. Tail(s)[i - 1] = s[(i - 1) + 1]
    BY <1>1, <2>2
  <2> QED
    BY <2>2, <2>3
<1>3. \A i, j \in DOMAIN Tail(s) : i < j => i + 1 < j + 1
  BY <1>1
<1>4. \A i \in DOMAIN Tail(s) : i + 1 \in DOMAIN s /\ Tail(s)[i] = s[i + 1] /\ 1 < i + 1
  BY <1>1
<1> QED
  BY <1>1, <1>2, <1>3, <1>4

LEMMA ElementsAppend ==
    ASSUME NEW S, NEW s \in Seq(S), NEW x \in S
    PROVE  ToSet(Append(s, x)) = ToSet(s) \union {x}
<1>1. ToSet(s) \subseteq ToSet(Append(s, x)) /\ x \in ToSet(Append(s, x))
  BY AppendFacts DEF ToSet
<1>2. ToSet(Append(s, x)) \subseteq ToSet(s) \union {x}
  BY AppendFacts DEF ToSet
<1> QED
  BY <1>1, <1>2

LEMMA RecordsAppend ==
    ASSUME NEW S, NEW s \in Seq(S), NEW x \in S
    PROVE  RecordsOf(Append(s, x)) = RecordsOf(s) \union {x.rec}
<1>1. RecordsOf(s) \subseteq RecordsOf(Append(s, x)) /\ x.rec \in RecordsOf(Append(s, x))
  BY AppendFacts DEF RecordsOf
<1>2. RecordsOf(Append(s, x)) \subseteq RecordsOf(s) \union {x.rec}
  BY AppendFacts DEF RecordsOf
<1> QED
  BY <1>1, <1>2

LEMMA ElementsTail ==
    ASSUME NEW S, NEW s \in Seq(S), s # << >>
    PROVE  ToSet(s) = ToSet(Tail(s)) \union {Head(s)}
<1>1. ToSet(Tail(s)) \subseteq ToSet(s) /\ Head(s) \in ToSet(s)
  BY TailFacts DEF ToSet
<1>2. ToSet(s) \subseteq ToSet(Tail(s)) \union {Head(s)}
  <2>1. ASSUME NEW i \in DOMAIN s PROVE s[i] \in ToSet(Tail(s)) \union {Head(s)}
    BY TailFacts DEF ToSet
  <2> QED
    BY <2>1 DEF ToSet
<1> QED
  BY <1>1, <1>2

LEMMA ElementsNone == ToSet(<< >>) = {}
  BY DEF ToSet

-----------------------------------------------------------------------------
(* Types.                                                                  *)

IsLog(l) ==
    l = [state |-> l.state, dropped |-> l.dropped, lost |-> l.lost, accepted |-> l.accepted,
         queue |-> l.queue, command |-> l.command, next_seq |-> l.next_seq, pc |-> l.pc]

LogFields(l) ==
    /\ IsLog(l) /\ l.state \in States /\ l.dropped \in Nat
    /\ l.lost \subseteq Positions /\ l.accepted \subseteq Positions
    /\ l.queue \in Seq(Positions) /\ l.command \in BOOLEAN /\ l.next_seq \in Nat
    /\ l.pc \in {"ready", "draining", "closing", "dead"}

LEMMA LogTypes == \A l : l \in Logs <=> LogFields(l)
<1>1. ASSUME NEW l \in Logs PROVE LogFields(l)
  BY DEF Logs, LogFields, IsLog
<1>2. ASSUME NEW l, LogFields(l) PROVE l \in Logs
  BY <1>2 DEF Logs, LogFields, IsLog
<1> QED
  BY <1>1, <1>2

IsProgress(p) ==
    p = [state |-> p.state, dropped |-> p.dropped, resync |-> p.resync, accepted |-> p.accepted,
         queue |-> p.queue, pending |-> p.pending, held |-> p.held, active |-> p.active,
         pc |-> p.pc]

ProgressFields(p) ==
    /\ IsProgress(p) /\ p.state \in States /\ p.dropped \in Nat /\ p.resync \in BOOLEAN
    /\ p.accepted \subseteq Positions /\ p.queue \in Seq(Positions \union {0})
    /\ p.pending \in Positions \union {0} /\ p.held \in Positions \union {0}
    /\ p.active \in Nat /\ p.pc \in {"ready", "pending", "dead"}

LEMMA ProgressTypes == \A p : p \in Progresses <=> ProgressFields(p)
<1>1. ASSUME NEW p \in Progresses PROVE ProgressFields(p)
  BY DEF Progresses, ProgressFields, IsProgress, Flush, None
<1>2. ASSUME NEW p, ProgressFields(p) PROVE p \in Progresses
  BY <1>2 DEF Progresses, ProgressFields, IsProgress, Flush, None
<1> QED
  BY <1>1, <1>2

IsFlush(f) == f = [of |-> f.of, state |-> f.state, covers |-> f.covers]

FlushFields(f) ==
    /\ IsFlush(f) /\ f.of \in {"none", "log", "progress"}
    /\ f.state \in {"none", "sent", "ok", "failed"} /\ f.covers \subseteq Positions

LEMMA FlushTypes == \A f : f \in Flushes <=> FlushFields(f)
<1>1. ASSUME NEW f \in Flushes PROVE FlushFields(f)
  BY DEF Flushes, FlushFields, IsFlush
<1>2. ASSUME NEW f, FlushFields(f) PROVE f \in Flushes
  BY <1>2 DEF Flushes, FlushFields, IsFlush
<1> QED
  BY <1>1, <1>2

LEMMA NoFlushTypes == NoFlush \in Flushes
  BY DEF NoFlush, Flushes

LEMMA TypeFacts ==
    ASSUME TypeOK
    PROVE  /\ config \in Configurations /\ script \in Seq(Events) /\ Len(script) \in Nat
           /\ config.events \in Nat /\ Len(script) <= config.events
           /\ prev \in Kinds \union {"llm_failed"} /\ calls \in Nat /\ agent \in {"up", "down"}
           /\ LogFields(log) /\ Len(log.queue) <= LogPlaces /\ log.next_seq <= Len(written)
           /\ written \in Seq(Pieces) /\ durable \in 0 .. Len(written) /\ Len(written) \in Nat
           /\ ProgressFields(progress) /\ Len(progress.queue) <= ProgressPlaces
           /\ seen \in Seq(Positions) /\ FlushFields(flush) /\ faults \in 0 .. MaxFaults
<1>1. config.events \in Nat
  BY ConfigurationsAreKnown DEF TypeOK
<1> QED
  BY <1>1, LogTypes, ProgressTypes, FlushTypes DEF TypeOK

(* Without a new event nothing that is typed by positions changes its type. *)
LEMMA SameTypes ==
    ASSUME script' = script
    PROVE  /\ Positions' = Positions /\ Logs' = Logs /\ Progresses' = Progresses
           /\ Flushes' = Flushes /\ Pieces' = Pieces
  BY DEF Positions, Logs, Progresses, Flushes, Pieces

LEMMA TypesKept ==
    ASSUME TypeOK, UNCHANGED <<config, script>>,
           prev' \in Kinds \union {"llm_failed"}, calls' = calls, agent' \in {"up", "down"},
           LogFields(log'), Len(log'.queue) <= LogPlaces, log'.next_seq <= Len(written'),
           written' \in Seq(Pieces), durable' \in 0 .. Len(written'),
           ProgressFields(progress'), Len(progress'.queue) <= ProgressPlaces,
           seen' \in Seq(Positions), FlushFields(flush'), faults' \in 0 .. MaxFaults
    PROVE  TypeOK'
<1>1. log' \in Logs /\ progress' \in Progresses /\ flush' \in Flushes
  BY LogTypes, ProgressTypes, FlushTypes
<1> QED
  BY <1>1, SameTypes DEF TypeOK

-----------------------------------------------------------------------------
(* What the log can do to its part of the invariant.                       *)

(* A change of the status alone.                                           *)
LEMMA LogStatus ==
    ASSUME LogKept, written' = written,
           log'.queue = log.queue, log'.accepted = log.accepted, log'.lost = log.lost,
           log'.next_seq = log.next_seq,
           log'.state = "running" /\ log'.pc # "dead" => log.state = "running" /\ log.pc # "dead"
    PROVE  LogKept'
  BY DEF LogKept, Untroubled

(* The worker dies with what it had queued.                                *)
LEMMA LogDies ==
    ASSUME LogKept, written' = written,
           log'.queue = << >>, log'.accepted = log.accepted,
           log'.lost = log.lost \union ToSet(log.queue),
           log'.next_seq = log.next_seq, log'.pc = "dead"
    PROVE  LogKept'
  BY ElementsNone DEF LogKept, Growing, Ahead

(* A new event is later than all the log has seen.                         *)
LEMMA LogEnqueues ==
    ASSUME LogKept, LogFields(log), written \in Seq(Pieces), written' = written,
           NEW n \in Nat, \A i \in Positions : i < n, n > 0,
           log'.queue = Append(log.queue, n), log'.accepted = log.accepted \union {n},
           log'.lost = log.lost, log'.next_seq = log.next_seq,
           log'.state = log.state, log'.pc = log.pc
    PROVE  LogKept'
<1> DEFINE q == log.queue
           r == Append(q, n)
           P == Positions \union {n}
<1>1. q \in Seq(Positions) /\ q \in Seq(P) /\ n \in P /\ \A i \in DOMAIN q : q[i] \in Positions
  BY DEF LogFields
<1>2. /\ \A i \in DOMAIN r : \/ i \in DOMAIN q /\ r[i] = q[i]
                             \/ i = Len(q) + 1 /\ r[i] = n
      /\ \A i \in DOMAIN q : i < Len(q) + 1 /\ i \in Nat
      /\ Len(q) \in Nat
  BY <1>1, AppendFacts
<1>3. ToSet(r) = ToSet(q) \union {n}
  BY <1>1, ElementsAppend
<1>4. \A k \in DOMAIN written : written[k].rec \in Positions
  <2>1. \A k \in DOMAIN written : written[k] \in Pieces
    OBVIOUS
  <2> QED
    BY <2>1 DEF Pieces
<1> HIDE DEF r, P
<1>5. Growing(r)
  BY <1>1, <1>2 DEF LogKept, Growing
<1>6. \A x \in RecordsOf(written) : Ahead(x, r)
  <2>1. \A x \in RecordsOf(written) : x < n
    BY <1>4 DEF RecordsOf
  <2> QED
    BY <1>2, <2>1 DEF LogKept, Ahead
<1>7. log.state = "running" /\ log.pc # "dead" => Untroubled(log', written)
  BY <1>3 DEF LogKept, Untroubled, r
<1>8. log'.queue = r
  BY DEF r
<1> QED
  BY <1>3, <1>5, <1>6, <1>7, <1>8 DEF LogKept

(* append takes the first record of the queue.                             *)
LEMMA QueueTaken ==
    ASSUME LogKept, LogFields(log), written \in Seq(Pieces), log.queue # << >>
    PROVE  LET i == Head(log.queue)
               q == Tail(log.queue) IN
           /\ i \in Positions /\ q \in Seq(Positions)
           /\ Len(q) <= Len(log.queue) /\ Growing(q)
           /\ ToSet(log.queue) = ToSet(q) \union {i}
           /\ Ahead(i, q) /\ \A k \in DOMAIN written : written[k].rec < i
           /\ \A x \in RecordsOf(written) : Ahead(x, q)
<1> DEFINE i == Head(log.queue)
           q == Tail(log.queue)
<1>1. log.queue \in Seq(Positions)
  BY DEF LogFields
<1>2. /\ i \in Positions /\ i = log.queue[1] /\ 1 \in DOMAIN log.queue /\ q \in Seq(Positions)
      /\ Len(q) = Len(log.queue) - 1 /\ Len(log.queue) \in Nat
      /\ \A k \in DOMAIN q : k + 1 \in DOMAIN log.queue /\ q[k] = log.queue[k + 1] /\ 1 < k + 1
      /\ \A k, m \in DOMAIN q : k < m => k + 1 < m + 1
  BY <1>1, TailFacts
<1>3. ToSet(log.queue) = ToSet(q) \union {i}
  BY <1>1, ElementsTail
<1> HIDE DEF q, i
<1>4. Growing(q) /\ Ahead(i, q)
  BY <1>2 DEF LogKept, Growing, Ahead
<1>5. \A x \in RecordsOf(written) : x < i /\ Ahead(x, q)
  <2>1. i # Flush
    BY <1>2 DEF Positions, Flush
  <2> QED
    BY <1>2, <2>1 DEF LogKept, Ahead
<1>6. \A k \in DOMAIN written : written[k].rec < i
  BY <1>5 DEF RecordsOf
<1> QED
  BY <1>2, <1>3, <1>4, <1>5, <1>6 DEF q, i

(* Writing a piece of it, under the next number.                           *)
LEMMA PieceWritten ==
    ASSUME NEW w \in Seq(Pieces), NEW next \in Nat, NEW e \in Pieces, e.seq = next,
           PiecesInOrder(w, next), \A k \in DOMAIN w : w[k].rec < e.rec, e.ends => e.whole
    PROVE  /\ PiecesInOrder(Append(w, e), next + 1)
           /\ ~ e.ends => PiecesInOrder(Append(w, e), next)
<1> DEFINE v == Append(w, e)
<1>1. /\ \A i \in DOMAIN v : \/ i \in DOMAIN w /\ v[i] = w[i]
                             \/ i = Len(w) + 1 /\ v[i] = e
      /\ \A i \in DOMAIN w : i < Len(w) + 1 /\ i \in Nat
      /\ Len(w) \in Nat
  BY AppendFacts
<1>2. /\ \A k \in DOMAIN w : w[k].seq \in Nat /\ w[k].ends \in BOOLEAN /\ w[k].rec \in Positions
      /\ e.seq \in Nat /\ e.ends \in BOOLEAN /\ e.rec \in Positions
  <2>1. \A k \in DOMAIN w : w[k] \in Pieces
    OBVIOUS
  <2> QED
    BY <2>1 DEF Pieces
<1> HIDE DEF v
<1>3. \A j, k \in DOMAIN v :
        j < k => v[j].rec < v[k].rec /\ (v[j].ends => v[j].seq < v[k].seq)
  <2>1. SUFFICES ASSUME NEW j \in DOMAIN v, NEW k \in DOMAIN v, j < k
                 PROVE  v[j].rec < v[k].rec /\ (v[j].ends => v[j].seq < v[k].seq)
    OBVIOUS
  <2>2. j \in DOMAIN w /\ v[j] = w[j]
    BY <1>1, <2>1
  <2>3. CASE k \in DOMAIN w /\ v[k] = w[k]
    BY <2>1, <2>2, <2>3 DEF PiecesInOrder
  <2>4. CASE v[k] = e
    BY <2>2, <2>4 DEF PiecesInOrder
  <2> QED
    BY <1>1, <2>3, <2>4
<1>4. \A k \in DOMAIN v : v[k].seq <= next + 1 /\ (v[k].ends => v[k].whole /\ v[k].seq < next + 1)
  BY <1>1, <1>2 DEF PiecesInOrder
<1>5. ~ e.ends => \A k \in DOMAIN v : v[k].seq <= next /\ (v[k].ends => v[k].whole /\ v[k].seq < next)
  BY <1>1, <1>2 DEF PiecesInOrder
<1> QED
  BY <1>3, <1>4, <1>5 DEF PiecesInOrder, v

LEMMA PieceTypes ==
    ASSUME NEW i \in Positions, NEW whole \in BOOLEAN, NEW ends \in BOOLEAN, log.next_seq \in Nat
    PROVE  /\ Piece(i, whole, ends) \in Pieces
           /\ Piece(i, whole, ends).rec = i /\ Piece(i, whole, ends).seq = log.next_seq
           /\ Piece(i, whole, ends).whole = whole /\ Piece(i, whole, ends).ends = ends
  BY DEF Piece, Pieces

LEMMA AppendOk ==
    ASSUME TypeOK, LogKept, log.queue # << >>, append_ok(Head(log.queue))
    PROVE  /\ LogKept' /\ LogFields(log') /\ written' \in Seq(Pieces)
           /\ Len(log'.queue) <= Len(log.queue) /\ log'.next_seq <= Len(written')
           /\ Len(written') = Len(written) + 1 /\ \A k \in DOMAIN written : written'[k] = written[k]
           /\ log'.accepted = log.accepted /\ log'.lost = log.lost
<1> DEFINE i == Head(log.queue)
           q == Tail(log.queue)
           n == log.next_seq
           e == Piece(i, TRUE, TRUE)
           w == written
           v == Append(w, e)
<1>1. /\ LogFields(log) /\ w \in Seq(Pieces) /\ n \in Nat /\ n <= Len(w) /\ Len(w) \in Nat
      /\ IsLog(log) /\ log.state \in States /\ log.dropped \in Nat
      /\ log.lost \subseteq Positions /\ log.accepted \subseteq Positions
      /\ log.command \in BOOLEAN /\ log.pc \in {"ready", "draining", "closing", "dead"}
  BY TypeFacts DEF LogFields
<1>2. /\ i \in Positions /\ q \in Seq(Positions)
      /\ Len(q) <= Len(log.queue) /\ Growing(q)
      /\ ToSet(log.queue) = ToSet(q) \union {i}
      /\ Ahead(i, q) /\ \A k \in DOMAIN w : w[k].rec < i
      /\ \A x \in RecordsOf(w) : Ahead(x, q)
  BY <1>1, QueueTaken
<1>3. /\ e \in Pieces /\ e.rec = i /\ e.seq = n /\ e.whole = TRUE /\ e.ends = TRUE
  BY <1>1, <1>2, PieceTypes
<1>4. /\ log' = [log EXCEPT !.queue = q, !.next_seq = n + 1] /\ written' = v
  BY DEF append_ok
<1> HIDE DEF i, q, e
<1>5. /\ v \in Seq(Pieces) /\ Len(v) = Len(w) + 1
      /\ \A k \in DOMAIN w : v[k] = w[k]
      /\ \A k \in DOMAIN v : (k \in DOMAIN w /\ v[k] = w[k]) \/ (k = Len(w) + 1 /\ v[k] = e)
  BY <1>1, <1>3, AppendFacts
<1>6. RecordsOf(v) = RecordsOf(w) \union {i}
  BY <1>1, <1>3, RecordsAppend
<1>7. PiecesInOrder(v, n + 1)
  BY <1>1, <1>2, <1>3, PieceWritten DEF LogKept
<1> HIDE DEF v
<1>8. /\ IsLog(log') /\ log'.queue = q /\ log'.next_seq = n + 1
      /\ log'.state = log.state /\ log'.pc = log.pc /\ log'.dropped = log.dropped
      /\ log'.lost = log.lost /\ log'.accepted = log.accepted /\ log'.command = log.command
  BY <1>1, <1>4 DEF IsLog
<1>9. ASSUME log.state = "running", log.pc # "dead"
      PROVE  Untroubled(log', v)
  <2>1. Untroubled(log, w)
    BY <1>9 DEF LogKept
  <2>2. n = Len(w) /\ log.accepted = RecordsOf(w) \union ToSet(log.queue)
        /\ \A k \in DOMAIN w : w[k].whole /\ w[k].ends /\ w[k].seq = k - 1
    BY <2>1 DEF Untroubled
  <2>3. \A k \in DOMAIN v : v[k].whole /\ v[k].ends /\ v[k].seq = k - 1
    BY <1>1, <1>3, <1>5, <2>2
  <2> QED
    BY <1>2, <1>5, <1>6, <1>8, <2>2, <2>3 DEF Untroubled
<1>10. LogKept'
  <2>1. ToSet(q) \subseteq log.accepted /\ \A x \in RecordsOf(v) : Ahead(x, q)
    BY <1>2, <1>6 DEF LogKept
  <2>2. log.accepted \subseteq RecordsOf(v) \union ToSet(q) \union log.lost
    BY <1>2, <1>6 DEF LogKept
  <2> QED
    BY <1>2, <1>4, <1>7, <1>8, <1>9, <2>1, <2>2 DEF LogKept
<1>11. LogFields(log')
  BY <1>1, <1>2, <1>8 DEF LogFields
<1> QED
  BY <1>1, <1>2, <1>4, <1>5, <1>8, <1>10, <1>11

LEMMA AppendFails ==
    ASSUME TypeOK, LogKept, log.queue # << >>,
           NEW left, left \in {<< >>, <<Piece(Head(log.queue), FALSE, FALSE)>>,
                               <<Piece(Head(log.queue), TRUE, FALSE)>>},
           append_fails(Head(log.queue), left)
    PROVE  /\ LogKept' /\ LogFields(log') /\ written' \in Seq(Pieces)
           /\ Len(log'.queue) <= Len(log.queue) /\ log'.next_seq <= Len(written')
           /\ Len(written) <= Len(written') /\ \A k \in DOMAIN written : written'[k] = written[k]
           /\ log'.accepted = log.accepted /\ log.lost \subseteq log'.lost
<1> DEFINE i == Head(log.queue)
           q == Tail(log.queue)
           n == log.next_seq
           w == written
<1>1. /\ LogFields(log) /\ w \in Seq(Pieces) /\ n \in Nat /\ n <= Len(w) /\ Len(w) \in Nat
      /\ IsLog(log) /\ log.state \in States /\ log.dropped \in Nat
      /\ log.lost \subseteq Positions /\ log.accepted \subseteq Positions
      /\ log.command \in BOOLEAN /\ log.pc \in {"ready", "draining", "closing", "dead"}
  BY TypeFacts DEF LogFields
<1>2. /\ i \in Positions /\ q \in Seq(Positions)
      /\ Len(q) <= Len(log.queue) /\ Growing(q)
      /\ ToSet(log.queue) = ToSet(q) \union {i}
      /\ Ahead(i, q) /\ \A k \in DOMAIN w : w[k].rec < i
      /\ \A x \in RecordsOf(w) : Ahead(x, q)
  BY <1>1, QueueTaken
<1>3. /\ log' = [log EXCEPT !.queue = q, !.lost = @ \union {i}, !.state = "degraded"]
      /\ written' = w \o left
  BY DEF append_fails
<1> HIDE DEF i, q
<1>4. /\ IsLog(log') /\ log'.queue = q /\ log'.next_seq = n
      /\ log'.state = "degraded" /\ log'.pc = log.pc /\ log'.dropped = log.dropped
      /\ log'.lost = log.lost \union {i} /\ log'.accepted = log.accepted
      /\ log'.command = log.command
  BY <1>1, <1>3 DEF IsLog
<1>5. LogFields(log')
  BY <1>1, <1>2, <1>4 DEF LogFields, States
<1>6. CASE left = << >>
  <2>1. written' = w
    BY <1>1, <1>3, <1>6
  <2>2. LogKept'
    BY <1>2, <1>4, <2>1 DEF LogKept
  <2> QED
    BY <1>1, <1>2, <1>4, <1>5, <2>1, <2>2
<1>7. ASSUME NEW e \in Pieces, left = <<e>>, e.rec = i, e.seq = n, e.ends = FALSE
      PROVE  /\ LogKept' /\ written' \in Seq(Pieces) /\ Len(written') = Len(w) + 1
             /\ \A k \in DOMAIN w : written'[k] = w[k]
  <2> DEFINE v == Append(w, e)
  <2>1. written' = v
    BY <1>1, <1>3, <1>7
  <2>2. v \in Seq(Pieces) /\ Len(v) = Len(w) + 1 /\ \A k \in DOMAIN w : v[k] = w[k]
    BY <1>1, <1>7, AppendFacts
  <2>3. RecordsOf(v) = RecordsOf(w) \union {i}
    BY <1>1, <1>7, RecordsAppend
  <2>4. PiecesInOrder(v, n)
    BY <1>1, <1>2, <1>7, PieceWritten DEF LogKept
  <2> HIDE DEF v
  <2>5. /\ ToSet(q) \subseteq log.accepted /\ \A x \in RecordsOf(v) : Ahead(x, q)
        /\ log.accepted \subseteq RecordsOf(v) \union ToSet(q) \union (log.lost \union {i})
    BY <1>2, <2>3 DEF LogKept
  <2>6. LogKept'
    BY <1>2, <1>4, <2>1, <2>4, <2>5 DEF LogKept
  <2> QED
    BY <2>1, <2>2, <2>6
<1>8. CASE left # << >>
  <2>1. PICK whole \in BOOLEAN : left = <<Piece(i, whole, FALSE)>>
    BY <1>8 DEF i
  <2>2. /\ Piece(i, whole, FALSE) \in Pieces /\ Piece(i, whole, FALSE).rec = i
        /\ Piece(i, whole, FALSE).seq = n /\ Piece(i, whole, FALSE).ends = FALSE
    BY <1>1, <1>2, PieceTypes
  <2>3. /\ LogKept' /\ written' \in Seq(Pieces) /\ Len(written') = Len(w) + 1
        /\ \A k \in DOMAIN w : written'[k] = w[k]
    BY <1>7, <2>1, <2>2
  <2> QED
    BY <1>1, <1>2, <1>4, <1>5, <2>3
<1> QED
  BY <1>6, <1>8

-----------------------------------------------------------------------------
(* Steps of the log worker.                                                *)

(* What is known stays known while nothing is emitted and nothing told.    *)
LEMMA SameKnown ==
    ASSUME UNCHANGED <<script, seen>>
    PROVE  /\ \A i : Known(i)' <=> Known(i)
           /\ \A i, j : Tells(j, i)' <=> Tells(j, i)
           /\ \A i : IsSnapshot(i)' <=> IsSnapshot(i)
  BY DEF Known, Tells, IsSnapshot, SameCall

LEMMA ProgressUntouched ==
    ASSUME ProgressKept, UNCHANGED <<config, script, calls, progress, seen>>,
           prev' \in {"llm_started", "update"} => prev' = prev
    PROVE  ProgressKept'
  BY SameKnown DEF ProgressKept, InHand, Positions

(* The log may write and lose, but takes back nothing a flush covers.      *)
LEMMA FlushUntouched ==
    ASSUME TypeOK, FlushKept, UNCHANGED <<script, agent, progress, seen, flush>>,
           log'.accepted = log.accepted, log.lost \subseteq log'.lost,
           durable' \in Nat, durable <= durable',
           \A k \in DOMAIN written : written'[k] = written[k]
    PROVE  FlushKept'
<1>1. {written[k].rec : k \in 1 .. durable} \subseteq {written'[k].rec : k \in 1 .. durable'}
  <2>1. \A k \in 1 .. durable : k \in DOMAIN written /\ k \in 1 .. durable'
    BY TypeFacts
  <2> QED
    BY <2>1
<1>2. flush.of = "log" /\ flush.state = "ok" =>
        flush.covers \ log'.lost \subseteq {written'[k].rec : k \in 1 .. durable'}
  BY <1>1 DEF FlushKept
<1>3. flush.of = "progress" /\ flush.state = "ok" => \A i \in flush.covers : Known(i)'
  BY SameKnown DEF FlushKept
<1> QED
  BY <1>2, <1>3 DEF FlushKept

LEMMA LogTakesKeeps ==
    ASSUME PipelineInv, log_takes
    PROVE  PipelineInv'
<1>1. /\ log.queue # << >> /\ append(Head(log.queue))
      /\ UNCHANGED <<config, script, prev, calls, agent, durable, progress, seen, flush>>
      /\ TypeOK /\ LogKept /\ ProgressKept /\ FlushKept
  BY DEF log_takes, PipelineInv
<1>2. faults \in 0 .. MaxFaults /\ MaxFaults \in Nat /\ durable \in 0 .. Len(written) /\ Len(written) \in Nat
  BY <1>1, TypeFacts, FaultsAreNatural
<1>3. faults' \in 0 .. MaxFaults
  <2>1. faults' = faults \/ (faults < MaxFaults /\ faults' = faults + 1)
    BY <1>1 DEF append, append_ok, append_fails
  <2> QED
    BY <1>2, <2>1
<1>4. /\ LogKept' /\ LogFields(log') /\ written' \in Seq(Pieces)
      /\ Len(log'.queue) <= Len(log.queue) /\ log'.next_seq <= Len(written')
      /\ Len(written) <= Len(written') /\ \A k \in DOMAIN written : written'[k] = written[k]
      /\ log'.accepted = log.accepted /\ log.lost \subseteq log'.lost
  <2>1. CASE append_ok(Head(log.queue))
    BY <1>1, <1>2, <2>1, AppendOk
  <2>2. ASSUME NEW left \in {<< >>, <<Piece(Head(log.queue), FALSE, FALSE)>>,
                             <<Piece(Head(log.queue), TRUE, FALSE)>>},
               append_fails(Head(log.queue), left)
        PROVE  /\ LogKept' /\ LogFields(log') /\ written' \in Seq(Pieces)
               /\ Len(log'.queue) <= Len(log.queue) /\ log'.next_seq <= Len(written')
               /\ Len(written) <= Len(written') /\ \A k \in DOMAIN written : written'[k] = written[k]
               /\ log'.accepted = log.accepted /\ log.lost \subseteq log'.lost
    BY <1>1, <2>2, AppendFails
  <2> QED
    BY <1>1, <2>1, <2>2 DEF append
<1>5. /\ Len(log'.queue) <= LogPlaces /\ durable' \in 0 .. Len(written') /\ durable' \in Nat
      /\ durable <= durable'
  <2>1. /\ Len(log.queue) <= LogPlaces /\ Len(log.queue) \in Nat /\ LogPlaces \in Nat
        /\ Len(log'.queue) \in Nat /\ Len(written') \in Nat
    <3>1. Len(log.queue) <= LogPlaces /\ LogFields(log) /\ LogPlaces \in Nat
      BY <1>1, TypeFacts, PlacesArePositive
    <3>2. Len(log.queue) \in Nat
      BY <3>1 DEF LogFields
    <3>3. Len(log'.queue) \in Nat
      BY <1>4 DEF LogFields
    <3>4. Len(written') \in Nat
      BY <1>4
    <3> QED
      BY <3>1, <3>2, <3>3, <3>4
  <2> QED
    BY <1>1, <1>2, <1>4, <2>1
<1>6. TypeOK'
  BY <1>1, <1>3, <1>4, <1>5, TypeFacts, TypesKept
<1>7. ProgressKept' /\ FlushKept'
  BY <1>1, <1>4, <1>5, ProgressUntouched, FlushUntouched
<1> QED
  BY <1>4, <1>6, <1>7 DEF PipelineInv

(* The log's state and place alone change, and not out of trouble.         *)
LEMMA LogMoves ==
    ASSUME PipelineInv, UNCHANGED <<config, script, prev, calls, agent, written, progress, seen>>,
           NEW st \in States, NEW pl \in {"ready", "draining", "closing", "dead"},
           NEW com \in BOOLEAN,
           log' = [log EXCEPT !.state = st, !.pc = pl, !.command = com],
           st = "running" /\ pl # "dead" => log.state = "running" /\ log.pc # "dead",
           durable' \in {durable, Len(written)}, faults' \in 0 .. MaxFaults,
           FlushFields(flush')
    PROVE  TypeOK' /\ LogKept' /\ ProgressKept' /\ (flush' = flush => FlushKept')
<1>1. TypeOK /\ LogKept /\ ProgressKept /\ FlushKept
  BY DEF PipelineInv
<1>2. /\ LogFields(log) /\ Len(log.queue) <= LogPlaces /\ log.next_seq <= Len(written)
      /\ written \in Seq(Pieces) /\ durable \in 0 .. Len(written) /\ Len(written) \in Nat
  BY <1>1, TypeFacts
<1>3. /\ IsLog(log') /\ log'.queue = log.queue /\ log'.next_seq = log.next_seq
      /\ log'.state = st /\ log'.pc = pl /\ log'.dropped = log.dropped
      /\ log'.lost = log.lost /\ log'.accepted = log.accepted /\ log'.command = com
  BY <1>2 DEF LogFields, IsLog
<1>4. LogFields(log')
  BY <1>2, <1>3 DEF LogFields
<1>5. durable' \in 0 .. Len(written) /\ durable' \in Nat /\ durable <= durable'
  BY <1>2
<1>6. TypeOK'
  BY <1>1, <1>2, <1>3, <1>4, <1>5, TypeFacts, TypesKept
<1>7. LogKept'
  BY <1>1, <1>3, LogStatus
<1>8. ProgressKept'
  BY <1>1, ProgressUntouched
<1>9. flush' = flush => FlushKept'
  BY <1>1, <1>3, <1>5, FlushUntouched
<1> QED
  BY <1>6, <1>7, <1>8, <1>9

LEMMA LogCommandKeeps ==
    ASSUME PipelineInv, log_command \/ log_closed \/ log_ends
    PROVE  PipelineInv'
<1>1. /\ TypeOK /\ FlushFields(flush) /\ faults \in 0 .. MaxFaults /\ IsLog(log)
      /\ log.state \in States /\ log.command \in BOOLEAN
      /\ log.pc \in {"ready", "draining", "closing", "dead"} /\ MaxFaults \in Nat
  BY TypeFacts, FaultsAreNatural DEF PipelineInv, LogFields
<1>2. CASE log_command
  <2>1. /\ log' = [log EXCEPT !.state = log.state, !.pc = "draining", !.command = FALSE]
        /\ log.pc # "dead"
        /\ UNCHANGED <<config, script, prev, calls, agent, written, progress, seen, flush, faults, durable>>
    BY <1>1, <1>2 DEF log_command, IsLog
  <2> QED
    BY <1>1, <2>1, LogMoves DEF PipelineInv
<1>3. CASE log_closed
  <2>1. /\ log' = [log EXCEPT !.state = log.state, !.pc = "closing", !.command = log.command]
        /\ log.pc # "dead"
        /\ UNCHANGED <<config, script, prev, calls, agent, written, progress, seen, flush, faults, durable>>
    BY <1>1, <1>3 DEF log_closed, IsLog
  <2> QED
    BY <1>1, <2>1, LogMoves DEF PipelineInv
<1>4. CASE log_ends
  <2>1. /\ log' = [log EXCEPT !.state = "stopped", !.pc = "dead", !.command = log.command]
        /\ UNCHANGED <<config, script, prev, calls, agent, written, progress, seen, flush>>
    <3>1. log' = [log EXCEPT !.pc = "dead", !.state = "stopped"]
      BY <1>4 DEF log_ends
    <3> QED
      BY <1>1, <1>4, <3>1 DEF log_ends, IsLog
  <2>2. durable' \in {durable, Len(written)}
    BY <1>4 DEF log_ends
  <2>3. faults' = faults \/ (faults < MaxFaults /\ faults' = faults + 1)
    BY <1>4 DEF log_ends
  <2>4. faults' \in 0 .. MaxFaults
    BY <1>1, <2>3
  <2> QED
    BY <1>1, <2>1, <2>2, <2>4, LogMoves DEF PipelineInv, States
<1> QED
  BY <1>2, <1>3, <1>4

(* A flush that succeeds finds the queue empty: all that was accepted and  *)
(* not lost has been written, and is now in the file.                      *)
LEMMA LogFlushesKeeps ==
    ASSUME PipelineInv, log_flushes
    PROVE  PipelineInv'
<1>1. /\ log.pc = "draining" /\ log.queue = << >>
      /\ UNCHANGED <<config, script, prev, calls, agent, progress, seen, written>>
      /\ TypeOK /\ LogKept /\ ProgressKept /\ FlushKept
  BY DEF log_flushes, PipelineInv
<1>2. /\ FlushFields(flush) /\ faults \in 0 .. MaxFaults /\ IsLog(log)
      /\ log.state \in States /\ log.command \in BOOLEAN
      /\ MaxFaults \in Nat /\ durable \in 0 .. Len(written) /\ Len(written) \in Nat
      /\ IsFlush(flush) /\ flush.of \in {"none", "log", "progress"} /\ flush.covers \subseteq Positions
      /\ written \in Seq(Pieces)
  BY <1>1, TypeFacts, FaultsAreNatural DEF LogFields, FlushFields
<1>3. \E st \in {log.state, "degraded"}, fl \in {"ok", "failed"} :
        /\ log' = [log EXCEPT !.state = st, !.pc = "ready", !.command = log.command]
        /\ durable' \in {durable, Len(written)} /\ faults' \in 0 .. MaxFaults
        /\ fl = "ok" => durable' = Len(written)
        /\ flush' = IF flush.of = "log" THEN [flush EXCEPT !.state = fl] ELSE flush
  <2>1. CASE /\ durable' = Len(written) /\ UNCHANGED faults
             /\ log' = [log EXCEPT !.pc = "ready"]
             /\ flush' = IF flush.of = "log" THEN [flush EXCEPT !.state = "ok"] ELSE flush
    <3>1. log' = [log EXCEPT !.state = log.state, !.pc = "ready", !.command = log.command]
      BY <1>2, <2>1 DEF IsLog
    <3> QED
      BY <1>2, <2>1, <3>1
  <2>2. CASE /\ faults < MaxFaults /\ faults' = faults + 1 /\ UNCHANGED durable
             /\ log' = [log EXCEPT !.pc = "ready", !.state = "degraded"]
             /\ flush' = IF flush.of = "log" THEN [flush EXCEPT !.state = "failed"] ELSE flush
    <3>1. log' = [log EXCEPT !.state = "degraded", !.pc = "ready", !.command = log.command]
      BY <1>2, <2>2 DEF IsLog
    <3> QED
      BY <1>2, <2>2, <3>1
  <2> QED
    BY <2>1, <2>2 DEF log_flushes
<1>4. PICK st \in {log.state, "degraded"}, fl \in {"ok", "failed"} :
        /\ log' = [log EXCEPT !.state = st, !.pc = "ready", !.command = log.command]
        /\ durable' \in {durable, Len(written)} /\ faults' \in 0 .. MaxFaults
        /\ fl = "ok" => durable' = Len(written)
        /\ flush' = IF flush.of = "log" THEN [flush EXCEPT !.state = fl] ELSE flush
  BY <1>3
<1>5. /\ FlushFields(flush') /\ flush'.of = flush.of /\ flush'.covers = flush.covers
      /\ flush.of = "log" => flush'.state = fl
      /\ flush.of # "log" => flush' = flush
  BY <1>2, <1>4 DEF FlushFields, IsFlush
<1>6. st \in States /\ (st = "running" => log.state = "running")
  BY <1>2 DEF States
<1>7. TypeOK' /\ LogKept' /\ ProgressKept' /\ (flush' = flush => FlushKept')
  BY <1>1, <1>2, <1>4, <1>5, <1>6, LogMoves
<1>8. ASSUME flush.of = "log" PROVE FlushKept'
  <2>1. log'.accepted = log.accepted /\ log'.lost = log.lost
    BY <1>2, <1>4 DEF IsLog
  <2>2. log.accepted \ log.lost \subseteq RecordsOf(written)
    BY <1>1, ElementsNone DEF LogKept
  <2>3. RecordsOf(written) = {written[k].rec : k \in 1 .. Len(written)}
    BY <1>2 DEF RecordsOf
  <2>4. fl = "ok" => flush.covers \ log.lost \subseteq {written[k].rec : k \in 1 .. durable'}
    BY <1>1, <1>4, <1>8, <2>2, <2>3 DEF FlushKept
  <2>5. flush.covers \subseteq log.accepted /\ agent # "down"
    BY <1>1, <1>8 DEF FlushKept
  <2>6. agent = "up" /\ progress.pc # "dead" => NoFlushWaits(progress)
    BY <1>1, <1>8 DEF FlushKept
  <2> QED
    BY <1>1, <1>5, <1>8, <2>1, <2>4, <2>5, <2>6 DEF FlushKept
<1> QED
  BY <1>5, <1>7, <1>8 DEF PipelineInv

LEMMA LogDiesKeeps ==
    ASSUME PipelineInv, log_dies
    PROVE  PipelineInv'
<1>1. /\ faults < MaxFaults /\ faults' = faults + 1
      /\ log' = [log EXCEPT !.pc = "dead", !.lost = @ \union ToSet(log.queue),
                            !.queue = << >>, !.command = FALSE]
      /\ UNCHANGED <<config, script, prev, calls, agent, written, durable, progress, seen, flush>>
      /\ TypeOK /\ LogKept /\ ProgressKept /\ FlushKept
  BY DEF log_dies, PipelineInv
<1>2. /\ LogFields(log) /\ log.next_seq <= Len(written) /\ faults \in 0 .. MaxFaults
      /\ durable \in 0 .. Len(written) /\ Len(written) \in Nat /\ LogPlaces \in Nat /\ MaxFaults \in Nat
      /\ log.queue \in Seq(Positions) /\ log.lost \subseteq Positions
  BY <1>1, TypeFacts, PlacesArePositive, FaultsAreNatural DEF LogFields
<1>3. /\ IsLog(log') /\ log'.queue = << >> /\ log'.next_seq = log.next_seq
      /\ log'.state = log.state /\ log'.pc = "dead" /\ log'.dropped = log.dropped
      /\ log'.lost = log.lost \union ToSet(log.queue) /\ log'.accepted = log.accepted
      /\ log'.command = FALSE
  BY <1>1, <1>2 DEF LogFields, IsLog
<1>4. LogFields(log') /\ Len(log'.queue) <= LogPlaces
  <2>1. ToSet(log.queue) \subseteq Positions
    BY <1>2 DEF ToSet
  <2>2. << >> \in Seq(Positions) /\ Len(<< >>) = 0 /\ 0 <= LogPlaces
    BY <1>2
  <2>3. Len(log'.queue) <= LogPlaces
    BY <1>3, <2>2
  <2> QED
    BY <1>2, <1>3, <2>1, <2>2, <2>3 DEF LogFields
<1>5. TypeOK'
  <2>1. faults' \in 0 .. MaxFaults
    BY <1>1, <1>2
  <2> QED
    BY <1>1, <1>2, <1>3, <1>4, <2>1, TypeFacts, TypesKept
<1>6. LogKept'
  BY <1>1, <1>3, LogDies
<1>7. ProgressKept' /\ FlushKept'
  BY <1>1, <1>2, <1>3, ProgressUntouched, FlushUntouched
<1> QED
  BY <1>5, <1>6, <1>7 DEF PipelineInv

-----------------------------------------------------------------------------
(* The line from the emission to the observer.                             *)

LEMMA PositionFacts == Positions \subseteq Nat \ {0} /\ None = 0 /\ Flush = 0
  BY DEF Positions, None, Flush

LEMMA LineAdvances ==
    ASSUME NEW s \in Seq(Positions), NEW x, NEW q \in Seq(Positions \union {0}), q # << >>,
           InLine(s, x, q)
    PROVE  InLine(s, Head(q), Tail(q))
<1> DEFINE c == Head(q)
           r == Tail(q)
<1>1. /\ c = q[1] /\ 1 \in DOMAIN q
      /\ \A i \in DOMAIN r : i + 1 \in DOMAIN q /\ r[i] = q[i + 1] /\ 1 < i + 1
      /\ \A i, j \in DOMAIN r : i < j => i + 1 < j + 1
  BY TailFacts
<1> HIDE DEF c, r
<1>2. GrowingPast(r) /\ \A k \in DOMAIN s : Ahead(s[k], r)
  BY <1>1 DEF InLine, GrowingPast, Ahead
<1>3. c # None => Ahead(c, r) /\ \A k \in DOMAIN s : s[k] < c
  BY <1>1, PositionFacts DEF InLine, GrowingPast, Ahead
<1> QED
  BY <1>2, <1>3 DEF InLine, c, r

LEMMA LineTells ==
    ASSUME NEW s \in Seq(Positions), NEW x \in Positions, NEW q, InLine(s, x, q)
    PROVE  Append(s, x) \in Seq(Positions) /\ InLine(Append(s, x), None, q)
<1> DEFINE t == Append(s, x)
<1>1. /\ t \in Seq(Positions) /\ Len(s) \in Nat
      /\ \A i \in DOMAIN t : (i \in DOMAIN s /\ t[i] = s[i]) \/ (i = Len(s) + 1 /\ t[i] = x)
      /\ \A i \in DOMAIN s : i < Len(s) + 1 /\ i \in 1 .. Len(s)
  BY AppendFacts
<1>2. x # None
  BY PositionFacts
<1> HIDE DEF t
<1>3. Growing(t)
  <2>1. SUFFICES ASSUME NEW i \in DOMAIN t, NEW j \in DOMAIN t, i < j
                 PROVE  t[i] < t[j]
    BY DEF Growing
  <2>2. i \in DOMAIN s /\ t[i] = s[i]
    BY <1>1, <2>1
  <2> QED
    BY <1>1, <1>2, <2>1, <2>2 DEF InLine, Growing
<1>4. \A k \in DOMAIN t : Ahead(t[k], q)
  BY <1>1, <1>2 DEF InLine
<1> QED
  BY <1>1, <1>3, <1>4 DEF InLine, t

LEMMA LineGrows ==
    ASSUME NEW s \in Seq(Positions), NEW x \in Positions \union {0},
           NEW q \in Seq(Positions \union {0}), InLine(s, x, q),
           NEW n \in Nat, n # Flush => \A i \in Positions : i < n
    PROVE  InLine(s, x, Append(q, n))
<1> DEFINE r == Append(q, n)
           P == Positions \union {0} \union {n}
<1>1. q \in Seq(P) /\ n \in P /\ \A i \in DOMAIN q : q[i] \in Positions \union {0}
  OBVIOUS
<1>2. /\ \A i \in DOMAIN r : (i \in DOMAIN q /\ r[i] = q[i]) \/ (i = Len(q) + 1 /\ r[i] = n)
      /\ \A i \in DOMAIN q : i < Len(q) + 1 /\ i \in 1 .. Len(q)
      /\ Len(q) \in Nat
  BY <1>1, AppendFacts
<1> HIDE DEF r, P
<1>3. GrowingPast(r)
  <2>1. SUFFICES ASSUME NEW i \in DOMAIN r, NEW j \in DOMAIN r, i < j, r[i] # Flush, r[j] # Flush
                 PROVE  r[i] < r[j]
    BY DEF GrowingPast
  <2>2. i \in DOMAIN q /\ r[i] = q[i]
    BY <1>2, <2>1
  <2> QED
    BY <1>1, <1>2, <2>1, <2>2, PositionFacts DEF InLine, GrowingPast
<1>4. \A k \in DOMAIN s : Ahead(s[k], r)
  BY <1>2 DEF InLine, Ahead
<1>5. x # None => Ahead(x, r)
  BY <1>2, PositionFacts DEF InLine, Ahead
<1> QED
  BY <1>3, <1>4, <1>5 DEF InLine, r

(* The observer knows of all that what it is told tells.                   *)
LEMMA ToldKnown ==
    ASSUME seen \in Seq(Positions), NEW j \in Positions, seen' = Append(seen, j), script' = script
    PROVE  /\ \A i : Known(i) => Known(i)'
           /\ \A i : Tells(j, i) => Known(i)'
<1>1. /\ \A k \in 1 .. Len(seen) : k \in 1 .. Len(seen') /\ seen'[k] = seen[k]
      /\ Len(seen) + 1 \in 1 .. Len(seen') /\ seen'[Len(seen) + 1] = j
  BY AppendFacts
<1>2. ASSUME NEW i, Known(i) PROVE Known(i)'
  BY <1>1, <1>2 DEF Known, IsSnapshot, SameCall
<1>3. ASSUME NEW i, Tells(j, i) PROVE Known(i)'
  <2>1. seen'[Len(seen) + 1] = i \/ (seen'[Len(seen) + 1] > i /\ IsSnapshot(i) /\ SameCall(seen'[Len(seen) + 1], i))
    BY <1>1, <1>3 DEF Tells
  <2> QED
    BY <1>1, <2>1 DEF Known, IsSnapshot, SameCall
<1> QED
  BY <1>2, <1>3

(* A newer snapshot of the call tells what the one in hand had to tell.    *)
LEMMA TellsOn ==
    ASSUME NEW i \in Positions, NEW h \in Positions, NEW c \in Positions,
           h < c, IsSnapshot(h), SameCall(c, h), Tells(h, i)
    PROVE  Tells(c, i)
  BY PositionFacts DEF Tells, SameCall

(* What a step of the worker leaves alone of its state.                    *)
Moved(p, st, q, d, h, pl) ==
    [state |-> st, dropped |-> p.dropped, resync |-> p.resync, accepted |-> p.accepted,
     queue |-> q, pending |-> d, held |-> h, active |-> p.active, pc |-> pl]

(* A step of the progress worker.                                          *)
LEMMA ProgressMoves ==
    ASSUME PipelineInv, UNCHANGED <<config, script, prev, calls, agent, log, written, durable>>,
           NEW st \in States, NEW q \in Seq(Positions \union {0}), NEW d \in Positions \union {0},
           NEW h \in Positions \union {0}, NEW pl \in {"ready", "pending"},
           progress' = Moved(progress, st, q, d, h, pl),
           Len(q) <= ProgressPlaces, st = "running" => progress.state = "running",
           progress.pc # "dead",
           seen' \in Seq(Positions), faults' \in 0 .. MaxFaults, FlushFields(flush'),
           pl = "pending" \/ d = 0, h # 0 => pl = "ready" /\ IsSnapshot(h),
           InLine(seen', IF h # 0 THEN h ELSE d, q),
           \A i : Known(i) => Known(i)',
           \A i \in Positions :
             InHand(progress, i) =>
               \/ Known(i)' \/ i \in ToSet(q)
               \/ h # 0 /\ Tells(h, i)
               \/ pl = "pending" /\ d = i
    PROVE  /\ TypeOK' /\ LogKept' /\ ProgressKept'
           /\ progress'.queue = q /\ progress'.pending = d /\ progress'.pc = pl
           /\ progress'.accepted = progress.accepted
<1>1. TypeOK /\ LogKept /\ ProgressKept /\ FlushKept
  BY DEF PipelineInv
<1>2. ProgressFields(progress) /\ progress.accepted \subseteq Positions
  BY <1>1, TypeFacts DEF ProgressFields
<1>3. /\ IsProgress(progress') /\ progress'.state = st /\ progress'.queue = q
      /\ progress'.pending = d /\ progress'.held = h /\ progress'.pc = pl
      /\ progress'.dropped = progress.dropped /\ progress'.resync = progress.resync
      /\ progress'.accepted = progress.accepted /\ progress'.active = progress.active
  BY DEF Moved, IsProgress
<1>4. ProgressFields(progress')
  BY <1>2, <1>3 DEF ProgressFields
<1>5. TypeOK'
  BY <1>1, <1>3, <1>4, TypeFacts, TypesKept
<1>6. LogKept'
  BY <1>1 DEF LogKept
<1>7. /\ \A i, j : Tells(j, i)' <=> Tells(j, i)
      /\ \A i : IsSnapshot(i)' <=> IsSnapshot(i)
      /\ Positions' = Positions
  BY SameTypes DEF Tells, IsSnapshot, SameCall
<1>8. \A i \in progress.accepted : Known(i)' \/ InHand(progress, i)'
  <2>1. SUFFICES ASSUME NEW i \in progress.accepted, ~ Known(i)'
                 PROVE  InHand(progress, i)'
    OBVIOUS
  <2>2. InHand(progress, i)
    BY <1>1, <2>1 DEF ProgressKept
  <2>3. (h # 0 /\ Tells(h, i)) \/ (pl = "pending" /\ d = i) \/ i \in ToSet(q)
    BY <1>2, <2>1, <2>2
  <2> QED
    BY <1>3, <1>7, <2>3, PositionFacts DEF InHand
<1>9. InLine(seen', AtHead(progress'), progress'.queue)
  BY <1>3, PositionFacts DEF AtHead
<1>10. /\ progress'.pc = "pending" \/ progress'.pending = None
       /\ progress'.held # None => progress'.pc = "ready" /\ IsSnapshot(progress.held)'
  BY <1>3, <1>7, PositionFacts
<1>11. /\ prev' \in {"llm_started", "update"} => progress'.active = calls'
       /\ progress'.state = "running" =>
            \A i \in Positions' :
              config'.progress /\ script'[i].kind # "user_prompt" => i \in progress'.accepted
  BY <1>1, <1>3, <1>7 DEF ProgressKept
<1>12. ProgressKept'
  BY <1>3, <1>8, <1>9, <1>10, <1>11 DEF ProgressKept
<1> QED
  BY <1>3, <1>5, <1>6, <1>12

(* A step that answers no flush leaves a waiting one the last to wait.     *)
LEMMA FlushMoves ==
    ASSUME FlushKept, UNCHANGED <<script, agent, log, written, durable, flush>>,
           progress.pc # "dead", progress'.accepted = progress.accepted,
           \A i : Known(i) => Known(i)',
           FlushWaitsLast(progress) => FlushWaitsLast(progress'),
           NoFlushWaits(progress) => NoFlushWaits(progress')
    PROVE  FlushKept'
  BY DEF FlushKept

(* A flush is answered when nothing is left to tell before it.             *)
LEMMA FlushAcked ==
    ASSUME TypeOK, ProgressKept, FlushKept, UNCHANGED <<script, agent, log, written, durable, seen>>,
           progress.pc # "dead", progress'.accepted = progress.accepted,
           ~ NoFlushWaits(progress),
           FlushWaitsLast(progress) =>
             NoFlushWaits(progress') /\ \A i \in progress.accepted : ~ InHand(progress, i),
           flush' = IF flush.of = "progress" THEN [flush EXCEPT !.state = "ok"] ELSE flush
    PROVE  FlushKept' /\ FlushFields(flush')
<1>1. /\ IsFlush(flush) /\ FlushFields(flush) /\ agent \in {"up", "down"}
  BY TypeFacts DEF FlushFields
<1>2. CASE flush.of = "progress"
  <2>1. flush.state = "sent" /\ FlushWaitsLast(progress) /\ flush.covers \subseteq progress.accepted
    BY <1>1, <1>2 DEF FlushKept
  <2>2. \A i \in flush.covers : Known(i)
    BY <2>1 DEF ProgressKept
  <2>3. /\ flush'.of = "progress" /\ flush'.state = "ok" /\ flush'.covers = flush.covers
        /\ FlushFields(flush')
    BY <1>1, <1>2 DEF FlushFields, IsFlush
  <2>4. \A i \in flush.covers : Known(i)'
    BY <2>2, SameKnown
  <2>5. agent # "down" /\ NoFlushWaits(progress')
    BY <1>2, <2>1 DEF FlushKept
  <2> QED
    BY <2>1, <2>3, <2>4, <2>5 DEF FlushKept
<1>3. CASE flush.of # "progress"
  <2>1. agent = "down" /\ flush' = flush
    BY <1>1, <1>3 DEF FlushKept
  <2> QED
    BY <1>1, <1>3, <2>1 DEF FlushKept
<1> QED
  BY <1>2, <1>3

(* notify_observer, of what is at the head of the line.                    *)
LEMMA NotifyShape ==
    ASSUME TypeOK, NEW i, NEW p, Notified(i, p), p.state \in States
    PROVE  /\ seen' = Append(seen, i) /\ faults' \in 0 .. MaxFaults
           /\ \/ progress' = p
              \/ progress' = [p EXCEPT !.state = IF p.state = "stopped" THEN "stopped" ELSE "degraded"]
<1>1. faults \in 0 .. MaxFaults /\ MaxFaults \in Nat
  BY TypeFacts, FaultsAreNatural
<1>2. faults' = faults \/ (faults < MaxFaults /\ faults' = faults + 1)
  BY DEF Notified
<1>3. faults' \in 0 .. MaxFaults
  BY <1>1, <1>2
<1> QED
  BY <1>3 DEF Notified

LEMMA NotifyMoves ==
    ASSUME TypeOK, NEW i, NEW p, Notified(i, p), progress.state \in States,
           NEW q, NEW d, NEW h, NEW pl, p = Moved(progress, progress.state, q, d, h, pl)
    PROVE  \E st \in {progress.state, "stopped", "degraded"} :
             progress' = Moved(progress, st, q, d, h, pl)
<1>1. /\ IsProgress(p) /\ p.state = progress.state /\ p.dropped = progress.dropped
      /\ p.resync = progress.resync /\ p.accepted = progress.accepted /\ p.queue = q
      /\ p.pending = d /\ p.held = h /\ p.active = progress.active /\ p.pc = pl
  BY DEF Moved, IsProgress
<1>2. ASSUME NEW st, progress' = [p EXCEPT !.state = st]
      PROVE  progress' = Moved(progress, st, q, d, h, pl)
  <2>1. progress' = [state |-> st, dropped |-> p.dropped, resync |-> p.resync,
                     accepted |-> p.accepted, queue |-> p.queue, pending |-> p.pending,
                     held |-> p.held, active |-> p.active, pc |-> p.pc]
    BY <1>1, <1>2 DEF IsProgress
  <2> QED
    BY <1>1, <2>1 DEF Moved
<1> QED
  BY <1>1, <1>2, NotifyShape

(* The facts about the queue that a step of the worker starts from.        *)
LEMMA WorkerFacts ==
    ASSUME PipelineInv, ProgressAlive
    PROVE  /\ TypeOK /\ LogKept /\ ProgressKept /\ FlushKept
           /\ ProgressFields(progress) /\ IsProgress(progress) /\ FlushFields(flush)
           /\ progress.pc # "dead" /\ progress.pc \in {"ready", "pending", "dead"}
           /\ progress.state \in States /\ progress.accepted \subseteq Positions
           /\ progress.queue \in Seq(Positions \union {0}) /\ Len(progress.queue) <= ProgressPlaces
           /\ progress.pending \in Positions \union {0} /\ progress.held \in Positions \union {0}
           /\ seen \in Seq(Positions) /\ faults \in 0 .. MaxFaults /\ ProgressPlaces \in Nat
           /\ InLine(seen, AtHead(progress), progress.queue)
  BY TypeFacts, PlacesArePositive DEF PipelineInv, ProgressAlive, ProgressFields, ProgressKept

LEMMA IdleShape ==
    ASSUME NEW p, IsProgress(p), NEW q, NEW idle,
           idle = [p EXCEPT !.queue = q, !.pending = None, !.held = None, !.pc = "ready"]
    PROVE  idle = [state |-> p.state, dropped |-> p.dropped, resync |-> p.resync,
                   accepted |-> p.accepted, queue |-> q, pending |-> 0, held |-> 0,
                   active |-> p.active, pc |-> "ready"]
  BY DEF IsProgress, None

(* The command c is next, the worker has nothing in hand and q is left.    *)
LEMMA HandledKeeps ==
    ASSUME PipelineInv, ProgressAlive,
           UNCHANGED <<config, script, prev, calls, agent, log, written, durable>>,
           NEW c \in Positions \union {0}, NEW q \in Seq(Positions \union {0}),
           Len(q) <= ProgressPlaces,
           InLine(seen, c, q), \A i \in Positions : InHand(progress, i) => i = c \/ i \in ToSet(q),
           FlushWaitsLast(progress) =>
             IF c = Flush THEN q = << >>
             ELSE q # << >> /\ q[Len(q)] = Flush /\ \A i \in 1 .. Len(q) - 1 : q[i] # Flush,
           NoFlushWaits(progress) => c # Flush /\ \A i \in DOMAIN q : q[i] # Flush,
           LET p == [progress EXCEPT !.queue = q, !.pending = None, !.held = None, !.pc = "ready"]
           IN  IF c = Flush THEN Acked(p) ELSE Handled(c, p)
    PROVE  PipelineInv'
<1> DEFINE p == [progress EXCEPT !.queue = q, !.pending = None, !.held = None, !.pc = "ready"]
<1>1. /\ TypeOK /\ LogKept /\ ProgressKept /\ FlushKept
      /\ ProgressFields(progress) /\ IsProgress(progress) /\ FlushFields(flush)
      /\ progress.pc # "dead" /\ progress.state \in States /\ progress.accepted \subseteq Positions
      /\ seen \in Seq(Positions) /\ faults \in 0 .. MaxFaults
  BY WorkerFacts
<1>2. None = 0 /\ Flush = 0 /\ Positions \subseteq Nat \ {0} /\ 0 \in Positions \union {0}
  BY PositionFacts
<1>3. /\ IsProgress(p) /\ p.state = progress.state /\ p.queue = q /\ p.pending = 0 /\ p.held = 0
      /\ p.pc = "ready" /\ p.accepted = progress.accepted
  <2>1. p = [state |-> progress.state, dropped |-> progress.dropped, resync |-> progress.resync,
             accepted |-> progress.accepted, queue |-> q, pending |-> 0, held |-> 0,
             active |-> progress.active, pc |-> "ready"]
    BY <1>1, IdleShape
  <2> HIDE DEF p
  <2> QED
    BY <2>1 DEF IsProgress
<1>4. IF c = Flush THEN Acked(p) ELSE Handled(c, p)
  OBVIOUS
<1>5. CASE c = Flush
  <2>1. /\ progress' = p /\ UNCHANGED <<seen, faults>>
        /\ flush' = IF flush.of = "progress" THEN [flush EXCEPT !.state = "ok"] ELSE flush
    BY <1>4, <1>5 DEF Acked
  <2>2. progress' = Moved(progress, progress.state, q, 0, 0, "ready")
    BY <1>1, <2>1, IdleShape DEF Moved
  <2>3. \A i \in Positions : InHand(progress, i) => i \in ToSet(q)
    BY <1>2, <1>5
  <2>4. FlushWaitsLast(progress) => q = << >>
    BY <1>5
  <2>5. /\ ~ NoFlushWaits(progress)
        /\ FlushWaitsLast(progress) =>
             NoFlushWaits(progress') /\ \A i \in progress.accepted : ~ InHand(progress, i)
    BY <1>1, <1>3, <1>5, <2>1, <2>3, <2>4, ElementsNone DEF NoFlushWaits, PendingFlush
  <2>6. FlushKept' /\ FlushFields(flush')
    BY <1>1, <1>3, <2>1, <2>5, FlushAcked
  <2>7. InLine(seen', IF 0 # 0 THEN 0 ELSE 0, q)
    BY <1>2, <1>5, <2>1
  <2>8. \A i : Known(i) => Known(i)'
    BY <2>1, SameKnown
  <2>9. TypeOK' /\ LogKept' /\ ProgressKept'
    BY <1>1, <1>2, <2>1, <2>2, <2>3, <2>6, <2>7, <2>8, ProgressMoves
  <2> QED
    BY <2>6, <2>9 DEF PipelineInv
<1>6. CASE c # Flush
  <2>1. c \in Positions /\ Handled(c, p)
    BY <1>2, <1>4, <1>6
  <2>2. /\ FlushWaitsLast(progress) =>
             q # << >> /\ q[Len(q)] = Flush /\ \A i \in 1 .. Len(q) - 1 : q[i] # Flush
        /\ NoFlushWaits(progress) => \A i \in DOMAIN q : q[i] # Flush
    BY <1>6
  <2>3. ASSUME progress'.queue = q, progress'.pc = "ready", progress'.accepted = progress.accepted,
               flush' = flush, \A i : Known(i) => Known(i)'
        PROVE  FlushKept'
    <3>1. /\ FlushWaitsLast(progress) => FlushWaitsLast(progress')
          /\ NoFlushWaits(progress) => NoFlushWaits(progress')
      BY <2>2, <2>3 DEF FlushWaitsLast, NoFlushWaits, PendingFlush
    <3> QED
      BY <1>1, <2>3, <3>1, FlushMoves
  <2>4. CASE IsSnapshot(c)
    <3>1. progress' = [p EXCEPT !.held = c] /\ UNCHANGED <<seen, flush, faults>>
      BY <2>1, <2>4 DEF Handled
    <3>2. progress' = Moved(progress, progress.state, q, 0, c, "ready")
      BY <1>1, <1>2, <3>1 DEF IsProgress, Moved
    <3>3. \A i : Known(i) => Known(i)'
      BY <3>1, SameKnown
    <3>4. \A i \in Positions :
            InHand(progress, i) =>
              \/ Known(i)' \/ i \in ToSet(q)
              \/ c # 0 /\ Tells(c, i)
              \/ "ready" = "pending" /\ 0 = i
      BY <1>2, <1>6 DEF Tells
    <3>7. c # 0 => "ready" = "ready" /\ IsSnapshot(c)
      BY <2>4
    <3>5. InLine(seen', IF c # 0 THEN c ELSE 0, q)
      BY <1>2, <1>6, <3>1
    <3>6. /\ TypeOK' /\ LogKept' /\ ProgressKept'
          /\ progress'.queue = q /\ progress'.pc = "ready" /\ progress'.accepted = progress.accepted
      BY <1>1, <1>2, <3>1, <3>2, <3>3, <3>4, <3>5, <3>7, ProgressMoves
    <3> QED
      BY <2>3, <3>1, <3>3, <3>6 DEF PipelineInv
  <2>5. CASE ~ IsSnapshot(c)
    <3>1. Notified(c, p) /\ UNCHANGED flush
      BY <2>1, <2>5 DEF Handled
    <3>2. seen' = Append(seen, c) /\ faults' \in 0 .. MaxFaults
      BY <1>1, <1>3, <3>1, NotifyShape
    <3>3. PICK st \in {progress.state, "stopped", "degraded"} :
            progress' = Moved(progress, st, q, 0, 0, "ready")
      <4>1. p = Moved(progress, progress.state, q, 0, 0, "ready")
        BY <1>1, IdleShape DEF Moved
      <4> QED
        BY <1>1, <3>1, <4>1, NotifyMoves
    <3>4. st \in States /\ (st = "running" => progress.state = "running")
      BY <1>1 DEF States
    <3>5. /\ \A i : Known(i) => Known(i)'
          /\ Known(c)'
      BY <1>1, <2>1, <3>2, ToldKnown DEF Tells
    <3>6. seen' \in Seq(Positions) /\ InLine(seen', IF 0 # 0 THEN 0 ELSE 0, q)
      BY <1>1, <1>2, <2>1, <3>2, LineTells
    <3>7. \A i \in Positions : InHand(progress, i) => Known(i)' \/ i \in ToSet(q)
      BY <3>5
    <3>8. /\ TypeOK' /\ LogKept' /\ ProgressKept'
          /\ progress'.queue = q /\ progress'.pc = "ready" /\ progress'.accepted = progress.accepted
      BY <1>1, <1>2, <3>1, <3>2, <3>3, <3>4, <3>5, <3>6, <3>7, ProgressMoves
    <3> QED
      BY <2>3, <3>1, <3>5, <3>8 DEF PipelineInv
  <2> QED
    BY <2>4, <2>5
<1> QED
  BY <1>5, <1>6

LEMMA SameRecord ==
    ASSUME NEW p, IsProgress(p), NEW q, NEW r, NEW t,
           r = [p EXCEPT !.queue = q, !.pending = None, !.held = None, !.pc = "ready"],
           \/ /\ t = [p EXCEPT !.queue = q]
              /\ p.pending = None /\ p.held = None /\ p.pc = "ready"
           \/ /\ t = [p EXCEPT !.pending = None, !.pc = "ready"]
              /\ p.queue = q /\ p.held = None
    PROVE  t = r
<1>1. r = [state |-> p.state, dropped |-> p.dropped, resync |-> p.resync,
           accepted |-> p.accepted, queue |-> q, pending |-> 0, held |-> 0,
           active |-> p.active, pc |-> "ready"]
  BY IdleShape
<1>2. t = [state |-> p.state, dropped |-> p.dropped, resync |-> p.resync,
           accepted |-> p.accepted, queue |-> q, pending |-> 0, held |-> 0,
           active |-> p.active, pc |-> "ready"]
  BY DEF IsProgress, None
<1> QED
  BY <1>1, <1>2

(* The flush that waits last waits last in what is left of the queue.      *)
LEMMA RestOfQueue ==
    ASSUME NEW q \in Seq(Positions \union {0}), q # << >>
    PROVE  /\ q[Len(q)] = Flush /\ (\A i \in 1 .. Len(q) - 1 : q[i] # Flush) =>
                IF Head(q) = Flush THEN Tail(q) = << >>
                ELSE /\ Tail(q) # << >> /\ Tail(q)[Len(Tail(q))] = Flush
                     /\ \A i \in 1 .. Len(Tail(q)) - 1 : Tail(q)[i] # Flush
           /\ (\A i \in DOMAIN q : q[i] # Flush) =>
                Head(q) # Flush /\ \A i \in DOMAIN Tail(q) : Tail(q)[i] # Flush
<1> DEFINE r == Tail(q)
<1>1. /\ Len(q) \in Nat \ {0} /\ DOMAIN q = 1 .. Len(q) /\ Head(q) = q[1]
      /\ r \in Seq(Positions \union {0}) /\ Len(r) = Len(q) - 1 /\ DOMAIN r = 1 .. Len(q) - 1
      /\ \A i \in 1 .. Len(q) - 1 : r[i] = q[i + 1]
  OBVIOUS
<1> HIDE DEF r
<1>2. ASSUME q[Len(q)] = Flush, \A i \in 1 .. Len(q) - 1 : q[i] # Flush
      PROVE  IF q[1] = Flush THEN r = << >>
             ELSE /\ r # << >> /\ r[Len(r)] = Flush
                  /\ \A i \in 1 .. Len(r) - 1 : r[i] # Flush
  <2>1. CASE q[1] = Flush
    <3>1. Len(q) = 1
      BY <1>1, <1>2, <2>1
    <3> QED
      BY <1>1, <2>1, <3>1
  <2>2. CASE q[1] # Flush
    <3>1. Len(q) # 1
      BY <1>2, <2>2
    <3>2. Len(q) - 1 \in 1 .. Len(q) - 1 /\ r[Len(q) - 1] = q[(Len(q) - 1) + 1]
      BY <1>1, <3>1
    <3>3. r # << >> /\ r[Len(r)] = Flush
      BY <1>1, <1>2, <3>1, <3>2
    <3>4. \A i \in 1 .. Len(r) - 1 : i + 1 \in 1 .. Len(q) - 1 /\ r[i] = q[i + 1]
      BY <1>1
    <3> QED
      BY <1>2, <2>2, <3>3, <3>4
  <2> QED
    BY <2>1, <2>2
<1>3. ASSUME \A i \in DOMAIN q : q[i] # Flush
      PROVE  q[1] # Flush /\ \A i \in DOMAIN r : r[i] # Flush
  <2>1. 1 \in DOMAIN q /\ \A i \in DOMAIN r : i + 1 \in DOMAIN q /\ r[i] = q[i + 1]
    BY <1>1
  <2> QED
    BY <1>3, <2>1
<1> QED
  BY <1>1, <1>2, <1>3 DEF r

LEMMA ProgressTakesKeeps ==
    ASSUME PipelineInv, progress_takes
    PROVE  PipelineInv'
<1> DEFINE q == progress.queue
           c == Head(q)
           t == [progress EXCEPT !.queue = Tail(q)]
           r == [progress EXCEPT !.queue = Tail(q), !.pending = None, !.held = None, !.pc = "ready"]
<1>1. /\ ProgressAlive /\ progress.held = None /\ progress.pc = "ready" /\ q # << >>
      /\ IF c = Flush THEN Acked(t) ELSE Handled(c, t)
      /\ UNCHANGED <<config, script, prev, calls, agent, log, written, durable>>
  BY DEF progress_takes
<1>2. /\ ProgressKept /\ IsProgress(progress) /\ seen \in Seq(Positions)
      /\ q \in Seq(Positions \union {0}) /\ Len(q) <= ProgressPlaces /\ ProgressPlaces \in Nat
      /\ InLine(seen, AtHead(progress), q)
  BY <1>1, WorkerFacts
<1>3. progress.pending = None
  BY <1>1, <1>2 DEF ProgressKept
<1>4. t = r
  BY <1>1, <1>2, <1>3, SameRecord
<1>5. IF c = Flush THEN Acked(r) ELSE Handled(c, r)
  BY <1>1, <1>4
<1> HIDE DEF t, r
<1>6. /\ c \in Positions \union {0} /\ Tail(q) \in Seq(Positions \union {0})
      /\ Len(Tail(q)) <= ProgressPlaces
  <2>1. c \in Positions \union {0} /\ Tail(q) \in Seq(Positions \union {0})
    BY <1>1, <1>2, TailFacts
  <2>2. Len(Tail(q)) = Len(q) - 1 /\ Len(q) \in Nat
    BY <1>1, <1>2
  <2> QED
    BY <1>2, <2>1, <2>2
<1>7. InLine(seen, c, Tail(q))
  BY <1>1, <1>2, LineAdvances
<1>8. \A i \in Positions : InHand(progress, i) => i = c \/ i \in ToSet(Tail(q))
  <2>1. ToSet(q) = ToSet(Tail(q)) \union {c}
    BY <1>1, <1>2, ElementsTail
  <2> QED
    BY <1>1, <2>1 DEF InHand
<1>9. /\ FlushWaitsLast(progress) =>
            IF c = Flush THEN Tail(q) = << >>
            ELSE /\ Tail(q) # << >> /\ Tail(q)[Len(Tail(q))] = Flush
                 /\ \A i \in 1 .. Len(Tail(q)) - 1 : Tail(q)[i] # Flush
      /\ NoFlushWaits(progress) => c # Flush /\ \A i \in DOMAIN Tail(q) : Tail(q)[i] # Flush
  <2>1. /\ q[Len(q)] = Flush /\ (\A i \in 1 .. Len(q) - 1 : q[i] # Flush) =>
             IF c = Flush THEN Tail(q) = << >>
             ELSE /\ Tail(q) # << >> /\ Tail(q)[Len(Tail(q))] = Flush
                  /\ \A i \in 1 .. Len(Tail(q)) - 1 : Tail(q)[i] # Flush
        /\ (\A i \in DOMAIN q : q[i] # Flush) =>
             c # Flush /\ \A i \in DOMAIN Tail(q) : Tail(q)[i] # Flush
    BY <1>1, <1>2, RestOfQueue
  <2> HIDE DEF c, q
  <2>2. q = progress.queue
    BY DEF q
  <2> QED
    BY <1>1, <2>1, <2>2 DEF FlushWaitsLast, NoFlushWaits, PendingFlush
<1> HIDE DEF c
<1> QED
  BY <1>1, <1>5, <1>6, <1>7, <1>8, <1>9, HandledKeeps DEF r

LEMMA ProgressTakesPendingKeeps ==
    ASSUME PipelineInv, progress_takes_pending
    PROVE  PipelineInv'
<1> DEFINE q == progress.queue
           c == progress.pending
           t == [progress EXCEPT !.pending = None, !.pc = "ready"]
           r == [progress EXCEPT !.queue = q, !.pending = None, !.held = None, !.pc = "ready"]
<1>1. /\ ProgressAlive /\ progress.pc = "pending"
      /\ IF c = Flush THEN Acked(t) ELSE Handled(c, t)
      /\ UNCHANGED <<config, script, prev, calls, agent, log, written, durable>>
  BY DEF progress_takes_pending
<1>2. /\ ProgressKept /\ IsProgress(progress) /\ seen \in Seq(Positions)
      /\ q \in Seq(Positions \union {0}) /\ Len(q) <= ProgressPlaces /\ c \in Positions \union {0}
      /\ InLine(seen, AtHead(progress), q)
  BY <1>1, WorkerFacts
<1>3. progress.held = None
  BY <1>1, <1>2 DEF ProgressKept
<1>4. t = r
  BY <1>1, <1>2, <1>3, SameRecord
<1>5. IF c = Flush THEN Acked(r) ELSE Handled(c, r)
  BY <1>1, <1>4
<1> HIDE DEF t, r
<1>6. InLine(seen, c, q)
  BY <1>2, <1>3 DEF AtHead
<1>7. \A i \in Positions : InHand(progress, i) => i = c \/ i \in ToSet(q)
  BY <1>3 DEF InHand
<1>8. /\ FlushWaitsLast(progress) =>
            IF c = Flush THEN q = << >>
            ELSE q # << >> /\ q[Len(q)] = Flush /\ \A i \in 1 .. Len(q) - 1 : q[i] # Flush
      /\ NoFlushWaits(progress) => c # Flush /\ \A i \in DOMAIN q : q[i] # Flush
  BY <1>1 DEF FlushWaitsLast, NoFlushWaits, PendingFlush
<1> QED
  BY <1>1, <1>2, <1>5, <1>6, <1>7, <1>8, HandledKeeps DEF r

(* Coalescing: a newer snapshot of the call takes the place of the one in  *)
(* hand; any other command is put aside until that one is told.            *)
LEMMA ProgressCoalescesKeeps ==
    ASSUME PipelineInv, progress_coalesces
    PROVE  PipelineInv'
<1> DEFINE q == progress.queue
           h == progress.held
           c == Head(q)
<1>1. /\ ProgressAlive /\ h # None
      /\ UNCHANGED <<config, script, prev, calls, agent, log, written, durable, flush>>
  BY DEF progress_coalesces
<1>2. /\ TypeOK /\ ProgressKept /\ FlushKept /\ IsProgress(progress) /\ seen \in Seq(Positions)
      /\ q \in Seq(Positions \union {0}) /\ Len(q) <= ProgressPlaces /\ ProgressPlaces \in Nat
      /\ h \in Positions \union {0} /\ InLine(seen, AtHead(progress), q)
      /\ progress.state \in States /\ progress.pc # "dead"
      /\ FlushFields(flush) /\ faults \in 0 .. MaxFaults
  BY <1>1, WorkerFacts
<1>3. /\ progress.pc = "ready" /\ progress.pending = 0 /\ IsSnapshot(h) /\ InLine(seen, h, q)
      /\ h \in Positions /\ None = 0 /\ Flush = 0 /\ Positions \subseteq Nat \ {0}
      /\ 0 \in Positions \union {0}
  BY <1>1, <1>2, PositionFacts DEF ProgressKept, AtHead
<1>4. \A i : InHand(progress, i) => Tells(h, i) \/ i \in ToSet(q)
  BY <1>3 DEF InHand
<1>5. ASSUME NEW a \in Seq(Positions \union {0}), NEW d \in Positions \union {0},
             NEW pl \in {"ready", "pending"}, NEW p,
             p = Moved(progress, progress.state, a, d, 0, pl),
             Notified(h, p), Len(a) <= ProgressPlaces,
             pl = "pending" \/ d = 0, InLine(Append(seen, h), d, a),
             \A i \in ToSet(q) : i = 0 \/ (pl = "pending" /\ d = i) \/ i \in ToSet(a),
             /\ FlushWaitsLast(progress) =>
                  \/ pl = "pending" /\ d = Flush /\ a = << >>
                  \/ /\ ~ (pl = "pending" /\ d = Flush) /\ a # << >> /\ a[Len(a)] = Flush
                     /\ \A i \in 1 .. Len(a) - 1 : a[i] # Flush,
             NoFlushWaits(progress) =>
               ~ (pl = "pending" /\ d = Flush) /\ \A i \in DOMAIN a : a[i] # Flush
      PROVE  PipelineInv'
  <2>2. p.state = progress.state
    BY <1>5 DEF Moved
  <2>3. seen' = Append(seen, h) /\ faults' \in 0 .. MaxFaults
    BY <1>2, <1>5, <2>2, NotifyShape
  <2>5. PICK st \in {progress.state, "stopped", "degraded"} :
          progress' = Moved(progress, st, a, d, 0, pl)
    BY <1>2, <1>5, NotifyMoves
  <2>6. st \in States /\ (st = "running" => progress.state = "running")
    BY <1>2 DEF States
  <2>7. /\ \A i : Known(i) => Known(i)'
        /\ \A i : Tells(h, i) => Known(i)'
    BY <1>1, <1>2, <1>3, <2>3, ToldKnown
  <2>8. seen' \in Seq(Positions)
    BY <1>2, <1>3, <2>3, LineTells
  <2>9. InLine(seen', IF 0 # 0 THEN 0 ELSE d, a)
    BY <1>5, <2>3
  <2>10. \A i \in Positions :
           InHand(progress, i) =>
             \/ Known(i)' \/ i \in ToSet(a)
             \/ 0 # 0 /\ Tells(0, i)
             \/ pl = "pending" /\ d = i
    BY <1>3, <1>4, <1>5, <2>7
  <2>11. 0 # 0 => pl = "ready" /\ IsSnapshot(0)
    OBVIOUS
  <2> HIDE DEF q, h, c
  <2>15. /\ FlushFields(flush')
         /\ UNCHANGED <<config, script, prev, calls, agent, log, written, durable>>
         /\ progress.pc # "dead" /\ 0 \in Positions \union {0} /\ faults' \in 0 .. MaxFaults
         /\ pl = "pending" \/ d = 0
    BY <1>1, <1>2, <1>5, <2>3
  <2>16. /\ a \in Seq(Positions \union {0}) /\ d \in Positions \union {0}
         /\ pl \in {"ready", "pending"} /\ Len(a) <= ProgressPlaces /\ st \in States
         /\ st = "running" => progress.state = "running"
         /\ \A i : Known(i) => Known(i)'
    BY <1>5, <2>6, <2>7
  <2>12. /\ TypeOK' /\ LogKept' /\ ProgressKept'
         /\ progress'.queue = a /\ progress'.pending = d /\ progress'.pc = pl
         /\ progress'.accepted = progress.accepted
    BY <2>5, <2>8, <2>9, <2>10, <2>11, <2>15, <2>16, ProgressMoves, SMTT(60)
  <2>13. /\ FlushWaitsLast(progress) => FlushWaitsLast(progress')
         /\ NoFlushWaits(progress) => NoFlushWaits(progress')
    BY <1>5, <2>12 DEF FlushWaitsLast, NoFlushWaits, PendingFlush
  <2>14. FlushKept'
    BY <1>1, <1>2, <2>7, <2>12, <2>13, FlushMoves
  <2> QED
    BY <2>12, <2>14 DEF PipelineInv
<1>6. CASE q = << >>
  <2> DEFINE p == Moved(progress, progress.state, << >>, 0, 0, "ready")
  <2>1. Notified(h, [progress EXCEPT !.held = None])
    BY <1>6 DEF progress_coalesces
  <2>2. p = [progress EXCEPT !.held = None]
    BY <1>2, <1>3, <1>6 DEF IsProgress, None, Moved
  <2>3. Notified(h, p)
    BY <2>1, <2>2
  <2>4. InLine(Append(seen, h), 0, << >>)
    BY <1>2, <1>3, <1>6, LineTells
  <2>5. /\ FlushWaitsLast(progress) => FALSE
        /\ << >> \in Seq(Positions \union {0}) /\ Len(<< >>) <= ProgressPlaces
    BY <1>2, <1>3, <1>6 DEF FlushWaitsLast, PendingFlush
  <2>6. ToSet(q) = {} /\ DOMAIN << >> = {}
    BY <1>6, ElementsNone
  <2> HIDE DEF p
  <2>7. p = Moved(progress, progress.state, << >>, 0, 0, "ready")
    BY DEF p
  <2> QED
    BY <1>3, <1>5, <2>3, <2>4, <2>5, <2>6, <2>7
<1>7. CASE q # << >>
  <2>1. /\ c \in Positions \union {0} /\ Tail(q) \in Seq(Positions \union {0})
        /\ Len(Tail(q)) <= ProgressPlaces /\ c = q[1] /\ 1 \in DOMAIN q
    <3>1. /\ c \in Positions \union {0} /\ Tail(q) \in Seq(Positions \union {0})
          /\ c = q[1] /\ 1 \in DOMAIN q
      BY <1>2, <1>7, TailFacts
    <3>2. Len(Tail(q)) = Len(q) - 1 /\ Len(q) \in Nat
      BY <1>2, <1>7
    <3> QED
      BY <1>2, <3>1, <3>2
  <2>2. ToSet(q) = ToSet(Tail(q)) \union {c}
    BY <1>2, <1>7, ElementsTail
  <2>3. /\ q[Len(q)] = Flush /\ (\A i \in 1 .. Len(q) - 1 : q[i] # Flush) =>
             IF c = Flush THEN Tail(q) = << >>
             ELSE /\ Tail(q) # << >> /\ Tail(q)[Len(Tail(q))] = Flush
                  /\ \A i \in 1 .. Len(Tail(q)) - 1 : Tail(q)[i] # Flush
        /\ (\A i \in DOMAIN q : q[i] # Flush) =>
             c # Flush /\ \A i \in DOMAIN Tail(q) : Tail(q)[i] # Flush
    BY <1>2, <1>7, RestOfQueue
  <2>4. /\ FlushWaitsLast(progress) =>
             IF c = Flush THEN Tail(q) = << >>
             ELSE /\ Tail(q) # << >> /\ Tail(q)[Len(Tail(q))] = Flush
                  /\ \A i \in 1 .. Len(Tail(q)) - 1 : Tail(q)[i] # Flush
        /\ NoFlushWaits(progress) => c # Flush /\ \A i \in DOMAIN Tail(q) : Tail(q)[i] # Flush
    BY <1>3, <2>3 DEF FlushWaitsLast, NoFlushWaits, PendingFlush
  <2>5. InLine(seen, c, Tail(q))
    BY <1>2, <1>3, <1>7, LineAdvances
  <2>6. CASE SameCall(c, h)
    <3>1. /\ progress' = [[progress EXCEPT !.queue = Tail(q)] EXCEPT !.held = c]
          /\ UNCHANGED <<seen, faults>>
      BY <1>7, <2>6 DEF progress_coalesces
    <3>2. c # 0 /\ c \in Positions /\ IsSnapshot(c)
      BY <1>3, <2>1, <2>6 DEF SameCall, IsSnapshot
    <3>3. h < c
      BY <1>3, <2>1, <3>2 DEF InLine, Ahead
    <3>4. progress' = Moved(progress, progress.state, Tail(q), 0, c, "ready")
      BY <1>2, <1>3, <3>1 DEF IsProgress, Moved
    <3>5. \A i : Known(i) => Known(i)'
      BY <1>1, <3>1, SameKnown
    <3>6. InLine(seen', IF c # 0 THEN c ELSE 0, Tail(q))
      BY <2>5, <3>1, <3>2
    <3>7. \A i \in Positions :
            InHand(progress, i) =>
              \/ Known(i)' \/ i \in ToSet(Tail(q))
              \/ c # 0 /\ Tells(c, i)
              \/ "ready" = "pending" /\ 0 = i
      <4>1. \A i \in Positions : Tells(h, i) => Tells(c, i)
        BY <1>3, <2>6, <3>2, <3>3, TellsOn
      <4>2. Tells(c, c)
        BY DEF Tells
      <4> QED
        BY <1>4, <2>2, <3>2, <4>1, <4>2
    <3>8. c # 0 => "ready" = "ready" /\ IsSnapshot(c)
      BY <3>2
    <3> HIDE DEF q, h, c
    <3>12. /\ FlushFields(flush') /\ seen' \in Seq(Positions) /\ faults' \in 0 .. MaxFaults
           /\ UNCHANGED <<config, script, prev, calls, agent, log, written, durable>>
           /\ progress.pc # "dead" /\ progress.state \in States /\ 0 \in Positions \union {0}
           /\ c \in Positions \union {0} /\ Tail(q) \in Seq(Positions \union {0})
           /\ Len(Tail(q)) <= ProgressPlaces
      BY <1>1, <1>2, <1>3, <2>1, <3>1
    <3>9. /\ TypeOK' /\ LogKept' /\ ProgressKept'
          /\ progress'.queue = Tail(q) /\ progress'.pending = 0 /\ progress'.pc = "ready"
          /\ progress'.accepted = progress.accepted
      BY <3>4, <3>5, <3>6, <3>7, <3>8, <3>12, ProgressMoves
    <3>10. /\ FlushWaitsLast(progress) => FlushWaitsLast(progress')
           /\ NoFlushWaits(progress) => NoFlushWaits(progress')
      BY <1>3, <2>4, <3>2, <3>9 DEF FlushWaitsLast, NoFlushWaits, PendingFlush
    <3>11. FlushKept'
      BY <1>1, <1>2, <3>5, <3>9, <3>10, FlushMoves
    <3> QED
      BY <3>9, <3>11 DEF PipelineInv
  <2>7. CASE ~ SameCall(c, h)
    <3> DEFINE p == Moved(progress, progress.state, Tail(q), c, 0, "pending")
    <3>1. Notified(h, [[progress EXCEPT !.queue = Tail(q)]
                         EXCEPT !.held = None, !.pending = c, !.pc = "pending"])
      BY <1>7, <2>7 DEF progress_coalesces
    <3>2. p = [[progress EXCEPT !.queue = Tail(q)]
                 EXCEPT !.held = None, !.pending = c, !.pc = "pending"]
      <4> HIDE DEF p
      <4>1. ASSUME NEW t, t = [progress EXCEPT !.queue = Tail(q)],
                   NEW u, u = [t EXCEPT !.held = None, !.pending = c, !.pc = "pending"]
            PROVE  p = u
        <5>1. /\ IsProgress(t) /\ t.state = progress.state /\ t.dropped = progress.dropped
              /\ t.resync = progress.resync /\ t.accepted = progress.accepted
              /\ t.queue = Tail(q) /\ t.active = progress.active
          BY <1>2, <4>1 DEF IsProgress
        <5> HIDE DEF q, c
        <5>2. u = [state |-> t.state, dropped |-> t.dropped, resync |-> t.resync,
                   accepted |-> t.accepted, queue |-> t.queue, pending |-> c, held |-> 0,
                   active |-> t.active, pc |-> "pending"]
          BY <4>1, <5>1 DEF IsProgress, None
        <5> QED
          BY <5>1, <5>2 DEF p, Moved
      <4> QED
        BY <4>1
    <3>3. Notified(h, p)
      BY <3>1, <3>2
    <3>4. InLine(Append(seen, h), c, Tail(q))
      BY <1>2, <1>3, <1>7, LineTells, LineAdvances
    <3> HIDE DEF p, c
    <3>5. p = Moved(progress, progress.state, Tail(q), c, 0, "pending")
      BY DEF p
    <3>6. FlushWaitsLast(progress) =>
            \/ "pending" = "pending" /\ c = Flush /\ Tail(q) = << >>
            \/ /\ ~ ("pending" = "pending" /\ c = Flush) /\ Tail(q) # << >> /\ Tail(q)[Len(Tail(q))] = Flush
               /\ \A i \in 1 .. Len(Tail(q)) - 1 : Tail(q)[i] # Flush
      BY <2>4
    <3>7. NoFlushWaits(progress) =>
            ~ ("pending" = "pending" /\ c = Flush) /\ \A i \in DOMAIN Tail(q) : Tail(q)[i] # Flush
      BY <2>4
    <3> QED
      BY <1>5, <2>1, <2>2, <3>3, <3>4, <3>5, <3>6, <3>7
  <2> QED
    BY <2>6, <2>7
<1> QED
  BY <1>6, <1>7

(* The worker ends, or dies with what it had: nobody waits in its line.    *)
LEMMA ProgressStops ==
    ASSUME PipelineInv, UNCHANGED <<config, script, prev, calls, agent, log, written, durable, seen, flush>>,
           ProgressFields(progress'), faults' \in 0 .. MaxFaults,
           progress'.pc = "dead", progress'.pending = 0, progress'.held = 0,
           progress'.queue = << >>, progress'.accepted = progress.accepted,
           progress'.active = progress.active,
           progress'.state = "running" => progress.state = "running"
    PROVE  PipelineInv'
<1>1. TypeOK /\ LogKept /\ ProgressKept /\ FlushKept
  BY DEF PipelineInv
<1>2. Len(progress'.queue) <= ProgressPlaces
  <2>1. Len(<< >>) = 0 /\ ProgressPlaces \in Nat
    BY PlacesArePositive
  <2> QED
    BY <2>1
<1>3. TypeOK'
  BY <1>1, <1>2, TypeFacts, TypesKept
<1>4. LogKept'
  BY <1>1 DEF LogKept
<1>5. ProgressKept'
  <2>1. InLine(seen, 0, << >>)
    BY <1>1 DEF ProgressKept, InLine, GrowingPast, Ahead, None
  <2>2. InLine(seen', AtHead(progress'), progress'.queue)
    BY <2>1 DEF AtHead, None
  <2>3. /\ prev' \in {"llm_started", "update"} => progress'.active = calls'
        /\ progress'.state = "running" =>
             \A i \in Positions' :
               config'.progress /\ script'[i].kind # "user_prompt" => i \in progress'.accepted
    BY <1>1, SameTypes DEF ProgressKept
  <2> QED
    BY <2>2, <2>3, PositionFacts DEF ProgressKept
<1>6. FlushKept'
  BY <1>1, SameKnown DEF FlushKept
<1> QED
  BY <1>3, <1>4, <1>5, <1>6 DEF PipelineInv

LEMMA ProgressEndsKeeps ==
    ASSUME PipelineInv, progress_ends \/ progress_dies
    PROVE  PipelineInv'
<1>1. /\ ProgressAlive
      /\ UNCHANGED <<config, script, prev, calls, agent, log, written, durable, seen, flush>>
  BY DEF progress_ends, progress_dies
<1>2. /\ ProgressKept /\ ProgressFields(progress) /\ IsProgress(progress)
      /\ faults \in 0 .. MaxFaults /\ MaxFaults \in Nat
  BY <1>1, WorkerFacts, FaultsAreNatural
<1>3. faults' \in 0 .. MaxFaults
  <2>1. faults' = faults \/ (faults < MaxFaults /\ faults' = faults + 1)
    BY DEF progress_ends, progress_dies
  <2> QED
    BY <1>2, <2>1
<1>4. << >> \in Seq(Positions \union {0}) /\ 0 \in Positions \union {0} /\ None = 0
  BY PositionFacts
<1>5. CASE progress_ends
  <2>1. /\ progress' = [progress EXCEPT !.pc = "dead", !.state = "stopped", !.resync = TRUE]
        /\ progress.queue = << >> /\ progress.held = 0 /\ progress.pending = 0
    BY <1>2, <1>4, <1>5 DEF progress_ends, ProgressKept
  <2>2. /\ IsProgress(progress') /\ progress'.state = "stopped" /\ progress'.resync = TRUE
        /\ progress'.pc = "dead" /\ progress'.queue = << >> /\ progress'.held = 0
        /\ progress'.pending = 0 /\ progress'.accepted = progress.accepted
        /\ progress'.active = progress.active /\ progress'.dropped = progress.dropped
    BY <1>2, <2>1 DEF IsProgress
  <2>3. ProgressFields(progress')
    BY <1>2, <1>4, <2>2 DEF ProgressFields, States
  <2> QED
    BY <1>1, <1>3, <2>2, <2>3, ProgressStops
<1>6. CASE progress_dies
  <2>1. progress' = [progress EXCEPT !.pc = "dead", !.queue = << >>, !.held = 0, !.pending = 0]
    BY <1>4, <1>6 DEF progress_dies
  <2>2. /\ IsProgress(progress') /\ progress'.state = progress.state
        /\ progress'.pc = "dead" /\ progress'.queue = << >> /\ progress'.held = 0
        /\ progress'.pending = 0 /\ progress'.accepted = progress.accepted
        /\ progress'.active = progress.active /\ progress'.dropped = progress.dropped
        /\ progress'.resync = progress.resync
    BY <1>2, <2>1 DEF IsProgress
  <2>3. ProgressFields(progress')
    BY <1>2, <1>4, <2>2 DEF ProgressFields
  <2> QED
    BY <1>1, <1>3, <2>2, <2>3, ProgressStops
<1> QED
  BY <1>5, <1>6

-----------------------------------------------------------------------------
(* Steps of the Agent.                                                     *)

(* A change of the status of the progress worker, and of the resync flag.  *)
LEMMA ProgressStatus ==
    ASSUME TypeOK, ProgressKept, UNCHANGED <<config, script, prev, calls, seen>>,
           NEW st \in States, NEW rs \in BOOLEAN,
           progress' = [progress EXCEPT !.state = st, !.resync = rs],
           st = "running" => progress.state = "running"
    PROVE  /\ ProgressKept' /\ ProgressFields(progress')
           /\ progress'.queue = progress.queue /\ progress'.accepted = progress.accepted
           /\ progress'.pc = progress.pc /\ progress'.pending = progress.pending
<1>1. ProgressFields(progress)
  BY TypeFacts
<1>2. /\ IsProgress(progress') /\ progress'.state = st /\ progress'.resync = rs
      /\ progress'.pc = progress.pc /\ progress'.queue = progress.queue
      /\ progress'.held = progress.held /\ progress'.pending = progress.pending
      /\ progress'.accepted = progress.accepted /\ progress'.active = progress.active
      /\ progress'.dropped = progress.dropped
  BY <1>1 DEF ProgressFields, IsProgress
<1>3. ProgressFields(progress')
  BY <1>1, <1>2 DEF ProgressFields
<1>4. \A i : InHand(progress, i)' <=> InHand(progress, i)
  BY <1>2, SameKnown DEF InHand
<1>5. InLine(seen', AtHead(progress'), progress'.queue)
  BY <1>2 DEF ProgressKept, AtHead
<1>6. /\ progress'.pc = "pending" \/ progress'.pending = None
      /\ progress'.held # None => progress'.pc = "ready" /\ IsSnapshot(progress.held)'
      /\ progress'.pc # "dead" =>
           \A i \in progress'.accepted : Known(i)' \/ InHand(progress, i)'
  BY <1>2, <1>4, SameKnown DEF ProgressKept
<1>7. /\ prev' \in {"llm_started", "update"} => progress'.active = calls'
      /\ progress'.state = "running" =>
           \A i \in Positions' :
             config'.progress /\ script'[i].kind # "user_prompt" => i \in progress'.accepted
  BY <1>2, SameTypes DEF ProgressKept
<1>8. ProgressKept'
  BY <1>5, <1>6, <1>7 DEF ProgressKept
<1> QED
  BY <1>2, <1>3, <1>8

LEMMA FlushLogKeeps ==
    ASSUME PipelineInv, flush_agent_event_log
    PROVE  PipelineInv'
<1>1. /\ agent = "up" /\ flush.of = "none"
      /\ UNCHANGED <<config, script, prev, calls, agent, written, durable, progress, seen, faults>>
      /\ TypeOK /\ LogKept /\ ProgressKept /\ FlushKept
  BY DEF flush_agent_event_log, PipelineInv
<1>2. /\ LogFields(log) /\ IsLog(log) /\ log.state \in States /\ log.command \in BOOLEAN
      /\ log.pc \in {"ready", "draining", "closing", "dead"} /\ log.accepted \subseteq Positions
      /\ faults' \in 0 .. MaxFaults
  BY <1>1, TypeFacts DEF LogFields
<1>3. PICK st \in States, com \in BOOLEAN, fs \in {"sent", "failed"}, cov \in {{}, log.accepted} :
        /\ log' = [log EXCEPT !.state = st, !.pc = log.pc, !.command = com]
        /\ flush' = [of |-> "log", state |-> fs, covers |-> cov]
        /\ st = "running" => log.state = "running"
  <2>1. CASE LogFailed \/ log.pc = "dead"
    <3>1. /\ flush' = [of |-> "log", state |-> "failed", covers |-> {}]
          /\ log' = [log EXCEPT !.state = "stopped"]
      BY <2>1 DEF flush_agent_event_log
    <3>2. log' = [log EXCEPT !.state = "stopped", !.pc = log.pc, !.command = log.command]
      BY <1>2, <3>1 DEF IsLog
    <3>3. "stopped" \in States
      BY DEF States
    <3> QED
      BY <1>2, <3>1, <3>2, <3>3
  <2>2. CASE ~ (LogFailed \/ log.pc = "dead")
    <3>1. /\ flush' = [of |-> "log", state |-> "sent", covers |-> log.accepted]
          /\ log' = [log EXCEPT !.command = TRUE]
      BY <2>2 DEF flush_agent_event_log
    <3>2. log' = [log EXCEPT !.state = log.state, !.pc = log.pc, !.command = TRUE]
      BY <1>2, <3>1 DEF IsLog
    <3> QED
      BY <1>2, <3>1, <3>2
  <2> QED
    BY <2>1, <2>2
<1>4. /\ FlushFields(flush') /\ flush'.of = "log" /\ flush'.state # "ok"
      /\ flush'.covers \subseteq log.accepted
  BY <1>2, <1>3 DEF FlushFields, IsFlush
<1>5. TypeOK' /\ LogKept' /\ ProgressKept'
  BY <1>1, <1>2, <1>3, <1>4, LogMoves
<1>6. log'.accepted = log.accepted
  BY <1>2, <1>3 DEF IsLog
<1>7. FlushKept'
  BY <1>1, <1>4, <1>6 DEF FlushKept
<1> QED
  BY <1>5, <1>7 DEF PipelineInv

(* A flush is the last command in the queue, and nothing is emitted before *)
(* it is answered.                                                         *)
LEMMA FlushQueued ==
    ASSUME TypeOK, ProgressKept, UNCHANGED <<config, script, prev, calls, seen>>,
           progress.pc # "dead", NoFlushWaits(progress),
           Len(progress.queue) < ProgressPlaces,
           progress' = [progress EXCEPT !.queue = Append(@, Flush)]
    PROVE  /\ ProgressKept' /\ ProgressFields(progress') /\ Len(progress'.queue) <= ProgressPlaces
           /\ FlushWaitsLast(progress') /\ progress'.accepted = progress.accepted
           /\ progress'.pc = progress.pc
<1> DEFINE q == progress.queue
           r == Append(q, 0)
<1>1. /\ ProgressFields(progress) /\ IsProgress(progress) /\ seen \in Seq(Positions)
      /\ q \in Seq(Positions \union {0}) /\ ProgressPlaces \in Nat
      /\ progress.held \in Positions \union {0} /\ progress.pending \in Positions \union {0}
      /\ None = 0 /\ Flush = 0 /\ 0 \in Positions \union {0}
  BY TypeFacts, PlacesArePositive, PositionFacts DEF ProgressFields
<1>2. /\ r \in Seq(Positions \union {0}) /\ Len(r) = Len(q) + 1 /\ Len(q) \in Nat
      /\ r[Len(q) + 1] = 0 /\ \A i \in 1 .. Len(q) : r[i] = q[i]
  BY <1>1
<1>3. ToSet(q) \subseteq ToSet(r)
  BY <1>1, ElementsAppend
<1>4. InLine(seen, AtHead(progress), r)
  <2>1. AtHead(progress) \in Positions \union {0} /\ InLine(seen, AtHead(progress), q)
    BY <1>1 DEF AtHead, ProgressKept
  <2> QED
    BY <1>1, <2>1, LineGrows
<1>5. /\ IsProgress(progress') /\ progress'.state = progress.state /\ progress'.queue = r
      /\ progress'.pc = progress.pc /\ progress'.resync = progress.resync
      /\ progress'.held = progress.held /\ progress'.pending = progress.pending
      /\ progress'.accepted = progress.accepted /\ progress'.active = progress.active
      /\ progress'.dropped = progress.dropped
  BY <1>1 DEF IsProgress
<1>9. Len(r) <= ProgressPlaces
  BY <1>1, <1>2
<1> HIDE DEF r
<1>6. ProgressFields(progress')
  BY <1>1, <1>2, <1>5 DEF ProgressFields
<1>7. FlushWaitsLast(progress')
  <2>1. /\ r # << >> /\ r[Len(r)] = Flush
        /\ \A i \in 1 .. Len(r) - 1 : r[i] # Flush
    <3>1. \A i \in 1 .. Len(q) : q[i] # Flush
      BY <1>1 DEF NoFlushWaits
    <3>2. Len(r) - 1 = Len(q) /\ Len(r) # 0
      BY <1>2
    <3> QED
      BY <1>1, <1>2, <3>1, <3>2
  <2>2. ~ PendingFlush(progress')
    BY <1>5 DEF NoFlushWaits, PendingFlush
  <2> QED
    BY <1>5, <2>1, <2>2 DEF FlushWaitsLast
<1>8. ProgressKept'
  <2>1. InLine(seen', AtHead(progress'), progress'.queue)
    BY <1>4, <1>5 DEF AtHead
  <2>2. \A i \in progress'.accepted : Known(i)' \/ InHand(progress, i)'
    BY <1>3, <1>5, SameKnown DEF ProgressKept, InHand
  <2>3. /\ progress'.pc = "pending" \/ progress'.pending = None
        /\ progress'.held # None => progress'.pc = "ready" /\ IsSnapshot(progress.held)'
    BY <1>5, SameKnown DEF ProgressKept
  <2>4. /\ prev' \in {"llm_started", "update"} => progress'.active = calls'
        /\ progress'.state = "running" =>
             \A i \in Positions' :
               config'.progress /\ script'[i].kind # "user_prompt" => i \in progress'.accepted
    BY <1>5, SameTypes DEF ProgressKept
  <2> QED
    BY <2>1, <2>2, <2>3, <2>4 DEF ProgressKept
<1> QED
  BY <1>5, <1>6, <1>7, <1>8, <1>9

LEMMA FlushProgressKeeps ==
    ASSUME PipelineInv, flush_progress
    PROVE  PipelineInv'
<1>1. /\ agent = "up" /\ flush.of = "none"
      /\ UNCHANGED <<config, script, prev, calls, agent, log, written, durable, seen, faults>>
      /\ TypeOK /\ LogKept /\ ProgressKept /\ FlushKept
  BY DEF flush_progress, PipelineInv
<1>2. /\ LogFields(log') /\ ProgressFields(progress) /\ IsProgress(progress)
      /\ progress.state \in States /\ Len(progress.queue) <= ProgressPlaces
      /\ progress.accepted \subseteq Positions
  BY <1>1, TypeFacts DEF ProgressFields
<1>3. LogKept'
  BY <1>1 DEF LogKept
<1>4. CASE progress.pc = "dead"
  <2>1. /\ flush' = [of |-> "progress", state |-> "failed", covers |-> {}]
        /\ progress' = [progress EXCEPT !.state = "stopped", !.resync = TRUE]
    BY <1>4 DEF flush_progress
  <2>2. /\ ProgressKept' /\ ProgressFields(progress') /\ progress'.pc = "dead"
        /\ progress'.queue = progress.queue
    BY <1>1, <1>4, <2>1, ProgressStatus DEF States
  <2>3. FlushFields(flush')
    BY <2>1 DEF FlushFields, IsFlush
  <2>4. TypeOK'
    BY <1>1, <1>2, <2>2, <2>3, TypeFacts, TypesKept
  <2>5. FlushKept'
    BY <1>1, <2>1, <2>2 DEF FlushKept
  <2> QED
    BY <1>3, <2>2, <2>4, <2>5 DEF PipelineInv
<1>5. CASE progress.pc # "dead"
  <2>1. /\ Len(progress.queue) < ProgressPlaces
        /\ flush' = [of |-> "progress", state |-> "sent", covers |-> progress.accepted]
        /\ progress' = [progress EXCEPT !.queue = Append(@, Flush)]
    BY <1>5 DEF flush_progress
  <2>2. NoFlushWaits(progress)
    BY <1>1, <1>5 DEF FlushKept
  <2>3. /\ ProgressKept' /\ ProgressFields(progress') /\ Len(progress'.queue) <= ProgressPlaces
        /\ FlushWaitsLast(progress') /\ progress'.accepted = progress.accepted
        /\ progress'.pc = progress.pc
    BY <1>1, <1>5, <2>1, <2>2, FlushQueued
  <2>4. FlushFields(flush')
    BY <1>2, <2>1 DEF FlushFields, IsFlush
  <2>5. TypeOK'
    BY <1>1, <1>2, <2>3, <2>4, TypeFacts, TypesKept
  <2>6. FlushKept'
    BY <1>1, <1>5, <2>1, <2>3 DEF FlushKept
  <2> QED
    BY <1>3, <2>3, <2>5, <2>6 DEF PipelineInv
<1> QED
  BY <1>4, <1>5

LEMMA FlushUnansweredKeeps ==
    ASSUME PipelineInv, flush_unanswered
    PROVE  PipelineInv'
<1>1. /\ flush.state = "sent" /\ flush' = [flush EXCEPT !.state = "failed"]
      /\ UNCHANGED <<config, script, prev, calls, agent, written, durable, seen, faults>>
      /\ TypeOK /\ LogKept /\ ProgressKept /\ FlushKept
  BY DEF flush_unanswered, PipelineInv
<1>2. /\ LogFields(log) /\ IsLog(log) /\ log.command \in BOOLEAN
      /\ ProgressFields(progress) /\ Len(progress.queue) <= ProgressPlaces
      /\ FlushFields(flush) /\ IsFlush(flush) /\ faults' \in 0 .. MaxFaults
  BY <1>1, TypeFacts DEF LogFields, FlushFields
<1>3. /\ FlushFields(flush') /\ flush'.of = flush.of /\ flush'.state = "failed"
      /\ flush'.covers = flush.covers
  BY <1>1, <1>2 DEF FlushFields, IsFlush
<1>4. CASE flush.of = "log" /\ log.pc = "dead"
  <2>1. log' = [log EXCEPT !.state = "stopped"] /\ UNCHANGED progress
    BY <1>4 DEF flush_unanswered
  <2>2. log' = [log EXCEPT !.state = "stopped", !.pc = "dead", !.command = log.command]
    BY <1>2, <1>4, <2>1 DEF IsLog
  <2>3. "stopped" \in States /\ "dead" \in {"ready", "draining", "closing", "dead"}
    BY DEF States
  <2>4. TypeOK' /\ LogKept' /\ ProgressKept'
    BY <1>1, <1>2, <1>3, <2>1, <2>2, <2>3, LogMoves
  <2>5. log'.accepted = log.accepted
    BY <1>2, <2>1 DEF IsLog
  <2>6. FlushKept'
    BY <1>1, <1>3, <1>4, <2>1, <2>5 DEF FlushKept
  <2> QED
    BY <2>4, <2>6 DEF PipelineInv
<1>5. CASE flush.of = "progress" /\ progress.pc = "dead"
  <2>1. progress' = [progress EXCEPT !.state = "stopped", !.resync = TRUE] /\ UNCHANGED log
    BY <1>5 DEF flush_unanswered
  <2>2. /\ ProgressKept' /\ ProgressFields(progress') /\ progress'.pc = "dead"
        /\ progress'.queue = progress.queue /\ progress'.accepted = progress.accepted
    BY <1>1, <1>5, <2>1, ProgressStatus DEF States
  <2>3. TypeOK'
    BY <1>1, <1>2, <1>3, <2>1, <2>2, TypeFacts, TypesKept
  <2>4. FlushKept'
    BY <1>1, <1>3, <1>5, <2>2 DEF FlushKept
  <2>5. LogKept'
    BY <1>1, <2>1 DEF LogKept
  <2> QED
    BY <2>2, <2>3, <2>4, <2>5 DEF PipelineInv
<1> QED
  BY <1>4, <1>5 DEF flush_unanswered

(* The Agent lets go of a flush, or of everything.                         *)
LEMMA AgentKeeps ==
    ASSUME PipelineInv, turn_breaks \/ flush_returns \/ reload \/ drop_agent
    PROVE  PipelineInv'
<1>1. /\ UNCHANGED <<config, script, calls, log, written, durable, progress, seen, faults>>
      /\ TypeOK /\ LogKept /\ ProgressKept /\ FlushKept
  BY DEF turn_breaks, flush_returns, reload, drop_agent, PipelineInv
<1>2. /\ prev' = prev \/ prev' = "turn_ended"
      /\ agent' = agent \/ agent' = "down"
      /\ flush' = flush \/ flush' = NoFlush
  BY DEF turn_breaks, flush_returns, reload, drop_agent
<1>3. TypeOK'
  <2>1. FlushFields(NoFlush)
    BY NoFlushTypes, FlushTypes
  <2> QED
    BY <1>1, <1>2, <2>1, TypeFacts, TypesKept DEF Kinds
<1>4. LogKept'
  BY <1>1 DEF LogKept
<1>5. ProgressKept'
  BY <1>1, <1>2, ProgressUntouched
<1>6. FlushKept'
  <2>1. CASE turn_breaks
    BY <1>1, <2>1, SameKnown DEF turn_breaks, FlushKept
  <2>2. CASE flush_returns
    BY <1>1, <2>2 DEF flush_returns, FlushKept, NoFlush
  <2>3. CASE reload \/ drop_agent
    BY <2>3 DEF reload, drop_agent, FlushKept, NoFlush
  <2> QED
    BY <2>1, <2>2, <2>3
<1> QED
  BY <1>3, <1>4, <1>5, <1>6 DEF PipelineInv

LEMMA ResyncKeeps ==
    ASSUME PipelineInv, take_resync_required
    PROVE  PipelineInv'
<1>1. /\ progress' = [progress EXCEPT !.resync = FALSE]
      /\ UNCHANGED <<config, script, prev, calls, agent, log, written, durable, seen, flush, faults>>
      /\ TypeOK /\ LogKept /\ ProgressKept /\ FlushKept
  BY DEF take_resync_required, PipelineInv
<1>2. /\ ProgressFields(progress) /\ IsProgress(progress) /\ progress.state \in States
      /\ Len(progress.queue) <= ProgressPlaces
  BY <1>1, TypeFacts DEF ProgressFields
<1>3. progress' = [progress EXCEPT !.state = progress.state, !.resync = FALSE]
  BY <1>1, <1>2 DEF IsProgress
<1>4. /\ ProgressKept' /\ ProgressFields(progress')
      /\ progress'.queue = progress.queue /\ progress'.accepted = progress.accepted
      /\ progress'.pc = progress.pc /\ progress'.pending = progress.pending
  BY <1>1, <1>2, <1>3, ProgressStatus
<1>5. TypeOK'
  BY <1>1, <1>2, <1>4, TypeFacts, TypesKept
<1>6. LogKept'
  BY <1>1 DEF LogKept
<1>7. FlushKept'
  BY <1>1, <1>4, SameKnown DEF FlushKept, FlushWaitsLast, NoFlushWaits, PendingFlush
<1> QED
  BY <1>4, <1>5, <1>6, <1>7 DEF PipelineInv

-----------------------------------------------------------------------------
(* A new event.                                                            *)

LEMMA FollowingFacts ==
    ASSUME TypeOK, NEW ev \in Following
    PROVE  /\ ev \in Events
           /\ ev.kind = "update" => prev \in {"llm_started", "update"} /\ ev.call = calls
<1>1. prev \in Kinds \union {"llm_failed"} /\ calls \in Nat /\ calls + 1 \in Nat
  BY TypeFacts
<1>2. \A kind \in Kinds, call \in Nat, ok \in BOOLEAN :
        Event(kind, call, ok) \in Events /\ Event(kind, call, ok).kind = kind
        /\ Event(kind, call, ok).call = call
  BY DEF Event, Events
<1>3. None \in Nat
  BY DEF None
<1>4. CASE prev \in {"llm_started", "update"}
  <2>1. Following = {Event(kind, calls, ok) : kind \in {"update", "llm_ended"}, ok \in BOOLEAN}
    <3>1. CASE prev = "llm_started"
      BY <3>1 DEF Following
    <3>2. CASE prev = "update"
      BY <3>2 DEF Following
    <3> QED
      BY <1>4, <3>1, <3>2
  <2>2. PICK kind \in {"update", "llm_ended"}, ok \in BOOLEAN : ev = Event(kind, calls, ok)
    BY <2>1
  <2>3. kind \in Kinds
    BY DEF Kinds
  <2> QED
    BY <1>1, <1>2, <1>4, <2>2, <2>3
<1>5. CASE prev \notin {"llm_started", "update"}
  <2>1. Following \in {{Event("turn_started", None, TRUE)}, {Event("user_prompt", None, TRUE)},
                       {Event("llm_started", calls + 1, TRUE)}, {Event("final", calls, TRUE)},
                       {Event(kind, None, TRUE) : kind \in {"turn_ended", "tool_use"}},
                       {Event("tool_result", None, ok) : ok \in BOOLEAN}}
    <3>1. CASE prev = "turn_ended"
      BY <3>1 DEF Following
    <3>2. CASE prev = "turn_started"
      BY <3>2 DEF Following
    <3>3. CASE prev = "user_prompt"
      BY <3>3 DEF Following
    <3>4. CASE prev = "tool_result"
      BY <3>4 DEF Following
    <3>5. CASE prev = "llm_failed"
      BY <3>5 DEF Following
    <3>6. CASE prev = "llm_ended"
      BY <3>6 DEF Following
    <3>7. CASE prev = "final"
      BY <3>7 DEF Following
    <3>8. CASE prev = "tool_use"
      BY <3>8 DEF Following
    <3> QED
      BY <1>1, <1>5, <3>1, <3>2, <3>3, <3>4, <3>5, <3>6, <3>7, <3>8 DEF Kinds
  <2>2. \E kind \in Kinds \ {"update"}, call \in Nat, ok \in BOOLEAN : ev = Event(kind, call, ok)
    BY <1>1, <1>3, <2>1 DEF Kinds
  <2> QED
    BY <1>2, <2>2
<1> QED
  BY <1>4, <1>5

(* The new position is past all others, whose events stay as they are.     *)
LEMMA EventAdded ==
    ASSUME script \in Seq(Events), NEW ev \in Events, script' = Append(script, ev)
    PROVE  LET n == Len(script) + 1 IN
           /\ n \in Nat /\ n # 0 /\ n \in Positions' /\ Positions \subseteq Positions'
           /\ Positions' = Positions \union {n} /\ \A i \in Positions : i < n
           /\ script'[n] = ev /\ \A i \in Positions : script'[i] = script[i]
           /\ script' \in Seq(Events) /\ Len(script') = n
<1> DEFINE n == Len(script) + 1
<1>1. /\ Len(script) \in Nat /\ script' \in Seq(Events) /\ Len(script') = n /\ script'[n] = ev
      /\ \A i \in 1 .. Len(script) : script'[i] = script[i]
  OBVIOUS
<1>2. Positions = 1 .. Len(script) /\ Positions' = 1 .. Len(script')
  BY DEF Positions
<1>3. 1 .. n = (1 .. Len(script)) \union {n}
  BY <1>1
<1> QED
  BY <1>1, <1>2, <1>3

LEMMA KnownGrows ==
    ASSUME seen \in Seq(Positions), seen' = seen, \A i \in Positions : script'[i] = script[i]
    PROVE  /\ \A i \in Positions \union {0} : IsSnapshot(i)' <=> IsSnapshot(i)
           /\ \A i, j \in Positions \union {0} : Tells(j, i) => Tells(j, i)'
           /\ \A i \in Positions : Known(i) => Known(i)'
<1>1. \A i \in Positions \union {0} : IsSnapshot(i)' <=> IsSnapshot(i)
  BY PositionFacts DEF IsSnapshot
<1>2. \A i, j \in Positions \union {0} : Tells(j, i) => Tells(j, i)'
  BY <1>1, PositionFacts DEF Tells, SameCall, IsSnapshot
<1>3. ASSUME NEW i \in Positions, Known(i) PROVE Known(i)'
  <2>1. PICK k \in 1 .. Len(seen) :
          seen[k] = i \/ (seen[k] > i /\ IsSnapshot(i) /\ SameCall(seen[k], i))
    BY <1>3 DEF Known
  <2>2. seen[k] \in Positions
    OBVIOUS
  <2>3. seen'[k] = i \/ (seen'[k] > i /\ IsSnapshot(i)' /\ SameCall(seen[k], i)')
    <3>1. SameCall(seen[k], i) /\ IsSnapshot(i) => SameCall(seen[k], i)' /\ IsSnapshot(i)'
      BY <2>2 DEF SameCall, IsSnapshot
    <3> QED
      BY <2>1, <3>1
  <2> QED
    BY <2>3 DEF Known
<1> QED
  BY <1>1, <1>2, <1>3

LEMMA HookLogs ==
    ASSUME TypeOK, LogKept, NEW ev, NEW n \in Nat, n > 0, \A i \in Positions : i < n,
           n \in Positions', Positions \subseteq Positions',
           log' = LogAfter(ev, n), written' = written
    PROVE  /\ LogKept' /\ LogFields(log)' /\ Len(log'.queue) <= LogPlaces
           /\ log'.next_seq = log.next_seq
<1>1. /\ LogFields(log) /\ IsLog(log) /\ Len(log.queue) <= LogPlaces /\ LogPlaces \in Nat
      /\ log.state \in States /\ log.dropped \in Nat /\ log.dropped + 1 \in Nat
      /\ log.lost \subseteq Positions' /\ log.accepted \subseteq Positions'
      /\ log.queue \in Seq(Positions') /\ log.command \in BOOLEAN /\ log.next_seq \in Nat
      /\ log.pc \in {"ready", "draining", "closing", "dead"} /\ written \in Seq(Pieces)
  <2>1. LogFields(log) /\ Len(log.queue) <= LogPlaces /\ written \in Seq(Pieces) /\ LogPlaces \in Nat
    BY TypeFacts, PlacesArePositive
  <2>2. /\ log.queue \in Seq(Positions) /\ log.lost \subseteq Positions
        /\ log.accepted \subseteq Positions /\ log.dropped \in Nat
    BY <2>1 DEF LogFields
  <2>3. log.queue \in Seq(Positions')
    <3> SUFFICES ASSUME NEW P, NEW R, P \subseteq R, NEW q \in Seq(P)
                 PROVE  q \in Seq(R)
      BY <2>2
    <3> QED
      OBVIOUS
  <2>4. log.lost \subseteq Positions' /\ log.accepted \subseteq Positions' /\ log.dropped + 1 \in Nat
    <3>1. \A P, R, A : P \subseteq R /\ A \subseteq P => A \subseteq R
      OBVIOUS
    <3>2. log.lost \subseteq Positions' /\ log.accepted \subseteq Positions'
      BY <2>2, <3>1, Zenon
    <3> QED
      BY <2>2, <3>2
  <2> QED
    BY <2>1, <2>3, <2>4 DEF LogFields
<1>2. CASE ~ Recorded(ev)
  <2>1. log' = log
    BY <1>2 DEF LogAfter
  <2> QED
    BY <1>1, <2>1, LogStatus DEF LogFields
<1>3. CASE Recorded(ev) /\ log.pc = "dead"
  <2>1. log' = [log EXCEPT !.state = "stopped"]
    BY <1>3 DEF LogAfter
  <2>2. /\ IsLog(log') /\ log'.queue = log.queue /\ log'.next_seq = log.next_seq
        /\ log'.state = "stopped" /\ log'.pc = log.pc /\ log'.dropped = log.dropped
        /\ log'.lost = log.lost /\ log'.accepted = log.accepted /\ log'.command = log.command
    BY <1>1, <2>1 DEF IsLog
  <2>3. LogKept'
    BY <2>2, LogStatus
  <2>4. LogFields(log)'
    BY <1>1, <2>2 DEF LogFields, IsLog, States
  <2> QED
    BY <1>1, <2>2, <2>3, <2>4
<1>4. CASE Recorded(ev) /\ log.pc # "dead" /\ Len(log.queue) < LogPlaces
  <2>1. log' = [log EXCEPT !.queue = Append(@, n), !.accepted = @ \union {n}]
    BY <1>4 DEF LogAfter
  <2>2. /\ IsLog(log') /\ log'.queue = Append(log.queue, n) /\ log'.next_seq = log.next_seq
        /\ log'.state = log.state /\ log'.pc = log.pc /\ log'.dropped = log.dropped
        /\ log'.lost = log.lost /\ log'.accepted = log.accepted \union {n}
        /\ log'.command = log.command
    BY <1>1, <2>1 DEF IsLog
  <2>3. LogKept'
    BY <1>1, <2>2, LogEnqueues
  <2>4. Append(log.queue, n) \in Seq(Positions') /\ Len(Append(log.queue, n)) <= LogPlaces
    <3>1. /\ Append(log.queue, n) \in Seq(Positions') /\ Len(log.queue) \in Nat
          /\ Len(Append(log.queue, n)) = Len(log.queue) + 1
      BY <1>1
    <3> QED
      BY <1>1, <1>4, <3>1
  <2>5. log.accepted \union {n} \subseteq Positions'
    BY <1>1
  <2>6. LogFields(log)'
    BY <1>1, <2>2, <2>4, <2>5 DEF LogFields, IsLog, States
  <2> QED
    BY <2>2, <2>3, <2>4, <2>6
<1>5. CASE Recorded(ev) /\ log.pc # "dead" /\ ~ (Len(log.queue) < LogPlaces)
  <2>1. log' = [log EXCEPT !.state = "degraded", !.dropped = @ + 1]
    BY <1>5 DEF LogAfter
  <2>2. /\ IsLog(log') /\ log'.queue = log.queue /\ log'.next_seq = log.next_seq
        /\ log'.state = "degraded" /\ log'.pc = log.pc /\ log'.dropped = log.dropped + 1
        /\ log'.lost = log.lost /\ log'.accepted = log.accepted /\ log'.command = log.command
    BY <1>1, <2>1 DEF IsLog
  <2>3. LogKept'
    BY <2>2, LogStatus
  <2>4. LogFields(log)'
    BY <1>1, <2>2 DEF LogFields, IsLog, States
  <2> QED
    BY <1>1, <2>2, <2>3, <2>4
<1> QED
  BY <1>2, <1>3, <1>4, <1>5

(* What the progress hook leaves behind, in the terms of the proofs.       *)
HookFields(p, st, dr, rs, acc, q, act) ==
    p = [state |-> st, dropped |-> dr, resync |-> rs, accepted |-> acc, queue |-> q,
         pending |-> progress.pending, held |-> progress.held, active |-> act,
         pc |-> progress.pc]

LEMMA HookShape ==
    ASSUME IsProgress(progress), NEW ev, NEW n, progress' = ProgressAfter(ev, n)
    PROVE  LET act == ActiveAfter(ev) IN
           \/ /\ ~ MakesProgress(ev)
              /\ HookFields(progress', progress.state, progress.dropped, progress.resync,
                            progress.accepted, progress.queue, act)
           \/ /\ progress.pc = "dead"
              /\ HookFields(progress', "stopped", progress.dropped, TRUE,
                            progress.accepted, progress.queue, act)
           \/ /\ Len(progress.queue) < ProgressPlaces
              /\ HookFields(progress', progress.state, progress.dropped, progress.resync,
                            progress.accepted \union {n}, Append(progress.queue, n), act)
           \/ HookFields(progress', "degraded", progress.dropped + 1, TRUE,
                         progress.accepted, progress.queue, act)
<1>1. PICK p : p = [progress EXCEPT !.active = ActiveAfter(ev)]
  OBVIOUS
<1>2. /\ IsProgress(p) /\ p.active = ActiveAfter(ev) /\ p.state = progress.state
      /\ p.dropped = progress.dropped /\ p.resync = progress.resync
      /\ p.accepted = progress.accepted /\ p.queue = progress.queue
      /\ p.pending = progress.pending /\ p.held = progress.held /\ p.pc = progress.pc
  BY <1>1 DEF IsProgress
<1>3. CASE ~ MakesProgress(ev)
  <2>1. progress' = p
    BY <1>1, <1>3 DEF ProgressAfter
  <2>2. p = [state |-> p.state, dropped |-> p.dropped, resync |-> p.resync,
             accepted |-> p.accepted, queue |-> p.queue, pending |-> p.pending,
             held |-> p.held, active |-> p.active, pc |-> p.pc]
    BY <1>2 DEF IsProgress
  <2>3. HookFields(progress', progress.state, progress.dropped, progress.resync,
                   progress.accepted, progress.queue, ActiveAfter(ev))
    BY <1>2, <2>1, <2>2 DEF HookFields
  <2> QED
    BY <1>3, <2>3
<1>4. CASE MakesProgress(ev) /\ progress.pc = "dead"
  <2>1. progress' = [p EXCEPT !.state = "stopped", !.resync = TRUE]
    BY <1>1, <1>4 DEF ProgressAfter
  <2>2. HookFields(progress', "stopped", progress.dropped, TRUE,
                   progress.accepted, progress.queue, ActiveAfter(ev))
    BY <1>2, <2>1 DEF IsProgress, HookFields
  <2> QED
    BY <1>4, <2>2
<1>5. CASE MakesProgress(ev) /\ progress.pc # "dead" /\ Len(progress.queue) < ProgressPlaces
  <2>1. progress' = [p EXCEPT !.queue = Append(@, n), !.accepted = @ \union {n}]
    BY <1>1, <1>2, <1>5 DEF ProgressAfter
  <2>2. HookFields(progress', progress.state, progress.dropped, progress.resync,
                   progress.accepted \union {n}, Append(progress.queue, n), ActiveAfter(ev))
    BY <1>2, <2>1 DEF IsProgress, HookFields
  <2> QED
    BY <1>5, <2>2
<1>6. CASE MakesProgress(ev) /\ progress.pc # "dead" /\ ~ (Len(progress.queue) < ProgressPlaces)
  <2>1. progress' = [p EXCEPT !.state = "degraded", !.dropped = @ + 1, !.resync = TRUE]
    BY <1>1, <1>2, <1>6 DEF ProgressAfter
  <2>2. progress' = [state |-> "degraded", dropped |-> p.dropped + 1, resync |-> TRUE,
                     accepted |-> p.accepted, queue |-> p.queue, pending |-> p.pending,
                     held |-> p.held, active |-> p.active, pc |-> p.pc]
    BY <1>2, <2>1 DEF IsProgress
  <2>3. HookFields(progress', "degraded", progress.dropped + 1, TRUE,
                   progress.accepted, progress.queue, ActiveAfter(ev))
    BY <1>2, <2>2 DEF HookFields
  <2> QED
    BY <2>3
<1> QED
  BY <1>3, <1>4, <1>5, <1>6

(* The hook of the progress: an event is queued, makes no progress, or     *)
(* leaves a trace in the status.                                           *)
LEMMA HookProgresses ==
    ASSUME TypeOK, ProgressKept, NEW ev \in Following, script' = Append(script, ev),
           progress' = ProgressAfter(ev, Len(script) + 1), UNCHANGED <<config, seen>>,
           prev' \in {"llm_started", "update"} => prev' = ev.kind,
           calls' = IF ev.kind = "llm_started" THEN ev.call ELSE calls
    PROVE  /\ ProgressKept' /\ ProgressFields(progress)' /\ Len(progress'.queue) <= ProgressPlaces
           /\ progress'.pc = progress.pc
           /\ NoFlushWaits(progress) => NoFlushWaits(progress')
<1> DEFINE n == Len(script) + 1
           q == progress.queue
<1>1. /\ ProgressFields(progress) /\ IsProgress(progress) /\ seen \in Seq(Positions)
      /\ progress.state \in States /\ progress.dropped \in Nat /\ progress.resync \in BOOLEAN
      /\ progress.accepted \subseteq Positions /\ q \in Seq(Positions \union {0})
      /\ progress.pending \in Positions \union {0} /\ progress.held \in Positions \union {0}
      /\ progress.active \in Nat /\ progress.pc \in {"ready", "pending", "dead"}
      /\ Len(q) <= ProgressPlaces /\ ProgressPlaces \in Nat /\ calls \in Nat
      /\ script \in Seq(Events) /\ None = 0 /\ Flush = 0 /\ Len(q) \in Nat
  BY TypeFacts, PlacesArePositive, PositionFacts DEF ProgressFields
<1>2. /\ ev \in Events /\ ev.call \in Nat
      /\ ev.kind = "update" => prev \in {"llm_started", "update"} /\ ev.call = calls
  BY FollowingFacts DEF Events
<1>3. /\ n \in Nat /\ n # 0 /\ n \in Positions' /\ Positions \subseteq Positions'
      /\ Positions' = Positions \union {n} /\ \A i \in Positions : i < n
      /\ script'[n] = ev /\ \A i \in Positions : script'[i] = script[i]
  BY <1>1, <1>2, EventAdded
<1>4. /\ \A i \in Positions \union {0} : IsSnapshot(i)' <=> IsSnapshot(i)
      /\ \A i, j \in Positions \union {0} : Tells(j, i) => Tells(j, i)'
      /\ \A i \in Positions : Known(i) => Known(i)'
  BY <1>1, <1>3, KnownGrows
<1> HIDE DEF n
<1>5. ActiveAfter(ev) \in Nat /\ (ev.kind = "llm_started" => ActiveAfter(ev) = ev.call)
      /\ (ev.kind = "update" => ActiveAfter(ev) = progress.active)
  <2>1. CASE ev.kind = "llm_started"
    BY <1>2, <2>1 DEF ActiveAfter
  <2>2. CASE ev.kind = "llm_ended" /\ ev.call = progress.active
    BY <1>1, <2>2 DEF ActiveAfter
  <2>3. CASE ev.kind # "llm_started" /\ ~ (ev.kind = "llm_ended" /\ ev.call = progress.active)
    BY <1>1, <2>3 DEF ActiveAfter
  <2> QED
    BY <2>1, <2>2, <2>3
<1>6. prev' \in {"llm_started", "update"} => ActiveAfter(ev) = calls'
  BY <1>2, <1>5 DEF ProgressKept
<1>7. config.progress /\ ev.kind # "user_prompt" => MakesProgress(ev)
  BY <1>2 DEF MakesProgress, ProgressKept
<1>8. PICK st \in States, dr \in Nat, rs \in BOOLEAN, acc \in SUBSET (Positions \union {n}),
          r \in {q, Append(q, n)} :
        /\ HookFields(progress', st, dr, rs, acc, r, ActiveAfter(ev))
        /\ progress.accepted \subseteq acc
        /\ st = "running" => progress.state = "running" /\ (MakesProgress(ev) => n \in acc)
        /\ \/ r = q /\ acc = progress.accepted
           \/ r = Append(q, n) /\ acc = progress.accepted \union {n} /\ Len(q) < ProgressPlaces
  <2>1. "degraded" \in States /\ "stopped" \in States /\ "running" \notin {"degraded", "stopped"}
        /\ progress.dropped + 1 \in Nat
        /\ progress.accepted \in SUBSET (Positions \union {n})
        /\ progress.accepted \union {n} \in SUBSET (Positions \union {n})
    BY <1>1 DEF States
  <2>2. \/ /\ ~ MakesProgress(ev)
           /\ HookFields(progress', progress.state, progress.dropped, progress.resync,
                         progress.accepted, q, ActiveAfter(ev))
        \/ /\ progress.pc = "dead"
           /\ HookFields(progress', "stopped", progress.dropped, TRUE,
                         progress.accepted, q, ActiveAfter(ev))
        \/ /\ Len(q) < ProgressPlaces
           /\ HookFields(progress', progress.state, progress.dropped, progress.resync,
                         progress.accepted \union {n}, Append(q, n), ActiveAfter(ev))
        \/ HookFields(progress', "degraded", progress.dropped + 1, TRUE,
                      progress.accepted, q, ActiveAfter(ev))
    BY <1>1, HookShape DEF n
  <2> HIDE DEF q
  <2> QED
    BY <1>1, <2>1, <2>2
<1>9. /\ IsProgress(progress') /\ progress'.state = st /\ progress'.dropped = dr
      /\ progress'.resync = rs /\ progress'.accepted = acc /\ progress'.queue = r
      /\ progress'.pending = progress.pending /\ progress'.held = progress.held
      /\ progress'.active = ActiveAfter(ev) /\ progress'.pc = progress.pc
  BY <1>8 DEF HookFields, IsProgress
<1>10. /\ r \in Seq(Positions' \union {0}) /\ Len(r) <= ProgressPlaces
       /\ ToSet(q) \subseteq ToSet(r) /\ (acc = progress.accepted \/ (n \in ToSet(r) /\ acc = progress.accepted \union {n}))
       /\ InLine(seen, AtHead(progress), r)
       /\ (\A i \in DOMAIN q : q[i] # Flush) => \A i \in DOMAIN r : r[i] # Flush
  <2>1. q \in Seq(Positions' \union {0})
    <3> SUFFICES ASSUME NEW P, NEW R, P \subseteq R, NEW s \in Seq(P \union {0})
                 PROVE  s \in Seq(R \union {0})
      BY <1>1, <1>3
    <3> QED
      OBVIOUS
  <2>2. AtHead(progress) \in Positions \union {0} /\ InLine(seen, AtHead(progress), q)
    BY <1>1 DEF AtHead, ProgressKept
  <2>3. CASE r = q /\ acc = progress.accepted
    BY <1>1, <2>1, <2>2, <2>3
  <2>4. CASE r = Append(q, n) /\ acc = progress.accepted \union {n} /\ Len(q) < ProgressPlaces
    <3>1. n \in Positions' \union {0}
      BY <1>3
    <3>2. /\ r \in Seq(Positions' \union {0}) /\ Len(r) = Len(q) + 1
          /\ \A i \in DOMAIN r : \/ i \in DOMAIN q /\ r[i] = q[i]
                                 \/ i = Len(q) + 1 /\ r[i] = n
      BY <2>1, <2>4, <3>1, AppendFacts
    <3>3. ToSet(r) = ToSet(q) \union {n}
      BY <2>1, <2>4, <3>1, ElementsAppend
    <3>4. InLine(seen, AtHead(progress), r)
      BY <1>1, <1>3, <2>2, <2>4, LineGrows
    <3>5. Len(r) <= ProgressPlaces
      BY <1>1, <2>4, <3>2
    <3>6. (\A i \in DOMAIN q : q[i] # Flush) => \A i \in DOMAIN r : r[i] # Flush
      BY <1>1, <1>3, <3>2
    <3> QED
      BY <2>4, <3>2, <3>3, <3>4, <3>5, <3>6
  <2> QED
    BY <1>8, <2>3, <2>4
<1>11. ProgressFields(progress)'
  <2>1. /\ progress'.accepted \subseteq Positions' /\ progress'.queue \in Seq(Positions' \union {0})
        /\ progress'.pending \in Positions' \union {0} /\ progress'.held \in Positions' \union {0}
        /\ progress'.active \in Nat
    BY <1>1, <1>3, <1>5, <1>8, <1>9, <1>10
  <2> QED
    BY <1>1, <1>8, <1>9, <2>1 DEF ProgressFields, IsProgress, States
<1>12. ProgressKept'
  <2>1. InLine(seen', AtHead(progress'), progress'.queue)
    BY <1>9, <1>10 DEF AtHead
  <2>2. progress'.pc # "dead" => \A i \in progress'.accepted : Known(i)' \/ InHand(progress, i)'
    <3>1. SUFFICES ASSUME progress.pc # "dead", NEW i \in acc, ~ Known(i)'
                   PROVE  InHand(progress, i)'
      BY <1>9
    <3>2. CASE i \in progress.accepted
      <4>1. i \in Positions /\ InHand(progress, i)
        BY <1>1, <1>4, <3>1, <3>2 DEF ProgressKept
      <4>2. ASSUME NEW h \in Positions \union {0}, h = progress.held, Tells(h, i)
            PROVE  Tells(progress.held, i)'
        <5>1. Tells(h, i)'
          BY <1>4, <4>1, <4>2
        <5>2. progress'.held = h
          BY <1>9, <4>2
        <5> QED
          BY <5>1, <5>2 DEF Tells, SameCall, IsSnapshot
      <4> QED
        BY <1>1, <1>9, <1>10, <4>1, <4>2 DEF InHand
    <3>3. CASE i \notin progress.accepted
      BY <1>9, <1>10, <3>1, <3>3 DEF InHand
    <3> QED
      BY <3>2, <3>3
  <2>3. /\ progress'.pc = "pending" \/ progress'.pending = None
        /\ progress'.held # None => progress'.pc = "ready" /\ IsSnapshot(progress.held)'
    BY <1>1, <1>4, <1>9 DEF ProgressKept
  <2>4. prev' \in {"llm_started", "update"} => progress'.active = calls'
    BY <1>6, <1>9
  <2>5. progress'.state = "running" =>
          \A i \in Positions' :
            config'.progress /\ script'[i].kind # "user_prompt" => i \in progress'.accepted
    <3>1. SUFFICES ASSUME st = "running", NEW i \in Positions', config.progress,
                          script'[i].kind # "user_prompt"
                   PROVE  i \in acc
      BY <1>9
    <3>2. CASE i = n
      BY <1>3, <1>7, <1>8, <3>1, <3>2
    <3>3. CASE i \in Positions
      BY <1>3, <1>8, <3>1, <3>3 DEF ProgressKept
    <3> QED
      BY <1>3, <3>2, <3>3
  <2> QED
    BY <2>1, <2>2, <2>3, <2>4, <2>5 DEF ProgressKept
<1>13. NoFlushWaits(progress) => NoFlushWaits(progress')
  BY <1>9, <1>10 DEF NoFlushWaits, PendingFlush
<1> QED
  BY <1>9, <1>10, <1>11, <1>12, <1>13

(* emit: both hooks run, whatever either answers.                          *)
LEMMA EmitKeeps ==
    ASSUME PipelineInv, NEW ev \in Following, emit(ev)
    PROVE  PipelineInv'
<1> DEFINE n == Len(script) + 1
<1>1. /\ agent = "up" /\ flush.of = "none" /\ Len(script) < config.events
      /\ script' = Append(script, ev)
      /\ log' = LogAfter(ev, n) /\ progress' = ProgressAfter(ev, n)
      /\ calls' = IF ev.kind = "llm_started" THEN ev.call ELSE calls
      /\ UNCHANGED <<config, agent, written, durable, seen, flush, faults>>
      /\ TypeOK /\ LogKept /\ ProgressKept /\ FlushKept
  BY DEF emit, HooksRun, PipelineInv
<1>2. prev' = ev.kind \/ prev' = "llm_failed"
  BY DEF emit
<1>3. /\ ev \in Events /\ ev.call \in Nat /\ ev.kind \in Kinds
  BY <1>1, FollowingFacts DEF Events
<1>4. /\ config \in Configurations /\ config.events \in Nat /\ calls \in Nat
      /\ script \in Seq(Events) /\ written \in Seq(Pieces) /\ seen \in Seq(Positions)
      /\ log.next_seq <= Len(written) /\ durable \in 0 .. Len(written) /\ Len(script) \in Nat
      /\ FlushFields(flush) /\ IsFlush(flush) /\ flush.covers \subseteq Positions
      /\ flush.of \in {"none", "log", "progress"} /\ flush.state \in {"none", "sent", "ok", "failed"}
      /\ faults \in 0 .. MaxFaults
  BY <1>1, TypeFacts DEF FlushFields
<1>5. /\ n \in Nat /\ n > 0 /\ n \in Positions' /\ Positions \subseteq Positions'
      /\ \A i \in Positions : i < n
      /\ script' \in Seq(Events) /\ Len(script') = n
  BY <1>1, <1>3, <1>4, EventAdded
<1> HIDE DEF n
<1>6. /\ LogKept' /\ LogFields(log)' /\ Len(log'.queue) <= LogPlaces
      /\ log'.next_seq = log.next_seq
  BY <1>1, <1>5, HookLogs
<1>7. prev' \in {"llm_started", "update"} => prev' = ev.kind
  BY <1>2
<1>8. /\ ProgressKept' /\ ProgressFields(progress)' /\ Len(progress'.queue) <= ProgressPlaces
      /\ progress'.pc = progress.pc
      /\ NoFlushWaits(progress) => NoFlushWaits(progress')
  BY <1>1, <1>7, HookProgresses DEF n
<1>9. TypeOK'
  <2>1. log' \in Logs'
    BY <1>6 DEF Logs, LogFields, IsLog
  <2>2. progress' \in Progresses'
    BY <1>8, PositionFacts DEF Progresses, ProgressFields, IsProgress, Flush, None
  <2>3. flush' \in Flushes'
    <3>1. flush.covers \in SUBSET (Positions')
      BY <1>4, <1>5
    <3> QED
      BY <1>1, <1>4, <3>1 DEF Flushes, IsFlush
  <2>4. /\ \A P, R : P \subseteq R => Seq(P) \subseteq Seq(R)
        /\ seen' \in Seq(Positions')
    <3>1. \A P, R : P \subseteq R => Seq(P) \subseteq Seq(R)
      <4>1. SUFFICES ASSUME NEW P, NEW R, P \subseteq R, NEW s \in Seq(P)
                     PROVE  s \in Seq(R)
        OBVIOUS
      <4> QED
        BY <4>1
    <3>2. Seq(Positions) \subseteq Seq(Positions')
      BY <1>5, <3>1
    <3> QED
      BY <1>1, <1>4, <3>1, <3>2
  <2>5. written' \in Seq(Pieces')
    <3>1. Pieces \subseteq Pieces'
      <4>1. \A P, R : P \subseteq R =>
              [rec : P, seq : Nat, whole : BOOLEAN, ends : BOOLEAN]
                \subseteq [rec : R, seq : Nat, whole : BOOLEAN, ends : BOOLEAN]
        OBVIOUS
      <4> QED
        BY <1>5, <4>1 DEF Pieces
    <3>2. Seq(Pieces) \subseteq Seq(Pieces')
      BY <2>4, <3>1
    <3> QED
      BY <1>1, <1>4, <3>2
  <2>6. /\ config' \in Configurations /\ script' \in Seq(Events) /\ Len(script') <= config'.events
        /\ prev' \in Kinds \union {"llm_failed"} /\ calls' \in Nat /\ agent' \in {"up", "down"}
        /\ log'.next_seq <= Len(written') /\ durable' \in 0 .. Len(written')
        /\ faults' \in 0 .. MaxFaults
    BY <1>1, <1>2, <1>3, <1>4, <1>5, <1>6 DEF n
  <2>7. Events' = Events /\ Kinds' = Kinds
    BY DEF Events, Kinds
  <2> QED
    BY <1>6, <1>8, <2>1, <2>2, <2>3, <2>4, <2>5, <2>6, <2>7 DEF TypeOK
<1>10. FlushKept'
  BY <1>1, <1>8 DEF FlushKept
<1> QED
  BY <1>6, <1>8, <1>9, <1>10 DEF PipelineInv

-----------------------------------------------------------------------------
(* The invariant holds.                                                    *)

LEMMA PipelineInit ==
    ASSUME Init
    PROVE  PipelineInv
<1>1. /\ config \in Configurations /\ script = << >> /\ prev = "turn_ended" /\ calls = 0
      /\ agent = "up" /\ written = << >> /\ durable = 0 /\ seen = << >>
      /\ flush = NoFlush /\ faults = 0
      /\ progress = [state |-> "running", dropped |-> 0, resync |-> FALSE, accepted |-> {},
                     queue |-> << >>, pending |-> 0, held |-> 0, active |-> 0,
                     pc |-> "ready"]
  BY DEF Init, None
<1>2. /\ IsLog(log) /\ log.state \in {"running", "stopped"} /\ log.dropped = 0 /\ log.lost = {}
      /\ log.accepted = {} /\ log.queue = << >> /\ log.command = FALSE /\ log.next_seq = 0
      /\ log.pc = "ready"
  BY DEF Init, IsLog
<1>3. /\ LogPlaces \in Nat /\ ProgressPlaces \in Nat /\ MaxFaults \in Nat /\ config.events \in Nat
  BY <1>1, PlacesArePositive, FaultsAreNatural, ConfigurationsAreKnown
<1>4. /\ \A S : << >> \in Seq(S)
      /\ Len(<< >>) = 0 /\ DOMAIN << >> = {}
  OBVIOUS
<1>5. TypeOK
  <2>1. log \in Logs /\ progress \in Progresses /\ flush \in Flushes
    <3>1. LogFields(log)
      <4>1. /\ log.state \in States /\ log.dropped \in Nat /\ log.next_seq \in Nat
            /\ log.lost \subseteq Positions /\ log.accepted \subseteq Positions
            /\ log.queue \in Seq(Positions)
            /\ log.pc \in {"ready", "draining", "closing", "dead"}
        BY <1>2, <1>4 DEF States
      <4>2. log.command \in BOOLEAN
        BY <1>2
      <4> QED
        BY <1>2, <4>1, <4>2 DEF LogFields
    <3>2. ProgressFields(progress)
      BY <1>1, <1>4 DEF ProgressFields, IsProgress, States
    <3> QED
      BY <1>1, <3>1, <3>2, LogTypes, ProgressTypes, NoFlushTypes
  <2>2. Len(log.queue) <= LogPlaces /\ Len(progress.queue) <= ProgressPlaces
        /\ log.next_seq <= Len(written) /\ durable \in 0 .. Len(written) /\ faults \in 0 .. MaxFaults
        /\ Len(script) <= config.events
    BY <1>1, <1>2, <1>3, <1>4
  <2> QED
    BY <1>1, <1>4, <2>1, <2>2 DEF TypeOK, Kinds
<1>6. LogKept
  <2>1. RecordsOf(written) = {} /\ ToSet(log.queue) = {}
    BY <1>1, <1>2, ElementsNone DEF RecordsOf
  <2>2. Growing(log.queue) /\ PiecesInOrder(written, log.next_seq)
    BY <1>1, <1>2, <1>4 DEF Growing, PiecesInOrder
  <2>3. Untroubled(log, written)
    BY <1>1, <1>2, <1>4, <2>1 DEF Untroubled
  <2> QED
    BY <1>2, <2>1, <2>2, <2>3 DEF LogKept
<1>7. ProgressKept
  <2>1. InLine(seen, AtHead(progress), progress.queue)
    BY <1>1, <1>4 DEF InLine, AtHead, Growing, GrowingPast, None
  <2>2. Positions = {}
    BY <1>1, <1>4 DEF Positions
  <2> QED
    BY <1>1, <2>1, <2>2 DEF ProgressKept, None
<1>8. FlushKept
  <2>1. NoFlushWaits(progress)
    BY <1>1, <1>4 DEF NoFlushWaits, PendingFlush
  <2> QED
    BY <1>1, <2>1 DEF FlushKept, NoFlush
<1> QED
  BY <1>5, <1>6, <1>7, <1>8 DEF PipelineInv

LEMMA PipelineStep ==
    ASSUME PipelineInv, [Next]_vars
    PROVE  PipelineInv'
<1>1. CASE UNCHANGED vars
  <2>1. PipelineInv' <=> PipelineInv
    BY <1>1 DEF vars, PipelineInv, TypeOK, LogKept, ProgressKept, FlushKept, Positions, Pieces,
       Logs, Progresses, Flushes, Known, Tells, IsSnapshot, SameCall, InHand, AtHead
  <2> QED
    BY <2>1
<1>2. CASE Next
  <2>1. CASE \E ev \in Following : emit(ev)
    BY <2>1, EmitKeeps
  <2>2. CASE turn_breaks \/ flush_returns \/ reload \/ drop_agent
    BY <2>2, AgentKeeps
  <2>3. CASE flush_agent_event_log
    BY <2>3, FlushLogKeeps
  <2>4. CASE flush_progress
    BY <2>4, FlushProgressKeeps
  <2>5. CASE flush_unanswered
    BY <2>5, FlushUnansweredKeeps
  <2>6. CASE take_resync_required
    BY <2>6, ResyncKeeps
  <2>7. CASE log_takes
    BY <2>7, LogTakesKeeps
  <2>8. CASE log_command \/ log_closed \/ log_ends
    BY <2>8, LogCommandKeeps
  <2>9. CASE log_flushes
    BY <2>9, LogFlushesKeeps
  <2>10. CASE log_dies
    BY <2>10, LogDiesKeeps
  <2>11. CASE progress_takes
    BY <2>11, ProgressTakesKeeps
  <2>12. CASE progress_takes_pending
    BY <2>12, ProgressTakesPendingKeeps
  <2>13. CASE progress_coalesces
    BY <2>13, ProgressCoalescesKeeps
  <2>14. CASE progress_ends \/ progress_dies
    BY <2>14, ProgressEndsKeeps
  <2> QED
    BY <1>2, <2>1, <2>2, <2>3, <2>4, <2>5, <2>6, <2>7, <2>8, <2>9, <2>10, <2>11, <2>12, <2>13, <2>14
       DEF Next, LogWorker, ProgressWorker
<1> QED
  BY <1>1, <1>2

(* The inductive invariant, in every reachable state.                      *)
THEOREM PipelineInvariant == Spec => []PipelineInv
<1>1. Init => PipelineInv
  BY PipelineInit
<1>2. PipelineInv /\ [Next]_vars => PipelineInv'
  BY PipelineStep
<1> QED
  BY <1>1, <1>2, PTL DEF Spec

(* The queues of both workers never exceed their capacity, no record's     *)
(* number is ahead of the pieces written, nothing is durable that was not  *)
(* written, and every state keeps its type.                                *)
THEOREM PipelineTypes == Spec => []TypeOK
<1>1. PipelineInv => TypeOK
  BY DEF PipelineInv
<1> QED
  BY <1>1, PipelineInvariant, PTL

(* A flush that reports success (AgentEventLogHandle::flush,               *)
(* ProgressHandle::flush) covers everything accepted before it was sent,   *)
(* and the observer is told of the events in order.                        *)
THEOREM FlushesMean == Spec => []FlushMeansDone
<1>1. PipelineInv => FlushMeansDone
  <2>1. SUFFICES ASSUME PipelineInv PROVE FlushMeansDone
    OBVIOUS
  <2>2. seen \in Seq(Positions)
    BY <2>1, TypeFacts DEF PipelineInv
  <2>3. \A j, k \in 1 .. Len(seen) : j < k => seen[j] < seen[k]
    BY <2>1, <2>2 DEF PipelineInv, ProgressKept, InLine, Growing
  <2>4. Written(durable) = {written[k].rec : k \in 1 .. durable}
    BY DEF Written
  <2> QED
    BY <2>1, <2>3, <2>4 DEF PipelineInv, FlushKept, FlushMeansDone
<1> QED
  BY <1>1, PipelineInvariant, PTL

(* What can be read back from the event log is in the order of emission    *)
(* under growing numbers; while the log calls itself running it holds all  *)
(* that was taken from the queue, numbered without a gap; and an event the *)
(* progress queue missed shows in its status (append, mark_degraded).      *)
THEOREM LossesTold == Spec => []LossesAreTold
<1>1. PipelineInv => LossesAreTold
  <2>1. SUFFICES ASSUME PipelineInv PROVE LossesAreTold
    OBVIOUS
  <2>2. /\ written \in Seq(Pieces) /\ Len(written) \in Nat /\ DOMAIN written = 1 .. Len(written)
        /\ DOMAIN script = 1 .. Len(script)
    BY <2>1, TypeFacts DEF PipelineInv
  <2>3. \A k \in 1 .. Len(written) : written[k].rec \in Nat /\ written[k].seq \in Nat
    <3>1. \A k \in 1 .. Len(written) : written[k] \in Pieces
      BY <2>2
    <3> QED
      BY <3>1, PositionFacts DEF Pieces
  <2>4. PiecesInOrder(written, log.next_seq)
    BY <2>1 DEF PipelineInv, LogKept
  <2>5. \A j, k \in 1 .. Len(written) :
          j < k /\ Readable(j) /\ Readable(k) =>
            written[j].seq < written[k].seq /\ written[j].rec < written[k].rec
    <3>1. SUFFICES ASSUME NEW j \in 1 .. Len(written), NEW k \in 1 .. Len(written), j < k, Readable(j)
                   PROVE  written[j].seq < written[k].seq /\ written[j].rec < written[k].rec
      OBVIOUS
    <3>2. written[j].ends
      BY <2>2, <3>1 DEF Readable
    <3> QED
      BY <2>2, <2>4, <3>1, <3>2 DEF PiecesInOrder
  <2>6. ASSUME log.state = "running", log.pc # "dead"
        PROVE  /\ \A k \in 1 .. Len(written) : Readable(k) /\ written[k].seq = k - 1
               /\ log.accepted = Written(Len(written)) \union ToSet(log.queue)
    <3>1. Untroubled(log, written)
      BY <2>1, <2>6 DEF PipelineInv, LogKept
    <3>2. \A k \in 1 .. Len(written) : written[k].whole /\ written[k].ends /\ written[k].seq = k - 1
      BY <2>2, <3>1 DEF Untroubled
    <3>3. \A k \in 1 .. Len(written) : k > 1 => k - 1 \in 1 .. Len(written)
      BY <2>2
    <3>4. RecordsOf(written) = Written(Len(written))
      BY <2>2 DEF RecordsOf, Written
    <3> QED
      BY <3>1, <3>2, <3>3, <3>4 DEF Untroubled, Readable
  <2>7. (\E i \in 1 .. Len(script) :
            config.progress /\ script[i].kind # "user_prompt" /\ i \notin progress.accepted)
          => progress.state # "running"
    BY <2>1 DEF PipelineInv, ProgressKept, Positions
  <2> QED
    BY <2>5, <2>6, <2>7 DEF LossesAreTold
<1> QED
  BY <1>1, PipelineInvariant, PTL
=============================================================================
