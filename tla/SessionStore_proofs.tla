------------------------ MODULE SessionStore_proofs ------------------------
(***************************************************************************)
(* Proofs about SessionStore, for every number of sessions, payloads,      *)
(* items and storage faults: the three invariants of the session log and   *)
(* the refinement of DurableLog.                                           *)
(***************************************************************************)
EXTENDS SessionStore, TLAPS

(* A file whose lines all parse.                                           *)
Clean(file) == \A n \in 1 .. Len(file.lines) : file.lines[n] # Garbage

(* What does not end in a newline has a last line; who has no log has no   *)
(* acknowledged items.                                                     *)
Torn(file) == file.end # "newline" => Len(file.lines) >= 1

Files ==
    \A s \in SessionIds :
      /\ log[s] # NoFile => Torn(log[s])
      /\ log[s] = NoFile => acked[s] = << >>

(* A log that parses starts with what its owner holds, and is that when it *)
(* ends in a newline: only a rolled back item whose newline is missing may *)
(* follow.                                                                 *)
Holds(file, items) ==
    Clean(file) =>
      /\ Len(items) <= Len(file.lines)
      /\ \A k \in 1 .. Len(items) : file.lines[k] = items[k]
      /\ file.end = "newline" => Len(file.lines) = Len(items)

Owner ==
    store # Closed => log[store.session] # NoFile /\ Holds(log[store.session], store.items)

(* Acknowledged items are where their number says, in a log that parses.   *)
KeptIn(file, items) ==
    file # NoFile /\ Clean(file) =>
      \A n \in 1 .. Len(items) :
        /\ items[n].seq < Len(file.lines)
        /\ file.lines[items[n].seq + 1] = items[n]

Kept == \A s \in SessionIds : KeptIn(log[s], acked[s])

(* A finished copy and its original agree as long as both parse.           *)
Agree(copy, original, n) ==
    Clean(copy) /\ Clean(original) =>
      /\ n <= Len(original.lines) /\ n <= Len(copy.lines)
      /\ \A k \in 1 .. n :
            /\ copy.lines[k].turn = original.lines[k].turn
            /\ copy.lines[k].payload = original.lines[k].payload

Forked ==
    \A child \in copied :
      LET parent == header[child].parent
          n == header[child].seed_len
      IN /\ parent \in SessionIds /\ n \in Nat
         /\ log[child] # NoFile /\ log[parent] # NoFile
         /\ Agree(log[child], log[parent], n)

StoreInv == TypeOK /\ Files /\ OwnerNumbersItems /\ Owner /\ Kept /\ Forked

-----------------------------------------------------------------------------
(* A sequence of lines that all parse is a sequence of items.               *)
LEMMA CleanItems ==
    ASSUME NEW lines \in Seq(Line), \A n \in 1 .. Len(lines) : lines[n] # Garbage
    PROVE  lines \in Seq(Item)
<1>1. \A n \in 1 .. Len(lines) : lines[n] \in Item
  BY DEF Line
<1> QED
  BY <1>1

(* What gluing makes of a file: the line at the end of a file that ends in *)
(* a newline, and bytes that do not parse in one that does not.            *)
LEMMA Glued ==
    ASSUME NEW file \in File, NEW line \in Line, file.end # "newline" => Len(file.lines) >= 1
    PROVE  /\ Glue(file, line) \in Seq(Line) /\ Len(Glue(file, line)) >= 1
           /\ file.end = "newline" => Glue(file, line) = Append(file.lines, line)
           /\ file.end # "newline" =>
                \E n \in 1 .. Len(Glue(file, line)) : Glue(file, line)[n] = Garbage
<1>1. file.lines \in Seq(Line) /\ Garbage \in Line
  BY DEF File, Line
<1>2. CASE file.end = "newline"
  BY <1>1, <1>2 DEF Glue
<1>3. CASE file.end # "newline"
  <2> DEFINE n == Len(file.lines)
             torn == [file.lines EXCEPT ![n] = Garbage]
  <2>1. n \in 1 .. n /\ Glue(file, line) = torn
    BY <1>1, <1>3 DEF Glue
  <2>2. torn \in Seq(Line) /\ Len(torn) = n /\ torn[n] = Garbage
    BY <1>1, <2>1
  <2> QED
    BY <1>3, <2>1, <2>2
<1> QED
  BY <1>2, <1>3

Appends == {"none", "open", "cut", "no_newline", "unacked"}

(* What append_line may make of a file: one that parses parsed before, and *)
(* has gained the item or nothing; without a fault a whole file stays so,  *)
(* and one that is not whole never becomes so.                             *)
Appended(file, item, fault, f) ==
    /\ f \in File
    /\ Torn(f)
    /\ Clean(f) => Clean(file)
    /\ Clean(f) => \/ f = file /\ fault = "open"
                   \/ /\ file.end = "newline" /\ fault \in {"none", "no_newline", "unacked"}
                      /\ f.lines = Append(file.lines, item)
    /\ Clean(f) /\ f.end = "newline" => file.end = "newline"
    /\ fault = "open" => f = file
    /\ fault \in {"cut", "no_newline"} => f.end # "newline"
    /\ Clean(file) /\ file.end = "newline" /\ fault \in {"none", "unacked"} =>
         Clean(f) /\ f.end = "newline" /\ f.lines = Append(file.lines, item)

LEMMA AppendLine ==
    ASSUME NEW file \in File, NEW item \in Item, NEW fault \in Appends, Torn(file)
    PROVE  Appended(file, item, fault, append_line(file, item, fault))
<1> DEFINE f == append_line(file, item, fault)
<1>1. file.lines \in Seq(Line) /\ item \in Line /\ Garbage \in Line /\ item # Garbage
  BY SentinelsAreNone DEF File, Line
<1>2. \A line \in Line : /\ Glue(file, line) \in Seq(Line) /\ Len(Glue(file, line)) >= 1
                         /\ file.end = "newline" => Glue(file, line) = Append(file.lines, line)
                         /\ file.end # "newline" =>
                              \E n \in 1 .. Len(Glue(file, line)) : Glue(file, line)[n] = Garbage
  BY Glued DEF Torn
<1>3. \A line \in Line :
         /\ Len(Append(file.lines, line)) = Len(file.lines) + 1
         /\ Append(file.lines, line)[Len(file.lines) + 1] = line
         /\ Len(file.lines) + 1 \in 1 .. Len(Append(file.lines, line))
         /\ \A n \in 1 .. Len(file.lines) :
              n \in 1 .. Len(Append(file.lines, line)) /\ Append(file.lines, line)[n] = file.lines[n]
  BY <1>1
<1>4. CASE fault = "open"
  <2>1. f = file
    BY <1>4 DEF append_line
  <2> HIDE DEF f
  <2>2. Appended(file, item, fault, f)
    BY <1>4, <2>1 DEF Appended
  <2> QED
    BY <2>2 DEF f
<1>5. CASE fault = "cut"
  <2>1. f = [lines |-> Glue(file, Garbage), end |-> "cut"]
    BY <1>5 DEF append_line
  <2>2. f \in File /\ f.lines = Glue(file, Garbage) /\ f.end = "cut" /\ Len(f.lines) >= 1
    BY <1>1, <1>2, <2>1 DEF File
  <2> HIDE DEF f
  <2>3. \E n \in 1 .. Len(f.lines) : f.lines[n] = Garbage
    <3>1. CASE file.end = "newline"
      <4>1. f.lines = Append(file.lines, Garbage)
        BY <1>1, <1>2, <2>2, <3>1
      <4>2. /\ Len(file.lines) + 1 \in 1 .. Len(f.lines)
            /\ f.lines[Len(file.lines) + 1] = Garbage
        BY <1>1, <1>3, <4>1
      <4> QED
        BY <4>2
    <3>2. CASE file.end # "newline"
      BY <1>1, <1>2, <2>2, <3>2
    <3> QED
      BY <3>1, <3>2
  <2>4. ~ Clean(f)
    BY <2>3 DEF Clean
  <2>5. Appended(file, item, fault, f)
    BY <1>5, <2>2, <2>4 DEF Appended, Torn
  <2> QED
    BY <2>5 DEF f
<1>6. CASE fault = "no_newline"
  <2>1. f = [lines |-> Glue(file, item), end |-> IF file.end = "newline" THEN "item" ELSE "cut"]
    BY <1>6 DEF append_line
  <2>2. f \in File /\ f.lines = Glue(file, item) /\ f.end # "newline" /\ Len(f.lines) >= 1
    BY <1>1, <1>2, <2>1 DEF File
  <2> HIDE DEF f
  <2>3. Clean(f) => file.end = "newline" /\ f.lines = Append(file.lines, item)
    BY <1>1, <1>2, <2>2 DEF Clean
  <2>4. Clean(f) => Clean(file)
    BY <1>1, <1>3, <2>3 DEF Clean
  <2>5. Appended(file, item, fault, f)
    BY <1>6, <2>2, <2>3, <2>4 DEF Appended, Torn
  <2> QED
    BY <2>5 DEF f
<1>7. CASE fault \in {"none", "unacked"}
  <2>1. f = [lines |-> Glue(file, item), end |-> "newline"]
    BY <1>7 DEF append_line
  <2>2. f \in File /\ f.lines = Glue(file, item) /\ f.end = "newline" /\ Len(f.lines) >= 1
    BY <1>1, <1>2, <2>1 DEF File
  <2> HIDE DEF f
  <2>3. Clean(f) => file.end = "newline" /\ f.lines = Append(file.lines, item)
    BY <1>1, <1>2, <2>2 DEF Clean
  <2>4. Clean(f) => Clean(file)
    BY <1>1, <1>3, <2>3 DEF Clean
  <2>5. Clean(file) /\ file.end = "newline" => Clean(f) /\ f.lines = Append(file.lines, item)
    <3>1. SUFFICES ASSUME Clean(file), file.end = "newline"
                   PROVE  Clean(f) /\ f.lines = Append(file.lines, item)
      OBVIOUS
    <3>2. f.lines = Append(file.lines, item)
      BY <1>1, <1>2, <2>2, <3>1
    <3>3. \A n \in 1 .. Len(f.lines) : f.lines[n] # Garbage
      BY <1>1, <1>3, <3>1, <3>2 DEF Clean
    <3> QED
      BY <3>2, <3>3 DEF Clean
  <2>6. Appended(file, item, fault, f)
    BY <1>7, <2>2, <2>3, <2>4, <2>5 DEF Appended, Torn
  <2> QED
    BY <2>6 DEF f
<1> QED
  BY <1>4, <1>5, <1>6, <1>7 DEF Appends

(* copy in FileSessionStore::fork: an item keeps everything but its number *)
(* and its session.                                                        *)
LEMMA RebasedItems ==
    ASSUME NEW items \in Seq(Item), NEW child \in SessionIds,
           NEW b \in 1 .. Len(items), b <= MaxItems
    PROVE  LET copy == Rebased(SubSeq(items, 1, b), child) IN
           /\ copy \in Seq(Item) /\ Len(copy) = b
           /\ \A k \in 1 .. b :
                /\ copy[k].seq = k - 1 /\ copy[k].session = child
                /\ copy[k].turn = items[k].turn /\ copy[k].payload = items[k].payload
           /\ SubSeq(copy, 1, b) = copy
           /\ \A n \in 0 .. b - 1 :
                /\ SubSeq(copy, 1, n) \in Seq(Item) /\ Len(SubSeq(copy, 1, n)) = n
                /\ copy[n + 1] \in Item
<1> DEFINE prefix == SubSeq(items, 1, b)
           copy == Rebased(prefix, child)
<1>1. prefix \in Seq(Item) /\ Len(prefix) = b /\ \A k \in 1 .. b : prefix[k] = items[k]
  OBVIOUS
<1>2. \A k \in 1 .. b : items[k] \in Item /\ k - 1 \in 0 .. MaxItems
  BY BoundsAreNumbers
<1>3. copy = [k \in 1 .. b |-> [items[k] EXCEPT !.session = child, !.seq = k - 1]]
  BY <1>1 DEF Rebased
<1>4. \A k \in 1 .. b :
         /\ copy[k] \in Item
         /\ copy[k].seq = k - 1 /\ copy[k].session = child
         /\ copy[k].turn = items[k].turn /\ copy[k].payload = items[k].payload
  BY <1>2, <1>3 DEF Item
<1>5. copy \in Seq(Item) /\ Len(copy) = b
  <2>1. b \in Nat
    OBVIOUS
  <2>2. copy = [k \in 1 .. b |-> copy[k]]
    BY <1>3
  <2> HIDE DEF copy
  <2>3. copy \in [1 .. b -> Item]
    BY <1>4, <2>2
  <2> QED
    BY <2>1, <2>3
<1> HIDE DEF copy
<1>6. SubSeq(copy, 1, b) = copy
  BY <1>5
<1>7. \A n \in 0 .. b - 1 : /\ SubSeq(copy, 1, n) \in Seq(Item) /\ Len(SubSeq(copy, 1, n)) = n
                            /\ copy[n + 1] \in Item
  BY <1>4, <1>5
<1> QED
  BY <1>4, <1>5, <1>6, <1>7 DEF copy

-----------------------------------------------------------------------------
(* A log never loses a line without showing it: if it parses after a step, *)
(* it parsed before and still starts with what it was.                     *)
Grows(old, new) ==
    old # NoFile =>
      /\ new # NoFile
      /\ Clean(new) =>
           /\ Clean(old) /\ Len(old.lines) <= Len(new.lines)
           /\ \A k \in 1 .. Len(old.lines) : new.lines[k] = old.lines[k]

LEMMA KeptGrows ==
    ASSUME NEW old \in File, NEW new \in File, NEW items \in Seq(Item),
           Grows(old, new), KeptIn(old, items)
    PROVE  KeptIn(new, items)
<1>1. old # NoFile /\ Len(old.lines) \in Nat /\ Len(new.lines) \in Nat
  BY SentinelsAreNone DEF File
<1>2. SUFFICES ASSUME Clean(new), NEW n \in 1 .. Len(items)
               PROVE  /\ items[n].seq < Len(new.lines)
                      /\ new.lines[items[n].seq + 1] = items[n]
  BY DEF KeptIn
<1>3. items[n] \in Item
  OBVIOUS
<1>4. items[n].seq \in Nat
  BY <1>3, BoundsAreNumbers DEF Item
<1>5. items[n].seq < Len(old.lines) /\ old.lines[items[n].seq + 1] = items[n]
  BY <1>1, <1>2 DEF Grows, KeptIn
<1>6. Len(old.lines) <= Len(new.lines) /\ items[n].seq + 1 \in 1 .. Len(old.lines)
  BY <1>1, <1>2, <1>4, <1>5 DEF Grows
<1>7. new.lines[items[n].seq + 1] = old.lines[items[n].seq + 1]
  BY <1>1, <1>2, <1>6 DEF Grows
<1> QED
  BY <1>1, <1>4, <1>5, <1>6, <1>7

LEMMA AgreeGrows ==
    ASSUME NEW copy \in File, NEW copy_ \in File, NEW original \in File, NEW original_ \in File,
           NEW n \in Nat, Grows(copy, copy_), Grows(original, original_),
           Agree(copy, original, n)
    PROVE  Agree(copy_, original_, n)
<1>1. copy # NoFile /\ original # NoFile
  BY SentinelsAreNone
<1>2. /\ Len(copy.lines) \in Nat /\ Len(copy_.lines) \in Nat
      /\ Len(original.lines) \in Nat /\ Len(original_.lines) \in Nat
  BY DEF File
<1>3. SUFFICES ASSUME Clean(copy_), Clean(original_)
               PROVE  /\ n <= Len(original_.lines) /\ n <= Len(copy_.lines)
                      /\ \A k \in 1 .. n :
                            /\ copy_.lines[k].turn = original_.lines[k].turn
                            /\ copy_.lines[k].payload = original_.lines[k].payload
  BY DEF Agree
<1>4. /\ n <= Len(original.lines) /\ n <= Len(copy.lines)
      /\ \A k \in 1 .. n :
            /\ copy.lines[k].turn = original.lines[k].turn
            /\ copy.lines[k].payload = original.lines[k].payload
  BY <1>1, <1>3 DEF Grows, Agree
<1>5. /\ Len(original.lines) <= Len(original_.lines) /\ Len(copy.lines) <= Len(copy_.lines)
      /\ \A k \in 1 .. Len(copy.lines) : copy_.lines[k] = copy.lines[k]
      /\ \A k \in 1 .. Len(original.lines) : original_.lines[k] = original.lines[k]
  BY <1>1, <1>3 DEF Grows
<1>6. n <= Len(original_.lines) /\ n <= Len(copy_.lines)
  BY <1>2, <1>4, <1>5
<1>7. ASSUME NEW k \in 1 .. n
      PROVE  copy_.lines[k] = copy.lines[k] /\ original_.lines[k] = original.lines[k]
  <2>1. k \in 1 .. Len(copy.lines) /\ k \in 1 .. Len(original.lines)
    BY <1>2, <1>4
  <2> QED
    BY <1>5, <2>1
<1> QED
  BY <1>4, <1>6, <1>7

(* append_line only ever makes a log grow.                                 *)
LEMMA AppendGrows ==
    ASSUME NEW file \in File, NEW item \in Item, NEW fault \in Appends, NEW f,
           Appended(file, item, fault, f)
    PROVE  Grows(file, f)
<1>1. f # NoFile /\ file.lines \in Seq(Line) /\ item \in Line
  BY SentinelsAreNone DEF Appended, File, Line
<1>2. /\ Len(file.lines) <= Len(Append(file.lines, item))
      /\ \A k \in 1 .. Len(file.lines) : Append(file.lines, item)[k] = file.lines[k]
  BY <1>1
<1>3. /\ Len(file.lines) <= Len(file.lines)
      /\ \A k \in 1 .. Len(file.lines) : file.lines[k] = file.lines[k]
  BY <1>1
<1> QED
  BY <1>1, <1>2, <1>3 DEF Grows, Appended

-----------------------------------------------------------------------------
(* The actions.                                                            *)
Heads == [parent : SessionIds \union {NoParent}, seed_len : Nat] \union {NoFile, Garbage}

Stores == [session : SessionIds, items : Seq(Item), next_seq : Nat]

Numbered(st) ==
    /\ st.next_seq = Len(st.items)
    /\ \A n \in 1 .. Len(st.items) :
          /\ st.items[n].seq = n - 1 /\ st.items[n].session = st.session
          /\ n > 1 => st.items[n].turn >= st.items[n-1].turn

(* A step that changes one log at most, making it grow, and leaves the     *)
(* store as it is, drops it, or takes one in good order.                   *)
LEMMA LogStep ==
    ASSUME StoreInv, NEW c \in SessionIds,
           NEW h \in Heads, NEW f \in File \union {NoFile}, NEW a \in Seq(Item),
           header' = [header EXCEPT ![c] = h],
           log' = [log EXCEPT ![c] = f],
           acked' = [acked EXCEPT ![c] = a],
           log[c] # NoFile => h = header[c],
           Grows(log[c], f), f # NoFile => Torn(f), f = NoFile => a = << >>, KeptIn(f, a),
           \/ store' = Closed
           \/ store' = store /\ (store # Closed => store.session # c)
           \/ /\ store' \in Stores /\ Numbered(store')
              /\ log'[store'.session] # NoFile /\ Holds(log'[store'.session], store'.items),
           \/ copied' = copied
           \/ /\ copied' = copied \union {c} /\ f # NoFile
              /\ h.parent \in SessionIds \ {c} /\ h.seed_len \in Nat
              /\ log[h.parent] # NoFile /\ Agree(f, log[h.parent], h.seed_len),
           faults' \in 0 .. MaxFaults
    PROVE  StoreInv'
<1>1. /\ \A s \in SessionIds : log[s] \in File \union {NoFile} /\ acked[s] \in Seq(Item)
      /\ copied \subseteq SessionIds /\ (store # Closed => store \in Stores)
      /\ log \in [SessionIds -> File \union {NoFile}] /\ acked \in [SessionIds -> Seq(Item)]
      /\ header \in [SessionIds -> Heads]
  BY DEF StoreInv, TypeOK, Stores, Heads
<1>2. /\ log'[c] = f /\ acked'[c] = a /\ header'[c] = h
      /\ \A s \in SessionIds \ {c} :
            log'[s] = log[s] /\ acked'[s] = acked[s] /\ header'[s] = header[s]
  BY <1>1
<1>3. \A s \in SessionIds : Grows(log[s], log'[s])
  <2>1. \A s \in SessionIds : log[s] # NoFile => Grows(log[s], log[s])
    BY <1>1 DEF Grows, File
  <2> QED
    BY <1>2, <2>1 DEF Grows
<1>4. TypeOK'
  <2>1. store' = Closed \/ store' \in Stores
    BY <1>1
  <2>2. copied' \subseteq SessionIds
    BY <1>1
  <2>3. /\ log' \in [SessionIds -> File \union {NoFile}] /\ acked' \in [SessionIds -> Seq(Item)]
        /\ header' \in [SessionIds -> Heads]
    BY <1>1
  <2> QED
    BY <2>1, <2>2, <2>3 DEF TypeOK, Stores, Heads
<1>5. Files'
  BY <1>2 DEF StoreInv, Files
<1>6. OwnerNumbersItems'
  BY DEF StoreInv, OwnerNumbersItems, Numbered
<1>7. Owner'
  <2>1. CASE store # Closed /\ store' = store /\ store.session # c
    <3>1. store.session \in SessionIds \ {c}
      BY <1>1, <2>1 DEF Stores
    <3>2. log'[store.session] = log[store.session]
      BY <1>2, <3>1
    <3> QED
      BY <2>1, <3>2 DEF StoreInv, Owner
  <2> QED
    BY <2>1 DEF Owner
<1>8. Kept'
  <2>1. \A s \in SessionIds \ {c} : KeptIn(log'[s], acked'[s])
    BY <1>2 DEF StoreInv, Kept
  <2> QED
    BY <1>2, <2>1 DEF Kept
<1>9. Forked'
  <2>1. ASSUME NEW child \in copied
        PROVE  /\ header'[child] = header[child]
               /\ header[child].parent \in SessionIds /\ header[child].seed_len \in Nat
               /\ log'[child] # NoFile /\ log'[header[child].parent] # NoFile
               /\ Agree(log'[child], log'[header[child].parent], header[child].seed_len)
    <3> DEFINE parent == header[child].parent
               n == header[child].seed_len
    <3>1. /\ child \in SessionIds /\ parent \in SessionIds /\ n \in Nat
          /\ log[child] # NoFile /\ log[parent] # NoFile
          /\ Agree(log[child], log[parent], n)
      BY <1>1 DEF StoreInv, Forked
    <3>2. header'[child] = header[child]
      BY <1>2, <3>1
    <3> HIDE DEF parent, n
    <3>3. Grows(log[child], log'[child]) /\ Grows(log[parent], log'[parent])
      BY <1>3, <3>1
    <3>4. /\ log[child] \in File /\ log[parent] \in File
          /\ log'[child] \in File /\ log'[parent] \in File
          /\ log'[child] # NoFile /\ log'[parent] # NoFile
      BY <1>1, <1>4, <3>1, <3>3 DEF Grows, TypeOK
    <3>5. Agree(log'[child], log'[parent], n)
      BY <3>1, <3>3, <3>4, AgreeGrows
    <3> QED
      BY <3>1, <3>2, <3>4, <3>5 DEF parent, n
  <2>2. CASE copied' = copied
    BY <2>1, <2>2 DEF Forked
  <2>3. CASE /\ copied' = copied \union {c} /\ f # NoFile
             /\ h.parent \in SessionIds \ {c} /\ h.seed_len \in Nat
             /\ log[h.parent] # NoFile /\ Agree(f, log[h.parent], h.seed_len)
    <3>1. log'[h.parent] = log[h.parent]
      BY <1>2, <2>3
    <3>2. /\ header'[c].parent \in SessionIds /\ header'[c].seed_len \in Nat
          /\ log'[c] # NoFile /\ log'[header'[c].parent] # NoFile
          /\ Agree(log'[c], log'[header'[c].parent], header'[c].seed_len)
      BY <1>2, <2>3, <3>1
    <3> QED
      BY <2>1, <2>3, <3>2 DEF Forked
  <2> QED
    BY <2>2, <2>3
<1> QED
  BY <1>4, <1>5, <1>6, <1>7, <1>8, <1>9 DEF StoreInv

LEMMA WholeFile ==
    ASSUME NEW lines \in Seq(Line)
    PROVE  [lines |-> lines, end |-> "newline"] \in File
  BY DEF File

(* FileSessionStore::create, SessionStore::create.                         *)
LEMMA CreateStep ==
    ASSUME StoreInv, NEW s \in SessionIds, create(s)
    PROVE  StoreInv'
<1> DEFINE head == [parent |-> NoParent, seed_len |-> 0]
<1>1. /\ header \in [SessionIds -> Heads] /\ log \in [SessionIds -> File \union {NoFile}]
      /\ acked \in [SessionIds -> Seq(Item)] /\ faults \in 0 .. MaxFaults
      /\ header[s] = NoFile /\ log[s] = NoFile /\ acked[s] = << >>
      /\ store # Closed => store.session # s
  BY DEF StoreInv, TypeOK, Heads, Files, Owner, create, Fresh
<1>2. EmptyLog \in File /\ EmptyLog # NoFile /\ EmptyLog.lines = << >> /\ EmptyLog.end = "newline"
  <2>1. << >> \in Seq(Line)
    OBVIOUS
  <2>2. EmptyLog \in File
    BY <2>1, WholeFile DEF EmptyLog
  <2> QED
    BY <2>2, SentinelsAreNone DEF EmptyLog
<1>3. head \in Heads /\ NoFile \in Heads /\ Garbage \in Heads
  BY DEF Heads
<1>4. acked' = [acked EXCEPT ![s] = << >>] /\ << >> \in Seq(Item) /\ copied' = copied
  BY <1>1 DEF create
<1>5. KeptIn(EmptyLog, << >>) /\ KeptIn(NoFile, << >>) /\ Grows(log[s], EmptyLog)
      /\ Grows(log[s], NoFile) /\ Torn(EmptyLog) /\ Holds(EmptyLog, << >>)
  BY <1>1, <1>2 DEF KeptIn, Grows, Torn, Holds
<1>6. CASE Created(s, head) /\ store' = Opened(s, << >>) /\ UNCHANGED faults
  <2>1. header' = [header EXCEPT ![s] = head] /\ log' = [log EXCEPT ![s] = EmptyLog]
    BY <1>6 DEF Created
  <2>2. store' \in Stores /\ Numbered(store') /\ store'.session = s /\ store'.items = << >>
    BY <1>6 DEF Opened, Stores, Numbered
  <2>3. log'[s] = EmptyLog
    BY <1>1, <2>1
  <2> HIDE DEF head
  <2>4. log'[store'.session] # NoFile /\ Holds(log'[store'.session], store'.items)
    BY <1>2, <1>5, <2>2, <2>3
  <2> QED
    BY <1>1, <1>2, <1>3, <1>4, <1>5, <1>6, <2>1, <2>2, <2>4, LogStep
<1>7. ASSUME NEW fault \in Faulty({"open", "no_log", "cut_header"}),
             CreateFails(s, head, fault), Spend, store' \in {store, Closed}
      PROVE  StoreInv'
  <2>1. \E h \in Heads : header' = [header EXCEPT ![s] = h]
    BY <1>3, <1>7 DEF CreateFails
  <2>2. log' = [log EXCEPT ![s] = NoFile]
    BY <1>1, <1>7 DEF CreateFails
  <2>3. faults' \in 0 .. MaxFaults
    BY <1>1, <1>7, BoundsAreNumbers DEF Spend, Faulty
  <2> QED
    BY <1>1, <1>4, <1>5, <1>7, <2>1, <2>2, <2>3, LogStep
<1> QED
  BY <1>6, <1>7 DEF create

(* SessionStore::load.                                                     *)
LEMMA LoadStep ==
    ASSUME StoreInv, NEW s \in SessionIds, load(s)
    PROVE  StoreInv'
<1>1. UNCHANGED <<header, log, acked, copied, faults>>
  BY DEF load
<1>2. CASE ~ ReadsBack(s)
  BY <1>1, <1>2 DEF load, StoreInv, TypeOK, Files, OwnerNumbersItems, Owner, Kept, Forked, Lines
<1>3. CASE ReadsBack(s)
  <2>1. log[s] # NoFile /\ log[s] \in File
    BY <1>3 DEF ReadsBack, StoreInv, TypeOK
  <2>2. log[s].lines \in Seq(Item)
    BY <1>3, <2>1, CleanItems DEF ReadsBack, Lines, File
  <2>3. store' = [session |-> s, items |-> log[s].lines, next_seq |-> Len(log[s].lines)]
    BY <1>3 DEF load, Opened, Lines
  <2>4. store' \in Stores /\ Numbered(store')
    BY <1>3, <2>2, <2>3 DEF Stores, Numbered, ReadsBack, Lines
  <2>5. store'.session = s /\ store'.items = log[s].lines
    BY <2>3
  <2>6. Holds(log[s], log[s].lines)
    BY <2>2 DEF Holds
  <2>7. OwnerNumbersItems' /\ Owner' /\ TypeOK'
    BY <1>1, <2>1, <2>4, <2>5, <2>6 DEF OwnerNumbersItems, Owner, TypeOK, StoreInv, Stores, Numbered
  <2> QED
    BY <1>1, <2>7 DEF StoreInv, Files, Kept, Forked, Lines
<1> QED
  BY <1>2, <1>3

(* The store is dropped, or its process dies.                              *)
LEMMA DropStep ==
    ASSUME StoreInv, Drop
    PROVE  StoreInv'
  BY DEF Drop, StoreInv, TypeOK, Files, OwnerNumbersItems, Owner, Kept, Forked, Lines

(* SessionStore::commit_item, with the fault its append meets or none.     *)
LEMMA CommitStep ==
    ASSUME StoreInv, NEW draft \in Drafts, commit_item(draft)
    PROVE  StoreInv'
<1> DEFINE s == store.session
           item == [seq |-> store.next_seq, session |-> s, turn |-> draft.turn,
                    payload |-> draft.payload]
           file == log[s]
<1>1. /\ header \in [SessionIds -> Heads] /\ log \in [SessionIds -> File \union {NoFile}]
      /\ acked \in [SessionIds -> Seq(Item)] /\ faults \in 0 .. MaxFaults
      /\ store # Closed /\ store \in Stores /\ Len(store.items) < MaxItems
      /\ UNCHANGED <<header, copied>>
  BY DEF StoreInv, TypeOK, Heads, Stores, commit_item
<1>2. s \in SessionIds /\ store.items \in Seq(Item) /\ Len(store.items) \in Nat
  BY <1>1 DEF Stores
<1>3. file # NoFile /\ file \in File /\ Torn(file) /\ Holds(file, store.items)
      /\ KeptIn(file, acked[s]) /\ Numbered(store)
  BY <1>1, <1>2 DEF StoreInv, Files, Owner, Kept, OwnerNumbersItems, Numbered
<1>4. draft.payload # Bad /\ (store.items # << >> => draft.turn >= store.items[Len(store.items)].turn)
  BY DEF commit_item, validate_draft
<1>5. item \in Item /\ item.seq = Len(store.items) /\ item.session = s /\ item.turn = draft.turn
  <2>1. store.next_seq = Len(store.items) /\ Len(store.items) \in 0 .. MaxItems
    BY <1>1, <1>2, <1>3, BoundsAreNumbers DEF Numbered
  <2>2. draft.turn \in 0 .. MaxTurn /\ draft.payload \in Payloads
    BY <1>4 DEF Drafts
  <2> QED
    BY <1>2, <2>1, <2>2 DEF Item
<1> HIDE DEF item, file
<1>6. ASSUME NEW fault \in Appends, log' = [log EXCEPT ![s] = append_line(@, item, fault)]
      PROVE  /\ Appended(file, item, fault, log'[s]) /\ Grows(file, log'[s])
             /\ log' = [log EXCEPT ![s] = log'[s]] /\ log'[s] \in File
             /\ log'[s] # NoFile /\ Torn(log'[s])
             /\ KeptIn(log'[s], acked[s])
  <2>1. log'[s] = append_line(file, item, fault) /\ log' = [log EXCEPT ![s] = log'[s]]
    BY <1>1, <1>2, <1>6 DEF file
  <2>2. Appended(file, item, fault, log'[s])
    BY <1>3, <1>5, <2>1, AppendLine
  <2>3. log'[s] \in File /\ log'[s] # NoFile /\ Torn(log'[s])
    BY <2>2, SentinelsAreNone DEF Appended
  <2>4. Grows(file, log'[s])
    BY <1>3, <1>5, <2>2, AppendGrows
  <2>5. acked[s] \in Seq(Item)
    BY <1>1, <1>2
  <2> QED
    BY <1>3, <2>1, <2>2, <2>3, <2>4, <2>5, KeptGrows
<1>7. header' = [header EXCEPT ![s] = header[s]] /\ header[s] \in Heads
  BY <1>1, <1>2
<1>8. CASE /\ log' = [log EXCEPT ![s] = append_line(@, item, "none")]
           /\ store' = Pushed(item)
           /\ acked' = [acked EXCEPT ![s] = Append(@, item)]
           /\ UNCHANGED faults
  <2> DEFINE f == log'[s]
             held == Append(store.items, item)
  <2>1. /\ Appended(file, item, "none", f) /\ Grows(file, f) /\ log' = [log EXCEPT ![s] = f]
        /\ f \in File /\ f # NoFile /\ Torn(f) /\ KeptIn(f, acked[s])
    BY <1>6, <1>8 DEF Appends
  <2>2. Clean(f) => file.end = "newline" /\ f.lines = Append(file.lines, item) /\ Clean(file)
    BY <2>1 DEF Appended
  <2>3. /\ held \in Seq(Item) /\ Len(held) = Len(store.items) + 1
        /\ \A k \in 1 .. Len(store.items) : held[k] = store.items[k]
        /\ held[Len(store.items) + 1] = item
    BY <1>2, <1>5
  <2>4. file.lines \in Seq(Line) /\ item \in Line
    BY <1>3, <1>5 DEF File, Line
  <2>5. store' = [session |-> s, items |-> held, next_seq |-> store.next_seq + 1]
    BY <1>1, <1>8 DEF Pushed, Stores
  <2> HIDE DEF held, f
  <2>6. store' \in Stores /\ store'.session = s /\ store'.items = held
        /\ store'.next_seq = Len(held)
    BY <1>2, <1>3, <2>3, <2>5 DEF Stores, Numbered
  <2>7. Numbered(store')
    <3>1. ASSUME NEW n \in 1 .. Len(held)
          PROVE  /\ held[n].seq = n - 1 /\ held[n].session = s
                 /\ n > 1 => held[n].turn >= held[n-1].turn
      <4>1. CASE n \in 1 .. Len(store.items)
        <5>1. n > 1 => n - 1 \in 1 .. Len(store.items)
          BY <1>2, <4>1
        <5> QED
          BY <1>3, <2>3, <4>1, <5>1 DEF Numbered
      <4>2. CASE n = Len(store.items) + 1
        <5>1. n > 1 => n - 1 = Len(store.items) /\ n - 1 \in 1 .. Len(store.items)
                       /\ store.items # << >>
          BY <1>2, <4>2
        <5> QED
          BY <1>2, <1>4, <1>5, <2>3, <4>2, <5>1
      <4> QED
        BY <1>2, <2>3, <4>1, <4>2
    <3> QED
      BY <2>6, <3>1 DEF Numbered
  <2>8. Holds(f, held)
    <3>1. SUFFICES ASSUME Clean(f)
                   PROVE  /\ Len(held) <= Len(f.lines)
                          /\ \A k \in 1 .. Len(held) : f.lines[k] = held[k]
                          /\ f.end = "newline" => Len(f.lines) = Len(held)
      BY DEF Holds
    <3>2. /\ Len(file.lines) = Len(store.items)
          /\ \A k \in 1 .. Len(store.items) : file.lines[k] = store.items[k]
      BY <1>3, <2>2, <3>1 DEF Holds
    <3>3. /\ Len(f.lines) = Len(file.lines) + 1 /\ f.lines[Len(file.lines) + 1] = item
          /\ \A k \in 1 .. Len(file.lines) : f.lines[k] = file.lines[k]
      BY <2>2, <2>4, <3>1
    <3> QED
      BY <1>2, <2>3, <3>2, <3>3
  <2>9. KeptIn(f, Append(acked[s], item)) /\ Append(acked[s], item) \in Seq(Item)
    <3>1. acked[s] \in Seq(Item)
      BY <1>1, <1>2
    <3>2. SUFFICES ASSUME Clean(f), NEW n \in 1 .. Len(Append(acked[s], item))
                   PROVE  /\ Append(acked[s], item)[n].seq < Len(f.lines)
                          /\ f.lines[Append(acked[s], item)[n].seq + 1] = Append(acked[s], item)[n]
      BY <1>5, <3>1 DEF KeptIn
    <3>3. CASE n \in 1 .. Len(acked[s])
      <4>1. Append(acked[s], item)[n] = acked[s][n]
        BY <1>5, <3>1, <3>3
      <4> QED
        BY <2>1, <3>2, <3>3, <4>1 DEF KeptIn
    <3>4. CASE n = Len(acked[s]) + 1
      <4>1. Append(acked[s], item)[n] = item
        BY <1>5, <3>1, <3>4
      <4>2. Len(file.lines) = Len(store.items)
        BY <1>3, <2>2, <3>2 DEF Holds
      <4>3. Len(f.lines) = Len(store.items) + 1 /\ f.lines[Len(store.items) + 1] = item
        BY <2>2, <2>4, <3>2, <4>2
      <4> QED
        BY <1>2, <1>5, <4>1, <4>3
    <3> QED
      BY <1>5, <3>1, <3>2, <3>3, <3>4
  <2>10. acked' = [acked EXCEPT ![s] = Append(acked[s], item)]
    BY <1>8
  <2>11. log'[s] # NoFile /\ log'[store'.session] # NoFile /\ Holds(log'[store'.session], store'.items)
    BY <2>1, <2>6, <2>8 DEF f
  <2>12. Grows(log[s], f)
    BY <2>1 DEF file
  <2> QED
    BY <1>1, <1>2, <1>7, <1>8, <2>1, <2>6, <2>7, <2>9, <2>10, <2>11, <2>12, LogStep
<1>9. ASSUME NEW fault \in Faulty({"open", "cut", "no_newline", "unacked"}),
             NEW survives \in Survives(fault),
             log' = [log EXCEPT ![s] = append_line(@, item, fault)],
             store' = IF survives THEN RolledBack(item) ELSE Closed,
             Spend, UNCHANGED acked
      PROVE  StoreInv'
  <2> DEFINE f == log'[s]
  <2>1. fault \in {"open", "cut", "no_newline", "unacked"} /\ fault \in Appends
    BY DEF Faulty, Appends
  <2>2. /\ Appended(file, item, fault, f) /\ Grows(file, f) /\ log' = [log EXCEPT ![s] = f]
        /\ f \in File /\ f # NoFile /\ Torn(f) /\ KeptIn(f, acked[s])
    BY <1>6, <1>9, <2>1
  <2>3. acked' = [acked EXCEPT ![s] = acked[s]] /\ acked[s] \in Seq(Item)
    BY <1>1, <1>2, <1>9
  <2>4. faults' \in 0 .. MaxFaults
    BY <1>1, <1>9, BoundsAreNumbers DEF Spend, Faulty
  <2>5. Grows(log[s], f)
    BY <2>2 DEF file
  <2>6. store' = store => Holds(f, store.items)
    <3>1. SUFFICES ASSUME store' = store, Clean(f)
                   PROVE  /\ Len(store.items) <= Len(f.lines)
                          /\ \A k \in 1 .. Len(store.items) : f.lines[k] = store.items[k]
                          /\ f.end = "newline" => Len(f.lines) = Len(store.items)
      BY DEF Holds
    <3>2. fault # "unacked"
      BY <1>1, <1>9, <3>1 DEF Survives
    <3>3. CASE f = file
      BY <1>3, <3>1, <3>3 DEF Holds
    <3>4. CASE f # file
      <4>1. f.end # "newline" /\ file.end = "newline" /\ f.lines = Append(file.lines, item)
        BY <2>1, <2>2, <3>1, <3>2, <3>4 DEF Appended
      <4>2. Clean(file)
        BY <2>2, <3>1 DEF Appended
      <4>3. /\ Len(file.lines) = Len(store.items)
            /\ \A k \in 1 .. Len(store.items) : file.lines[k] = store.items[k]
        BY <1>3, <4>1, <4>2 DEF Holds
      <4>4. file.lines \in Seq(Line) /\ item \in Line
        BY <1>3, <1>5 DEF File, Line
      <4>5. /\ Len(f.lines) = Len(file.lines) + 1
            /\ \A k \in 1 .. Len(file.lines) : f.lines[k] = file.lines[k]
        BY <4>1, <4>4
      <4> QED
        BY <1>2, <4>1, <4>3, <4>5
    <3> QED
      BY <3>3, <3>4
  <2>7. \/ store' = Closed
        \/ /\ store' \in Stores /\ Numbered(store')
           /\ log'[store'.session] # NoFile /\ Holds(log'[store'.session], store'.items)
    <3>1. store' = Closed \/ store' = store
      BY <1>9 DEF RolledBack
    <3>2. store' = store => store'.session = s /\ store'.items = store.items
      OBVIOUS
    <3> QED
      BY <1>1, <1>3, <2>2, <2>6, <3>1, <3>2
  <2>8. copied' = copied
    BY <1>1
  <2> HIDE DEF f
  <2>9. UNCHANGED copied /\ (f = NoFile => acked[s] = << >>) /\ (f # NoFile => Torn(f))
    BY <1>1, <2>2
  <2> QED
    BY <1>2, <1>7, <2>2, <2>3, <2>4, <2>5, <2>7, <2>8, <2>9, LogStep
<1> QED
  BY <1>8, <1>9 DEF commit_item, item

(* SessionStore::fork_at over FileSessionStore::fork.                      *)
LEMMA ForkStep ==
    ASSUME StoreInv, NEW child \in SessionIds, NEW b \in 1 .. MaxItems, fork(child, b)
    PROVE  StoreInv'
<1> DEFINE head == [parent |-> store.session, seed_len |-> b]
           copy == Rebased(SubSeq(store.items, 1, b), child)
           Done(n) == [lines |-> SubSeq(copy, 1, n), end |-> "newline"]
           parent == log[store.session]
<1>1. /\ header \in [SessionIds -> Heads] /\ log \in [SessionIds -> File \union {NoFile}]
      /\ acked \in [SessionIds -> Seq(Item)] /\ faults \in 0 .. MaxFaults
      /\ store # Closed /\ store \in Stores /\ b \in 1 .. Len(store.items)
      /\ header[child] = NoFile /\ log[child] = NoFile /\ acked[child] = << >>
  BY DEF StoreInv, TypeOK, Heads, Stores, Files, fork, Fresh
<1>2. /\ store.session \in SessionIds \ {child} /\ store.items \in Seq(Item)
      /\ Len(store.items) \in Nat /\ b \in Nat
      /\ parent # NoFile /\ parent \in File /\ Holds(parent, store.items) /\ Numbered(store)
  BY <1>1 DEF StoreInv, Owner, OwnerNumbersItems, Numbered, Stores
<1>3. /\ copy \in Seq(Item) /\ Len(copy) = b
      /\ \A k \in 1 .. b :
           /\ copy[k].seq = k - 1 /\ copy[k].session = child
           /\ copy[k].turn = store.items[k].turn /\ copy[k].payload = store.items[k].payload
      /\ SubSeq(copy, 1, b) = copy
      /\ \A n \in 0 .. b - 1 :
           /\ SubSeq(copy, 1, n) \in Seq(Item) /\ Len(SubSeq(copy, 1, n)) = n
           /\ copy[n + 1] \in Item
  <2>1. b <= MaxItems
    BY BoundsAreNumbers
  <2> QED
    BY <1>1, <1>2, <2>1, RebasedItems
<1> HIDE DEF copy
<1>4. \A items \in Seq(Item) : items \in Seq(Line) /\ \A n \in 1 .. Len(items) : items[n] # Garbage
  BY SentinelsAreNone DEF Line
<1>5. /\ head \in Heads /\ NoFile \in Heads /\ Garbage \in Heads
      /\ head.parent = store.session /\ head.seed_len = b
  BY <1>2 DEF Heads
<1> HIDE DEF head
<1>6. CASE /\ header' = [header EXCEPT ![child] = head]
           /\ log' = [log EXCEPT ![child] = Done(b)]
           /\ acked' = [acked EXCEPT ![child] = copy]
           /\ copied' = copied \union {child}
           /\ store' \in {store, Opened(child, copy)}
           /\ UNCHANGED faults
  <2> DEFINE f == Done(b)
  <2>1. f = [lines |-> copy, end |-> "newline"] /\ f \in File
    BY <1>3, <1>4, WholeFile
  <2>2. f.lines = copy /\ f.end = "newline" /\ f # NoFile /\ log' = [log EXCEPT ![child] = f]
    BY <1>6, <2>1, SentinelsAreNone
  <2> HIDE DEF f
  <2>3. Torn(f) /\ Grows(log[child], f) /\ Holds(f, copy)
    BY <1>1, <1>3, <2>2 DEF Torn, Grows, Holds
  <2>4. KeptIn(f, copy)
    <3>1. \A n \in 1 .. Len(copy) : copy[n].seq = n - 1 /\ n - 1 < Len(copy) /\ n - 1 + 1 = n
      BY <1>2, <1>3
    <3>2. \A n \in 1 .. Len(copy) : copy[n].seq < Len(copy) /\ copy[copy[n].seq + 1] = copy[n]
      BY <3>1
    <3> QED
      BY <2>2, <3>2 DEF KeptIn
  <2>5. Agree(f, parent, b)
    <3>1. SUFFICES ASSUME Clean(parent)
                   PROVE  /\ b <= Len(parent.lines) /\ b <= Len(f.lines)
                          /\ \A k \in 1 .. b :
                                /\ f.lines[k].turn = parent.lines[k].turn
                                /\ f.lines[k].payload = parent.lines[k].payload
      BY DEF Agree
    <3>2. /\ Len(store.items) <= Len(parent.lines)
          /\ \A k \in 1 .. Len(store.items) : parent.lines[k] = store.items[k]
      BY <1>2, <3>1 DEF Holds
    <3>3. Len(parent.lines) \in Nat
      BY <1>2 DEF File
    <3>4. b <= Len(parent.lines) /\ b <= Len(f.lines)
      BY <1>1, <1>2, <1>3, <2>2, <3>2, <3>3
    <3>5. \A k \in 1 .. b : k \in 1 .. Len(store.items)
      BY <1>1, <1>2
    <3>6. \A k \in 1 .. b : parent.lines[k] = store.items[k] /\ f.lines[k] = copy[k]
      BY <2>2, <3>2, <3>5
    <3> QED
      BY <1>3, <3>4, <3>6
  <2>6. store' = store \/ store' = [session |-> child, items |-> copy, next_seq |-> Len(copy)]
    BY <1>6 DEF Opened
  <2>7. store' = [session |-> child, items |-> copy, next_seq |-> Len(copy)] =>
          store' \in Stores /\ store'.session = child /\ store'.items = copy /\ Numbered(store')
    <3>1. SUFFICES ASSUME store' = [session |-> child, items |-> copy, next_seq |-> Len(copy)]
                   PROVE  store' \in Stores /\ Numbered(store')
      OBVIOUS
    <3>2. store' \in Stores /\ store'.session = child /\ store'.items = copy
          /\ store'.next_seq = Len(copy)
      BY <1>3, <3>1 DEF Stores
    <3>3. \A n \in 1 .. Len(copy) :
            /\ copy[n].seq = n - 1 /\ copy[n].session = child
            /\ n > 1 => copy[n].turn >= copy[n-1].turn
      <4>1. TAKE n \in 1 .. Len(copy)
      <4>2. n \in 1 .. Len(store.items) /\ n \in 1 .. b
        BY <1>1, <1>2, <1>3
      <4>3. n > 1 => /\ n - 1 \in 1 .. b
                     /\ store.items[n].turn >= store.items[n-1].turn
        BY <1>2, <4>2 DEF Numbered
      <4> QED
        BY <1>3, <4>2, <4>3
    <3> QED
      BY <3>2, <3>3 DEF Numbered
  <2>8. log'[child] = f
    BY <1>1, <2>2
  <2>9. \/ store' = store /\ (store # Closed => store.session # child)
        \/ /\ store' \in Stores /\ Numbered(store')
           /\ log'[store'.session] # NoFile /\ Holds(log'[store'.session], store'.items)
    BY <1>2, <2>2, <2>3, <2>6, <2>7, <2>8
  <2>10. /\ copied' = copied \union {child} /\ f # NoFile
         /\ head.parent \in SessionIds \ {child} /\ head.seed_len \in Nat
         /\ log[head.parent] # NoFile /\ Agree(f, log[head.parent], head.seed_len)
    BY <1>2, <1>5, <1>6, <2>2, <2>5
  <2>11. header' = [header EXCEPT ![child] = head] /\ acked' = [acked EXCEPT ![child] = copy]
         /\ faults' \in 0 .. MaxFaults /\ f \in File \union {NoFile}
    BY <1>1, <1>6, <2>1 DEF f
  <2> QED
    BY <1>1, <1>3, <1>5, <2>2, <2>3, <2>4, <2>9, <2>10, <2>11, LogStep
<1>7. acked = [acked EXCEPT ![child] = << >>] /\ << >> \in Seq(Item)
  BY <1>1
<1>8. ASSUME NEW fault \in Faulty({"open", "no_log", "cut_header"}),
             CreateFails(child, head, fault), Spend, store' \in {store, Closed},
             UNCHANGED <<acked, copied>>
      PROVE  StoreInv'
  <2>1. \E h \in Heads : header' = [header EXCEPT ![child] = h]
    BY <1>5, <1>8 DEF CreateFails
  <2>2. log' = [log EXCEPT ![child] = NoFile]
    BY <1>1, <1>8 DEF CreateFails
  <2>3. faults' \in 0 .. MaxFaults
    BY <1>1, <1>8, BoundsAreNumbers DEF Spend, Faulty
  <2>4. KeptIn(NoFile, << >>) /\ Grows(log[child], NoFile)
    BY <1>1 DEF KeptIn, Grows
  <2> QED
    BY <1>1, <1>2, <1>7, <1>8, <2>1, <2>2, <2>3, <2>4, LogStep
<1>9. ASSUME NEW n \in 0 .. b-1, NEW fault \in Faulty({"open", "cut", "no_newline", "unacked"}),
             NEW survives \in Survives(fault),
             header' = [header EXCEPT ![child] = head],
             log' = [log EXCEPT ![child] = append_line(Done(n), copy[n+1], fault)],
             store' = IF survives THEN store ELSE Closed,
             Spend, UNCHANGED <<acked, copied>>
      PROVE  StoreInv'
  <2> DEFINE done == Done(n)
             f == append_line(done, copy[n+1], fault)
  <2>1. done \in File /\ Torn(done)
    BY <1>3, <1>4, WholeFile DEF Torn
  <2>2. fault \in Appends
    BY DEF Faulty, Appends
  <2> HIDE DEF done
  <2>3. Appended(done, copy[n+1], fault, f)
    BY <1>3, <2>1, <2>2, AppendLine
  <2>4. log' = [log EXCEPT ![child] = f]
    BY <1>9 DEF done
  <2> HIDE DEF f
  <2>5. f \in File /\ f # NoFile /\ Torn(f)
    BY <2>3, SentinelsAreNone DEF Appended
  <2>6. KeptIn(f, << >>) /\ Grows(log[child], f)
    BY <1>1 DEF KeptIn, Grows
  <2>7. faults' \in 0 .. MaxFaults
    BY <1>1, <1>9, BoundsAreNumbers DEF Spend, Faulty
  <2>8. store' = Closed \/ (store' = store /\ (store # Closed => store.session # child))
    BY <1>2, <1>9
  <2>9. acked' = [acked EXCEPT ![child] = << >>] /\ copied' = copied
    BY <1>7, <1>9
  <2> QED
    BY <1>1, <1>5, <1>7, <1>9, <2>4, <2>5, <2>6, <2>7, <2>8, <2>9, LogStep
<1> QED
  BY <1>6, <1>8, <1>9 DEF fork, copy, head

-----------------------------------------------------------------------------
(* The inductive invariant and what follows from it.                       *)
LEMMA StoreInvInit == Init => StoreInv
<1>1. SUFFICES ASSUME Init PROVE StoreInv
  OBVIOUS
<1>2. /\ store = Closed /\ copied = {} /\ faults = 0
      /\ \A s \in SessionIds : header[s] = NoFile /\ log[s] = NoFile /\ acked[s] = << >>
  BY <1>1 DEF Init
<1>3. TypeOK
  <2>1. header \in [SessionIds -> Heads]
    BY <1>1 DEF Init, Heads
  <2>2. log \in [SessionIds -> File \union {NoFile}]
    BY <1>1 DEF Init
  <2>3. acked \in [SessionIds -> Seq(Item)]
    <3>1. << >> \in Seq(Item)
      OBVIOUS
    <3> QED
      BY <1>1, <3>1 DEF Init
  <2> QED
    BY <1>2, <2>1, <2>2, <2>3, BoundsAreNumbers DEF TypeOK, Heads
<1>4. Files /\ OwnerNumbersItems /\ Owner /\ Kept /\ Forked
  BY <1>2 DEF Files, OwnerNumbersItems, Owner, Kept, KeptIn, Forked
<1> QED
  BY <1>3, <1>4 DEF StoreInv

LEMMA StoreInvStep == StoreInv /\ [Next]_vars => StoreInv'
<1>1. SUFFICES ASSUME StoreInv, [Next]_vars PROVE StoreInv'
  OBVIOUS
<1>2. CASE UNCHANGED vars
  BY <1>1, <1>2 DEF vars, StoreInv, TypeOK, Files, OwnerNumbersItems, Owner, Kept, Forked, Lines
<1>3. ASSUME NEW s \in SessionIds, create(s) PROVE StoreInv'
  BY <1>1, <1>3, CreateStep
<1>4. ASSUME NEW s \in SessionIds, load(s) PROVE StoreInv'
  BY <1>1, <1>4, LoadStep
<1>5. ASSUME NEW draft \in Drafts, commit_item(draft) PROVE StoreInv'
  BY <1>1, <1>5, CommitStep
<1>6. ASSUME NEW child \in SessionIds, NEW b \in 1 .. MaxItems, fork(child, b) PROVE StoreInv'
  BY <1>1, <1>6, ForkStep
<1>7. CASE Drop
  BY <1>1, <1>7, DropStep
<1> QED
  BY <1>1, <1>2, <1>3, <1>4, <1>5, <1>6, <1>7 DEF Next

LEMMA StoreInvariant == Spec => []StoreInv
  BY StoreInvInit, StoreInvStep, PTL DEF Spec

(* Files, writers and answers keep their types, whatever append_line and   *)
(* its recovery leave at the end of a file.                                *)
THEOREM StoreTypes == Spec => []TypeOK
<1>1. StoreInv => TypeOK
  BY DEF StoreInv
<1> QED
  BY <1>1, StoreInvariant, PTL

(* The owner's items are numbered from 0 without a gap, name its session,  *)
(* and their Turn numbers never go back, whatever commits failed and were  *)
(* rolled back (commit_item, load, fork_at).                               *)
THEOREM OwnerNumbers == Spec => []OwnerNumbersItems
<1>1. StoreInv => OwnerNumbersItems
  BY DEF StoreInv
<1> QED
  BY <1>1, StoreInvariant, PTL

(* A log that load accepts parses: a stray line makes the load fail.       *)
LEMMA ReadsBackIsClean ==
    ASSUME NEW s \in SessionIds, ReadsBack(s)
    PROVE  log[s] # NoFile /\ Clean(log[s])
  BY DEF ReadsBack, Clean, Lines

(* A load that succeeds holds every item whose commit was reported done,   *)
(* each in its place, whatever faults append_line met before.              *)
THEOREM LoadKeeps == Spec => []LoadNeverLosesAckedItems
<1>1. StoreInv => LoadNeverLosesAckedItems
  BY ReadsBackIsClean DEF StoreInv, Kept, KeptIn, LoadNeverLosesAckedItems, session_ids, Lines
<1> QED
  BY <1>1, StoreInvariant, PTL

(* A fork that was reported done starts with the prefix it was asked for,  *)
(* and keeps it whatever its parent and it commit later.                   *)
THEOREM ForkPrefix == Spec => []ForkKeepsPrefix
<1>1. ASSUME StoreInv PROVE ForkKeepsPrefix
  <2>1. SUFFICES ASSUME NEW child \in copied, ReadsBack(child), ReadsBack(header[child].parent)
                 PROVE  LET parent == header[child].parent
                            n == header[child].seed_len
                        IN /\ n <= Len(Lines(parent)) /\ n <= Len(Lines(child))
                           /\ \A k \in 1 .. n :
                                 /\ Lines(child)[k].turn = Lines(parent)[k].turn
                                 /\ Lines(child)[k].payload = Lines(parent)[k].payload
    BY DEF ForkKeepsPrefix
  <2>2. child \in SessionIds /\ header[child].parent \in SessionIds
        /\ Agree(log[child], log[header[child].parent], header[child].seed_len)
    BY <1>1 DEF StoreInv, TypeOK, Forked
  <2>3. Clean(log[child]) /\ Clean(log[header[child].parent])
    BY <2>1, <2>2, ReadsBackIsClean
  <2> QED
    BY <2>2, <2>3 DEF Agree, Lines
<1> QED
  BY <1>1, StoreInvariant, PTL

-----------------------------------------------------------------------------
(* The refinement: what happens to the watched session's log.              *)

LEMMA CommitAppends ==
    ASSUME StoreInv, NEW draft \in Drafts, commit_item(draft)
    PROVE  /\ store # Closed /\ store.session \in SessionIds /\ log[store.session] \in File
           /\ \E item \in Item, fault \in Appends :
                /\ Appended(log[store.session], item, fault, log'[store.session])
                /\ log' = [log EXCEPT ![store.session] = log'[store.session]]
<1> DEFINE s == store.session
           item == [seq |-> store.next_seq, session |-> s, turn |-> draft.turn,
                    payload |-> draft.payload]
<1>1. /\ store # Closed /\ store \in Stores /\ Len(store.items) < MaxItems
      /\ log \in [SessionIds -> File \union {NoFile}] /\ Numbered(store)
  BY DEF StoreInv, TypeOK, Stores, OwnerNumbersItems, Numbered, commit_item
<1>2. s \in SessionIds /\ Len(store.items) \in Nat
  BY <1>1 DEF Stores
<1>3. log[s] \in File /\ Torn(log[s])
  BY <1>1, <1>2 DEF StoreInv, Files, Owner
<1>4. item \in Item
  <2>1. store.next_seq \in 0 .. MaxItems
    BY <1>1, <1>2, BoundsAreNumbers DEF Numbered
  <2>2. draft.turn \in 0 .. MaxTurn /\ draft.payload \in Payloads
    BY DEF Drafts, commit_item, validate_draft
  <2> QED
    BY <1>2, <2>1, <2>2 DEF Item
<1> HIDE DEF item
<1>5. \E fault \in Appends : log' = [log EXCEPT ![s] = append_line(@, item, fault)]
  BY DEF commit_item, item, Faulty, Appends
<1>6. PICK fault \in Appends : log' = [log EXCEPT ![s] = append_line(@, item, fault)]
  BY <1>5
<1>7. log'[s] = append_line(log[s], item, fault) /\ log' = [log EXCEPT ![s] = log'[s]]
  BY <1>1, <1>2, <1>6
<1>8. Appended(log[s], item, fault, log'[s])
  BY <1>3, <1>4, <1>7, AppendLine
<1> QED
  BY <1>1, <1>2, <1>3, <1>4, <1>7, <1>8

LEMMA WatchedIsSession == Watched \in SessionIds
  BY SentinelsAreNone DEF Watched

(* What the watched session shows: its lines as long as they are whole.    *)
Seen ==
    /\ log[Watched] \in File \union {NoFile}
    /\ Whole(Watched) <=>
         log[Watched] # NoFile /\ log[Watched].end = "newline" /\ Clean(log[Watched])
    /\ log[Watched] = NoFile => Visible = << >>
    /\ Whole(Watched) => Visible = log[Watched].lines /\ Visible \in Seq(Item)
    /\ log[Watched] # NoFile /\ ~ Whole(Watched) => Visible = Garbage
    /\ Visible \in Seq(Item) \/ Visible = Garbage
    /\ Held \in BOOLEAN
    /\ Held => Whole(Watched) /\ store.items = Visible
    /\ Held <=> store # Closed /\ store.session = Watched /\ Whole(Watched)

LEMMA WhatIsVisible == StoreInv => Seen
<1> SUFFICES ASSUME StoreInv PROVE Seen
  OBVIOUS
<1>1. log[Watched] \in File \union {NoFile}
  BY WatchedIsSession DEF StoreInv, TypeOK
<1>2. Whole(Watched) <=>
        log[Watched] # NoFile /\ log[Watched].end = "newline" /\ Clean(log[Watched])
  BY DEF Whole, Clean, Lines
<1>3. log[Watched] # NoFile => log[Watched].lines \in Seq(Line)
  BY <1>1 DEF File
<1>4. Whole(Watched) => log[Watched].lines \in Seq(Item)
  BY <1>2, <1>3, CleanItems DEF Clean
<1>5. << >> \in Seq(Item)
  OBVIOUS
<1>6. /\ log[Watched] = NoFile => Visible = << >>
      /\ Whole(Watched) => Visible = log[Watched].lines
      /\ log[Watched] # NoFile /\ ~ Whole(Watched) => Visible = Garbage
  BY <1>2 DEF Visible, Lines
<1>7. Held <=> store # Closed /\ store.session = Watched /\ Whole(Watched)
  BY <1>2 DEF StoreInv, Owner, Held, Sound
<1>8. Held => store.items = log[Watched].lines
  <2>1. SUFFICES ASSUME Held PROVE store.items = log[Watched].lines
    OBVIOUS
  <2>2. store.items \in Seq(Item) /\ Holds(log[Watched], store.items)
    BY <1>7, <2>1 DEF StoreInv, TypeOK, Owner
  <2>3. /\ Len(log[Watched].lines) = Len(store.items)
        /\ \A k \in 1 .. Len(store.items) : log[Watched].lines[k] = store.items[k]
    BY <1>2, <1>7, <2>1, <2>2 DEF Holds
  <2> HIDE DEF Held
  <2>4. log[Watched].lines \in Seq(Item)
    BY <1>4, <1>7, <2>1
  <2> QED
    BY <2>2, <2>3, <2>4
<1>9. Held \in BOOLEAN
  BY DEF Held, Sound, Whole
<1> QED
  BY <1>1, <1>2, <1>4, <1>5, <1>6, <1>7, <1>8, <1>9 DEF Seen

Shown ==
    /\ View = IF Held THEN Visible ELSE << >>
    /\ Held \in BOOLEAN
    /\ Held => Visible # Garbage

LEMMA WhatIsShown == StoreInv => Shown
<1>1. Garbage \notin Seq(Item)
  BY SentinelsAreNone DEF Line
<1> QED
  BY <1>1, WhatIsVisible DEF Seen, Shown, View

(* A step leaves what the watched session shows, damages it for good, adds *)
(* an item to it, or fills it while it is empty.                           *)
LEMMA VisibleStep ==
    ASSUME StoreInv, StoreInv', [Next]_vars
    PROVE  \/ Visible' = Visible
           \/ Visible' = Garbage
           \/ Held /\ \E item \in Item : Visible' = Append(Visible, item)
           \/ Visible = << >> /\ ~ Held /\ Visible' \in Seq(Item)
<1> DEFINE now == log[Watched]
           then == log'[Watched]
<1>1. /\ Whole(Watched) <=> now # NoFile /\ now.end = "newline" /\ Clean(now)
      /\ now = NoFile => Visible = << >>
      /\ Whole(Watched) => Visible = now.lines
      /\ now # NoFile /\ ~ Whole(Watched) => Visible = Garbage
      /\ Held <=> store # Closed /\ store.session = Watched /\ Whole(Watched)
      /\ Visible \in Seq(Item) \/ Visible = Garbage
  BY WhatIsVisible DEF Seen
<1>2. /\ Whole(Watched)' <=> then # NoFile /\ then.end = "newline" /\ Clean(then)
      /\ then = NoFile => Visible' = << >>
      /\ Whole(Watched)' => Visible' = then.lines /\ Visible' \in Seq(Item)
      /\ then # NoFile /\ ~ Whole(Watched)' => Visible' = Garbage
  <2>1. Seen'
    BY WhatIsVisible, PTL
  <2> QED
    BY <2>1 DEF Seen
<1>3. log \in [SessionIds -> File \union {NoFile}] /\ Watched \in SessionIds
  BY WatchedIsSession DEF StoreInv, TypeOK
<1>4. ASSUME then = now PROVE Visible' = Visible
  BY <1>1, <1>2, <1>4
<1>5. ASSUME now = NoFile, then # NoFile
      PROVE  Visible' = Garbage \/ (Visible = << >> /\ ~ Held /\ Visible' \in Seq(Item))
  <2>1. Visible = << >> /\ ~ Held
    BY <1>1, <1>5
  <2>2. CASE Whole(Watched)'
    BY <1>2, <2>1, <2>2
  <2>3. CASE ~ Whole(Watched)'
    BY <1>2, <1>5, <2>3
  <2> QED
    BY <2>2, <2>3
<1>6. ASSUME NEW s \in SessionIds, Fresh(s), NEW f, log' = [log EXCEPT ![s] = f] \/ log' = log
      PROVE  then = now \/ now = NoFile
  BY <1>3, <1>6 DEF Fresh
<1>7. ASSUME NEW draft \in Drafts, commit_item(draft)
      PROVE  \/ Visible' = Visible
             \/ Visible' = Garbage
             \/ Held /\ \E item \in Item : Visible' = Append(Visible, item)
  <2>1. /\ store # Closed /\ store.session \in SessionIds /\ log[store.session] \in File
        /\ \E item \in Item, fault \in Appends :
             /\ Appended(log[store.session], item, fault, log'[store.session])
             /\ log' = [log EXCEPT ![store.session] = log'[store.session]]
    BY <1>7, CommitAppends
  <2>2. PICK item \in Item, fault \in Appends :
          /\ Appended(log[store.session], item, fault, log'[store.session])
          /\ log' = [log EXCEPT ![store.session] = log'[store.session]]
    BY <2>1
  <2>3. CASE store.session # Watched
    BY <1>3, <1>4, <2>2, <2>3
  <2>4. CASE store.session = Watched
    <3>1. Appended(now, item, fault, then) /\ now \in File /\ now # NoFile
      BY <2>1, <2>2, <2>4, SentinelsAreNone
    <3>2. then # NoFile
      BY <3>1, SentinelsAreNone DEF Appended
    <3>3. CASE ~ Whole(Watched)'
      BY <1>2, <3>2, <3>3
    <3>4. CASE Whole(Watched)'
      <4>1. now.end = "newline" /\ Clean(now) /\ (then = now \/ then.lines = Append(now.lines, item))
        BY <1>2, <3>1, <3>4 DEF Appended
      <4> QED
        BY <1>1, <1>2, <1>4, <2>1, <2>4, <3>1, <3>4, <4>1
    <3> QED
      BY <3>3, <3>4
  <2> QED
    BY <2>3, <2>4
<1>8. ASSUME NEW s \in SessionIds, create(s) PROVE then = now \/ now = NoFile
  <2>1. Fresh(s) /\ \E f : log' = [log EXCEPT ![s] = f] \/ log' = log
    BY <1>8 DEF create, Created, CreateFails
  <2> QED
    BY <1>6, <2>1
<1>9. ASSUME NEW s \in SessionIds, load(s) PROVE then = now
  BY <1>9 DEF load
<1>10. ASSUME NEW child \in SessionIds, NEW b \in 1 .. MaxItems, fork(child, b)
       PROVE  then = now \/ now = NoFile
  <2>1. Fresh(child) /\ \E f : log' = [log EXCEPT ![child] = f] \/ log' = log
    BY <1>10 DEF fork, CreateFails
  <2> QED
    BY <1>6, <2>1
<1>11. Drop => then = now
  BY DEF Drop
<1>12. UNCHANGED vars => then = now
  BY DEF vars
<1> QED
  BY <1>4, <1>5, <1>7, <1>8, <1>9, <1>10, <1>11, <1>12 DEF Next

(* A session as its one writer sees it is the abstract durable log: what   *)
(* was appended stays and is what a writer opens, until a line is torn     *)
(* (create, load, commit_item and fork_at against append, open and seed).  *)
THEOREM Refines == Spec => ImplementsDurableLog
<1>1. Init => Abstract!Init
  <2>1. SUFFICES ASSUME Init PROVE Abstract!Init
    OBVIOUS
  <2>2. log[Watched] = NoFile /\ store = Closed
    BY <2>1, WatchedIsSession DEF Init
  <2>3. Visible = << >> /\ Held = FALSE /\ View = << >>
    BY <2>2 DEF Visible, Held, View
  <2> QED
    BY <2>3 DEF Abstract!Init
<1>2. StoreInv /\ StoreInv' /\ [Next]_vars => [Abstract!Next]_(Abstract!vars)
  <2>1. SUFFICES ASSUME StoreInv, StoreInv', [Next]_vars
                 PROVE  Abstract!Next \/ UNCHANGED <<Visible, View, Held>>
    BY DEF Abstract!vars
  <2>2. /\ View = IF Held THEN Visible ELSE << >>
        /\ Held \in BOOLEAN
    BY <2>1, WhatIsShown DEF Shown
  <2>3. /\ View' = IF Held' THEN Visible' ELSE << >>
        /\ Held' \in BOOLEAN
        /\ Held' => Visible' # Garbage
    <3>1. Shown'
      BY <2>1, WhatIsShown, PTL
    <3> QED
      BY <3>1 DEF Shown
  <2>4. CASE Visible' = Visible
    BY <2>2, <2>3, <2>4 DEF Abstract!Next, Abstract!Open, Abstract!Close
  <2>5. CASE Visible' = Garbage
    BY <2>3, <2>5 DEF Abstract!Next, Abstract!Damage
  <2>6. CASE Held /\ \E item \in Item : Visible' = Append(Visible, item)
    BY <2>3, <2>6 DEF Abstract!Next, Abstract!AppendValue
  <2>7. CASE Visible = << >> /\ ~ Held /\ Visible' \in Seq(Item)
    BY <2>3, <2>7 DEF Abstract!Next, Abstract!Seed
  <2> QED
    BY <2>1, <2>4, <2>5, <2>6, <2>7, VisibleStep
<1> QED
  BY <1>1, <1>2, StoreInvariant, PTL DEF Spec, ImplementsDurableLog, Abstract!Spec

=============================================================================
