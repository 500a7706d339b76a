---------------------------- MODULE SessionStore ----------------------------
(***************************************************************************)
(* SessionStore over FileSessionStore (agent-core, session/): one process  *)
(* that creates, loads, appends to and forks sessions kept as two files, a *)
(* header and a log with one item per line, under storage faults and under *)
(* the death of the process between two writes.                            *)
(*                                                                         *)
(* A log file is the sequence of its lines. A line is an item or Garbage,  *)
(* bytes that do not parse; `end` tells what follows the last newline:     *)
(* "newline" nothing, "item" a whole item whose newline is missing, "cut"  *)
(* part of one. append_line writes the line and the newline in two calls   *)
(* and never looks at what the file ends with, so the next line is glued   *)
(* to whatever an earlier fault left there.                                *)
(***************************************************************************)
EXTENDS Naturals, Sequences

CONSTANTS
    SessionIds,   \* session ids the process may draw (UUIDs in the code)
    Payloads,     \* the contents of items
    Bad,          \* a payload validate_draft refuses
    Faults,       \* the storage faults considered, a subset of FaultKinds
    Garbage, NoFile, Closed, NoParent,
    MaxItems, MaxTurn, MaxFaults   \* bounds

FaultKinds ==
    {"open",        \* nothing written: the open or the first write fails
     "cut",         \* part of the line written
     "no_newline",  \* the line written, its newline not
     "no_log",      \* create: the header written, the log file not
     "cut_header",  \* create: part of the header written
     "unacked"}     \* all written, and the process dies before it returns

ASSUME FaultsAreKnown == Faults \subseteq FaultKinds

ASSUME BoundsAreNumbers == {MaxItems, MaxTurn, MaxFaults} \subseteq Nat

Item == [seq : 0 .. MaxItems, session : SessionIds, turn : 0 .. MaxTurn, payload : Payloads]
Line == Item \union {Garbage}
File == [lines : Seq(Line), end : {"newline", "item", "cut"}]

ASSUME SentinelsAreNone ==
    SessionIds # {} /\ Garbage \notin Item \union Seq(Line) /\ NoFile \notin File

VARIABLES
    header,  \* session -> its meta.json: parent and seed_len
    log,     \* session -> its log.jsonl
    store,   \* the SessionStore the process owns
    acked,   \* session -> the items whose commit or copy was reported done
    copied,  \* the sessions whose fork was reported done
    faults   \* storage faults so far

vars == <<header, log, store, acked, copied, faults>>

EmptyLog == [lines |-> << >>, end |-> "newline"]

Init ==
    /\ header = [s \in SessionIds |-> NoFile]
    /\ log    = [s \in SessionIds |-> NoFile]
    /\ acked  = [s \in SessionIds |-> << >>]
    /\ copied = {}
    /\ store  = Closed
    /\ faults = 0

-----------------------------------------------------------------------------
(* Writing one line.                                                       *)

Glue(file, line) ==
    IF file.end = "newline"
    THEN Append(file.lines, line)
    ELSE [file.lines EXCEPT ![Len(file.lines)] = Garbage]

(* Mutant: the file is opened without append(true).                        *)
append_line_truncating(file, item, fault) ==
    IF fault = "open" THEN file ELSE [lines |-> <<item>>, end |-> "newline"]

append_line(file, item, fault) ==
    CASE fault = "open" -> file
      [] fault = "cut" ->
            [lines |-> Glue(file, Garbage), end |-> "cut"]
      [] fault = "no_newline" ->
            [lines |-> Glue(file, item),
             end   |-> IF file.end = "newline" THEN "item" ELSE "cut"]
      [] OTHER -> [lines |-> Glue(file, item), end |-> "newline"]

(* A fault spends the budget; the process survives it or dies of it.       *)
Faulty(kinds) ==
    {f \in kinds \intersect Faults : faults < MaxFaults}

Spend == faults' = faults + 1

Survives(fault) == IF fault = "unacked" THEN {FALSE} ELSE BOOLEAN

-----------------------------------------------------------------------------
(* Reading a session back: every line must parse, seq must count up from 0, *)
(* every line must name the session, and Turn numbers must not go back.    *)

Lines(s) == log[s].lines

(* Mutant: lines that do not parse are tolerated.                          *)
ReadsBack_tolerant(s) == header[s] \notin {NoFile, Garbage} /\ log[s] # NoFile

ReadsBack(s) ==
    /\ header[s] \notin {NoFile, Garbage} /\ log[s] # NoFile
    /\ \A n \in 1 .. Len(Lines(s)) :
          /\ Lines(s)[n] # Garbage
          /\ Lines(s)[n].seq = n - 1
          /\ Lines(s)[n].session = s
          /\ n > 1 => Lines(s)[n].turn >= Lines(s)[n-1].turn

(* session_ids: a session is listed when both its files exist.             *)
session_ids == {s \in SessionIds : header[s] # NoFile /\ log[s] # NoFile}

-----------------------------------------------------------------------------
(* FileSessionStore::create: header first, then an empty log.              *)
Created(s, head) ==
    /\ header' = [header EXCEPT ![s] = head]
    /\ log' = [log EXCEPT ![s] = EmptyLog]

CreateFails(s, head, fault) ==
    /\ header' = [header EXCEPT ![s] =
                    CASE fault = "open" -> NoFile
                      [] fault = "cut_header" -> Garbage
                      [] OTHER -> head]
    /\ UNCHANGED log

Fresh(s) == header[s] = NoFile /\ log[s] = NoFile

Opened(s, contents) ==
    [session |-> s, items |-> contents, next_seq |-> Len(contents)]

create(s) ==
    /\ Fresh(s)
    /\ LET head == [parent |-> NoParent, seed_len |-> 0] IN
       \/ /\ Created(s, head)
          /\ store' = Opened(s, << >>) /\ UNCHANGED faults
       \/ \E fault \in Faulty({"open", "no_log", "cut_header"}) :
          /\ CreateFails(s, head, fault) /\ Spend
          /\ store' \in {store, Closed}
    /\ UNCHANGED <<acked, copied>>

(* SessionStore::load; a failed load leaves the caller what it had.        *)
load(s) ==
    /\ store' = IF ReadsBack(s) THEN Opened(s, Lines(s)) ELSE store
    /\ UNCHANGED <<header, log, acked, copied, faults>>

(* The owner drops the store, or its process dies between two operations.  *)
Drop == store # Closed /\ store' = Closed /\ UNCHANGED <<header, log, acked, copied, faults>>

-----------------------------------------------------------------------------
Drafts == [turn : 0 .. MaxTurn, payload : Payloads \union {Bad}]

(* Mutant: the Turn number is not looked at.                               *)
validate_draft_any_turn(draft, items) == draft.payload # Bad

validate_draft(draft, items) ==
    /\ draft.payload # Bad
    /\ items # << >> => draft.turn >= items[Len(items)].turn

Pushed(item) == [store EXCEPT !.items = Append(@, item), !.next_seq = @ + 1]

RolledBack(item) == store

(* push, then append to the file, and on an error pop and count back.      *)
commit_item(draft) ==
    /\ store # Closed /\ Len(store.items) < MaxItems
    /\ validate_draft(draft, store.items)
    /\ LET s    == store.session
           item == [seq |-> store.next_seq, session |-> s, turn |-> draft.turn,
                    payload |-> draft.payload]
       IN \/ /\ log' = [log EXCEPT ![s] = append_line(@, item, "none")]
             /\ store' = Pushed(item)
             /\ acked' = [acked EXCEPT ![s] = Append(@, item)]
             /\ UNCHANGED faults
          \/ \E fault \in Faulty({"open", "cut", "no_newline", "unacked"}) :
             \E survives \in Survives(fault) :
             /\ log' = [log EXCEPT ![s] = append_line(@, item, fault)]
             /\ store' = IF survives THEN RolledBack(item) ELSE Closed
             /\ Spend /\ UNCHANGED acked
    /\ UNCHANGED <<header, copied>>

-----------------------------------------------------------------------------
(* fork: the prefix up to a boundary, the last item of its Turn, is copied *)
(* line by line into a new session; an error leaves the copy half done.    *)

IsBoundary(items, b) == \A n \in b+1 .. Len(items) : items[n].turn # items[b].turn

(* Mutant: copied items lose their Turn number.                            *)
Rebased_untimed(items, s) ==
    [n \in 1 .. Len(items) |-> [items[n] EXCEPT !.session = s, !.seq = n - 1, !.turn = 0]]

Rebased(items, s) == [n \in 1 .. Len(items) |-> [items[n] EXCEPT !.session = s, !.seq = n - 1]]

fork(child, b) ==
    /\ store # Closed /\ Fresh(child)
    /\ b \in 1 .. Len(store.items) /\ IsBoundary(store.items, b)
    /\ LET head == [parent |-> store.session, seed_len |-> b]
           copy == Rebased(SubSeq(store.items, 1, b), child)
           Done(n) == [lines |-> SubSeq(copy, 1, n), end |-> "newline"]
       IN \/ \* the caller keeps the child, or the parent it called
             /\ header' = [header EXCEPT ![child] = head]
             /\ log' = [log EXCEPT ![child] = Done(b)]
             /\ acked' = [acked EXCEPT ![child] = copy]
             /\ copied' = copied \union {child}
             /\ store' \in {store, Opened(child, copy)}
             /\ UNCHANGED faults
          \/ \E fault \in Faulty({"open", "no_log", "cut_header"}) :
             /\ CreateFails(child, head, fault) /\ Spend
             /\ store' \in {store, Closed} /\ UNCHANGED <<acked, copied>>
          \/ \E n \in 0 .. b-1, fault \in Faulty({"open", "cut", "no_newline", "unacked"}) :
             \E survives \in Survives(fault) :
             /\ header' = [header EXCEPT ![child] = head]
             /\ log' = [log EXCEPT ![child] = append_line(Done(n), copy[n+1], fault)]
             /\ store' = IF survives THEN store ELSE Closed
             /\ Spend /\ UNCHANGED <<acked, copied>>

Next ==
    \/ \E s \in SessionIds : create(s) \/ load(s)
    \/ \E draft \in Drafts : commit_item(draft)
    \/ \E child \in SessionIds, b \in 1 .. MaxItems : fork(child, b)
    \/ Drop

Spec == Init /\ [][Next]_vars

-----------------------------------------------------------------------------
TypeOK ==
    /\ header \in [SessionIds ->
          [parent : SessionIds \union {NoParent}, seed_len : Nat] \union {NoFile, Garbage}]
    /\ log \in [SessionIds -> File \union {NoFile}]
    /\ acked \in [SessionIds -> Seq(Item)]
    /\ store = Closed \/ store \in [session : SessionIds, items : Seq(Item), next_seq : Nat]
    /\ copied \subseteq SessionIds /\ faults \in 0 .. MaxFaults

(* DESIGN.md, session invariants 1 and 7: the owner numbers items from 0    *)
(* without a gap, for one session, with Turn numbers that never go back,    *)
(* whatever appends failed and were rolled back in between.                 *)
OwnerNumbersItems ==
    store # Closed =>
        /\ store.next_seq = Len(store.items)
        /\ \A n \in 1 .. Len(store.items) :
              /\ store.items[n].seq = n - 1 /\ store.items[n].session = store.session
              /\ n > 1 => store.items[n].turn >= store.items[n-1].turn

(* A load that succeeds never silently loses or reorders an item whose      *)
(* commit was reported done: whatever the faults, the log either reads back *)
(* with every such item in its place or is refused.                         *)
LoadNeverLosesAckedItems ==
    \A s \in session_ids :
        ReadsBack(s) =>
            \A n \in 1 .. Len(acked[s]) :
                /\ acked[s][n].seq < Len(Lines(s))
                /\ Lines(s)[acked[s][n].seq + 1] = acked[s][n]

(* A finished fork starts with the prefix it was asked for, and neither     *)
(* session's later items ever show up in the other.                         *)
ForkKeepsPrefix ==
    \A child \in copied :
        ReadsBack(child) =>
           LET parent == header[child].parent
               n == header[child].seed_len
           IN ReadsBack(parent) =>
                /\ n <= Len(Lines(parent)) /\ n <= Len(Lines(child))
                /\ \A k \in 1 .. n :
                      /\ Lines(child)[k].turn = Lines(parent)[k].turn
                      /\ Lines(child)[k].payload = Lines(parent)[k].payload

(* Every line of the log parses and ends in a newline.                      *)
Whole(s) ==
    log[s] # NoFile /\ log[s].end = "newline" /\ \A n \in 1 .. Len(Lines(s)) : Lines(s)[n] # Garbage

(* DESIGN.md, session chapter 5: a failed append neither claims success in  *)
(* memory nor leaves anything behind; the owner holds what the file holds.  *)
(* Refuted by a write whose newline fails (README, section 6).              *)
MemoryMatchesFile == store # Closed => Lines(store.session) = store.items

(* One session as its writer sees it implements the abstract log; once a    *)
(* line of it is torn it is damaged for good.                               *)
Watched == CHOOSE s \in SessionIds : TRUE

Sound == log[Watched] = NoFile \/ Whole(Watched)
Held  == Sound /\ store # Closed /\ store.session = Watched

Visible == IF log[Watched] = NoFile THEN << >>
           ELSE IF Whole(Watched) THEN Lines(Watched) ELSE Garbage
View    == IF Held THEN store.items ELSE << >>

Abstract == INSTANCE DurableLog WITH
    Values <- Item, Damaged <- Garbage, log <- Visible, open <- Held, view <- View

ImplementsDurableLog == Abstract!Spec
=============================================================================
