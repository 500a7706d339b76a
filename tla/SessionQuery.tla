---------------------------- MODULE SessionQuery ----------------------------
(***************************************************************************)
(* The read-only view of the session logs: pages of whole Turns read       *)
(* backwards (agent-core session/query.rs). Every read loads the log       *)
(* again, so two pages of one conversation may come from logs of different *)
(* lengths.                                                                *)
(***************************************************************************)
EXTENDS SessionItems, SequencesExt

(* A summary of no items has no last Turn: -1.                             *)
summary(items) ==
    [last_turn  |-> IF items = << >> THEN -1 ELSE items[Len(items)].turn,
     item_count |-> Len(items)]

(* SessionStore::load refuses a log it cannot read; the model reads logs   *)
(* as SessionStore.tla leaves them when it accepts them.                   *)
snapshot(items) == [summary |-> summary(items), items |-> items]

(* The Turns that the backward scan of turn_page selects: those below      *)
(* `before_turn` (-1: no limit), the newest `limit` of them. Turn numbers  *)
(* never decrease along a log, so skipping a Turn equal to the last one    *)
(* selected skips every repetition.                                        *)
(* Mutant: the Turn the caller already holds is selected again.            *)
selected_turns_inclusive(items, before_turn, limit) ==
    LET Step(selected, turn) ==
          IF \/ Len(selected) = limit
             \/ before_turn # -1 /\ turn > before_turn
             \/ selected # << >> /\ selected[Len(selected)] = turn
          THEN selected ELSE Append(selected, turn)
        scan[n \in 0 .. Len(items)] ==
          IF n = 0 THEN << >> ELSE Step(scan[n-1], items[Len(items) + 1 - n].turn)
    IN  scan[Len(items)]

selected_turns(items, before_turn, limit) ==
    LET Step(selected, turn) ==
          IF \/ Len(selected) = limit
             \/ before_turn # -1 /\ turn >= before_turn
             \/ selected # << >> /\ selected[Len(selected)] = turn
          THEN selected ELSE Append(selected, turn)
        scan[n \in 0 .. Len(items)] ==
          IF n = 0 THEN << >> ELSE Step(scan[n-1], items[Len(items) + 1 - n].turn)
    IN  scan[Len(items)]

turn_page(view, before_turn, limit) ==
    LET selected == selected_turns(view.items, before_turn, limit)
        oldest   == selected[Len(selected)]
        on_page  == {n \in 1 .. Len(view.items) :
                       /\ view.items[n].turn >= oldest
                       /\ before_turn # -1 => view.items[n].turn < before_turn}
    IN  IF selected = << >>
        THEN [summary |-> view.summary, items |-> << >>, oldest_turn |-> -1,
              has_older |-> FALSE]
        ELSE [summary |-> view.summary, items |-> Kept(view.items, on_page),
              oldest_turn |-> oldest,
              has_older |-> \E n \in 1 .. Len(view.items) : view.items[n].turn < oldest]

(* Every page but the first is read with the limit checked and from the    *)
(* log as it is then.                                                      *)
load_turn_page(items, before_turn, limit) == turn_page(snapshot(items), before_turn, limit)

-----------------------------------------------------------------------------
TurnsOf(items) == {items[n].turn : n \in 1 .. Len(items)}

(* The pages a reader obtains that follows `oldest_turn` while there are   *)
(* older Turns, at most one per Turn. `early` is the log when the first    *)
(* page was read, `items` the log when the others were.                    *)
Pages(early, items, limit) ==
    LET Next(page) == IF page.has_older
                      THEN load_turn_page(items, page.oldest_turn, limit)
                      ELSE [page EXCEPT !.items = << >>]
        page[n \in 1 .. Cardinality(TurnsOf(items)) + 1] ==
          IF n = 1 THEN load_turn_page(early, -1, limit) ELSE Next(page[n-1])
    IN  page

Read(page) == FlattenSeq(Reverse([n \in DOMAIN page |-> page[n].items]))
=============================================================================
