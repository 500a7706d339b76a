----------------------------- MODULE CodingTools -----------------------------
(***************************************************************************)
(* The file and shell tools (crates/agent-tools) on one workspace: what    *)
(* edit, write, read, grep, find and bash compute, and how the work of a   *)
(* call, which runs on a thread of its own, relates to its answer. The     *)
(* Turn loop makes one call at a time. Cancelling a call drops its future  *)
(* and the timeout of bash only stops waiting: neither stops the thread or *)
(* the process, so their work may meet that of later calls.                *)
(*                                                                         *)
(* A file is a sequence of lines; "nul" is a line with a NUL byte. An      *)
(* old_string or new_string is a sequence of lines too. Sizes count lines. *)
(* Path expressions are reduced to what resolve_target tells apart: a file *)
(* of the workspace, a directory, a path outside.                          *)
(***************************************************************************)
EXTENDS Integers, Sequences, SequencesExt, FiniteSets, TLC

CONSTANTS
    Files,          \* the file paths of the workspace, in walk order
    EditInputs,     \* [path, edits] offered to the edit tool
    WriteInputs,    \* [path, content]
    BashInputs,     \* [path, content, code, timeout]: what the command writes
    ReadPaths,      \* paths offered to the read tool
    InitialFiles,   \* workspaces to begin with
    MaxOutput,      \* lines that fit in MAX_OUTPUT_BYTES
    MaxCalls,       \* bound on the calls of a behaviour
    MaxFaults       \* bound on failing writes

VARIABLES
    files,    \* path -> lines, or Absent
    calls,    \* number of calls made
    open,     \* the call the Turn loop waits for, 0 if none
    jobs,     \* call -> its work on a blocking thread
    answers,  \* call -> the ToolResult the loop was given
    seen,     \* history: call waited for -> workspace and unfinished jobs at its start
    faults

vars == <<files, calls, open, jobs, answers, seen, faults>>

Absent == <<"absent">>
Unanswered == "unanswered"

Paths == ToSet(Files)

-----------------------------------------------------------------------------
(* workspace.rs: where a path leads. A missing path cannot be              *)
(* canonicalized; "out" is outside the working directory.                  *)
resolve_target(path) ==
    path = "dir" \/ (path \in Paths /\ files[path] # Absent)

(* A path that does not exist yet is compared by its components.           *)
resolve_write_target(path) == path # "out"

IsFile(path) == path \in Paths /\ files[path] # Absent

(* Cutting an output to a number of lines and to the output limit, which   *)
(* leaves a marker. Cut at the tail, the line that the byte limit falls    *)
(* into is dropped.                                                        *)
truncate_from_start(lines, max_lines) ==
    LET some == SubSeq(lines, 1, IF Len(lines) > max_lines THEN max_lines ELSE Len(lines))
    IN  IF Len(some) > MaxOutput
        THEN [lines |-> SubSeq(some, 1, MaxOutput), marked |-> TRUE]
        ELSE [lines |-> some, marked |-> Len(lines) > max_lines]

truncate_tail(lines, max_lines) ==
    LET some == IF Len(lines) > max_lines
                THEN SubSeq(lines, Len(lines) - max_lines + 1, Len(lines)) ELSE lines
    IN  IF Len(some) > MaxOutput
        THEN [lines |-> SubSeq(some, Len(some) - MaxOutput + 2, Len(some)), marked |-> TRUE]
        ELSE [lines |-> some, marked |-> Len(lines) > max_lines]

-----------------------------------------------------------------------------
(* edit/executor.rs apply_edits.                                           *)

IsAt(text, old, i) ==
    i + Len(old) - 1 <= Len(text) /\ SubSeq(text, i, i + Len(old) - 1) = old

(* str::match_indices: the matches from left to right, a match beginning   *)
(* where the one before it ended or later.                                 *)
match_indices(text, old) ==
    LET from[i \in 1 .. Len(text) + Len(old)] ==
          IF i > Len(text) THEN << >>
          ELSE IF IsAt(text, old, i) THEN <<i>> \o from[i + Len(old)] ELSE from[i + 1]
    IN  from[1]

(* The ranges [start, end) to be replaced, in the order of the file.       *)
EditRanges(text, edits) ==
    SortSeq([k \in 1 .. Len(edits) |->
                LET start == match_indices(text, edits[k].old_string)[1]
                IN  [start |-> start, end |-> start + Len(edits[k].old_string),
                     new |-> edits[k].new_string]],
            LAMBDA a, b : a.start < b.start)

(* Mutant: only what lies between an edit and the one before it is looked  *)
(* at, from the wrong end.                                                 *)
Overlap_by_start(ranges) ==
    \E k \in 1 .. Len(ranges) - 1 : ranges[k].start > ranges[k+1].start

Overlap(ranges) ==
    \E k \in 1 .. Len(ranges) - 1 : ranges[k].end > ranges[k+1].start

EditsRefused(text, edits) ==
    ~ /\ \A k \in 1 .. Len(edits) :
            edits[k].old_string # << >> /\ Len(match_indices(text, edits[k].old_string)) = 1
      /\ ~ Overlap(EditRanges(text, edits))

apply_edits(text, edits) ==
    LET Step(acc, range) ==
          [result |-> acc.result \o SubSeq(text, acc.cursor, range.start - 1) \o range.new,
           cursor |-> range.end]
        last == FoldLeft(Step, [result |-> << >>, cursor |-> 1], EditRanges(text, edits))
    IN  last.result \o SubSeq(text, last.cursor, Len(text))

-----------------------------------------------------------------------------
(* read/executor.rs read_file on the lines of a file.                      *)

AtLeastOne(n) == IF n < 1 THEN 1 ELSE n

read_lines(lines, offset, limit) ==
    LET start_line == AtLeastOne(offset)
        max_lines  == AtLeastOne(limit)
        last == IF Len(lines) < start_line + max_lines - 1
                THEN Len(lines) ELSE start_line + max_lines - 1
        selected == SubSeq(lines, start_line, last)
    IN  IF "nul" \in ToSet(selected) THEN [status |-> "failed"]
        ELSE IF selected = << >> /\ start_line > 1 THEN [status |-> "failed"]
        ELSE [status |-> "succeeded"] @@ truncate_from_start(selected, max_lines)

(* grep/executor.rs: MatchCollector and the search of all files. A result  *)
(* is a place [path, line]; a line that does not fit is cut in the middle  *)
(* and is not counted here.                                                *)
Collector(max_results) ==
    [output |-> << >>, max_results |-> max_results, truncation |-> "none", more |-> TRUE]

(* Mutant: reaching the limit of results is not marked.                    *)
push_unmarked(c, result) ==
    IF Len(c.output) >= c.max_results THEN [c EXCEPT !.more = FALSE]
    ELSE IF Len(c.output) >= MaxOutput
    THEN [c EXCEPT !.truncation = "output", !.more = FALSE]
    ELSE [c EXCEPT !.output = Append(@, result), !.more = Len(c.output) + 1 < c.max_results]

push(c, result) ==
    IF Len(c.output) >= c.max_results
    THEN [c EXCEPT !.truncation = "results", !.more = FALSE]
    ELSE IF Len(c.output) >= MaxOutput
    THEN [c EXCEPT !.truncation = "output", !.more = FALSE]
    ELSE LET last == Len(c.output) + 1 >= c.max_results
         IN  [c EXCEPT !.output = Append(@, result),
                       !.truncation = IF last THEN "results" ELSE @, !.more = ~ last]

(* A file with a NUL byte anywhere is passed over.                         *)
search_file(c, path, pattern) ==
    LET text == IF files[path] = Absent \/ "nul" \in ToSet(files[path]) THEN << >> ELSE files[path]
        Step(acc, k) == IF acc.more /\ text[k] = pattern
                        THEN push(acc, [path |-> path, line |-> k]) ELSE acc
    IN  FoldLeft(Step, c, [k \in 1 .. Len(text) |-> k])

search_directory(pattern, max_results) ==
    FoldLeft(LAMBDA c, path : IF c.more THEN search_file(c, path, pattern) ELSE c,
             Collector(max_results), Files)

finish(c) == [status |-> "succeeded", output |-> c.output, marked |-> c.truncation # "none"]

(* "dir" is here the working directory itself.                             *)
search(path, pattern, max_results) ==
    IF ~ resolve_target(path) THEN [status |-> "failed"]
    ELSE IF IsFile(path) THEN finish(search_file(Collector(max_results), path, pattern))
    ELSE finish(search_directory(pattern, max_results))

(* find/executor.rs: the walk stops at the limit and does not say so.      *)
find_paths(wanted, max_results) ==
    LET found == SelectSeq(Files, LAMBDA path : files[path] # Absent /\ path \in wanted)
    IN  SubSeq(found, 1, IF Len(found) < max_results THEN Len(found) ELSE max_results)

-----------------------------------------------------------------------------
Job(tool, input) == [tool |-> tool, input |-> input, phase |-> "start", data |-> << >>]
NoJob == [tool |-> "none", input |-> [path |-> "none"], phase |-> "done", data |-> << >>]
Nothing == [files |-> << >>, met |-> {}]

Init ==
    /\ files \in InitialFiles
    /\ calls = 0 /\ open = 0 /\ faults = 0
    /\ jobs = [n \in 1 .. MaxCalls |-> NoJob]
    /\ answers = [n \in 1 .. MaxCalls |-> Unanswered]
    /\ seen = [n \in 1 .. MaxCalls |-> Nothing]

Working(n) == jobs[n].phase # "done"

(* An executor hands its work to a blocking thread and waits for it.       *)
execute(tool, input) ==
    /\ open = 0 /\ calls < MaxCalls
    /\ calls' = calls + 1 /\ open' = calls + 1
    /\ jobs' = [jobs EXCEPT ![calls + 1] = Job(tool, input)]
    /\ seen' = [seen EXCEPT ![calls + 1] =
                   [files |-> files, met |-> {m \in 1 .. calls : Working(m)}]]
    /\ UNCHANGED <<files, answers, faults>>

Call ==
    \/ \E input \in EditInputs : execute("edit", input)
    \/ \E input \in WriteInputs : execute("write", input)
    \/ \E input \in BashInputs : execute("bash", input)
    \/ \E path \in ReadPaths : execute("read", [path |-> path])

(* The answer of a call that is still waited for; a later one is dropped   *)
(* with the channel of its task.                                           *)
Answer(n, answer) ==
    /\ answers' = IF open = n THEN [answers EXCEPT ![n] = answer] ELSE answers
    /\ open' = IF open = n THEN 0 ELSE open
    /\ seen' = IF open = n THEN [seen EXCEPT ![n] = Nothing] ELSE seen

Finish(n, answer) ==
    /\ jobs' = [jobs EXCEPT ![n] = NoJob]
    /\ Answer(n, answer)
    /\ UNCHANGED calls

At(n, tool, phase) == jobs[n].tool = tool /\ jobs[n].phase = phase

(* edit_file reads the file once and decides.                              *)
EditAccepted(input) ==
    /\ input.edits # << >>
    /\ resolve_target(input.path) /\ IsFile(input.path)
    /\ ~ EditsRefused(files[input.path], input.edits)

edit_refused(n) ==
    /\ At(n, "edit", "start") /\ ~ EditAccepted(jobs[n].input)
    /\ Finish(n, "failed")
    /\ UNCHANGED <<files, faults>>

edit_reads(n) ==
    LET input == jobs[n].input IN
    /\ At(n, "edit", "start") /\ EditAccepted(input)
    /\ jobs' = [jobs EXCEPT ![n].phase = "write",
                            ![n].data = apply_edits(files[input.path], input.edits)]
    /\ UNCHANGED <<files, calls, open, answers, seen, faults>>

write_refused(n) ==
    /\ At(n, "write", "start") /\ ~ resolve_write_target(jobs[n].input.path)
    /\ Finish(n, "failed")
    /\ UNCHANGED <<files, faults>>

write_begins(n) ==
    /\ At(n, "write", "start") /\ resolve_write_target(jobs[n].input.path)
    /\ jobs' = [jobs EXCEPT ![n].phase = "write", ![n].data = jobs[n].input.content]
    /\ UNCHANGED <<files, calls, open, answers, seen, faults>>

(* std::fs::write empties the file, then writes. Bytes of another writer   *)
(* past the end of these stay.                                             *)
(* Mutant: the call is answered before the bytes are written.              *)
fs_truncates_and_answers(n) ==
    LET path == jobs[n].input.path IN
    /\ jobs[n].phase = "write" /\ path \in Paths
    /\ files' = [files EXCEPT ![path] = << >>]
    /\ jobs' = [jobs EXCEPT ![n].phase = "truncated"]
    /\ Answer(n, "succeeded")
    /\ UNCHANGED <<calls, faults>>

fs_truncates(n) ==
    LET path == jobs[n].input.path IN
    /\ jobs[n].phase = "write" /\ path \in Paths
    /\ files' = [files EXCEPT ![path] = << >>]
    /\ jobs' = [jobs EXCEPT ![n].phase = "truncated"]
    /\ UNCHANGED <<calls, open, answers, seen, faults>>

Overlay(data, text) ==
    data \o (IF text = Absent THEN << >> ELSE SubSeq(text, Len(data) + 1, Len(text)))

fs_writes(n) ==
    LET path == jobs[n].input.path IN
    /\ jobs[n].phase = "truncated"
    /\ files' = [files EXCEPT ![path] = Overlay(jobs[n].data, @)]
    /\ Finish(n, "succeeded")
    /\ UNCHANGED faults

(* An I/O error leaves the executor as an error: the loop does not know    *)
(* what was done. Writing to a directory always fails.                     *)
fs_write_fails(n) ==
    /\ jobs[n].phase \in {"write", "truncated"}
    /\ \/ jobs[n].input.path = "dir" /\ UNCHANGED faults
       \/ jobs[n].input.path # "dir" /\ faults < MaxFaults /\ faults' = faults + 1
    /\ Finish(n, "outcome_unknown")
    /\ UNCHANGED files

(* read_file: one reading of the file, of at most two lines here.          *)
ReadAnswer(path) ==
    IF ~ resolve_target(path) \/ ~ IsFile(path) THEN "failed"
    ELSE read_lines(files[path], 1, 2).status

read_file(n) ==
    /\ At(n, "read", "start")
    /\ Finish(n, ReadAnswer(jobs[n].input.path))
    /\ UNCHANGED <<files, faults>>

(* run_command: the child process does its work and exits, and its output  *)
(* becomes the answer. The timeout answers in its place.                   *)
command_writes(n) ==
    LET input == jobs[n].input IN
    /\ At(n, "bash", "start")
    /\ files' = [files EXCEPT ![input.path] = input.content]
    /\ jobs' = [jobs EXCEPT ![n].phase = "ran"]
    /\ UNCHANGED <<calls, open, answers, seen, faults>>

command_exits(n) ==
    /\ At(n, "bash", "ran")
    /\ Finish(n, IF jobs[n].input.code = 0 THEN "succeeded" ELSE "failed")
    /\ UNCHANGED <<files, faults>>

command_times_out(n) ==
    /\ jobs[n].tool = "bash" /\ jobs[n].input.timeout /\ open = n
    /\ Answer(n, "timed_out")
    /\ UNCHANGED <<files, calls, jobs, faults>>

(* The user cancels the Turn: the loop records that it does not know.      *)
cancel ==
    /\ open # 0
    /\ Answer(open, "outcome_unknown")
    /\ UNCHANGED <<files, calls, jobs, faults>>

Work(n) ==
    \/ edit_refused(n) \/ edit_reads(n) \/ write_refused(n) \/ write_begins(n)
    \/ fs_truncates(n) \/ fs_writes(n) \/ fs_write_fails(n) \/ read_file(n)
    \/ command_writes(n) \/ command_exits(n) \/ command_times_out(n)

Next == Call \/ cancel \/ \E n \in 1 .. MaxCalls : Work(n)

Spec == Init /\ [][Next]_vars

-----------------------------------------------------------------------------
(* What the call n did to the workspace it found, when it met no unfinished *)
(* work of an earlier call.                                                *)
With(before, path, text) == [before EXCEPT ![path] = text]

Did(n, answer, before, after) ==
    LET input == jobs[n].input
        tool  == jobs[n].tool
        Only(path) == \A p \in Paths \ {path} : after[p] = before[p]
    IN  CASE tool = "edit" /\ answer = "succeeded" ->
               after = With(before, input.path, apply_edits(before[input.path], input.edits))
          [] tool = "write" /\ answer = "succeeded" ->
               after = With(before, input.path, input.content)
          [] tool = "bash" /\ answer \in {"succeeded", "failed"} ->
               after = With(before, input.path, input.content)
          [] tool \in {"edit", "write", "bash"} /\ answer \in {"outcome_unknown", "timed_out"} ->
               Only(input.path)
          [] OTHER -> after = before

(* What the answer of edit, write, read and bash says the call did is what *)
(* it did to the workspace it found, as one step: an edit replaced its     *)
(* strings in the text that was there and nothing else changed, a refusal  *)
(* changed nothing, a finished command had its effect. Only the unfinished *)
(* work of an earlier call - a command that timed out, a call that was     *)
(* cancelled - can interfere (the tools run one at a time, but             *)
(* spawn_blocking and command.output() cannot be stopped). And a file only *)
(* changes by the call the loop waits for or by one whose answer left it   *)
(* open: after any other answer the work of a call is over.                *)
AnswersAreHonest ==
    [][/\ \A n \in 1 .. MaxCalls :
            answers[n] = Unanswered /\ answers'[n] # Unanswered /\ seen[n].met = {} =>
               Did(n, answers'[n], seen[n].files, files')
       /\ \A path \in Paths : files'[path] # files[path] =>
            \E n \in 1 .. MaxCalls :
               /\ Working(n) /\ jobs[n].input.path = path
               /\ open = n \/ answers[n] \in {"outcome_unknown", "timed_out"}]_vars

-----------------------------------------------------------------------------
(* The inputs on which the algorithms are compared with what they should   *)
(* compute, on the files of a workspace no call has touched.               *)
Strings == {<<"x">>, <<"y">>, <<"x", "y">>, <<"x", "x">>, << >>}
Replacements == [old_string : Strings, new_string : {<< >>, <<"y", "x">>}]

(* Where an old_string occurs, overlapping occurrences included.           *)
Occurrences(text, old) == {i \in 1 .. Len(text) : IsAt(text, old, i)}

(* One replacement made in a text at a place.                              *)
Spliced(text, i, edit) ==
    SubSeq(text, 1, i - 1) \o edit.new_string
    \o SubSeq(text, i + Len(edit.old_string), Len(text))

(* apply_edits replaces all strings at once: the order of the edits does    *)
(* not matter, the replaced regions are disjoint, and the result is that of *)
(* making the right one first and then the left one, each where it was in  *)
(* the original, whatever the first inserts. An accepted old_string occurs; *)
(* its occurrences all overlap the one that is replaced.                   *)
EditsAreSimultaneous ==
    calls = 0 => \A path \in Paths, a \in Replacements, b \in Replacements :
      LET text == files[path]
          First(edit) == CHOOSE i \in Occurrences(text, edit.old_string) :
                           \A j \in Occurrences(text, edit.old_string) : i <= j
      IN  text # Absent /\ ~ EditsRefused(text, <<a, b>>) =>
            /\ ~ EditsRefused(text, <<b, a>>)
            /\ apply_edits(text, <<a, b>>) = apply_edits(text, <<b, a>>)
            /\ \A edit \in {a, b} :
                 /\ Occurrences(text, edit.old_string) # {}
                 /\ \A j \in Occurrences(text, edit.old_string) :
                      j < First(edit) + Len(edit.old_string)
            /\ First(a) < First(b) =>
                 /\ First(a) + Len(a.old_string) <= First(b)
                 /\ apply_edits(text, <<a, b>>) = Spliced(Spliced(text, First(b), b), First(a), a)
            /\ First(a) # First(b)

(* The places where a pattern matches in a text file.                      *)
Matches(path, pattern) ==
    LET text == files[path]
        places == [k \in 1 .. Len(text) |-> [path |-> path, line |-> k]]
    IN  IF text = Absent \/ "nul" \in ToSet(text) THEN << >>
        ELSE SelectSeq(places, LAMBDA place : text[place.line] = pattern)

(* A caller can tell a complete answer from a cut one: an answer of grep    *)
(* without a marker holds every match of every text file, one of find       *)
(* shorter than its limit every path, one of read without a marker and      *)
(* shorter than its limit goes to the end of the file, and an unmarked      *)
(* output of bash is the whole output. What a cut answer holds comes first, *)
(* and for bash last. (grep, find, read and bash executors, truncate_*.)    *)
CutsCanBeTold ==
    calls = 0 =>
      /\ \A path \in Paths \union {"dir", "out"}, max_results \in 1 .. 3 :
           LET grep   == search(path, "x", max_results)
               inside == SelectSeq(Files, LAMBDA f : path \in {f, "dir"})
               all    == FlattenSeq([k \in 1 .. Len(inside) |-> Matches(inside[k], "x")])
           IN  grep.status = "succeeded" =>
                 /\ IsPrefix(grep.output, all) /\ Len(grep.output) <= max_results
                 /\ ~ grep.marked => grep.output = all
      /\ \A max_results \in 1 .. 3, wanted \in SUBSET Paths :
           LET found == find_paths(wanted, max_results)
           IN  Len(found) < max_results =>
                 ToSet(found) = {p \in wanted : files[p] # Absent}
      /\ \A path \in Paths, offset \in 0 .. 3, limit \in 0 .. 3 :
           IsFile(path) =>
             LET text == files[path]
                 read == read_lines(text, offset, limit)
                 rest == SubSeq(text, AtLeastOne(offset), Len(text))
             IN  /\ read.status = "succeeded" =>
                      /\ IsPrefix(read.lines, rest)
                      /\ ~ read.marked /\ Len(read.lines) < AtLeastOne(limit) =>
                           read.lines = rest
                 /\ read.status = "failed" => "nul" \in ToSet(rest) \/ rest = << >>
      /\ \A path \in Paths, max_lines \in 1 .. 3 :
           IsFile(path) =>
             LET cut == truncate_tail(files[path], max_lines)
             IN  IsSuffix(cut.lines, files[path]) /\ (~ cut.marked => cut.lines = files[path])
=============================================================================
