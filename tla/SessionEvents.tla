---------------------------- MODULE SessionEvents ----------------------------
(***************************************************************************)
(* What the extraction pipeline computes from a transcript before any      *)
(* model is asked: the events of its lines, the overlapping windows, the   *)
(* procedure mined from a window, the salience of a window and the session *)
(* preamble.  A line is a record with a shape; a text is its length and    *)
(* the sentences in it.                                                    *)
(***************************************************************************)
EXTENDS Integers, Sequences, SequencesExt, FiniteSetsExt

NoExit == -1

UserMessage(i, text) == [kind |-> "user", index |-> i, text |-> text]
AssistantMessage(i, text) == [kind |-> "assistant", index |-> i, text |-> text]
Metadata(i) == [kind |-> "metadata", index |-> i]

\* What stands for a line that cannot be read.
Placeholder == [len |-> 20, says |-> <<>>]

(***************************************************************************)
(* transcripts.rs                                                          *)
(***************************************************************************)

\* The exit code is read off the output's first line, when it has the prefix.
ExitCode(block) == block.exit

ToolResult(i, block) ==
    [kind |-> "result", index |-> i, id |-> block.id, is_error |-> block.is_error,
     exit_code |-> ExitCode(block), len |-> block.len]

\* A file-editing tool gives an edit and a call with the same id and index.
ToolUse(i, block) ==
    LET call == [kind |-> "call", index |-> i, id |-> block.id, tool |-> block.tool,
                 lang |-> block.lang, len |-> block.len]
        edit == [kind |-> "edit", index |-> i, id |-> block.id, tool |-> block.tool,
                 lang |-> block.lang, path |-> block.path, len |-> block.len]
    IN  IF block.tool \in {"Write", "Edit", "MultiEdit"} THEN <<edit, call>> ELSE <<call>>

\* A turn of the bare shape {speaker, content}: nothing without either.
HasTurn(line) == line.speaker # "" /\ line.text.len > 0

Turn(i, line) ==
    IF line.speaker = "user" THEN UserMessage(i, line.text) ELSE AssistantMessage(i, line.text)

UserLine(i, line) ==
    CASE line.shape = "user_text" ->
            IF line.text.len > 0 THEN <<UserMessage(i, line.text)>> ELSE <<>>
      [] line.shape = "user_blocks" ->
            LET results == SelectSeq(line.blocks, LAMBDA b : b.type = "tool_result")
            IN  [n \in DOMAIN results |-> ToolResult(i, results[n])]
      [] line.shape = "user_turn" -> IF HasTurn(line) THEN <<Turn(i, line)>> ELSE <<>>
      [] line.shape = "user_odd" -> <<UserMessage(i, Placeholder)>>

AssistantBlock(i, block) ==
    CASE block.type = "text" -> IF block.text.len > 0 THEN <<AssistantMessage(i, block.text)>> ELSE <<>>
      [] block.type = "tool_use" -> ToolUse(i, block)
      [] OTHER -> <<>>

AssistantLine(i, line) ==
    CASE line.shape = "assistant_blocks" ->
            FlattenSeq([n \in DOMAIN line.blocks |-> AssistantBlock(i, line.blocks[n])])
      [] line.shape = "assistant_turn" ->
            IF line.text.len > 0 THEN <<AssistantMessage(i, line.text)>> ELSE <<>>

OtherLine(i, line) ==
    CASE line.shape = "message" -> IF HasTurn(line) THEN <<Turn(i, line)>> ELSE <<>>
      [] line.shape = "bare" -> IF HasTurn(line) THEN <<Turn(i, line)>> ELSE <<Metadata(i)>>

LineEvents(i, line) ==
    CASE line.shape = "blank" -> <<>>
      [] line.shape = "malformed" -> <<UserMessage(i, Placeholder)>>
      [] line.shape \in {"user_text", "user_blocks", "user_turn", "user_odd"} -> UserLine(i, line)
      [] line.shape \in {"assistant_blocks", "assistant_turn"} -> AssistantLine(i, line)
      [] line.shape \in {"message", "bare"} -> OtherLine(i, line)

\* parse_session_events: the events of all lines, each with its line's index.
ParseSessionEvents(lines) == FlattenSeq([i \in DOMAIN lines |-> LineEvents(i, lines[i])])

\* events_to_transcript, the length of each entry: turns only, no tool events.
EventsToTranscript(events) ==
    LET turns == SelectSeq(events, LAMBDA e : e.kind \in {"user", "assistant"})
    IN  [n \in DOMAIN turns |-> turns[n].text.len]

\* parse_claude_jsonl, the single-shot path: only turns with a speaker and a
\* text; one unreadable line, or no turn at all, is an error.
IsConversation(line) ==
    CASE line.shape \in {"message", "bare", "user_turn", "assistant_turn"} -> HasTurn(line)
      [] line.shape = "user_text" -> line.text.len > 0
      [] line.shape = "assistant_blocks" ->
            \E n \in DOMAIN line.blocks : line.blocks[n].type = "text" /\ line.blocks[n].text.len > 0
      [] OTHER -> FALSE

\* extract_content: the text of the turn, or of its text blocks.
ContentLength(line) ==
    IF line.shape = "assistant_blocks"
    THEN FoldLeft(LAMBDA sum, b : sum + (IF b.type = "text" THEN b.text.len ELSE 0), 0, line.blocks)
    ELSE line.text.len

FlatTranscript(lines) ==
    LET turns == SelectSeq(lines, IsConversation)
    IN  [n \in DOMAIN turns |-> ContentLength(turns[n])]

FlatTranscriptFails(lines) ==
    \/ \E i \in DOMAIN lines : lines[i].shape = "malformed"
    \/ ~\E i \in DOMAIN lines : IsConversation(lines[i])

(***************************************************************************)
(* segmentation.rs                                                         *)
(***************************************************************************)

TextLength(e) ==
    CASE e.kind \in {"user", "assistant"} -> e.text.len
      [] e.kind = "metadata" -> 0
      [] OTHER -> e.len

\* A quarter of the characters, at least one.
EstimateTokens(e) == Max({TextLength(e) \div 4, 1})

Tokens(events) ==
    LET sum[k \in 0..Len(events)] == IF k = 0 THEN 0 ELSE sum[k - 1] + EstimateTokens(events[k])
    IN  sum[Len(events)]

\* How many events the window from start packs: as many as fit, at least one.
WindowLength(events, start, budget) ==
    Max({n \in 1..(Len(events) - start + 1) :
            n = 1 \/ Tokens(SubSeq(events, start, start + n - 1)) <= budget})

(* Faulty variant: the next window starts where this one ends. *)
NextStartAtEnd(start, length, overlap) == start + length

\* Where the next window starts: overlap events before the end of this one.
NextStart(start, length, overlap) ==
    IF length <= overlap THEN start + 1 ELSE start + length - overlap

\* The events of the window from start, as line indices.
WindowFrom(events, start, budget) ==
    [k \in 1..WindowLength(events, start, budget) |-> events[start + k - 1].index]

\* Where the loop stands after k windows, and stays once one reaches the end.
WindowStart(events, budget, overlap) ==
    LET start[k \in 0..Len(events)] ==
            IF k = 0 THEN 1
            ELSE LET s == start[k - 1]
                     n == WindowLength(events, s, budget)
                 IN  IF s + n > Len(events) THEN s ELSE NextStart(s, n, overlap)
    IN  start

\* One window after the other, up to the first that reaches the end.
SplitIntoOverlapWindows(events, budget, overlap) ==
    LET start == WindowStart(events, budget, overlap)
        last == Min({k \in 0..Len(events) :
                        start[k] + WindowLength(events, start[k], budget) > Len(events)})
    IN  [k \in 1..(last + 1) |-> WindowFrom(events, start[k - 1], budget)]

SegmentSession(events, budget, overlap) ==
    IF events = <<>> THEN <<>> ELSE SplitIntoOverlapWindows(events, budget, overlap)

\* The event a line index stands for in the lookup table of the map step: of
\* several events of one line the table keeps the last.
EventByIndex(events, index) ==
    events[Max({p \in DOMAIN events : events[p].index = index})]

WindowEvents(events, window) == [k \in DOMAIN window |-> EventByIndex(events, window[k])]

\* Characters of the conversational turns of a window.
ContentChars(events) ==
    FoldLeft(LAMBDA sum, e : sum + (IF e.kind \in {"user", "assistant"} THEN e.text.len ELSE 0),
             0, events)

(***************************************************************************)
(* skeleton.rs                                                             *)
(***************************************************************************)

Failing(e) == e.kind = "result" /\ (e.is_error \/ e.exit_code \notin {NoExit, 0})
Passing(e) == e.kind = "result" /\ ~e.is_error /\ e.exit_code \in {NoExit, 0}

\* The arc ends with the last success that no failure follows, else at the end.
ResolutionArcEnd(arc) ==
    LET lastFailure == Max({0} \cup {p \in DOMAIN arc : Failing(arc[p])})
        successes == {p \in DOMAIN arc : p > lastFailure /\ Passing(arc[p])}
    IN  IF successes = {} THEN Len(arc) ELSE Max(successes)

\* One step per tool use, the edit rather than the call where there are both.
StepsDeduplicated(arc) ==
    LET edited == {arc[p].id : p \in {p \in DOMAIN arc : arc[p].kind = "edit"}}
        usable(e) == e.kind = "edit" \/ (e.kind = "call" /\ e.id \notin edited)
        steps[k \in 0..Len(arc)] ==
            IF k = 0 THEN <<>>
            ELSE LET before == steps[k - 1]
                 IN  IF usable(arc[k]) /\ \A n \in DOMAIN before : before[n].id # arc[k].id
                     THEN Append(before, arc[k]) ELSE before
    IN  steps[Len(arc)]

\* The steps from the first failure to the end of its resolution; none when
\* the window has no failure.
MineSkeleton(events) ==
    LET failures == {p \in DOMAIN events : Failing(events[p])}
        arc == SubSeq(events, Min(failures) + 1, Len(events))
    IN  IF failures = {} THEN <<>> ELSE StepsDeduplicated(SubSeq(arc, 1, ResolutionArcEnd(arc)))

(***************************************************************************)
(* salience.rs                                                             *)
(***************************************************************************)

ToolName(events, id) ==
    LET calls == {p \in DOMAIN events : events[p].kind = "call" /\ events[p].id = id}
    IN  IF calls = {} THEN "unknown" ELSE events[Max(calls)].tool

\* A failing result of a tool and a later passing result of the same tool.
ResolvedErrorArc(events) ==
    \E p, q \in DOMAIN events :
        /\ p < q /\ Failing(events[p]) /\ Passing(events[q])
        /\ ToolName(events, events[p].id) = ToolName(events, events[q].id)

\* The gate's list of phrases lacks the "use " that the preamble's has.
Prefers(text) == \E n \in DOMAIN text.says : text.says[n].phrase \notin {"none", "use"}

StatedPreference(events) ==
    \E p \in DOMAIN events : events[p].kind = "user" /\ Prefers(events[p].text)

NamedFailure(events) == \E p \in DOMAIN events : Failing(events[p])

HasFileEdit(events) == \E p \in DOMAIN events : events[p].kind = "edit"

HasBashCommand(events) == \E p \in DOMAIN events : events[p].kind = "call" /\ events[p].tool = "Bash"

HardKeep(events) == ResolvedErrorArc(events) \/ StatedPreference(events)

\* The sum of the weights of the signals present, in hundredths, at most one.
ScoreEpisode(events) ==
    LET weight(present, w) == IF present THEN w ELSE 0
    IN  Min({100, weight(ResolvedErrorArc(events), 60) + weight(StatedPreference(events), 55)
                    + weight(NamedFailure(events), 35) + weight(HasFileEdit(events), 30)
                    + weight(HasBashCommand(events), 15)})

\* The gate-eligible windows the mode lets through: those of the threshold, or
\* the k best, earlier windows first among equals.
PassGate(scores, eligible, mode) ==
    IF mode.kind = "threshold"
    THEN {w \in eligible : scores[w] >= mode.bound}
    ELSE {w \in eligible :
            Cardinality({v \in eligible :
                scores[v] > scores[w] \/ (scores[v] = scores[w] /\ v < w)}) < mode.bound}

\* gate_episodes: hard keeps are outside the reach of the mode.
GateEpisodes(windows, events, mode) ==
    LET of(w) == WindowEvents(events, windows[w])
        hard == {w \in DOMAIN windows : HardKeep(of(w))}
        scores == [w \in DOMAIN windows |-> ScoreEpisode(of(w))]
    IN  hard \cup PassGate(scores, DOMAIN windows \ hard, mode)

(***************************************************************************)
(* preamble.rs                                                             *)
(***************************************************************************)

\* The sentences of a user turn that hold a preference phrase, with the scope
\* their wording suggests.
PreferencesInUserTurn(text) ==
    LET found == SelectSeq(text.says, LAMBDA s : s.phrase # "none")
    IN  [n \in DOMAIN found |->
            [says |-> found[n].says,
             generality |-> IF found[n].scoped THEN "uncertain" ELSE "general"]]

\* The first of the preferences with one wording stays.
DeduplicatePreferences(prefs) ==
    FoldLeft(LAMBDA acc, p : IF \E n \in DOMAIN acc : acc[n].says = p.says THEN acc ELSE Append(acc, p),
             <<>>, prefs)

SystemDirs == {"home", "usr", "var", "tmp", "opt", "etc", "root", "srv"}

\* Path components without the system directories and what follows each.
Interesting(path) ==
    FoldLeft(LAMBDA acc, c :
                CASE acc.skip -> [acc EXCEPT !.skip = FALSE]
                  [] ~acc.skip /\ c \in SystemDirs -> [acc EXCEPT !.skip = TRUE]
                  [] OTHER -> [acc EXCEPT !.names = Append(@, c)],
             [skip |-> FALSE, names |-> <<>>], path).names

\* The two components below the repository root, where there are that many.
SalientPath(path) ==
    LET names == Interesting(path)
    IN  IF Len(names) >= 3 THEN SubSeq(names, 2, 3) ELSE names

RepoNames(path) == IF Interesting(path) = <<>> THEN <<>> ELSE <<Interesting(path)[1]>>

\* The language with the most votes; of several, the one that appeared last.
PluralityVote(votes) ==
    LET count(v) == Cardinality({n \in DOMAIN votes : votes[n] = v})
        first(v) == Min({n \in DOMAIN votes : votes[n] = v})
        best == {v \in ToSet(votes) : \A u \in ToSet(votes) : count(u) <= count(v)}
    IN  IF votes = <<>> THEN "none"
        ELSE CHOOSE v \in best : \A u \in best : first(u) <= first(v)

MaxSalientPaths == 10

\* mine_draft_deterministic: preferences from user turns, facts from tool
\* calls and edits.
MineDraft(events) ==
    LET users == SelectSeq(events, LAMBDA e : e.kind = "user")
        edits == SelectSeq(events, LAMBDA e : e.kind = "edit")
        voters == SelectSeq(events, LAMBDA e :
                      (e.kind = "edit" \/ (e.kind = "call" /\ e.tool = "Bash")) /\ e.lang # "none")
        repos == FlattenSeq([n \in DOMAIN edits |-> RepoNames(edits[n].path)])
        paths == {SalientPath(edits[n].path) : n \in DOMAIN edits} \ {<<>>}
    IN  [preferences |-> DeduplicatePreferences(
             FlattenSeq([n \in DOMAIN users |-> PreferencesInUserTurn(users[n].text)])),
         repo |-> IF repos = <<>> THEN "none" ELSE repos[1],
         language |-> PluralityVote([n \in DOMAIN voters |-> voters[n].lang]),
         paths |-> Min({MaxSalientPaths, Cardinality(paths)})]

\* Size of the rendered preamble: one for each line of it.
RenderedSize(draft) ==
    Len(draft.preferences) + draft.paths
        + (IF draft.repo = "none" THEN 0 ELSE 1) + (IF draft.language = "none" THEN 0 ELSE 1)

\* Over the cap, paths go first and preferences from the last one on.
EnforceTokenCap(draft, cap) ==
    LET excess == Max({0, RenderedSize(draft) - cap})
        paths == Min({excess, draft.paths})
        prefs == Min({excess - paths, Len(draft.preferences)})
    IN  [draft EXCEPT !.paths = @ - paths,
                      !.preferences = SubSeq(@, 1, Len(@) - prefs)]
=============================================================================
