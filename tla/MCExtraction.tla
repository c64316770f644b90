---------------------------- MODULE MCExtraction ----------------------------
(***************************************************************************)
(* Requests small enough for TLC: a session with a preference, an error    *)
(* that a later call resolves and an edit; a short one with an unreadable  *)
(* line; one without events; and the ways a request is refused.            *)
(***************************************************************************)
EXTENDS Extraction, TLC

Says(what, phrase) == [says |-> what, phrase |-> phrase, scoped |-> FALSE]
Text(len, says) == [len |-> len, says |-> says]
User(len, says) == [shape |-> "user_text", text |-> Text(len, says)]
Use(id, tool, lang) ==
    [type |-> "tool_use", id |-> id, tool |-> tool, lang |-> lang,
     path |-> <<"home", "me", "repo", "src", "lib">>, len |-> 8]
Result(id, failed) ==
    [shape |-> "user_blocks",
     blocks |-> <<[type |-> "tool_result", id |-> id, is_error |-> failed,
                   exit |-> IF failed THEN 1 ELSE NoExit, len |-> 8]>>]
Assistant(blocks) == [shape |-> "assistant_blocks", blocks |-> blocks]
TextBlock(len) == [type |-> "text", text |-> Text(len, <<>>)]

\* An error resolved by a second run of the same tool, one event a line.
ArcSession ==
    <<User(12, <<Says("always test", "always")>>), Assistant(<<Use("t1", "Bash", "none")>>),
      Result("t1", TRUE), Assistant(<<Use("t2", "Bash", "none")>>), Result("t2", FALSE)>>

\* One assistant line with a text and an edit, which is an edit and a call.
EditSession ==
    <<User(12, <<Says("use tabs", "use")>>),
      Assistant(<<TextBlock(8), Use("t1", "Edit", "rust")>>), Result("t1", FALSE)>>

\* Two turns of the bare shape and a line that cannot be read.
FlatSession ==
    <<[shape |-> "bare", speaker |-> "user", text |-> Text(12, <<>>)], [shape |-> "malformed"],
      [shape |-> "message", speaker |-> "assistant", text |-> Text(4, <<>>)],
      [shape |-> "assistant_turn", speaker |-> "assistant", text |-> Text(4, <<>>)]>>

PlainSession ==
    <<[shape |-> "blank"], [shape |-> "bare", speaker |-> "user", text |-> Text(4, <<>>)],
      [shape |-> "bare", speaker |-> "", text |-> Text(4, <<>>)], [shape |-> "user_odd"],
      [shape |-> "user_turn", speaker |-> "", text |-> Text(4, <<>>)]>>

Request(path, ref, repo, lines) == [path |-> path, ref |-> ref, repo |-> repo, lines |-> lines]

MCRequests ==
    {Request("orchestrated", "inline", "none", ArcSession),
     Request("orchestrated", "inline", "none", EditSession),
     Request("orchestrated", "file", "none", FlatSession),
     Request("orchestrated", "inline", "readonly", PlainSession),
     Request("orchestrated", "inline", "none", <<[shape |-> "blank"]>>),
     Request("orchestrated", "unreadable", "none", PlainSession),
     Request("orchestrated", "missing", "none", PlainSession),
     Request("orchestrated", "inline", "outside", PlainSession),
     Request("single_shot", "oversized", "none", PlainSession),
     Request("single_shot", "inline", "none", FlatSession),
     Request("single_shot", "inline", "none", PlainSession)}

MCEnvironment ==
    [provider |-> "claude-api", routing |-> "local", run_path |-> "", ollama_url |-> TRUE,
     api_key |-> TRUE, base_url |-> "", cli_path |-> "", timeout |-> 1,
     limits |-> [entries |-> 8, entry_chars |-> 40, total_chars |-> 80]]

MCBudgets == [local |-> 8, frontier |-> 40]

MCGlobalScopes == <<"global">>

\* Nothing tells two slugs apart.
SlugSymmetry == Permutations(Slugs)
=============================================================================
