------------------------------ MODULE Providers ------------------------------
(***************************************************************************)
(* The model backends: how an extractor, a text seam and a verifier are    *)
(* built from the environment, and what each makes of a reply.             *)
(*                                                                         *)
(* A reply is all that a call can meet, whatever its backend: a Messages   *)
(* or generate endpoint over HTTP, or a command line that is spawned.  An  *)
(* answer is "yes" (candidates, or a positive decision), "no" (an empty    *)
(* list, or a negative decision) or a failure.                             *)
(***************************************************************************)
EXTENDS Integers, Sequences

Replies ==
    [wire : {"refused", "status", "sent"},   \* no connection or process, a bad status
     late : BOOLEAN,                         \* later than any bound on the call
     envelope : {"good", "error", "missing", "garbled"},
     text : {"json", "fenced", "prose", "none"},  \* what surrounds the payload
     says : {"yes", "no", "keyless", "mistyped"}] \* the payload

Failures == {"unavailable", "unexpected", "timeout", "invalid"}

(***************************************************************************)
(* The transports.                                                         *)
(***************************************************************************)

\* timeout(ms, call): 0 waits for as long as the call takes.
Bounded(ms, reply, outcome) == IF ms > 0 /\ reply.late THEN "timeout" ELSE outcome

\* A refused connection and a status other than 200 are the provider's, a body
\* of another shape is unexpected.
post_json(reply) ==
    CASE reply.wire # "sent" -> "unavailable"
      [] reply.wire = "sent" /\ reply.envelope # "good" -> "unexpected"
      [] OTHER -> reply.text

\* send_request and the search for the forced tool_use block, whose input is
\* part of the body: a field of the wrong type fails all of it.
send_request(ms, reply) ==
    Bounded(ms, reply,
        CASE reply.wire # "sent" -> "unavailable"
          [] reply.wire = "sent" /\ (reply.envelope # "good" \/ reply.says = "mistyped") -> "unexpected"
          [] OTHER -> reply.says)

\* The process is spawned, fed and waited for.
spawn_claude_stdout(reply) == IF reply.wire = "sent" THEN "stdout" ELSE "unavailable"

strip_markdown_fences(text) == IF text = "fenced" THEN "json" ELSE text

\* The line of type "result": there is none, it does not parse, or it reports
\* an error.
extract_result_text(reply) ==
    CASE spawn_claude_stdout(reply) = "unavailable" -> "unavailable"
      [] reply.envelope \in {"missing", "error"} -> "unavailable"
      [] reply.envelope = "garbled" -> "unexpected"
      [] OTHER -> strip_markdown_fences(reply.text)

\* The first object inside prose stands for the whole.
coerce_to_json_object_string(text) == IF text = "prose" THEN "json" ELSE text

claude_code_generate_text(ms, reply) ==
    Bounded(ms, reply, coerce_to_json_object_string(extract_result_text(reply)))

\* serde_json::from_str into a type whose fields are all required; the text is
\* what a transport returned, its failure included.
from_str(text, says) ==
    CASE text \in Failures -> text
      [] text \notin Failures /\ (text # "json" \/ says \in {"keyless", "mistyped"}) -> "unexpected"
      [] OTHER -> says

\* The same into a type whose fields default: a reply without the key is empty.
from_str_default(text, says) == from_str(text, IF says = "keyless" THEN "no" ELSE says)

(***************************************************************************)
(* What the callers get.                                                   *)
(***************************************************************************)

\* validate_transcript_limits, on the lengths of the entries.
validate_transcript_limits(lengths, limits) ==
    LET total[n \in 0..Len(lengths)] == IF n = 0 THEN 0 ELSE total[n - 1] + lengths[n] IN
    /\ lengths # <<>> /\ Len(lengths) <= limits.entries
    /\ \A n \in DOMAIN lengths : lengths[n] <= limits.entry_chars /\ total[n] <= limits.total_chars

\* OllamaExtractor: the key "candidates" is required.
ollama_extract(reply) == from_str(post_json(reply), reply.says)

\* ClaudeExtractor: an input without the key has no candidates.
post_messages(ms, reply) ==
    LET input == send_request(ms, reply) IN IF input = "keyless" THEN "no" ELSE input

\* ClaudeCodeExtractor: the same, and the object may stand inside prose.
parse_cli_output(ms, reply) ==
    Bounded(ms, reply,
        from_str_default(coerce_to_json_object_string(extract_result_text(reply)), reply.says))

\* TranscriptSkillExtractionService::extract, of a transcript within the limits.
extract(provider, ms, reply) ==
    CASE provider = "ollama" -> ollama_extract(reply)
      [] provider = "claude" -> post_messages(ms, reply)
      [] provider = "claude-code" -> parse_cli_output(ms, reply)

\* StructuredTextLlm, which the four seams of the orchestration share.
generate_json(seam, ms, reply) ==
    IF seam = "claude-code" THEN claude_code_generate_text(ms, reply) ELSE post_json(reply)

\* LlmPreambleNormalizer: a reply without the key has no preferences.
normalize(seam, ms, reply) == from_str_default(generate_json(seam, ms, reply), reply.says)

\* LlmSkeletonLabeler: a label without a name or a description is an error.
label(seam, ms, reply) == from_str(generate_json(seam, ms, reply), reply.says)

\* LlmSynthesisPass: a candidate without a name or content fails all of them.
synthesize(seam, ms, reply) == from_str_default(generate_json(seam, ms, reply), reply.says)

\* TextLlmEquivalenceVerifier.
seam_decide_equivalence(seam, ms, reply) == from_str(generate_json(seam, ms, reply), reply.says)

\* A forced tool_use block whose fields are required.
ForcedDecision(ms, reply) ==
    LET input == send_request(ms, reply) IN IF input = "keyless" THEN "unexpected" ELSE input

\* OllamaMergeVerifier and ClaudeMergeVerifier; neither is ever a silent "no".
ollama_equivalence(reply) == from_str(post_json(reply), reply.says)
claude_equivalence(ms, reply) == ForcedDecision(ms, reply)

decide_equivalence(provider, ms, reply) ==
    IF provider = "claude" THEN claude_equivalence(ms, reply) ELSE ollama_equivalence(reply)

\* OllamaGeneralityVerifier and ClaudeGeneralityVerifier.
ollama_generality(reply) == from_str(post_json(reply), reply.says)
claude_generality(ms, reply) == ForcedDecision(ms, reply)

decide_generality(provider, ms, reply) ==
    IF provider = "claude" THEN claude_generality(ms, reply) ELSE ollama_generality(reply)

(***************************************************************************)
(* Construction from the environment: what a setting may be is named by    *)
(* what the code tells apart, "" for a variable that is unset or blank.    *)
(***************************************************************************)

parse_provider(raw) ==
    CASE raw \in {"", "ollama"} -> "ollama"
      [] raw \in {"claude", "claude-api"} -> "claude"
      [] raw \in {"claude-code", "claude-cli"} -> "claude-code"
      [] OTHER -> "error"

\* EXTRACT_EXTRACTION_PATH.
parse_run_path(raw) ==
    CASE raw \in {"", "orchestrated"} -> "orchestrated"
      [] raw \in {"single-shot", "legacy"} -> "single_shot"
      [] OTHER -> "error"

\* A base URL must be https, whatever else it is.
validate_base_url_scheme(url) == url \in {"", "https"}

\* An explicit path must be an executable file; the default is not probed.
validate_cli_path(path) == path \in {"", "executable"}

\* Limits of zero are refused, and so is a number that does not parse: it is
\* a zero here, and a timeout below zero.
validate_extraction_config(limits) == limits.entries > 0 /\ limits.entry_chars > 0 /\ limits.total_chars > 0

build_ollama(env) == validate_extraction_config(env.limits)

build_claude(env) == env.api_key /\ validate_base_url_scheme(env.base_url) /\ env.timeout >= 0

build_claude_code(env) ==
    validate_cli_path(env.cli_path) /\ env.timeout >= 0 /\ validate_extraction_config(env.limits)

build_extractor(provider, env) ==
    CASE provider = "ollama" -> build_ollama(env)
      [] provider = "claude" -> build_claude(env)
      [] provider = "claude-code" -> build_claude_code(env)
      [] OTHER -> FALSE

\* The Messages API has no text transport: its seams stay local.
build_text_llm(provider) == IF provider = "claude-code" THEN "claude-code" ELSE "ollama"

\* Extractor, run path and seams; embeddings are always local.
from_environment(env) ==
    LET provider == parse_provider(env.provider)
        path == parse_run_path(env.run_path) IN
    /\ build_extractor(provider, env)
    /\ path # "error" /\ (path = "orchestrated" => env.ollama_url)

\* MERGE_VERIFIER_PROVIDER and GENERALITY_VERIFIER_PROVIDER of the worker.
build_verifier(raw, env) ==
    CASE raw \in {"", "ollama"} -> IF env.ollama_url THEN "ollama" ELSE "error"
      [] raw = "claude" -> IF env.api_key THEN "claude" ELSE "error"
      [] OTHER -> "error"
=============================================================================
