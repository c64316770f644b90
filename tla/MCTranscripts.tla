---------------------------- MODULE MCTranscripts ---------------------------
(* Finite instances of TranscriptQueue for TLC. *)
EXTENDS TranscriptQueue

(* Every content is posted by both hooks and by an unknown source, with the
   configured secret and with another. *)
MCPosts ==
    [content : Contents,
     source : {"session_end", "pre_compact", "stop"},
     secret : {"shared", "other"}]
=============================================================================
