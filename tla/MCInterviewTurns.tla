-------------------------- MODULE MCInterviewTurns --------------------------
(* Envelopes of Mitra, model values and symmetry for TLC.                   *)
EXTENDS InterviewTurns

TextEnvelope(source, msg, error, finish) ==
  [shape |-> "text", source |-> source, type |-> "other", msg |-> msg, error |-> error,
   finish |-> finish]
Typed(type, msg, finish) ==
  [shape |-> "typed", source |-> "other", type |-> type, msg |-> msg, error |-> FALSE,
   finish |-> finish]

\* A reply at once, a streamed one with an empty last frame, and a leaked payload.
Whole == {<<TextEnvelope("bot", "text", FALSE, TRUE)>>, <<Typed("options", "text", FALSE)>>}
Streamed == {<<TextEnvelope("bot", "text", FALSE, FALSE), TextEnvelope("bot", "none", FALSE, TRUE)>>,
             <<Typed("message", "text", FALSE), Typed("message", "none", TRUE)>>}
Leaked == {<<TextEnvelope("bot", "leaked", FALSE, TRUE)>>}
Spoken == Whole \cup Streamed
MCBotReplies == Spoken \cup Leaked
MCBotErrors == {TextEnvelope("system", "text", FALSE, FALSE), Typed("error", "text", FALSE)}
Symmetry == Permutations(Texts)
=============================================================================
