----------------------------- MODULE FrameParser -----------------------------
(***************************************************************************)
(* How Saarthi reads what Mitra sends: frame_parser.parse, which turns every *)
(* shape of envelope into one frame and never raises, and what the channel's *)
(* turn loop does with a frame.                                              *)
(*                                                                          *)
(* An envelope is what json.loads returned: which shape it has, and of each  *)
(* field what the parser tells apart.  A msg is a text, empty or absent, or  *)
(* an internal object of Mitra's ("leaked"), with or without a text for the  *)
(* user in its "response".  Options and step are display data and left out;  *)
(* so is FrameKind, which nothing outside the parser reads.                  *)
(***************************************************************************)
Sources == {"user", "bot", "system", "other"}
Types == {"message", "options", "error", "status", "other"}
Envelope ==
  [shape : {"text", "string", "typed", "broken"}, source : Sources, type : Types,
   msg : {"text", "none", "leaked", "leaked reply"}, error : BOOLEAN, finish : BOOLEAN]
ParsedFrame ==
  [source : Sources, msg : BOOLEAN, control : BOOLEAN, error : BOOLEAN, finish : BOOLEAN]

\* _coerce_message_text: a leaked object contributes its response text or nothing, and is marked.
HasText(e) == e.msg \in {"text", "leaked reply"}
IsControl(e) == e.msg \in {"leaked", "leaked reply"}

FrameFor(e, source, error, finish) ==
  [source |-> source, msg |-> HasText(e), control |-> IsControl(e),
   error |-> error, finish |-> finish]

\* {"text": {...}}: an echo; else a system message or whatever carries an error, which keeps its
\* sender but never finishes a turn; else a chunk or the end of the bot's reply.
parse_text_envelope(e) ==
  CASE e.source = "user" -> FrameFor(e, "user", FALSE, FALSE)
    [] e.source # "user" /\ (e.source = "system" \/ e.error) ->
         FrameFor(e, e.source, e.error \/ HasText(e), FALSE)
    [] OTHER -> FrameFor(e, e.source, FALSE, e.finish)

\* {"type": ...}: the formats of the Node reference client.
parse_legacy_envelope(e) ==
  CASE e.type = "status" -> FrameFor(e, "system", e.error, FALSE)
    [] e.type = "error" -> FrameFor(e, "system", e.error \/ HasText(e), FALSE)
    [] e.type = "options" -> FrameFor(e, "bot", FALSE, TRUE)
    [] e.type = "message" -> FrameFor(e, "bot", FALSE, e.finish)
    [] OTHER -> [FrameFor(e, e.source, TRUE, FALSE) EXCEPT !.control = FALSE]

parse(e) ==
  CASE e.shape = "text" -> parse_text_envelope(e)
    [] e.shape = "string" ->
         [source |-> "bot", msg |-> e.msg = "text", control |-> FALSE, error |-> FALSE,
          finish |-> e.finish]
    [] e.shape = "typed" -> parse_legacy_envelope(e)
    [] OTHER -> [source |-> "other", msg |-> FALSE, control |-> FALSE, error |-> TRUE,
                 finish |-> FALSE]

-----------------------------------------------------------------------------
(* The turn loop of send_and_await_turn.                                      *)

Raises(f) == f.source = "system" /\ f.error
\* Mutant: echoes count as the bot's.
DiscardedNone(f) == FALSE
Discarded(f) == f.source # "bot" /\ ~Raises(f)
\* Mutant: only an idle gap ends a turn.
EndsTurnOnGap(f) == FALSE
EndsTurn(f) == f.finish
=============================================================================
