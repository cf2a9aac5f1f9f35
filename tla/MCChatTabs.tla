----------------------------- MODULE MCChatTabs -----------------------------
(* A small instance: two tabs, a chat and an interview waiting for an answer. *)
EXTENDS ChatProps

CONSTANTS t1, t2   \* tabs

Chat == [NewRow EXCEPT !.msgs = <<Msg("user", 1, 0), Msg("agent", 1, 0)>>, !.title = 1]
Interview == [NewRow EXCEPT !.msgs = <<Msg("auto", 2, 0), Msg("agent", 2, 1)>>,
                            !.title = Generated, !.flag = TRUE, !.sessions = <<"open">>]
MCRows == {<<Chat, Interview>>}
MCStored == {t1 :> 2 @@ t2 :> 0, t1 :> Stale @@ t2 :> 0}
=============================================================================
