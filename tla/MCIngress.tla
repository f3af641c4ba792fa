---- MODULE MCIngress ----
(* Instance of SlackIngress for TLC: every kind of event in one Slack thread. *)
EXTENDS SlackIngress

CONSTANTS s1, u1, u2, q1

Input(type, user) == [type |-> type, thread |-> TRUE, bot |-> FALSE, link |-> FALSE,
                      surface |-> s1, user |-> user, request |-> None]

\* Two principals write, one of them links, stops and rules; a bot is ignored.
AllInputs ==
    {Input("app_mention", u1), Input("im", u2),
     Input("message", u1), [Input("message", u1) EXCEPT !.bot = TRUE],
     [Input("app_mention", u1) EXCEPT !.link = TRUE],
     Input("agent_session_stopped", u1),
     [Input("block_actions", u1) EXCEPT !.request = q1]}

====
