------------------------------ MODULE MCEditor ------------------------------
(* A small instance of Editor. *)
EXTENDS Editor

Mix(server, mishaps, chat, noises, pending) ==
    [server |-> server, upsets |-> mishaps, chat |-> chat, noise |-> noises, session |-> pending]

(* Three commands to the service manager with one thing going wrong; four to   *)
(* the chat window, or three and one thing going wrong or a resumed session;   *)
(* one of each.                                                                *)
OneKindOrBoth ==
    {Mix(3, 1, 0, 0, 0), Mix(0, 0, 4, 0, 0), Mix(0, 0, 3, 1, 0), Mix(0, 0, 3, 0, 1), Mix(1, 0, 1, 0, 0)}
=============================================================================
