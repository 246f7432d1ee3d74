----------------------------- MODULE Endpoints -----------------------------
(***************************************************************************)
(* A process that makes one call of Connect, or runs the server of Serve;  *)
(* the sockets, the transports and the ready queue are those of Opening.   *)
(***************************************************************************)
EXTENDS Connect, Serve

Init ==
    /\ kind \in Sequential \cup Racing \cup Binding \cup {"given", "serve"}
    /\ InitOpening /\ InitConnect /\ InitServe
    /\ kind # "serve" => \A n \in FreeFds : limit <= n

Next ==
    \/ kind = "serve" /\ ServeNext /\ UNCHANGED client
    \/ kind # "serve" /\ ConnectNext /\ UNCHANGED server

vars == <<opening, client, server>>

\* A connection takes finitely many steps, and timers run out unless
\* connections are accepted, so that each group needs one condition only.
Fairness ==
    /\ WF_vars(kind # "serve" /\ ConnectProgress /\ UNCHANGED server)
    /\ WF_vars(kind = "serve" /\ ListenProgress /\ UNCHANGED client)
    /\ WF_vars(kind = "serve" /\ ConnectionProgress /\ UNCHANGED client)

Spec == Init /\ [][Next]_vars /\ Fairness

\* The variables of the endpoints stay in their ranges.
TypeOK == TypeOpening /\ TypeConnect /\ TypeServe

=============================================================================
