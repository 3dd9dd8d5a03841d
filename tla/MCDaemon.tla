------------------------------ MODULE MCDaemon ------------------------------
EXTENDS DaemonProps, TLC

CONSTANTS p1, p2, p3, p4

\* Two commands at once; what is left of the processes are daemons that they start.  Or a
\* command and two daemons, and no room for one more.
MCScenes ==
    {(p1 :> s[1]) @@ (p2 :> s[2]) :
        s \in {<<"ask", "ask">>, <<"ask", "start">>, <<"ask", "stop">>, <<"ask", "restart">>,
               <<"ask", "agent">>, <<"start", "start">>, <<"start", "stop">>, <<"start", "reset">>,
               <<"restart", "agent">>}}
    \cup {(p1 :> "ask") @@ (p2 :> "daemon") @@ (p :> "daemon") @@ (q :> "other") :
            <<p, q>> \in {<<p3, p4>>, <<p4, p3>>}}

Daemons == Permutations({p3, p4})
=============================================================================
