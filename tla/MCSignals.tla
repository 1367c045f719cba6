------------------------------- MODULE MCSignals -------------------------------
EXTENDS Signals, TLC

CONSTANTS t1, t2

\* A handler that interrupts calls and is used once, one that restarts them
\* and may be interrupted by its own signal, and SIG_IGN.
MCActions ==
    {[Dfl EXCEPT !.h = "fn", !.mask = Sigs, !.reset = TRUE],
     [Dfl EXCEPT !.h = "fn", !.restart = TRUE, !.nodefer = TRUE], [Dfl EXCEPT !.h = "ign"]}
MCMasks == {{}, Sigs}
\* The program of t1 uses everything; t2 posts and ends the group.
MCCalls ==
    t1 :> {"kill", "fault", "exit_group", "exit", "sigaction", "sigprocmask", "execve", "pause",
           "sigsuspend", "read", "recv", "sigtimedwait", "epoll_pwait"}
    @@ t2 :> {"kill", "exit_group"}
===============================================================================
