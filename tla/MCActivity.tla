---------------------------- MODULE MCActivity ----------------------------
(* Model-checking instance of Activity: two processes, 4 ticks per        *)
(* second, waits of half a second and of the default ACTIVITY_TIMEOUT.    *)
EXTENDS Activity

CONSTANTS p1, p2

MCProcs == {p1, p2}

MCTimeouts == {5, ACTIVITY_TIMEOUT}

=============================================================================
