----------------------------- MODULE MCService ------------------------------
(* Instances of Service for TLC: a window inside the day, one over midnight and one that
   begins with an hour. *)
EXTENDS Service

MCWindows == {<<1, 4>>, <<4, 1>>, <<3, 5>>}
=============================================================================
