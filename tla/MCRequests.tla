----------------------------- MODULE MCRequests -----------------------------
(* Main's Stop, an alert, and a third call of every other kind. *)
EXTENDS Requests

CONSTANTS alert, other, main

MCCalls == {[c \in {alert, other, main} |->
               IF c = alert THEN "alert" ELSE IF c = main THEN "stop" ELSE k] :
            k \in {"alert", "news", "status"}}
=============================================================================
