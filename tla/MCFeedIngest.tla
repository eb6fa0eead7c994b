------------------------------ MODULE MCFeedIngest ------------------------------
(* An instance of FeedIngest for TLC. *)
EXTENDS FeedIngest

CONSTANTS e1, e2 \* entries

MCDayOf == [e \in Entries |-> IF e = e1 THEN 1 ELSE 2]

\* Sources as the system creates them: refresh_interval_hours is NULL.
MCUnpaced == {[channel |-> c, guested |-> FALSE, paced |-> FALSE] : c \in BOOLEAN}
=============================================================================
