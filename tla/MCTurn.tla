------------------------------- MODULE MCTurn -------------------------------
(* Small instances of Turn.                                                *)
EXTENDS Turn

MCSpares == <<"a", "b">>
MCOne    == <<"a">>
MCDenied == {"shared:write", "shared:publish", "message:other_peer"}

Clock  == [tool |-> "get_time", name |-> "a", kind |-> "watch", timed |-> FALSE,
           later |-> FALSE, long |-> FALSE]
Fetch  == [Clock EXCEPT !.tool = "web_fetch"]
Create == [Clock EXCEPT !.tool = "job_create"]
Timed  == [Create EXCEPT !.kind = "reminder", !.timed = TRUE]
Draft  == [Clock EXCEPT !.tool = "mail_draft"]
Cancel == [Clock EXCEPT !.tool = "job_cancel"]
Change == [Clock EXCEPT !.tool = "job_reschedule", !.long = TRUE]
Relay  == [Clock EXCEPT !.tool = "relay", !.later = TRUE]

MCReads   == {Clock, Fetch}
MCCalls   == {Clock, Fetch, Create, Timed, Cancel, Change, Relay, Draft}
=============================================================================
