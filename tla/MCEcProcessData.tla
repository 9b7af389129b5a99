-------------------------- MODULE MCEcProcessData --------------------------
(* The setups of the runs.  With the two buffers there are: one frame that   *)
(* may be lost or late, and commands between cycles that may be, too; one    *)
(* frame and commands at any time, or two frames and commands between        *)
(* cycles, on a network that loses frames; and a reliable network whose      *)
(* interface repeats itself.                                                 *)
EXTENDS EcProcessData

Group(f) == [frames |-> f, dc |-> FALSE, lossy |-> TRUE, late |-> FALSE,
             commands |-> "never", again |-> FALSE]

OneLate == [Group(<<"LRW">>) EXCEPT !.dc = TRUE, !.late = TRUE, !.commands = "between"]
OneAndCommands == [Group(<<"LRW">>) EXCEPT !.dc = TRUE, !.commands = "anytime"]
OneAgain == [Group(<<"LRW">>) EXCEPT !.lossy = FALSE, !.commands = "between", !.again = TRUE]
TwoAndCommands == [Group(<<"LRW", "LRW">>) EXCEPT !.commands = "between"]
TwoClock == [Group(<<"LRW", "LRW">>) EXCEPT !.dc = TRUE, !.lossy = FALSE]
ReadAndWrite == [Group(<<"LRD", "LWR">>) EXCEPT !.commands = "between"]

MCSetups == {OneLate, OneAndCommands, OneAgain, TwoAndCommands, TwoClock, ReadAndWrite}
=============================================================================
