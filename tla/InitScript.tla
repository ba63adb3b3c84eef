------------------------------ MODULE InitScript ------------------------------
(***************************************************************************)
(* The status of a service's init script and the buttons drawn from it, as *)
(* the monitor page and the dial page both do.                             *)
(***************************************************************************)

Status(known, s) == [known |-> known, enabled |-> s.enabled, running |-> s.running]
NoStatus == [known |-> FALSE, enabled |-> FALSE, running |-> FALSE]
Actions == {"start", "stop", "restart", "enable", "disable"}

\* Buttons of the status shown: with none, as of a service stopped and disabled.
ButtonsOf(s) ==
  (IF s.known /\ s.running THEN {"stop", "restart"} ELSE {"start"}) \cup
  (IF s.known /\ s.enabled THEN {"disable"} ELSE {"enable"})

\* External: what an init action makes of the service.
After(s, action) ==
  [s EXCEPT !.running = IF action \in {"start", "restart"} THEN TRUE
                        ELSE IF action = "stop" THEN FALSE ELSE @,
            !.enabled = IF action = "enable" THEN TRUE ELSE IF action = "disable" THEN FALSE ELSE @]
===============================================================================
