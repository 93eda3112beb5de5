------------------------ MODULE MCSpeedConfirmation ------------------------
(* Speed tests and confirmations on small instances. *)
EXTENDS SpeedConfirmation

CONSTANTS n1
OneNode == {n1}
ManualAndSchedule == {"manual", "schedule"}
ScheduleOnly == {"schedule"}
AllSwitches == {"pause", "resume", "project", "unproject", "refresh"}
Pause == {"pause"}
OkLow == {"ok", "low"}
=============================================================================
