SPECIFICATION Spec
CONSTANTS
  DBUS_RETRIES = 5
  Hazards = {"misconfigured", "nobus", "refused", "fail", "signal", "fault"}
 
PROPERTY GivesUpLate
PROPERTY StartEnds
PROPERTY SignalsTerminal
