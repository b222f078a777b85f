SPECIFICATION PortalSpec
CONSTANTS
  UPDATE_TIME = 4
  MaxNet = 1
INVARIANT PortalTypeOK
PROPERTY KeptAlive
PROPERTY PanelCorrected
PROPERTY AbandonedEnds
CHECK_DEADLOCK FALSE
