SPECIFICATION Spec
CONSTANT Tasks <- TwoMonitorsTasks
CHECK_DEADLOCK FALSE
PROPERTIES MonitorsActivated
