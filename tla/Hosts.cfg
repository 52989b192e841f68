CONSTANTS Prefix = 2 MaxLen = 2 MaxSent = 3
SPECIFICATION PartSpec
INVARIANT CallersAreToldTrue
PROPERTIES IsFifo 
CHECK_DEADLOCK FALSE
