SPECIFICATION Spec
INVARIANTS
  ConnectionsWork
  
  ObjectsAreFound
  
  
PROPERTIES
  
  
  
  UpdatesRespectPolicy
CHECK_DEADLOCK FALSE
