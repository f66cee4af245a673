SPECIFICATION Spec
CONSTANT MaxWords = 1
PROPERTY HushedStaysSilent
CHECK_DEADLOCK FALSE
