\* One query and its retry, against one API process.
SPECIFICATION Spec
CONSTANT Query = {q1}
INVARIANTS FirstAbortDecides OnlyRealErrorsAreFinal NoHandlerIsSurprised
PROPERTIES PagesSettle
CHECK_DEADLOCK FALSE
