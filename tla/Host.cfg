\* The debug host: the CPU core, the MI server, metadata, drives and fixtures.
SPECIFICATION Spec
INVARIANTS
  CoreAgrees StopsAreRight InspectionAgrees FilesAreKept
PROPERTY InterruptStops
\* The target has exited, the image is built, the instruction is executed.
CHECK_DEADLOCK FALSE
