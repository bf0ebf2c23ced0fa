CONSTANTS
 Forms <- Forms_
 Boundary <- Boundary_
 Dispositions <- Dispositions_
 Fields <- Fields_
 MaxRest = 0
INIT BodyInit
NEXT BodyNext
INVARIANTS UploadIsWhole
CHECK_DEADLOCK FALSE
