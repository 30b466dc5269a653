CONSTANTS
  MaxSpeed = 100
  SpeedStep = 60
  MaxBattery = 100
  MinTemp = 20
  MaxTemp = 50
  ClockSteps <- MCClockSteps
  MaxTime = 580
  Callers = {t1, t2}
SYMMETRY CallerSymmetry
SPECIFICATION ServiceSpec
INVARIANTS
  ServiceTypeOK
  DrainBounded
  AnswerIsOwnResult
  TelemetryIsCurrent
PROPERTIES
  GainIsRecharge
  VehicleRefined
