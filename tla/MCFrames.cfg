\* A worker that starts twice, two frames each time, two attempts to add each; and
\* one frame after another, from the camera to the reports of the detectors.
SPECIFICATION FramesSpec
CONSTANTS
  Camera = {c1}
  NoFrame = NoFrame
  Threshold = 2
  Attempts = 2
  MaxLen = 2
  MaxRuns = 2
  MaxSeq = 2
  MaxPointers = 3
  None = None
  Nobody = None
  Full = 100
  Width = 100
  Height = 100
  MinFace = 40
  MinCrop = 32
  MinBodyW = 8
  MinBodyH = 16
  FaceConf = 60
  PoseConf = 50
  GearConf = 25
  MustWear = {"helmet"}
  GearMin = 50
  ViolenceMin = 65
  LostAfter = 5
  GateMin = 2
  Cam = {"c1"}
  Setup <- MCSetup
  Shot <- MCShot
  View <- MCView
INVARIANTS
  SlotSound
  MeasuresMatched
  ReportsJustified
PROPERTIES
  FailingCameraSettles
  EveryPointerPassed
\* At the bounds workers that are down stay down.
CHECK_DEADLOCK FALSE
