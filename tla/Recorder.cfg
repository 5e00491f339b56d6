CONSTANTS
  Starts = {a1, a2, a3}
  Stops = {z1, z2}
  NoRecorder = NoRecorder
SPECIFICATION RecorderSpec
INVARIANTS
  MicrophoneIsHeld
  StopIsOffered
  RecordingIsFinished
PROPERTY MicrophoneIsReleased
CHECK_DEADLOCK FALSE
