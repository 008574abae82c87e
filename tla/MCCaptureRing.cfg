SPECIFICATION Spec
CONSTANTS
  LINE = 2
  HDR = 1
  PKT = 1
  HALF = 1
  BUF = 8
  FLAGS = {0, 1, 3}
  STARTYS = {1, 2}
  AOI <- MCAoi
  U32 = 10
CONSTRAINT FirstFrames
INVARIANTS TypeOK CopyInBuffer NotUnderCapture ImageWhole OneFramePerImage ImageInFrame
PROPERTY ImageStable
