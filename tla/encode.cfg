SPECIFICATION Spec
CONSTANTS
  Width <- MCWidth
  Signed = {"i8", "i16", "i32", "i64"}
  Unsigned = {"u8", "u16", "u32", "u64"}
  Floats = {"f32", "f64"}
  Sorted = {"u32", "u64"}
  ByteBits = 3
  WordBits = 4
  MaxStages = 4
  Fail = Fail
  Leaves <- MCLeaves
  Values <- MCValues
  Stated <- MCStated
INVARIANTS
  RoundTrip
  TruncationDetected
  RejectedForCause
CHECK_DEADLOCK FALSE
