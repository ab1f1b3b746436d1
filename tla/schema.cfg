SPECIFICATION Spec
CONSTANTS
  Width <- MCWidth
  Signed = {"i8", "i16", "i32", "i64"}
  Unsigned = {"u8", "u16", "u32", "u64"}
  Floats = {"f32", "f64"}
  Sorted = {"u32", "u64"}
  ByteBits = 3
  WordBits = 4
  MaxStages = 4
  Fail = Fail
  Panic = Panic
  MaxDepth = 3
  MaxVariants = 2
  JsonLimit = 13
  Current = 1
  Specs <- MCSpecs
  Shapes <- MCShapes
  Samples <- MCSamples
  Names = {"a", "b"}
  MaxColumns = 2
  MaxHeight = 5
INVARIANTS
  PipelinesFitFields
  WrittenOpens
  RefusedForCause
CHECK_DEADLOCK FALSE
