CONSTANTS
  Name <- PipelineName
  Decl <- PipelineDecl
  MaxPasses = 22
  Key <- PipelineKey
  SrtKey = "srt_resolutions"
  Effect <- PipelineEffect
  Inputs = {"module_index"}
  Registrations <- PipelineRegistrations
  Modes = {FALSE, TRUE}
  CacheAttached = FALSE
  MaxVersion = 0
  MaxRuns = 1
SPECIFICATION SpecManager
INVARIANT SequentialFactsComplete
CHECK_DEADLOCK FALSE
