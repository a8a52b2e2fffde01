SPECIFICATION Spec
CONSTANTS
  Features = {"wg", "dns"}
  Values = {1, 2}
INVARIANTS EnabledIsConfigured FlagsReachKernel
