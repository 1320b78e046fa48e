SPECIFICATION Spec
CONSTANTS
  k = k
  m = m
  Bindings <- MCBindings
  Devices <- MCDevices
  Names <- MCNames
  DeviceOf <- MCDeviceOf
  NameOf <- MCNameOf
  Mapped = {k, m}
  Pulses = {"m_wheel"}
  Modifiers = {"ctrl"}
  Ids = {"c1", "c2", "c3"}
  Configurations <- MCConfigurations
  AnyDevice = AnyDevice
  MaxEdits = 1
  CaptureOverlaps = FALSE
INVARIANTS
  ActionHeldByKeys
  NoStuckOutput
PROPERTIES
  SuppressedIsOwed
  LateStepNeverCompletes
  StepTimesOut
CHECK_DEADLOCK FALSE
