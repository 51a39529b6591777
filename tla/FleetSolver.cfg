SPECIFICATION Spec
CONSTANTS
  None = None
  Shipments = 3  Vehicles = 3  Drivers = 2
  ShipmentKind <- Freights  VehicleKind <- Trucks  DriverKind <- People
  Steep = 12  Years = 3
INVARIANTS LoadsRespected MountainDrivers ServedOnce LeftForAReason
CHECK_DEADLOCK FALSE
