\* five requests for an order and its shipments; the database may fail
CONSTANTS
  r1 = r1
  r2 = r2
  r3 = r3
  r4 = r4
  r5 = r5
  Orders <- OneOrder
  Requests <- FiveRequests
  Statuses <- FourStatuses
  Details <- OneDetail
  Disruptions <- AllDisruptions
  MaxAttempts = 2
  WarehouseStatuses <- TwoAnswers
SPECIFICATION ShipmentSpec
SYMMETRY Symmetry
INVARIANTS
  ShipmentTypeOK
  StatusTold
  CreatedComesFirst
  BoundedShipments
  RecordsMatch
  DeliveredIsTold
PROPERTIES
  LogSpec
  ShippedIsRecorded
CHECK_DEADLOCK FALSE
