\* Messages of up to two elements, four acts of the operator
CONSTANTS
  MaxElements = 2
  MaxActs = 4
  MaxQueue = 2
SPECIFICATION Spec
INVARIANTS KeyedIsMeant EscapeStopsOne
PROPERTY ComesToIdle
