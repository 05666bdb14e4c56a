CONSTANTS
  Devices <- House
  Clicks <- HouseClicks
  Texts <- HouseTexts
  Json <- HouseJson
SPECIFICATION Spec
INVARIANTS Interlock HouseDark ReleaseUnderWay
PROPERTIES CurtainSpec MotorStops
