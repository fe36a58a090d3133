SPECIFICATION Spec
CONSTANTS
  image_width = 3
  Images <- MCImages
  MaxHits = 4
  threshold_values <- MCThresholdValues
  ThresholdModulus = 65536
  thresholds_per_pixel <- MCThresholdTables
  Calibrations <- MCCalibrations
  directional_distances = {1, 2}
  MaxStages = 2
INVARIANT HitsOnlyDisappear
PROPERTIES DiscriminationIsolates AdditionConservesCharge AdditionIsAsExpected
CHECK_DEADLOCK FALSE
