SPECIFICATION InventorySpec
CONSTANT Limits <- ManyRows
INVARIANT ActiveServicesMeasured
CHECK_DEADLOCK FALSE
