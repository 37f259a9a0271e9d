CONSTANTS
    Channels = {1, 2}
    Timeout = 2
    TickLimit = 8
    Pins = {p1, p2}
    Addresses = {a1, a2}
SPECIFICATION SpecDrivers
CHECK_DEADLOCK FALSE
INVARIANTS SpiTruthful I2cTruthful UartTruthful TimerQuiet
PROPERTIES GpioAsAsked Returns
