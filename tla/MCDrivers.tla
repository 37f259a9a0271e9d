----------------------------- MODULE MCDrivers -----------------------------
(***************************************************************************)
(* Small instances of the firmware's peripheral drivers: the SPI, I2C,     *)
(* UART and GPIO drivers of the peripheral access crate and the timer      *)
(* self-tests.  Each has its controller for itself and they share nothing, *)
(* so every behaviour is that of one of them.                              *)
(***************************************************************************)
EXTENDS TimerSelfTest

CONSTANTS Pins, Addresses

VARIABLES unit, driver, configured, chip, call, history, lost, regs, levels, latched, handle

spi == INSTANCE SpiDriver WITH
          Depth <- 2, MaxItems <- 5, PollLimits <- {0, 4}, Dividers <- {1, 2}, MaxCalls <- 2,
          line <- history

i2c == INSTANCE I2cDriver WITH
          Depth <- 1, Limit <- 2, PollLimits <- {0, 1, 9}, MaxCalls <- 3, bus <- history

uart == INSTANCE UartDriver WITH
          Depth <- 2, Divisors <- {1, 258}, PollLimits <- {0, 1, 2}, MaxArrivals <- 4,
          MaxCalls <- 5, sent <- history

gpio == INSTANCE GpioBank WITH MaxCalls <- 4, edges <- history

timers == vars
others == <<unit, driver, configured, chip, call, history, lost, regs, levels, latched, handle>>
allVars == <<timers, others>>

TimersOff ==
    /\ pc = "ended" /\ channel = 1 /\ unmet = {} /\ result = <<>> /\ timer = <<>>
    /\ plic = <<>> /\ isr = Quiet /\ fired = {} /\ taken = <<>>
    /\ clock = 0 /\ ticking = FALSE /\ deadline = 0 /\ remaining = 0

DriverOff == driver = "off"
ChipOff == configured = FALSE /\ chip = "off"
CallOff == call = "off" /\ history = "off"
LostOff == lost = {}
BankOff == regs = "off" /\ levels = {} /\ latched = {} /\ handle = "off"

InitDrivers ==
    \/ unit = "timers" /\ Init /\ DriverOff /\ ChipOff /\ CallOff /\ LostOff /\ BankOff
    \/ /\ unit = "spi" /\ spi!Init
       /\ TimersOff /\ configured = FALSE /\ LostOff /\ BankOff
    \/ unit = "i2c" /\ i2c!Init /\ TimersOff /\ DriverOff /\ LostOff /\ BankOff
    \/ unit = "uart" /\ uart!Init /\ TimersOff /\ DriverOff /\ BankOff
    \/ unit = "gpio" /\ gpio!Init /\ TimersOff /\ DriverOff /\ ChipOff /\ LostOff

NextDrivers ==
    \/ unit = "timers" /\ Next /\ UNCHANGED others
    \/ /\ unit = "spi" /\ spi!Next
       /\ UNCHANGED <<timers, unit, configured, lost, regs, levels, latched, handle>>
    \/ /\ unit = "i2c" /\ i2c!Next
       /\ UNCHANGED <<timers, unit, driver, lost, regs, levels, latched, handle>>
    \/ /\ unit = "uart" /\ uart!Next
       /\ UNCHANGED <<timers, unit, driver, regs, levels, latched, handle>>
    \/ unit = "gpio" /\ gpio!Next /\ UNCHANGED <<timers, unit, driver, configured, chip, lost>>

(* The fairness is that of TimerSelfTest.                                  *)
SpecDrivers ==
    /\ InitDrivers /\ [][NextDrivers]_allVars
    /\ WF_timers(SelfTest) /\ WF_timers(Handle) /\ WF_timers(Tick)

-----------------------------------------------------------------------------
(* Spi::transfer_in_place and Spi::stream_words: see SpiDriver!Truthful.   *)
SpiTruthful == unit = "spi" => spi!Truthful

(* I2c::write_read and what it leaves after a failure: see                 *)
(* I2cDriver!Truthful and I2cDriver!Quiescent.                             *)
I2cTruthful == unit = "i2c" => i2c!Truthful /\ i2c!Quiescent

(* Uart::configure, write, flush and read: see UartDriver!ConfiguredAsAsked, *)
(* UartDriver!FlushedMeansSent and UartDriver!NoSilentLoss.                *)
UartTruthful ==
    unit = "uart" => uart!ConfiguredAsAsked /\ uart!FlushedMeansSent /\ uart!NoSilentLoss

(* Bank::output, Bank::outputs and Input::enable_interrupt: see            *)
(* GpioBank!DrivenAsAsked and GpioBank!FreshEdges.                         *)
GpioAsAsked ==
    /\ [](unit = "gpio" => gpio!FreshEdges)
    /\ [][unit = "gpio" => gpio!DrivenAsAsked]_allVars

(* The timer's interrupt and the teardown of a timer test: see             *)
(* TimerSelfTest!OneShot and TimerSelfTest!QuietAfter.                     *)
TimerQuiet == unit = "timers" => OneShot /\ QuietAfter

=============================================================================
