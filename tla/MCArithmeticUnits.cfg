\* Floats of 4 exponent and 2 fraction bits, integers of 8 bits.
CONSTANTS
  F = 2
  EB = 4
  Divisors <- MCDivisors
  MaxEvents = 4
  PowerUp <- MCPowerUp
  W = 8
  PowerUpWords <- MCPowerUpWords
  AddShifts = 1
  MulShifts = 1
  Held <- MCHeld
  NoResult = NoResult
  FpuInputs <- MCInputs
SPECIFICATION UnitsSpec
INVARIANTS UnitsTypeOK ResultsAreRounded LoopsKeepTheValue SumsAreClose ProductsTruncate FusedIsClose ComparisonsOrder
PROPERTIES RequestsAreAnswered UnitsImplemented
