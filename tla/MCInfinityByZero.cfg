\* What a comment of ibex_float_divider.sv says of an infinity divided by zero.
CONSTANTS
  F = 2
  EB = 4
  Divisors <- MCDivisors
  MaxEvents = 4
  PowerUp <- MCPowerUp
  W = 8
  PowerUpWords <- MCPowerUpWords
  AddShifts = 1
  MulShifts = 1
  Held <- MCHeld
  NoResult = NoResult
  FpuInputs <- MCInputs
SPECIFICATION UnitsSpec
INVARIANT InfinityByZeroIsNaN
