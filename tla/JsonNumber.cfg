CONSTANTS
  FracDigits = 3
  FracChars = {48, 53}
  Expo = 20
SPECIFICATION Spec
INVARIANT TrimKeepsValue
