SPECIFICATION Spec
CONSTANTS
  Devices = {d1, d2}
  Emails = {e1, e2}
  Passwords = {p, q}
  None = None
  MaxUserCount = 2
  RecoveryCodes = 2
  MaxIds = 3
  MaxFaults = 1
  Agendas <- MCAgendas
SYMMETRY Alike
INVARIANTS
  CanLogIn
  PasswordHolds
  SignupsHold
  OldSessionsEnd
  CodeOnce
CHECK_DEADLOCK FALSE
