SPECIFICATION SignUpSpec
CONSTANTS
  host = host
  Clients = {c1, c2}
  Keys = {host}
  KeyOf <- MCKeyOf
  Limit = 3
  Window = 4
  Emails = {"mine", " MINE", "other"}
  MailboxOf <- MCMailboxOf
  Numbers <- MCNumbers
  DialPrefixes <- MCDialPrefixes
  NumberLen = 4
INVARIANTS
  WindowLimit
  RefusedOnlyWhenFull
  OneAccountEach
  AnswersAreTrue
PROPERTY IdleKeysForgotten
