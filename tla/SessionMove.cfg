SPECIFICATION Spec
CONSTANTS
  Location = {"home", "rest"}
  Server = {here, there}
  here = here
  there = there
  alice = alice
  guest = guest
  secret = secret
  other = other
  User = {alice, guest}
  Password = {secret, other}
  Ticket = {t1}
  NoTicket = NoTicket
  NoCredential = NoCredential
  NoLocation = NoLocation
  Agent = {a1, a2, a3}
  Config <- Site
INVARIANTS NoMoveOutOfReadOnly
