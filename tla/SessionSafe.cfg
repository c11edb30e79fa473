SPECIFICATION Spec
CONSTANTS
  Location = {"home", "pam", "public", "both", "none"}
  Server = {here, there}
  here = here
  there = there
  alice = alice
  guest = guest
  secret = secret
  other = other
  User = {alice, guest}
  Password = {secret, other}
  Ticket = {t1}
  NoTicket = NoTicket
  NoCredential = NoCredential
  NoLocation = NoLocation
  Agent = {a1, a2, a3}
  Config <- Site
SYMMETRY Symmetric
INVARIANTS TypeOK ServedAsSelf TicketInForce NoWriteIntoReadOnly HandleStaysOpen
