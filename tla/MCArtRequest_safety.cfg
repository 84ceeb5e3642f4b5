SPECIFICATION Spec
CONSTANTS
  Runs = {r1, r2}
  Hosts = {h1, h2}
  Template = Template
  Nobody = Nobody
SYMMETRY Symmetry
CHECK_DEADLOCK FALSE
INVARIANTS
  TypeOK
  OneTicketPerHost
  LinkedBeforeTold
