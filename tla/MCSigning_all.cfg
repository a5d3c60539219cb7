SPECIFICATION Spec
CONSTANTS
  Employees = {ann, bob}
  Uploads = {file, reply}
  Audiences <- Everyone
  Handlers = {h1, h2}
  MaxSigns = 2
SYMMETRY Symmetry
CHECK_DEADLOCK FALSE
INVARIANTS
  TypeOK
  SignaturesAreReal
  RecipientsAreTracked
  ReceivedStays
PROPERTIES
  SignaturesStay
  ImplementsSignatures
