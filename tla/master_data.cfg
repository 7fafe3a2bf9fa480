SPECIFICATION Spec
CONSTANTS
  item = item firm = firm ann = ann title = title mail = mail
  Blank = Blank NoName = Blank NoPricing = NoPricing NoContact = NoContact NotSent = NotSent
  Products = {item}
  Parties = {firm}
  Users = {ann}
  Texts = {Blank, title}
  Contacts = {NoContact, mail}
  Roles = {"admin", "manager"}
  Lifetime = 1
  MaxTime = 2
  MaxTokens = 1
  MaxPassed = 2
  MaxInFlight = 2
  MaxQueued = 1
  MaxEvents = 3
INVARIANTS
  DirectoriesMatch
  PowerExpires
  ExplainedAsEnforced
  KindGuard
CHECK_DEADLOCK FALSE
