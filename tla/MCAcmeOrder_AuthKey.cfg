CONSTANTS
  d1 = d1
  d2 = d2
  Domains <- MCDomains
  MaxAuthPolls = 5
  MaxProcessingPolls = 10
  MaxTokens = 2
SPECIFICATION Spec
INVARIANT AuthKeyOnlyWhileAuthorizing
