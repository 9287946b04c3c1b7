\* Two requests over an administrator and a phone number yet unknown: sign-ins,
\* rotations, logouts and resets in the same and in different seconds, any of
\* them dropped at any await.
SPECIFICATION Spec
CONSTANTS
  Requests = {r1, r2}
  Accounts = {admin, buyer}
  Registered = {admin}
  Lifetime = 1
  ResetLifetime = 1
  MaxTokens = 2
  MaxLinks = 3
  MaxNow = 2
SYMMETRY AnyRequest
INVARIANTS
  TypeOK
  SessionsKept
  LinksBounded
  ResetEndsSessions
PROPERTIES
  ImplementsCredentials
