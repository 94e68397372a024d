\* Two mailboxes and room for one account: a third would add nothing but a
\* longer cache.
CONSTANTS
  Threads = {t1, t2, t3}
  Backends = {b1, b2}
  Protocols = {p1, p2}
  Settings = {s1, s2}
  Mailboxes = {m1, m2}
  MaxOthers = 1
  None = None
SPECIFICATION Spec
SYMMETRY Symmetry
INVARIANTS
  TypeOK
  OneAccount
  SettingsStick
  SomeoneGoesOn
