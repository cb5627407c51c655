SPECIFICATION Spec
CONSTANTS
    Primary = primary
    Extras = {extra}
    Feeds = {feed}
    Hosts = {us, eu}
    FirstHost = us
    Uuids = {u1, u2}
    Kinds <- KindsOf
    Rare <- NotOften
    Breaking = {primary}
    SeenCap = 1
    MaxMessages = 3
    AuthMaxRetries = 1
INVARIANTS
    DuplicatesApart
    RefusedForAReason
    OneWatcher
PROPERTIES
    SwitchArrives
CHECK_DEADLOCK FALSE
