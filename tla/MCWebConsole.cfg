CONSTANTS
    Users = {alice, root}
    Admins = {root}
    Passwords = {p1, p2}
    First = p1
    NoPassword = NoPassword
    NoToken = NoToken
    Rows = {row}
    Forms = {form}
    MaxClock = 1
    Slots = {s1, s2}
    MaxDisturbances = 1
    Themes = {"session", "keys", "password", "rows", "forms"}
    MaxKeys = 1
    MaxOwed = 2
SPECIFICATION FairSpec
INVARIANTS
    OneUsersData
    FreshWhenQuiet
    ToldPasswordWorks
    CreditsAccounted
PROPERTIES
    OwnKeysOnly
    SessionEndsForAReason
    NeverStuck
