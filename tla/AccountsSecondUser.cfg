SPECIFICATION AccountsFaultFreeSpec
CONSTANTS
    None = None
    Deleted = Deleted
    Handler = {h1}
    UserId = {u1, u2}
    Email = {e1, e2}
    Phone = {p1, p2}
    Password = {pw}
    Session = {s1}
    Secret = {code}
    ApiKey = {k1}
PROPERTIES
    NewcomerIsRegistered
CHECK_DEADLOCK FALSE
