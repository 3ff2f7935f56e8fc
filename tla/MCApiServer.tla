---------------------------- MODULE MCApiServer ----------------------------
(* Mixes of requests that meet in a limiter, in a backend, or nowhere.         *)
EXTENDS ApiServer

CONSTANTS r1, r2, h1, h2, u1, u2, w1, w2

Is(kind, host, user, at) ==
    [kind |-> kind, host |-> host, user |-> user, token |-> kind \in {"refresh", "logout"}, at |-> at]
Deletes(token, at) == [Is("delete", h1, u1, at) EXCEPT !.token = token]
Pair(a, b) == [r \in Requests |-> IF r = r1 THEN a ELSE b]
MCTraffic == {
    Pair(Is("upload", h1, u1, w1), Is("upload", h1, u2, w1)),
    Pair(Is("upload", h1, u1, w1), Is("upload", h2, u1, w1)),
    Pair(Is("upload", h1, u1, w1), Is("read", h2, u1, w1)),
    Pair(Is("read", h1, u1, w1), Is("update", h1, u2, w2)),
    Pair(Is("login", h1, None, w1), Is("register", h1, None, w1)),
    Pair(Is("refresh", h1, None, w1), Deletes(TRUE, w1)),
    Pair(Is("ready", h1, None, w1), Is("logout", h2, u1, w1)),
    Pair(Is("health", h1, None, w1), Is("read", h1, None, w1)),
    Pair(Is("health", h1, None, w1), Deletes(FALSE, w2))}

MCLimit == [l \in Limiters |-> 1]
=============================================================================
