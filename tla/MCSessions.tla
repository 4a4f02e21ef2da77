------------------------------ MODULE MCSessions ------------------------------
(* The kinds of requests that are mixed: what ends sessions beside refreshes *)
(* of two tabs; tabs that stray; and failed logins with crashes.             *)
EXTENDS Sessions, TLC

MCMixes == {{"login", "refresh", "reset", "logoutAll", "logout"},
            {"login", "refresh", "reload", "crash"},
            {"login", "wrong", "crash"}}

\* Tabs, session ids and handlers are interchangeable.
MCSymmetry == Permutations(Tabs) \cup Permutations(Ids) \cup Permutations(Requests)
=============================================================================
