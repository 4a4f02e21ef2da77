-------------------------- MODULE MCCustomerRecords --------------------------
(* The kinds of requests that are mixed: money that moves while customers are *)
(* merged and records deleted; customers and quotes that come and go.         *)
EXTENDS CustomerRecords, TLC

MCMixes == {{"merge", "pay", "return", "once"}, {"merge", "pay", "delete"}, {"create", "quote", "merge"}}

\* Payments that are recorded and returned, with nothing else going on.
MCReturns == {{"pay", "return"}}

\* Customers, documents, payments, emails, keys and handlers are interchangeable.
MCSymmetry == Permutations(Customers) \cup Permutations(Docs) \cup Permutations(Payments)
              \cup Permutations(Emails) \cup Permutations(Keys) \cup Permutations(Requests)
=============================================================================
