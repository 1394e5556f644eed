-------------------------- MODULE MCRequestMetrics --------------------------
(* Small instances of RequestMetrics for TLC. *)
EXTENDS RequestMetrics, TLC

CONSTANTS r1, r2, r3, r4, r5, balance, create, path1, path2, unknown, user, address

\* Two users and a client without a header behind one address, the second user
\* named like the address, and a path that nobody serves.  balance has a
\* parameter, so its paths are not its template.
Routing == r1 :> balance @@ r2 :> balance @@ r3 :> balance @@ r4 :> create @@ r5 :> NoRoute
Paths == r1 :> path1 @@ r2 :> path2 @@ r3 :> path1 @@ r4 :> create @@ r5 :> unknown
Names == r1 :> user @@ r2 :> address @@ r3 :> NoHeader @@ r4 :> NoHeader @@ r5 :> user
Addresses == [r \in Requests |-> address]
Exceptions == balance :> {Unexpected} @@ create :> {400, 409, Unexpected}
=============================================================================
