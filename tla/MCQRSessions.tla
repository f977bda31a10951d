---------------------------- MODULE MCQRSessions ----------------------------
(***************************************************************************)
(* Small instances of QRSessions for TLC: two users with one device each,  *)
(* or a second device for the first; one OAuth client with one registered  *)
(* redirect URI and a second URI that is on no list.                       *)
(***************************************************************************)
EXTENDS QRSessions, TLC

CONSTANTS u1, u2, d1, d2, d3, c1, callback, other

MCUsers == {u1, u2}
MCDevices == {d1, d2}
MCOwner == d1 :> u1 @@ d2 :> u2
MCThreeDevices == {d1, d2, d3}
MCTwoOfOne == d1 :> u1 @@ d2 :> u2 @@ d3 :> u1
MCClients == {c1}
MCUris == {callback, other}
MCWebUris == {callback, other}
MCRedirectUris == c1 :> {callback}

NoRedirectUris == <<>>

\* Requests and codes are interchangeable; sessions too.
Symmetry == Permutations(Requests) \cup Permutations(Codes) \cup Permutations(SessionIds)
DeviceSymmetry == Symmetry \cup Permutations({d1, d3})
=============================================================================
