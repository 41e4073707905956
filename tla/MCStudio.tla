------------------------------- MODULE MCStudio -------------------------------
(* A small application behind Studio for TLC. *)
EXTENDS Studio, TLC

CONSTANTS s1, c1, u1, u2, admin, bob

On(method, path) == [method |-> method, path |-> path]
OneMethodEach == {On("GET", "/a"), On("POST", "/b")}
AskAll == {On("GET", "/a"), On("GET", "/"), On("POST", "/src/m")}
InitRows == <<admin>>

\* An access saved for a route under a public prefix is shadowed by the prefix.
ASSUME ShadowedAssumption ==
    resolve(application_policy(<<>>, On("POST", "/src/m") :> "admin"), "POST", "/src/m") = "public"
=============================================================================
