------------------------------- MODULE MCLogin -------------------------------
(* Small instance of Login: two logins over an authenticator of each kind. *)
EXTENDS Login, TLC

CONSTANTS codex, gemini, device, p1

MCFlow == (codex :> "pkce") @@ (gemini :> "plain") @@ (device :> "device")

\* The browser flows are configured with the same port.
MCPort == [c \in Clis |-> p1]
=============================================================================
