--------------------------- MODULE MC_LocalTypes ---------------------------
(***************************************************************************)
(* Instantiates LocalTypes with the calls a program makes: setting the    *)
(* account type to gm or secp256k1 (and once to ed25519, which panics),   *)
(* setting the node type, and generating account and node keys.           *)
(***************************************************************************)
EXTENDS LocalTypes

Call(op, v, a) == [op |-> op, var |-> v, arg |-> a]

\* Setters and generators of both variables.
MCCalls ==
    {Call("set", "account", "gm"), Call("set", "account", "secp256k1"),
     Call("set", "account", "ed25519"), Call("set", "node", "ed25519"),
     Call("generate", "account", "none"), Call("generate", "node", "none")}

=============================================================================
