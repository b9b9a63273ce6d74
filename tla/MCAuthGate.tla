------------------------------ MODULE MCAuthGate ------------------------------
(* Small instances of AuthGate for TLC.                                    *)
EXTENDS AuthGate

MCTexts == {"a-strong-token", "b-strong-token", "short", "node-key",
            "true", "false", "maybe"}
MCStrong == {"a-strong-token", "b-strong-token", "node-key"}
MCPresented == {"", "a-strong-token", "b-strong-token", "node-key"}

V(t) == [text |-> t, padded |-> FALSE]
Padded(t) == [text |-> t, padded |-> TRUE]
R(t) == [text |-> t, padded |-> FALSE, quoted |-> FALSE]
A == "a-strong-token"
B == "b-strong-token"

MCInitialFile == [name \in Names |->
    CASE name = "ADMIN_TOKEN" -> R(A)
      [] name = "REGISTRATION_TOKEN" -> R(B)
      [] name = "SECRET_KEY" -> R(A)
      [] OTHER -> Unset]

MCEnvChoices == [name \in Names |->
    CASE name = "ADMIN_TOKEN" -> {V(B), V(""), Padded(B)}
      [] name = "REGISTRATION_TOKEN" -> {V(A), V("short"), Padded("")}
      [] name = "SECRET_KEY" -> {V("short")}
      [] name = "STORE_NODE_KEY_SEALED" -> {V("false"), V("maybe")}
      [] OTHER -> {V("false"), V("true"), V("maybe"), V("")}]

MCFileChoices == [name \in Names |->
    CASE name = "ADMIN_TOKEN" ->
            {R(B), [R(B) EXCEPT !.padded = TRUE],
             [text |-> B, padded |-> TRUE, quoted |-> TRUE]}
      [] name = "REGISTRATION_TOKEN" ->
            {R(A), [R(A) EXCEPT !.padded = TRUE]}
      [] OTHER -> {}]
=============================================================================
