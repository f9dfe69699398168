---------------------------- MODULE MCWebhooks ----------------------------
(***************************************************************************)
(* Small instances of Webhooks.                                            *)
(***************************************************************************)
EXTENDS Webhooks, TLC

\* Pause; resume with a new secret.
Body(status, token) == [status |-> status, token |-> token]
MCPayloads == {Body({"paused"}, {}), Body({"active"}, Tokens)}

\* Ids, tokens and slots are interchangeable.
Symmetry == Permutations(Hooks) \cup Permutations(Tokens) \cup Permutations(Keys)
            \cup Permutations(Deliveries) \cup Permutations(Changes)
===========================================================================
