------------------------------ MODULE MCProcess ------------------------------
(* Small instances of Process for TLC. *)
EXTENDS Process

CONSTANTS n1, n2, w1, w2, m1

Given ==
  [enforceArg |-> FALSE, enforce |-> FALSE, node |-> "name", auth |-> "PKI",
   psk |-> "", nets |-> "valid", kubeconfig |-> "path", inCluster |-> TRUE,
   collector |-> FALSE, beta |-> TRUE]

(* Bound: the kinds of policies only.                                      *)
Both == {Given, [Given EXCEPT !.beta = FALSE]}

(* Bound: the kinds of policies, and one other argument at a time.         *)
Few ==
  {Given, [Given EXCEPT !.enforceArg = TRUE],
   [Given EXCEPT !.enforce = TRUE, !.node = ""], [Given EXCEPT !.node = ""],
   [Given EXCEPT !.auth = "other"], [Given EXCEPT !.auth = "PSK"],
   [Given EXCEPT !.nets = "invalid"],
   [Given EXCEPT !.auth = "PSK", !.psk = "secret", !.collector = TRUE,
                 !.inCluster = FALSE, !.kubeconfig = "", !.beta = FALSE]}

=============================================================================
