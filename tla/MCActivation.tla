---------------------------- MODULE MCActivation ----------------------------
(* Two installers of one home, hosts that start on it and grant-control    *)
(* clients.                                                                *)
EXTENDS Activation, TLC

Symmetry == Permutations(Installer) \union Permutations(Epoch) \union Permutations(Host)
            \union Permutations(Client)

=============================================================================
