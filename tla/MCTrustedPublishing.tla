------------------------ MODULE MCTrustedPublishing ------------------------
(***************************************************************************)
(* Instance for TLC: one job whose entry's user has two-factor on.         *)
(***************************************************************************)
EXTENDS TrustedPublishing

CONSTANTS ci, maintainer, package

JobSet ==
    {[j \in Job |-> [token |-> [issuer |-> "github", signer |-> "github",
                                audience |-> "here", claims |-> {"repository"}],
                     asks |-> package, publishes |-> package]]}
RegistrySet ==
    {[publishers |-> <<[issuer |-> "github", keys |-> "github", audience |-> "here",
                        claims |-> {"repository"}, packages |-> {package},
                        user |-> maintainer, sound |-> TRUE]>>,
      legacy |-> FALSE, mayPublish |-> {<<maintainer, package>>},
      twoFactor |-> [u \in {maintainer} |-> mode], policy |-> [p \in {package} |-> policy]] :
        mode \in {"auth-only", "auth-and-writes"}, policy \in {"off", "automation"}}
=============================================================================
