--------------------------- MODULE MCProjectDeploy ---------------------------
(* A workspace of two contracts, the second of which depends on the first. *)
EXTENDS ProjectDeploy

CONSTANTS r1, r2, testnet, mainnet

MCAliases == {"token", "vault"}
MCDependsOn == [token |-> {}, vault |-> {"token"}]
MCOrder == <<"token", "vault">>
MCDeployments == Runs \X MCAliases

(* No --salt: every call draws a fresh salt, hence an id of its own.       *)
MCFreshIds == [d \in MCDeployments |-> d]

MCOneNetwork == [r \in Runs |-> testnet]
MCTwoNetworks == [r \in Runs |-> IF r = r1 THEN testnet ELSE mainnet]
=============================================================================
