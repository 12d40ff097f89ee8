----------------------------- MODULE MCDeployTx -----------------------------
(* A mint that grants the role first, and a deployment; a registry.  *)
EXTENDS DeployTx

MCPlans == {<<"call">> \o MintAmountTo, RegistrarDeploy}
MCRegistry == {RegistryDeploy}
=============================================================================
