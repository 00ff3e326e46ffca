----------------------------- MODULE MCMapper ------------------------------
(* Two tasks over two versions of the target provider and one of another, one  *)
(* of them in the bundle; the registry may give a version's types differently. *)
(* An estate that can be mapped, one that is empty, one that is too large.     *)
EXTENDS Mapper, TLC

CONSTANTS t1, t2, az3, az4, gcp5, vnet, disk, estate, nothing, huge

MCPairs == {az3, az4, gcp5}
MCTypes == {vnet, disk}
MCBundle == {Schema(az3, {vnet}), Schema(gcp5, {})}
MCRegistry == [p \in MCPairs |-> CASE p = az3 -> {{vnet}} [] p = az4 -> {{vnet}, {vnet, disk}} [] p = gcp5 -> {}]
MCRequested == <<az4>>
MCTargets == {"azurerm", "google"}
MCProviderOf == [p \in MCPairs |-> IF p = gcp5 THEN "google" ELSE "azurerm"]
MCTextPlace == [p \in MCPairs |-> IF p = az3 THEN 1 ELSE 2]
MCEstates == {estate, nothing, huge}
MCTypesOf == [e \in MCEstates |-> IF e = nothing THEN {} ELSE {"aws_vpc"}]
MCProviderOfType == [t \in MCTypes |-> IF t = vnet THEN "azurerm" ELSE "google"]
MCSymmetry == Permutations(Tasks)
=============================================================================
