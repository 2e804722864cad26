---------------------------- MODULE MCDeviceApi ----------------------------
(* Two sites, a device and a role: DeviceApi for TLC. *)
EXTENDS DeviceApi, TLC

CONSTANTS s1, s2, d1, editor

MCSiteOf == d1 :> s1
MCGrants == editor :> {"devices.create", "devices.update"}
MCBindable == {<<s1, editor>>}

Asked(op, site, d, target) == [op |-> op, site |-> site, device |-> d, target |-> target]

MCRequest == {Asked("create", s1, NoDevice, "discovered"),
              Asked("update", s1, d1, "discovered"), Asked("view", s2, d1, "discovered"),
              Asked("move", s1, d1, "retired")}

Symmetry == Permutations(Call) \cup Permutations(Replica)
=============================================================================
