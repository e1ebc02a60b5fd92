------------------------------ MODULE MCDevice ------------------------------
(***************************************************************************)
(* The parts of a device for TLC: its regions, its keymap, and starting it *)
(* to emulate.  The three share no variable and no property speaks of two  *)
(* of them, so that each behaviour is one of one part.                     *)
(***************************************************************************)
EXTENDS DeviceRegions, KeymapFd, Emulation

VARIABLE part

Init == /\ RegionsInit /\ KeymapInit /\ EmulationInit
        /\ part \in {"regions", "keymap", "emulation"}

Next ==
  /\ UNCHANGED part
  /\ \/ part = "regions"   /\ RegionsNext   /\ UNCHANGED <<kvars, evars>>
     \/ part = "keymap"    /\ KeymapNext    /\ UNCHANGED <<rvars, evars>>
     \/ part = "emulation" /\ EmulationNext /\ UNCHANGED <<rvars, kvars>>

Spec == Init /\ [][Next]_<<rvars, kvars, evars, part>>
=============================================================================
