--------------------------- MODULE DeviceRegions ----------------------------
(***************************************************************************)
(* eis.Device.configure() and the regions it gives a device, up to         *)
(* Device.add().  It takes one C call after another, and any of them may   *)
(* raise: a NULL region, a value ctypes refuses, a symbol the installed    *)
(* library does not have, Ctrl-C.  The exception holds the frame, and with *)
(* it the wrapper of the region in hand, until it is dropped.  A server    *)
(* may call configure() again after that, or go on and add the device.     *)
(***************************************************************************)
EXTENDS Integers, FiniteSets

CONSTANTS Regions,     \* region objects of the library
          NULL,
          MaxRegions,  \* bound: regions asked of one configure()
          MaxCalls     \* bound: calls of configure()

ASSUME RegionsAssumption == /\ NULL \notin Regions
                            /\ {MaxRegions, MaxCalls} \subseteq Nat

VARIABLES
  device,    \* "new" | "added" (offered to the client)
  refs,      \* refs[r]: the reference count of region r; 0 is no region
  setters,   \* setters[r]: how many of its values have been set
  asked,     \* asked[r]: how many there are: 3, and 4 with a mapping_id
  has,       \* the regions the device has
  pc,        \* configure(): "idle" | "next" | "set" | "release"
  obj,       \* region_obj
  todo,      \* regions still to configure
  calls,     \* calls of configure() so far
  lost       \* wrappers held by an exception

rvars == <<device, refs, setters, asked, has, pc, obj, todo, calls, lost>>

RegionsTypeOK ==
  /\ device \in {"new", "added"}
  /\ refs    \in [Regions -> 0..2]
  /\ setters \in [Regions -> 0..4]
  /\ asked   \in [Regions -> {3, 4}]
  /\ has \subseteq Regions /\ lost \subseteq Regions
  /\ pc  \in {"idle", "next", "set", "release"}
  /\ obj \in Regions \cup {NULL}
  /\ todo \in 0..MaxRegions /\ calls \in 0..MaxCalls

RegionsInit ==
  /\ device  = "new"
  /\ refs    = [r \in Regions |-> 0]
  /\ setters = [r \in Regions |-> 0]
  /\ asked   = [r \in Regions |-> 3]
  /\ has = {} /\ lost = {}
  /\ pc = "idle" /\ obj = NULL /\ todo = 0 /\ calls = 0

(* Device.configure(regions=...)                                           *)

Configure ==
  /\ pc = "idle" /\ device = "new" /\ calls < MaxCalls
  /\ pc' = "next"
  /\ calls' = calls + 1
  /\ todo' \in 0..MaxRegions
  /\ UNCHANGED <<device, refs, setters, asked, has, obj, lost>>

(* The owned reference of the new region is its wrapper's (adopt).         *)
NewRegion(r) ==
  /\ pc = "next" /\ todo > 0
  /\ refs[r] = 0
  /\ refs'    = [refs    EXCEPT ![r] = 1]
  /\ setters' = [setters EXCEPT ![r] = 0]
  /\ \E n \in {3, 4} : asked' = [asked EXCEPT ![r] = n]
  /\ obj' = r
  /\ pc'  = "set"
  /\ UNCHANGED <<device, has, todo, calls, lost>>

(* size, offset, physical_scale and perhaps mapping_id, in this order.     *)
Set ==
  /\ pc = "set"
  /\ setters[obj] < asked[obj]
  /\ setters' = [setters EXCEPT ![obj] = @ + 1]
  /\ UNCHANGED <<device, refs, asked, has, pc, obj, todo, calls, lost>>

(* Mutant of Add: the region is added as soon as it has a size.            *)
AddEarly ==
  /\ pc = "set"
  /\ setters[obj] > 0
  /\ refs' = [refs EXCEPT ![obj] = @ + 1]
  /\ has'  = has \cup {obj}
  /\ pc'   = "release"
  /\ UNCHANGED <<device, setters, asked, obj, todo, calls, lost>>

(* region_add(): the device takes a reference of its own.                  *)
Add ==
  /\ pc = "set"
  /\ setters[obj] = asked[obj]
  /\ refs' = [refs EXCEPT ![obj] = @ + 1]
  /\ has'  = has \cup {obj}
  /\ pc'   = "release"
  /\ UNCHANGED <<device, setters, asked, obj, todo, calls, lost>>

Release ==
  /\ pc = "release"
  /\ refs' = [refs EXCEPT ![obj] = @ - 1]
  /\ obj'  = NULL
  /\ todo' = todo - 1
  /\ pc'   = "next"
  /\ UNCHANGED <<device, setters, asked, has, calls, lost>>

Return ==
  /\ pc = "next" /\ todo = 0
  /\ pc' = "idle"
  /\ UNCHANGED <<device, refs, setters, asked, has, obj, todo, calls, lost>>

(* NULL for a region, or a call that raises.                               *)
Fail ==
  /\ pc # "idle"
  /\ lost' = lost \cup ({obj} \ {NULL})
  /\ obj'  = NULL
  /\ todo' = 0
  /\ pc'   = "idle"
  /\ UNCHANGED <<device, refs, setters, asked, has, calls>>

(* The exception is dropped; the finalizer of the region's wrapper runs.   *)
Collect(r) ==
  /\ r \in lost
  /\ lost' = lost \ {r}
  /\ refs' = [refs EXCEPT ![r] = @ - 1]
  /\ UNCHANGED <<device, setters, asked, has, pc, obj, todo, calls>>

(* Device.add(), after a configure() that returned or one that raised.     *)
AddDevice ==
  /\ pc = "idle" /\ device = "new"
  /\ device' = "added"
  /\ UNCHANGED <<refs, setters, asked, has, pc, obj, todo, calls, lost>>

RegionsNext ==
  \/ Configure \/ Set \/ Add \/ Release \/ Return \/ Fail \/ AddDevice
  \/ \E r \in Regions : NewRegion(r) \/ Collect(r)

RegionsSpec == RegionsInit /\ [][RegionsNext]_rvars

-----------------------------------------------------------------------------
(* However configure() ends, and whatever is called after it: the device   *)
(* has only regions that were described completely, and once configure()   *)
(* and its exceptions are gone a region is allocated exactly if the device *)
(* has it, held by the device alone (eis.py:484-499).                      *)
RegionsSettle ==
  /\ \A r \in has : setters[r] = asked[r]
  /\ pc = "idle" /\ lost = {} =>
       \A r \in Regions : refs[r] = IF r \in has THEN 1 ELSE 0

-----------------------------------------------------------------------------
(* The inductive invariant of the proofs.  A region is held by the device, *)
(* by configure() and by an exception, once by each of them.               *)
Holders(r) == (IF r \in has THEN 1 ELSE 0) + (IF r = obj THEN 1 ELSE 0)
              + (IF r \in lost THEN 1 ELSE 0)

RegionsInv ==
  /\ RegionsTypeOK
  /\ \A r \in Regions : refs[r] = Holders(r)
  /\ \A r \in has : setters[r] = asked[r]
  /\ \A r \in Regions : setters[r] <= asked[r]
  /\ obj # NULL <=> pc \in {"set", "release"}
  /\ pc = "set" => obj \notin has
  /\ pc = "release" => obj \in has /\ todo > 0
  /\ pc = "set" => todo > 0
  /\ obj \notin lost
=============================================================================
