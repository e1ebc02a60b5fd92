---------------------------- MODULE DeviceProofs -----------------------------
(***************************************************************************)
(* Proofs about the parts of a device, for any set of regions, of fd       *)
(* numbers, of threads and devices: the regions that configure() leaves,   *)
(* the keymap and the file objects made from it, and the sequence numbers. *)
(***************************************************************************)
EXTENDS MCDevice, TLAPS

(* The three parts do not touch each other: what holds of each of them     *)
(* alone holds of the device that TLC explores.                            *)
THEOREM Parts == Spec => RegionsSpec /\ KeymapSpec /\ EmulationSpec
<1>1. Init => RegionsInit /\ KeymapInit /\ EmulationInit
  BY DEF Init
<1>2. ASSUME [Next]_<<rvars, kvars, evars, part>>
      PROVE  [RegionsNext]_rvars /\ [KeymapNext]_kvars /\ [EmulationNext]_evars
  BY <1>2 DEF Next
<1> QED  BY <1>1, <1>2, PTL DEF Spec, RegionsSpec, KeymapSpec, EmulationSpec

-----------------------------------------------------------------------------
(* Regions.                                                                *)

(* At the start there is no region.                                        *)
LEMMA RegionsInitInv == ASSUME RegionsInit PROVE RegionsInv
  BY RegionsAssumption DEF RegionsInit, RegionsInv, RegionsTypeOK, Holders

(* What each step of configure(), the exceptions it leaves and the caller  *)
(* do to the holders of a region they do to its reference count.           *)
LEMMA RegionsStepInv == ASSUME RegionsInv, [RegionsNext]_rvars PROVE RegionsInv'
<1> USE RegionsAssumption DEF RegionsInv, RegionsTypeOK
<1>1. CASE Configure
  BY <1>1 DEF Configure, Holders
<1>2. ASSUME NEW r \in Regions, NewRegion(r) PROVE RegionsInv'
  <2> USE <1>2 DEF NewRegion
  <2>1. r \notin has /\ r \notin lost /\ obj = NULL
    BY DEF Holders
  <2>2. RegionsTypeOK'
    OBVIOUS
  <2>3. \A s \in Regions : refs'[s] = Holders(s)'
    BY <2>1 DEF Holders
  <2>4. /\ \A s \in has' : setters'[s] = asked'[s]
        /\ \A s \in Regions : setters'[s] <= asked'[s]
    BY <2>1
  <2> QED  BY <2>1, <2>2, <2>3, <2>4
<1>3. CASE Set
  <2> USE <1>3 DEF Set
  <2>1. obj \in Regions
    OBVIOUS
  <2>2. RegionsTypeOK'
    BY <2>1
  <2>3. \A s \in Regions : refs'[s] = Holders(s)'
    BY DEF Holders
  <2>4. /\ \A s \in has' : setters'[s] = asked'[s]
        /\ \A s \in Regions : setters'[s] <= asked'[s]
    BY <2>1
  <2> QED  BY <2>1, <2>2, <2>3, <2>4
<1>4. CASE Add
  <2> USE <1>4 DEF Add
  <2>1. obj \in Regions /\ obj \notin has /\ obj \notin lost
    OBVIOUS
  <2>2. refs[obj] = 1
    BY <2>1 DEF Holders
  <2>3. RegionsTypeOK'
    BY <2>1, <2>2
  <2>4. \A s \in Regions : refs'[s] = Holders(s)'
    BY <2>1 DEF Holders
  <2> QED  BY <2>1, <2>3, <2>4
<1>5. CASE Release
  <2> USE <1>5 DEF Release
  <2>1. obj \in Regions /\ obj \in has /\ obj \notin lost
    OBVIOUS
  <2>2. refs[obj] = 2
    BY <2>1 DEF Holders
  <2>3. RegionsTypeOK'
    BY <2>1, <2>2
  <2>4. \A s \in Regions : refs'[s] = Holders(s)'
    BY <2>1 DEF Holders
  <2> QED  BY <2>1, <2>3, <2>4
<1>6. CASE Return
  BY <1>6 DEF Return, Holders
<1>7. CASE Fail
  <2> USE <1>7 DEF Fail
  <2>1. RegionsTypeOK'
    OBVIOUS
  <2>2. \A s \in Regions : refs'[s] = Holders(s)'
    BY DEF Holders
  <2> QED  BY <2>1, <2>2
<1>8. ASSUME NEW r \in Regions, Collect(r) PROVE RegionsInv'
  <2> USE <1>8 DEF Collect
  <2>1. refs[r] \in 1..2 /\ r # obj
    BY DEF Holders
  <2>2. RegionsTypeOK'
    BY <2>1
  <2>3. \A s \in Regions : refs'[s] = Holders(s)'
    BY <2>1 DEF Holders
  <2> QED  BY <2>1, <2>2, <2>3
<1>9. CASE AddDevice
  BY <1>9 DEF AddDevice, Holders
<1>10. CASE UNCHANGED rvars
  BY <1>10 DEF rvars, Holders
<1> QED  BY <1>1, <1>2, <1>3, <1>4, <1>5, <1>6, <1>7, <1>8, <1>9, <1>10 DEF RegionsNext

(* The inductive invariant of configure().                                 *)
LEMMA RegionsInductive == RegionsSpec => []RegionsInv
  BY RegionsInitInv, RegionsStepInv, PTL DEF RegionsSpec

(* However configure() ends, a region is allocated exactly if the device   *)
(* has it, and was described completely (eis.py:484-499).                  *)
THEOREM Settled == RegionsSpec => []RegionsSettle
<1>1. ASSUME RegionsInv PROVE RegionsSettle
  BY <1>1, RegionsAssumption DEF RegionsInv, RegionsTypeOK, Holders, RegionsSettle
<1> QED  BY <1>1, RegionsInductive, PTL

-----------------------------------------------------------------------------
(* The keymap.                                                             *)

USE DEF NoFd

(* At the start the text is open in the server's own file alone.           *)
LEMMA KeymapInitInv == ASSUME KeymapInit PROVE KeymapInv
<1> USE KeymapAssumption DEF KeymapInit
<1>1. offset \in 0..Chunks /\ seekable \in BOOLEAN
  OBVIOUS
<1>2. KeymapTypeOK
  BY <1>1 DEF KeymapTypeOK
<1> QED  BY <1>2 DEF KeymapInv, KeymapIntact, Whole

(* Each step, by what it does to the numbers and to the shared offset.     *)
LEMMA KeymapStepInv == ASSUME KeymapInv, [KeymapNext]_kvars PROVE KeymapInv'
<1> USE KeymapAssumption DEF KeymapInv, KeymapIntact, Whole
<1>1. ASSUME NEW fd \in Fds, NewKeymap(fd) PROVE KeymapInv'
  <2> USE <1>1 DEF NewKeymap
  <2>1. KeymapTypeOK'
    BY DEF KeymapTypeOK
  <2>2. fd # source
    BY DEF KeymapTypeOK
  <2>3. \A u \in Readers : /\ reader[u] \in {"dup", "open"} => number[u] # fd
                           /\ reader[u] = "number" => torn[u]
    BY DEF KeymapTypeOK
  <2> QED  BY <2>1, <2>2, <2>3 DEF KeymapTypeOK
<1>2. ASSUME NEW u \in Readers, NEW fd \in Fds, Dup(u, fd) PROVE KeymapInv'
  <2> USE <1>2 DEF Dup
  <2>1. KeymapTypeOK'
    BY DEF KeymapTypeOK
  <2>2. /\ fd # source /\ fd # keymap
        /\ \A v \in Readers : reader[v] \in {"dup", "open"} => number[v] # fd
    BY DEF KeymapTypeOK
  <2>3. /\ number' = [number EXCEPT ![u] = fd] /\ reader' = [reader EXCEPT ![u] = "dup"]
        /\ table'[fd] = table[number[u]] /\ table[number[u]] # "free"
        /\ \A g \in Fds \ {fd} : table'[g] = table[g]
        /\ ~torn[u] => table[number[u]] = "text"
    BY DEF KeymapTypeOK
  <2> QED  BY <2>1, <2>2, <2>3 DEF KeymapTypeOK
<1>3. ASSUME NEW u \in Readers, Rewind(u) PROVE KeymapInv'
  <2> USE <1>3 DEF Rewind
  <2>1. KeymapTypeOK'
    BY DEF KeymapTypeOK
  <2>2. \A v \in Readers : calm'[v] => v = u
    BY DEF KeymapTypeOK
  <2>3. got'[u] = {} /\ (seekable' => offset' = 0)
    BY DEF KeymapTypeOK
  <2>4. \A v \in Readers : reader'[v] = "open" /\ ~torn'[v] /\ calm'[v] /\ seekable'
                            => got'[v] = 0..offset' - 1
    BY <2>2, <2>3
  <2>5. \A v \in Readers :
          /\ reader'[v] \in {"dup", "open"} <=> reader[v] \in {"dup", "open"}
          /\ reader'[v] = "number" <=> reader[v] = "number"
          /\ reader'[v] = "none" <=> reader[v] = "none"
          /\ reader'[v] # "open" => reader[v] # "open"
    BY DEF KeymapTypeOK
  <2>6. KeymapIntact'
    BY <2>4, <2>5
  <2> HIDE DEF Whole
  <2> QED  BY <2>1, <2>5, <2>6
<1>4. ASSUME NEW u \in Readers, Read(u) PROVE KeymapInv'
  <2> USE <1>4 DEF Read
  <2>1. KeymapTypeOK'
    BY DEF KeymapTypeOK
  <2>2. \A v \in Readers : calm'[v] => v = u /\ calm[u]
    BY DEF KeymapTypeOK
  <2>3. ~torn[u] /\ calm[u] /\ seekable => got'[u] = 0..offset' - 1
    <3>1. ~torn[u] /\ calm[u] /\ seekable => got[u] = 0..offset - 1
      OBVIOUS
    <3>2. offset \in Nat /\ offset' = offset + 1 /\ got'[u] = got[u] \cup {offset}
      BY DEF KeymapTypeOK
    <3>3. \A n \in Nat : 0..n - 1 \cup {n} = 0..(n + 1) - 1
      OBVIOUS
    <3> HIDE <1>4 DEF Read, KeymapInv, KeymapIntact, Whole
    <3> QED  BY <3>1, <3>2, <3>3
  <2>4. \A v \in Readers : reader'[v] = "open" /\ ~torn'[v] /\ calm'[v] /\ seekable'
                            => got'[v] = 0..offset' - 1
    BY <2>2, <2>3
  <2> QED  BY <2>1, <2>4 DEF KeymapTypeOK
<1>5. ASSUME NEW u \in Readers, Close(u) PROVE KeymapInv'
  <2> USE <1>5 DEF Close
  <2>1. KeymapTypeOK'
    BY DEF KeymapTypeOK
  <2> QED  BY <2>1 DEF KeymapTypeOK
<1>6. CASE KeymapEnds
  <2> USE <1>6 DEF KeymapEnds
  <2>1. KeymapTypeOK'
    BY DEF KeymapTypeOK
  <2>2. \A u \in Readers : /\ torn'[u] <=> torn[u] \/ reader[u] = "number"
                           /\ reader[u] = "number" => torn'[u]
    BY DEF KeymapTypeOK
  <2>3. \A u \in Readers : reader[u] \in {"dup", "open"} =>
          /\ number[u] # keymap /\ table'[number[u]] = table[number[u]]
          /\ torn'[u] <=> torn[u]
    BY <2>2 DEF KeymapTypeOK
  <2>4. source # NoFd => table'[source] = table[source]
    BY DEF KeymapTypeOK
  <2> QED  BY <2>1, <2>2, <2>3, <2>4 DEF KeymapTypeOK
<1>7. CASE SourceSeeks
  <2> USE <1>7 DEF SourceSeeks
  <2>1. KeymapTypeOK'
    BY DEF KeymapTypeOK
  <2> QED  BY <2>1 DEF KeymapTypeOK
<1>8. CASE SourceCloses
  <2> USE <1>8 DEF SourceCloses
  <2>1. KeymapTypeOK'
    BY DEF KeymapTypeOK
  <2> QED  BY <2>1 DEF KeymapTypeOK
<1>9. ASSUME NEW fd \in Fds, Stranger(fd) PROVE KeymapInv'
  <2> USE <1>9 DEF Stranger
  <2>1. KeymapTypeOK'
    BY DEF KeymapTypeOK
  <2> QED  BY <2>1 DEF KeymapTypeOK
<1>10. ASSUME NEW u \in Readers, GetNumber(u) PROVE KeymapInv'
  <2> USE <1>10 DEF GetNumber
  <2>1. KeymapTypeOK'
    BY DEF KeymapTypeOK
  <2> QED  BY <2>1 DEF KeymapTypeOK
<1>11. ASSUME NEW u \in Readers, DupFails(u) PROVE KeymapInv'
  <2> USE <1>11 DEF DupFails
  <2>1. KeymapTypeOK'
    BY DEF KeymapTypeOK
  <2> QED  BY <2>1 DEF KeymapTypeOK
<1>12. ASSUME NEW u \in Readers, RewindOther(u) PROVE KeymapInv'
  <2> USE <1>12 DEF RewindOther
  <2>1. KeymapTypeOK'
    BY DEF KeymapTypeOK
  <2>2. torn[u]
    BY DEF KeymapTypeOK
  <2> QED  BY <2>1, <2>2 DEF KeymapTypeOK
<1>13. CASE UNCHANGED kvars
  BY <1>13 DEF kvars, KeymapTypeOK
<1> QED  BY <1>1, <1>2, <1>3, <1>4, <1>5, <1>6, <1>7, <1>8, <1>9, <1>10, <1>11, <1>12, <1>13
         DEF KeymapNext

(* The inductive invariant of the keymap.                                  *)
LEMMA KeymapInductive == KeymapSpec => []KeymapInv
  BY KeymapInitInv, KeymapStepInv, PTL DEF KeymapSpec

(* The library's number and every file object stay open on the text, and   *)
(* an undisturbed one delivers it from its first byte (ei.py:412-438,      *)
(* eis.py:364-384).                                                        *)
THEOREM Intact == KeymapSpec => []KeymapIntact
  BY KeymapInductive, PTL DEF KeymapInv

-----------------------------------------------------------------------------
(* Sequence numbers.                                                       *)

(* Numbers of draws less than one round apart differ, and within a round   *)
(* they go up.                                                             *)
LEMMA Rounds ==
  ASSUME NEW m \in Nat, NEW n \in Nat, m < n
  PROVE  /\ n < m + Modulus => Number(m) # Number(n)
         /\ m \div Modulus = n \div Modulus => Number(m) < Number(n)
         /\ Number(m) \in 1..Modulus /\ Number(n) \in 1..Modulus
<1> USE ModulusAssumption
<1>1. \A k \in Nat : /\ k = Modulus * (k \div Modulus) + (k % Modulus)
                     /\ k \div Modulus \in Nat /\ k % Modulus \in 0..Modulus - 1
  OBVIOUS
<1>2. ASSUME NEW k \in Int, k > 0 PROVE Modulus * k >= Modulus
  BY <1>2
<1>3. ASSUME n < m + Modulus, m % Modulus = n % Modulus PROVE FALSE
  <2> DEFINE k == n \div Modulus - m \div Modulus
  <2>1. k \in Int /\ n - m = Modulus * k
    BY <1>1, <1>3
  <2>2. k > 0
    BY <2>1
  <2> QED  BY <1>2, <1>3, <2>1, <2>2
<1>4. ASSUME m \div Modulus = n \div Modulus PROVE m % Modulus < n % Modulus
  BY <1>1, <1>4
<1>5. Number(m) \in 1..Modulus /\ Number(n) \in 1..Modulus
  BY <1>1 DEF Number
<1> QED  BY <1>1, <1>3, <1>4, <1>5 DEF Number

(* At the start nothing has been drawn.                                    *)
LEMMA EmulationInitInv == ASSUME EmulationInit PROVE EmulationInv
<1> USE DevicesAssumption, ModulusAssumption DEF EmulationInit
<1>1. (CHOOSE d \in Devices : TRUE) \in Devices
  OBVIOUS
<1>2. EmulationTypeOK
  BY <1>1 DEF EmulationTypeOK
<1> QED  BY <1>2 DEF EmulationInv

(* No draw is handed out twice, and what a thread has drawn is younger     *)
(* than what its device runs under until another thread starts the device. *)
LEMMA EmulationStepInv == ASSUME EmulationInv, [EmulationNext]_evars PROVE EmulationInv'
<1> USE DevicesAssumption, ModulusAssumption, ExplicitAssumption DEF EmulationInv
<1>1. ASSUME NEW t \in Threads, NEW d \in Devices, Draw(t, d) PROVE EmulationInv'
  <2> USE <1>1 DEF Draw
  <2>1. counter \in 1..MaxDraws /\ draw'[t] = counter /\ dev'[t] = d
    BY DEF EmulationTypeOK
  <2>2. \A e \in Devices : drawn[e] < counter
    BY DEF EmulationTypeOK
  <2>3. EmulationTypeOK'
    BY <2>1 DEF EmulationTypeOK
  <2> QED  BY <2>1, <2>2, <2>3 DEF EmulationTypeOK
<1>2. ASSUME NEW t \in Threads, Start(t) PROVE EmulationInv'
  <2> USE <1>2 DEF Start
  <2>1. /\ dev[t] \in Devices /\ draw[t] \in 1..counter - 1 /\ draw[t] \in Nat
        /\ Number(draw[t]) \in 0..Modulus
    <3>1. dev[t] \in Devices /\ draw[t] \in 1..counter - 1 /\ draw[t] \in Nat
      BY DEF EmulationTypeOK
    <3>2. Number(draw[t]) \in 1..Modulus
      BY <3>1, Rounds, 0 \in Nat
    <3> QED  BY <3>1, <3>2
  <2>2. EmulationTypeOK'
    BY <2>1 DEF EmulationTypeOK, Overtakes
  <2>3. \A d \in Devices : drawn'[d] # 0 => last'[d] = Number(drawn'[d]) /\ drawn'[d] < counter'
    BY <2>1 DEF EmulationTypeOK
  <2>4. \A d, e \in Devices : d # e /\ drawn'[d] # 0 => drawn'[d] # drawn'[e]
    BY <2>1 DEF EmulationTypeOK
  <2>5. ASSUME NEW u \in Threads, step'[u] = "drawn"
        PROVE  /\ draw'[u] \in 1..counter' - 1
               /\ ~overtaken'[u] => drawn'[dev'[u]] < draw'[u]
               /\ \A d \in Devices : drawn'[d] # draw'[u]
               /\ \A v \in Threads \ {u} : step'[v] = "drawn" => draw'[v] # draw'[u]
    <3>1. /\ u # t /\ step[u] = "drawn" /\ draw[u] # draw[t]
          /\ ~overtaken'[u] => ~overtaken[u] /\ dev[u] # dev[t]
      BY <2>5 DEF EmulationTypeOK, Overtakes
    <3> QED  BY <2>1, <2>5, <3>1 DEF EmulationTypeOK
  <2>6. \A u \in Threads : overtaken'[u] => step'[u] = "drawn"
    BY DEF EmulationTypeOK, Overtakes
  <2> QED  BY <2>2, <2>3, <2>4, <2>5, <2>6
<1>3. ASSUME NEW t \in Threads, NEW d \in Devices, NEW s \in Explicit, StartExplicit(t, d, s)
      PROVE EmulationInv'
  <2> USE <1>3 DEF StartExplicit
  <2>1. EmulationTypeOK'
    BY DEF EmulationTypeOK, Overtakes
  <2>2. \A e \in Devices : e # d => drawn'[e] = drawn[e] /\ last'[e] = last[e]
    BY DEF EmulationTypeOK
  <2>3. drawn'[d] = 0
    BY DEF EmulationTypeOK
  <2>4. /\ \A u \in Threads : step[u] = "drawn" /\ ~overtaken'[u] => ~overtaken[u] /\ dev[u] # d
        /\ \A u \in Threads : overtaken'[u] => step[u] = "drawn"
    BY DEF EmulationTypeOK, Overtakes
  <2> QED  BY <2>1, <2>2, <2>3, <2>4 DEF EmulationTypeOK
<1>4. CASE UNCHANGED evars
  BY <1>4 DEF evars, EmulationTypeOK
<1> QED  BY <1>1, <1>2, <1>3, <1>4 DEF EmulationNext

(* The inductive invariant of the counter.                                 *)
LEMMA EmulationInductive == EmulationSpec => []EmulationInv
  BY EmulationInitInv, EmulationStepInv, PTL DEF EmulationSpec

(* No two devices are used under one number within a round of the counter  *)
(* (ei.py:64-66).                                                          *)
THEOREM Different == EmulationSpec => []NumbersDiffer
<1>1. ASSUME EmulationInv PROVE NumbersDiffer
  <2> SUFFICES ASSUME NEW d \in Devices, NEW e \in Devices, d # e,
                      drawn[d] # 0, drawn[e] # 0,
                      drawn[d] < drawn[e] + Modulus, drawn[e] < drawn[d] + Modulus
               PROVE  last[d] # last[e]
    BY DEF NumbersDiffer
  <2>1. /\ drawn[d] \in Nat /\ drawn[e] \in Nat /\ drawn[d] # drawn[e]
        /\ last[d] = Number(drawn[d]) /\ last[e] = Number(drawn[e])
    BY <1>1 DEF EmulationInv, EmulationTypeOK
  <2>2. CASE drawn[d] < drawn[e]
    BY <2>1, <2>2, Rounds
  <2>3. CASE drawn[e] < drawn[d]
    BY <2>1, <2>3, Rounds
  <2> QED  BY <2>1, <2>2, <2>3
<1> QED  BY <1>1, EmulationInductive, PTL

(* A thread that is not overtaken at its device starts it with a larger    *)
(* drawn number than the one before, within a round of the counter         *)
(* (ei.py:58-74, 586-588).                                                 *)
THEOREM GoUp == EmulationSpec => DefaultsGoUp
<1>1. ASSUME EmulationInv, EmulationNext
      PROVE  \A t \in Threads :
               /\ step[t] = "drawn" /\ step'[t] = "idle"
               /\ ~overtaken[t]
               /\ drawn[dev[t]] # 0 /\ drawn[dev[t]] \div Modulus = draw[t] \div Modulus
               => last'[dev[t]] > last[dev[t]]
  <2> SUFFICES ASSUME NEW t \in Threads,
                      step[t] = "drawn", step'[t] = "idle", ~overtaken[t],
                      drawn[dev[t]] # 0, drawn[dev[t]] \div Modulus = draw[t] \div Modulus
               PROVE  last'[dev[t]] > last[dev[t]]
    OBVIOUS
  <2>1. Start(t)
    BY <1>1 DEF EmulationInv, EmulationTypeOK, EmulationNext, Draw, Start, StartExplicit
  <2>2. /\ drawn[dev[t]] \in Nat /\ draw[t] \in Nat /\ drawn[dev[t]] < draw[t]
        /\ last[dev[t]] = Number(drawn[dev[t]]) /\ last'[dev[t]] = Number(draw[t])
    BY <1>1, <2>1 DEF EmulationInv, EmulationTypeOK, Start
  <2>3. Number(drawn[dev[t]]) < Number(draw[t])
    BY <2>2, Rounds
  <2>4. Number(drawn[dev[t]]) \in 1..Modulus /\ Number(draw[t]) \in 1..Modulus
    BY <2>2, Rounds
  <2> QED  BY <2>2, <2>3, <2>4
<1> QED  BY <1>1, EmulationInductive, PTL DEF EmulationSpec, DefaultsGoUp
=============================================================================
