----------------------------- MODULE Emulation ------------------------------
(***************************************************************************)
(* start_emulating() of ei.Device and eis.Device: every emulation of a     *)
(* device gets a sequence number that has to go up.  The default comes     *)
(* from one counter of the process, cut down to the 32 bits of the C       *)
(* parameter; a caller may pass a number of its own.  Drawing a number and *)
(* passing it to the library are two steps, between which another thread   *)
(* may run, and start the very same device.                                *)
(***************************************************************************)
EXTENDS Naturals

CONSTANTS Threads, Devices,
          Modulus,   \* 16^8 - 1 in the code
          Explicit,  \* sequence numbers callers pass
          MaxDraws   \* bound: numbers drawn

ASSUME DevicesAssumption  == Devices # {}
ASSUME ModulusAssumption  == Modulus \in Nat \ {0} /\ MaxDraws \in Nat
ASSUME ExplicitAssumption == Explicit \subseteq 0..Modulus

VARIABLES
  counter,   \* what next(_emulating_sequence) returns next
  step,      \* "idle" | "drawn"
  dev,       \* the device a thread is starting
  draw,      \* draw[t]: what it has drawn from the counter
  last,      \* last[d]: the sequence number d was last started with
  drawn,     \* drawn[d]: the draw that number came from, 0 if explicit
  overtaken  \* history: t has drawn, and its device was started since

evars == <<counter, step, dev, draw, last, drawn, overtaken>>

EmulationTypeOK ==
  /\ counter \in 1..MaxDraws + 1
  /\ step  \in [Threads -> {"idle", "drawn"}]
  /\ dev   \in [Threads -> Devices]
  /\ draw  \in [Threads -> 0..MaxDraws]
  /\ last  \in [Devices -> 0..Modulus]
  /\ drawn \in [Devices -> 0..MaxDraws]
  /\ overtaken \in [Threads -> BOOLEAN]

EmulationInit ==
  /\ counter = 1
  /\ step    = [t \in Threads |-> "idle"]
  /\ dev     = [t \in Threads |-> CHOOSE d \in Devices : TRUE]
  /\ draw    = [t \in Threads |-> 0]
  /\ last    = [d \in Devices |-> 0]
  /\ drawn   = [d \in Devices |-> 0]
  /\ overtaken = [t \in Threads |-> FALSE]

(* Mutant of Number: masked to 32 bits and no more.                        *)
NumberMasked(n) == n % (Modulus + 1)

(* 32 bits, and never 0.                                                   *)
Number(n) == (n % Modulus) + 1

(* Mutant of Draw: a counter kept on the device's wrapper starts again     *)
(* when the wrapper is built again.                                        *)
DrawRestarts(t, d) ==
  /\ step[t] = "idle"
  /\ counter <= MaxDraws
  /\ \E c \in {1, counter} : draw' = [draw EXCEPT ![t] = c] /\ counter' = c + 1
  /\ dev'  = [dev  EXCEPT ![t] = d]
  /\ step' = [step EXCEPT ![t] = "drawn"]
  /\ UNCHANGED <<last, drawn, overtaken>>

(* next() on the counter is atomic.                                        *)
Draw(t, d) ==
  /\ step[t] = "idle"
  /\ counter <= MaxDraws
  /\ draw'    = [draw EXCEPT ![t] = counter]
  /\ counter' = counter + 1
  /\ dev'     = [dev  EXCEPT ![t] = d]
  /\ step'    = [step EXCEPT ![t] = "drawn"]
  /\ UNCHANGED <<last, drawn, overtaken>>

(* The threads other than t that are about to start d.                     *)
Overtakes(t, d) ==
  overtaken' = [u \in Threads |->
                  u # t /\ step[u] = "drawn" /\ (overtaken[u] \/ dev[u] = d)]

(* The number drawn, however long ago, goes to the library.                *)

Start(t) ==
  /\ step[t] = "drawn"
  /\ last'  = [last  EXCEPT ![dev[t]] = Number(draw[t])]
  /\ drawn' = [drawn EXCEPT ![dev[t]] = draw[t]]
  /\ step'  = [step  EXCEPT ![t] = "idle"]
  /\ Overtakes(t, dev[t])
  /\ UNCHANGED <<counter, dev, draw>>

(* A number of the caller's, larger than the last as libei wants it.       *)
StartExplicit(t, d, s) ==
  /\ step[t] = "idle"
  /\ s > last[d]
  /\ last'  = [last  EXCEPT ![d] = s]
  /\ drawn' = [drawn EXCEPT ![d] = 0]
  /\ Overtakes(t, d)
  /\ UNCHANGED <<counter, step, dev, draw>>

EmulationNext == \E t \in Threads :
          \/ \E d \in Devices : Draw(t, d)
          \/ Start(t)
          \/ \E d \in Devices, s \in Explicit : StartExplicit(t, d, s)

EmulationSpec == EmulationInit /\ [][EmulationNext]_evars

-----------------------------------------------------------------------------
(* Properties.                                                             *)

(* Any thread that starts a device with a drawn number starts it with a    *)
(* larger one than the drawn number before, whichever threads draw and     *)
(* start devices in between, unless the counter has gone round once more   *)
(* or another thread started this very device since the number was drawn:  *)
(* of two threads at one device the younger number may come first          *)
(* (ei.py:58-74, 586-588).                                                 *)
DefaultsGoUp ==
  [][\A t \in Threads :
       /\ step[t] = "drawn" /\ step'[t] = "idle"
       /\ ~overtaken[t]
       /\ drawn[dev[t]] # 0 /\ drawn[dev[t]] \div Modulus = draw[t] \div Modulus
       => last'[dev[t]] > last[dev[t]]]_evars

(* No two devices are being used under one number, as long as the counter  *)
(* has not gone round between the two (ei.py:64-66).                       *)
NumbersDiffer ==
  \A d, e \in Devices :
    /\ d # e
    /\ drawn[d] # 0 /\ drawn[e] # 0
    /\ drawn[d] < drawn[e] + Modulus /\ drawn[e] < drawn[d] + Modulus
    => last[d] # last[e]

-----------------------------------------------------------------------------
(* The inductive invariant of the proofs.  No draw is used twice, and one  *)
(* that is about to be used is younger than what its device was started    *)
(* with before, unless it was overtaken.                                   *)
EmulationInv ==
  /\ EmulationTypeOK
  /\ \A d \in Devices :
       drawn[d] # 0 => last[d] = Number(drawn[d]) /\ drawn[d] < counter
  /\ \A d, e \in Devices : d # e /\ drawn[d] # 0 => drawn[d] # drawn[e]
  /\ \A t \in Threads : step[t] = "drawn" =>
       /\ draw[t] \in 1..counter - 1
       /\ ~overtaken[t] => drawn[dev[t]] < draw[t]
       /\ \A d \in Devices : drawn[d] # draw[t]
       /\ \A u \in Threads \ {t} : step[u] = "drawn" => draw[u] # draw[t]
  /\ \A t \in Threads : overtaken[t] => step[t] = "drawn"
=============================================================================
