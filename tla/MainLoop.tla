------------------------------ MODULE MainLoop ------------------------------
(***************************************************************************)
(* The GLib main loop that portal.py nests in _request and                 *)
(* _wait_for_signal (external).  A D-Bus signal that matches a             *)
(* subscription becomes a source of its own, ready at once; the deadline   *)
(* is a one-shot timeout source.  One iteration takes every source that is *)
(* ready, in the order they were attached, and dispatches ALL of them,     *)
(* also when an earlier one has called loop.quit(): the loop looks at quit *)
(* between two iterations only.                                            *)
(***************************************************************************)
EXTENDS Naturals, Sequences

VARIABLES
  pending,  \* signals delivered and not yet picked up, in attach order
  batch,    \* signals the current iteration has still to dispatch
  timer,    \* the timeout source: "none" | "armed" | "fired" | "removed"
  ahead,    \* how many signals of pending, or of batch, precede the timer
  due,      \* the current iteration has still to dispatch the timer
  expired,  \* the deadline has passed
  quit      \* loop.quit() was called since run()

mvars == <<pending, batch, timer, ahead, due, expired, quit>>

LoopInit ==
  /\ pending = <<>>
  /\ batch   = <<>>
  /\ timer   = "none"
  /\ ahead   = 0
  /\ due     = FALSE
  /\ expired = FALSE
  /\ quit    = FALSE

LoopTypeOK(Signals) ==
  /\ pending \in Seq(Signals)
  /\ batch   \in Seq(Signals)
  /\ timer   \in {"none", "armed", "fired", "removed", "missing"}
  /\ ahead   \in Nat
  /\ due     \in BOOLEAN
  /\ expired \in BOOLEAN
  /\ quit    \in BOOLEAN

(* The worker thread of the connection attaches a source for a signal.     *)
Deliver(s) ==
  /\ pending' = Append(pending, s)
  /\ UNCHANGED <<batch, timer, ahead, due, expired, quit>>

(* GLib.timeout_add, after which the loop is run.                          *)
ArmTimer ==
  /\ timer' = "armed"
  /\ ahead' = Len(pending)
  /\ quit'  = FALSE
  /\ UNCHANGED <<pending, batch, due, expired>>

RunUntimed ==
  /\ quit' = FALSE
  /\ UNCHANGED <<pending, batch, timer, ahead, due, expired>>

(* GLib.source_remove: a critical warning for a source that is gone.       *)
RemoveTimer ==
  /\ timer' = IF timer = "armed" THEN "removed" ELSE "missing"
  /\ UNCHANGED <<pending, batch, ahead, due, expired, quit>>

TimerReady == timer = "armed" /\ expired
Dispatched == batch = <<>> /\ ~due

(* Poll: every ready source is taken.                                      *)
Iterate ==
  /\ Dispatched
  /\ pending # <<>> \/ TimerReady
  /\ batch'   = pending
  /\ pending' = <<>>
  /\ due'     = TimerReady
  /\ ahead'   = IF TimerReady THEN ahead ELSE 0
  /\ UNCHANGED <<timer, expired, quit>>

SignalNext == batch # <<>> /\ (due => ahead > 0)
TimerNext  == due /\ ahead = 0

(* The bookkeeping of one dispatch; the callback decides whether to quit.  *)
TakeSignal(quits) ==
  /\ SignalNext
  /\ batch' = Tail(batch)
  /\ ahead' = IF ahead > 0 THEN ahead - 1 ELSE 0
  /\ quit'  = (quit \/ quits)
  /\ UNCHANGED <<pending, timer, due, expired>>

(* on_timeout returns False, so GLib removes the source.                   *)
TakeTimer(quits) ==
  /\ TimerNext
  /\ timer' = "fired"
  /\ due'   = FALSE
  /\ quit'  = (quit \/ quits)
  /\ UNCHANGED <<pending, batch, ahead, expired>>

Expire ==
  /\ ~expired
  /\ expired' = TRUE
  /\ UNCHANGED <<pending, batch, timer, ahead, due, quit>>
=============================================================================
