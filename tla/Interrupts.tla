----------------------------- MODULE Interrupts -----------------------------
(***************************************************************************)
(* interruptSignalWaiter of geziyor.go, the goroutine that turns SIGINT    *)
(* into the end of the crawl, with the three lines of Start that set it up *)
(* and the one that ends it.                                               *)
(*                                                                         *)
(*   shutdownChan      buffered, one place; the runtime drops a signal     *)
(*                     that finds it full                                  *)
(*   shutdownDoneChan  unbuffered: Start and the goroutine meet            *)
(*                                                                         *)
(* While a channel is registered for SIGINT the runtime delivers it there, *)
(* and it no longer ends the process; signal.Stop restores that.           *)
(***************************************************************************)
EXTENDS Naturals

CONSTANT MaxSigints     \* bound: how many times the user presses ^C

ASSUME InterruptsAssumption == MaxSigints \in Nat

VARIABLES
  waiter,      \* "none", "select", "announced", "flagged", "ended"
  registered,  \* shutdownChan is registered for SIGINT
  pending,     \* number of signals in the buffer of shutdownChan
  shutdown,    \* g.shutdown
  killed,      \* SIGINT ended the process
  sent,        \* history: how many times SIGINT was sent
  announced    \* history: how many times "Send again to force" was printed

interruptVars == <<waiter, registered, pending, shutdown, killed, sent, announced>>

InterruptInit ==
  /\ waiter = "none"
  /\ registered = FALSE
  /\ pending = 0
  /\ shutdown = FALSE
  /\ killed = FALSE
  /\ sent = 0
  /\ announced = 0

(* signal.Notify(shutdownChan, os.Interrupt), go g.interruptSignalWaiter   *)
NotifyInterrupt ==
  /\ waiter = "none"
  /\ waiter' = "select"
  /\ registered' = TRUE
  /\ UNCHANGED <<pending, shutdown, killed, sent, announced>>

(* The user presses ^C.                                                    *)
Sigint ==
  /\ sent < MaxSigints
  /\ sent' = sent + 1
  /\ killed' = ~registered
  /\ pending' = IF registered THEN 1 ELSE pending
  /\ UNCHANGED <<waiter, registered, shutdown, announced>>

(* case <-shutdownChan, and the message.                                   *)
Announce ==
  /\ waiter = "select"
  /\ pending > 0
  /\ waiter' = "announced"
  /\ pending' = pending - 1
  /\ announced' = announced + 1
  /\ UNCHANGED <<registered, shutdown, killed, sent>>

(* g.shutdown = true                                                       *)
RaiseShutdown ==
  /\ waiter = "announced"
  /\ waiter' = "flagged"
  /\ shutdown' = TRUE
  /\ UNCHANGED <<registered, pending, killed, sent, announced>>

(* Mutant: the channel stays registered.                                   *)
Mutant_StopDelivery == UNCHANGED registered

StopDelivery == registered' = FALSE

(* signal.Stop(shutdownChan), and back to the select: a signal that was    *)
(* delivered before stays in the buffer.                                   *)
StopNotify ==
  /\ waiter = "flagged"
  /\ waiter' = "select"
  /\ StopDelivery
  /\ UNCHANGED <<pending, shutdown, killed, sent, announced>>

(* shutdownDoneChan <- struct{}{} of Start meets case <-shutdownDoneChan.  *)
(* The channel stays registered if no SIGINT came.                         *)
EndWaiter ==
  /\ waiter = "select"
  /\ waiter' = "ended"
  /\ UNCHANGED <<registered, pending, shutdown, killed, sent, announced>>

WaiterStep == Announce \/ RaiseShutdown \/ StopNotify

(* A process that was killed takes no further step.                        *)
InterruptNext ==
  /\ ~killed
  /\ NotifyInterrupt \/ Sigint \/ WaiterStep \/ EndWaiter

InterruptSpec == InterruptInit /\ [][InterruptNext]_interruptVars
-----------------------------------------------------------------------------
(* Properties *)

(* The types; the buffer of shutdownChan holds one signal at most.         *)
InterruptTypeOK ==
  /\ waiter \in {"none", "select", "announced", "flagged", "ended"}
  /\ registered \in BOOLEAN
  /\ pending \in 0 .. 1
  /\ shutdown \in BOOLEAN
  /\ killed \in BOOLEAN
  /\ sent \in 0 .. MaxSigints
  /\ announced \in 0 .. MaxSigints

(* The graceful path is walked twice at most, whatever the number of ^C:   *)
(* one signal can be delivered before signal.Stop, and none after it.      *)
AnnouncedAtMostTwice == announced <= 2

(* A ^C after the goroutine is back in its select ends the process: the    *)
(* user who waits a moment after the message can always force the end.     *)
SettledSigintKills ==
  [][(sent' # sent /\ shutdown /\ waiter \in {"select", "ended"}) => killed']_interruptVars
=============================================================================
